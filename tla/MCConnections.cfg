SPECIFICATION MCSpec
CONSTANTS
  Readers = {r1, r2, r3}
  Writers = {w1, w2}
  Free = Free
  Runner = g0
  Senders = {g1, g2}
  Setters = {g3}
  Nil = Nil
  MaxRuns = 2
  MaxSends = 3
  NetConns = {c1, c2}
  Hosts = {1, 2}
  Conns <- BothDial
  MaxGen = 1
CHECK_DEADLOCK FALSE
INVARIANTS SendsOwnPacket DialledAreConnected
PROPERTIES Implements SetConnEnds LockReleased

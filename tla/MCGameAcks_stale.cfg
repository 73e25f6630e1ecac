SPECIFICATION Spec
CONSTANTS
  c1 = c1
  c2 = c2
  Clients = {c1, c2}
  Nobody = Nobody
  IDs = {1, 2}
  Setups <- TwoPlayers
  Checksums = {k1}
  QueueCap = 4
  MaxTick = 3
CHECK_DEADLOCK FALSE
INVARIANT NoPanic

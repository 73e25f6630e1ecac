------------------------------- MODULE RWLock -------------------------------
(***************************************************************************)
(* What the readers-writer lock of the network package promises to the     *)
(* code that uses it: any number of readers, or one writer.  A reader is a *)
(* bracket of RLock and RUnlock, so a goroutine that locks twice counts as *)
(* two readers.  It prefers readers: one may always join the others, also  *)
(* when a writer waits.                                                    *)
(***************************************************************************)
CONSTANTS
  Readers,   \* brackets of RLock and RUnlock
  Writers    \* brackets of Lock and Unlock

VARIABLES
  readers,   \* those inside a read lock
  writer     \* those inside the write lock: at most one

lockVars == <<readers, writer>>

Init == readers = {} /\ writer = {}

RLock(r) ==
  /\ r \notin readers /\ writer = {}
  /\ readers' = readers \cup {r}
  /\ UNCHANGED writer

RUnlock(r) ==
  /\ r \in readers
  /\ readers' = readers \ {r}
  /\ UNCHANGED writer

Lock(w) ==
  /\ readers = {} /\ writer = {}
  /\ writer' = {w}
  /\ UNCHANGED readers

Unlock(w) ==
  /\ w \in writer
  /\ writer' = {}
  /\ UNCHANGED readers

Next ==
  \/ \E r \in Readers : RLock(r) \/ RUnlock(r)
  \/ \E w \in Writers : Lock(w) \/ Unlock(w)

Spec == Init /\ [][Next]_lockVars
=============================================================================

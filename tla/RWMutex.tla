------------------------------ MODULE RWMutex ------------------------------
(***************************************************************************)
(* RWMutex (network/rwmutex.go): a readers-writer lock made of two         *)
(* mutexes and a counter.  rmutex protects the counter; the first reader   *)
(* takes the inner mutex on behalf of all of them, the last one gives it   *)
(* back, and a writer takes the inner mutex itself.                        *)
(***************************************************************************)
EXTENDS Naturals, FiniteSets

CONSTANTS
  Readers,   \* brackets of RLock and RUnlock
  Writers,   \* brackets of Lock and Unlock
  Free       \* a mutex nobody holds

VARIABLES
  mutex,     \* RWMutex.Mutex: held by a writer, or by the reader that locked it
  rmutex,    \* RWMutex.rmutex: the reader inside RLock or RUnlock
  rcount,    \* RWMutex.rcount
  pc         \* where each bracket is

vars == <<mutex, rmutex, rcount, pc>>

Goto(t, l) == pc' = [pc EXCEPT ![t] = l]

Init ==
  /\ mutex = Free /\ rmutex = Free /\ rcount = 0
  /\ pc = [t \in Readers \cup Writers |-> "out"]
-----------------------------------------------------------------------------
(* A call of RLock, which waits for rmutex.                                *)
RCall(r) == pc[r] = "out" /\ Goto(r, "call") /\ UNCHANGED <<mutex, rmutex, rcount>>

RLock(r) ==
  /\ pc[r] = "call" /\ rmutex = Free
  /\ rmutex' = r
  /\ rcount' = rcount + 1
  /\ Goto(r, IF rcount = 0 THEN "lock" ELSE "locked")
  /\ UNCHANGED mutex

(* The first reader waits for the writer, with rmutex held.                *)
RLockInner(r) ==
  /\ pc[r] = "lock" /\ mutex = Free
  /\ mutex' = r
  /\ Goto(r, "locked")
  /\ UNCHANGED <<rmutex, rcount>>

RLockEnd(r) ==
  /\ pc[r] = "locked"
  /\ rmutex' = Free
  /\ Goto(r, "in")
  /\ UNCHANGED <<mutex, rcount>>

(* Mutant: the last but one reader gives the inner mutex back.             *)
RUnlock_Early(r) ==
  /\ pc[r] = "in" /\ rmutex = Free
  /\ rmutex' = r
  /\ rcount' = rcount - 1
  /\ Goto(r, IF rcount <= 2 THEN "unlock" ELSE "unlocked")
  /\ UNCHANGED mutex

(* It panics when the counter is 0.                                        *)
RUnlock(r) ==
  /\ pc[r] = "in" /\ rmutex = Free
  /\ rmutex' = r
  /\ rcount' = rcount - 1
  /\ Goto(r, IF rcount = 1 THEN "unlock" ELSE "unlocked")
  /\ UNCHANGED mutex

RUnlockInner(r) ==
  /\ pc[r] = "unlock"
  /\ mutex' = Free
  /\ Goto(r, "unlocked")
  /\ UNCHANGED <<rmutex, rcount>>

RUnlockEnd(r) ==
  /\ pc[r] = "unlocked"
  /\ rmutex' = Free
  /\ Goto(r, "out")
  /\ UNCHANGED <<mutex, rcount>>

(* Lock and Unlock are those of the inner mutex.                           *)
Lock(w) ==
  /\ pc[w] = "out" /\ mutex = Free
  /\ mutex' = w
  /\ Goto(w, "in")
  /\ UNCHANGED <<rmutex, rcount>>

Unlock(w) ==
  /\ pc[w] = "in"
  /\ mutex' = Free
  /\ Goto(w, "out")
  /\ UNCHANGED <<rmutex, rcount>>
-----------------------------------------------------------------------------
RStep(r) == RLock(r) \/ RLockInner(r) \/ RLockEnd(r) \/ RUnlockInner(r) \/ RUnlockEnd(r)

Next ==
  \/ \E r \in Readers : RCall(r) \/ RStep(r) \/ RUnlock(r)
  \/ \E w \in Writers : Lock(w) \/ Unlock(w)

Spec == Init /\ [][Next]_vars

(* A goroutine inside RLock or RUnlock makes progress, and a mutex is      *)
(* handed to a goroutine that keeps waiting for it (sync.Mutex has a       *)
(* starvation mode).  Nobody has to call RLock, RUnlock or Lock; a writer  *)
(* that holds the lock gives it back.                                      *)
FairSpec ==
  /\ Spec
  /\ \A r \in Readers : SF_vars(RStep(r))
  /\ \A w \in Writers : WF_vars(Unlock(w))
-----------------------------------------------------------------------------
TypeOK ==
  /\ mutex \in Readers \cup Writers \cup {Free}
  /\ rmutex \in Readers \cup {Free}
  /\ rcount \in Nat
  /\ pc \in [Readers \cup Writers ->
               {"out", "call", "lock", "locked", "in", "unlock", "unlocked"}]

(* The brackets the counter counts.                                        *)
Counted == {r \in Readers : pc[r] \in {"lock", "locked", "in"}}

(* RUnlock never panics and never underflows: the counter is the number of *)
(* read locks taken and not yet given back.                                *)
CountsReaders == rcount = Cardinality(Counted)

(* The refinement mapping.  A read lock is held from the moment the inner  *)
(* mutex is known to be held for the readers until it may be given back.   *)
inside == {r \in Readers : pc[r] \in {"locked", "in", "unlock"}}
writing == {w \in Writers : pc[w] = "in"}

Abstract == INSTANCE RWLock WITH readers <- inside, writer <- writing

(* RWMutex implements the lock its users rely on.                          *)
Implements == Abstract!Spec

(* A writer is alone.                                                      *)
WriterAlone ==
  /\ \A v, w \in writing : v = w
  /\ writing # {} => inside = {}

(* "a read-preferring readers-writer lock" (rwmutex.go:9): a goroutine     *)
(* that calls RLock while a reader is inside gets the lock unless all of   *)
(* them leave, whether or not a writer waits.  A goroutine that already    *)
(* reads can therefore lock again.                                         *)
ReadersJoin ==
  \A r \in Readers : pc[r] = "call" /\ inside # {} ~> r \in inside \/ inside = {}
=============================================================================

------------------------- MODULE EventEmitterProofs -------------------------
(***************************************************************************)
(* EventEmitter for any number of goroutines and handlers and any size of  *)
(* the pool: PoolExclusive, ArgsIntact, OnceNotLost and OnceGone.          *)
(*                                                                         *)
(* PoolInv follows an event through Fire.  It says at which places a       *)
(* goroutine has an event of the pool and what is in it there; a place     *)
(* that has one is only left by giving the event back.  ListInv says that  *)
(* lists are sorted by id, that a snapshot has every handler which is      *)
(* still registered and not newer than it, and how many of its handlers    *)
(* have been called.                                                       *)
(***************************************************************************)
EXTENDS EventEmitter, Integers, TLAPS

(* A step that names no prover is tried with SMT, Zenon and SMT again.     *)
USE SMTT(30), ZenonT(30), SMTT(60)

(* Where a goroutine may have an event of the pool, and where it must.     *)
Holding == {"set", "call", "offOnce", "prevented", "clear", "free", "freeCAS"}
Freeing == {"free", "freeCAS"}
Blank == {"set", "free", "freeCAS"}

PoolTypes ==
  /\ PoolSize \in Nat
  /\ emask \subseteq Pool
  /\ epool \in [Pool -> Goroutines \cup {None}]
  /\ mask \in [Goroutines -> SUBSET Pool]
  /\ slot \in [Goroutines -> Pool \cup {PoolSize}]
  /\ pc \in [Goroutines -> {"idle", "new", "newCAS"} \cup Holding]

(* Only these places have an event, and these always do.                   *)
Places ==
  \A g \in Goroutines : /\ slot[g] \in Pool => pc[g] \in Holding
                        /\ pc[g] \in Freeing => slot[g] \in Pool

NotShared == \A g, h \in Goroutines : slot[g] = slot[h] /\ slot[g] \in Pool => g = h

Marked == \A b \in Pool : b \in emask <=> \E g \in Goroutines : slot[g] = b

Contents ==
  /\ \A g \in Goroutines : slot[g] \in Pool =>
       epool[slot[g]] = IF pc[g] \in Blank THEN None ELSE g
  /\ \A b \in Pool \ emask : epool[b] = None

PoolInv == PoolTypes /\ Places /\ NotShared /\ Marked /\ Contents

(* PoolSize itself is not the index of an event.                           *)
LEMMA OwnEventNotInPool == PoolSize \in Nat => PoolSize \notin Pool
BY DEF Pool

(* A new emitter has a free, cleared pool.                                 *)
LEMMA PoolInit == PoolSize \in Nat /\ Init => PoolInv
<1> SUFFICES ASSUME PoolSize \in Nat, Init PROVE PoolInv
  OBVIOUS
<1>1. \A g \in Goroutines : slot[g] \notin Pool
  BY OwnEventNotInPool, ZenonT(30) DEF Init
<1>2. PoolTypes
  BY DEF Init, PoolTypes
<1>3. Places /\ NotShared /\ Marked /\ Contents
  BY <1>1 DEF Init, Places, NotShared, Marked, Contents, Freeing
<1> QED BY <1>2, <1>3 DEF PoolInv

(* A step that moves one goroutine without touching the pool, from a place *)
(* to another where it may have an event with the same contents.           *)
LEMMA MovePreserves ==
  ASSUME PoolInv, NEW g \in Goroutines, NEW l \in {"idle", "new", "newCAS"} \cup Holding,
         pc' = [pc EXCEPT ![g] = l], UNCHANGED <<emask, epool, slot>>,
         mask' \in [Goroutines -> SUBSET Pool],
         slot[g] \in Pool => l \in Holding,
         slot[g] \in Pool => (l \in Blank <=> pc[g] \in Blank),
         l \in Freeing => slot[g] \in Pool
  PROVE  PoolInv'
<1>1. PoolTypes'
  BY ZenonT(30) DEF PoolInv, PoolTypes, Pool
<1>2. Places'
  BY DEF PoolInv, PoolTypes, Places, Pool
<1>3. NotShared' /\ Marked'
  BY DEF PoolInv, NotShared, Marked, Pool
<1>4. Contents'
  BY DEF PoolInv, PoolTypes, Contents, Pool
<1> QED BY <1>1, <1>2, <1>3, <1>4 DEF PoolInv

(* newEvent's swap takes an event only if nobody has changed the mask since *)
(* it was loaded, so the event is free now.                                *)
LEMMA NewPreserves ==
  ASSUME PoolInv, NEW g \in Goroutines, newEventCAS(g)
  PROVE  PoolInv'
<1>1. CASE Pool \ mask[g] # {} /\ emask = mask[g]
  <2>1. PICK b \in Pool \ emask : emask' = emask \cup {b} /\ slot' = [slot EXCEPT ![g] = b]
    BY <1>1 DEF newEventCAS
  <2>2. /\ emask' = emask \cup {b}
        /\ slot' = [slot EXCEPT ![g] = b]
        /\ pc' = [pc EXCEPT ![g] = "set"]
        /\ UNCHANGED <<epool, mask>>
    BY <2>1 DEF newEventCAS, Goto
  <2>3. \A h \in Goroutines : slot[h] # b
    BY <2>1 DEF PoolInv, Marked
  <2>4. pc[g] = "newCAS" /\ slot[g] \notin Pool
    BY DEF newEventCAS, PoolInv, Places, Holding
  <2>5. PoolTypes'
    BY <2>1, <2>2 DEF PoolInv, PoolTypes, Pool, Holding
  <2>6. Places'
    BY <2>1, <2>2 DEF PoolInv, PoolTypes, Places, Pool, Holding, Freeing
  <2>7. NotShared'
    BY <2>2, <2>3 DEF PoolInv, PoolTypes, NotShared, Pool
  <2>8. Marked'
    BY <2>1, <2>2, <2>3, <2>4 DEF PoolInv, PoolTypes, Marked, Pool
  <2>9. Contents'
    BY <2>1, <2>2, <2>3 DEF PoolInv, PoolTypes, Contents, Pool, Blank
  <2> QED BY <2>5, <2>6, <2>7, <2>8, <2>9 DEF PoolInv
<1>2. CASE ~ (Pool \ mask[g] # {} /\ emask = mask[g])
  <2>1. UNCHANGED <<emask, epool, slot, mask>> /\ pc' = [pc EXCEPT ![g] = "set"]
    BY <1>2 DEF newEventCAS, Goto
  <2>2. slot[g] \notin Pool
    BY DEF newEventCAS, PoolInv, Places, Holding
  <2> QED
    BY <2>1, <2>2, MovePreserves, ZenonT(30) DEF PoolInv, PoolTypes, Holding, Freeing
<1> QED BY <1>1, <1>2

(* Setting the argument, and clearing the event, write only the event that *)
(* the goroutine alone has.                                                *)
LEMMA WritePreserves ==
  ASSUME PoolInv, NEW g \in Goroutines, SetArg(g) \/ freeEventClear(g)
  PROVE  PoolInv'
<1>1. pc[g] \in {"set", "clear"}
  BY DEF SetArg, freeEventClear
<1>2. CASE slot[g] \notin Pool
  <2>1. PICK l \in {"call", "idle"} : pc' = [pc EXCEPT ![g] = l]
    BY <1>2 DEF SetArg, freeEventClear, Goto
  <2>2. UNCHANGED <<emask, epool, slot>> /\ mask' \in [Goroutines -> SUBSET Pool]
    BY <1>2 DEF SetArg, freeEventClear, PoolInv, PoolTypes
  <2> QED
    BY <1>2, <2>1, <2>2, MovePreserves, ZenonT(30) DEF Holding, Freeing
<1>3. CASE slot[g] \in Pool
  <2> DEFINE set == pc[g] = "set"
             val == IF set THEN g ELSE None
             l == IF set THEN "call" ELSE "free"
  <2>1. /\ epool' = [epool EXCEPT ![slot[g]] = val]
        /\ pc' = [pc EXCEPT ![g] = l]
        /\ UNCHANGED <<emask, slot>>
        /\ mask' \in [Goroutines -> SUBSET Pool]
    BY <1>3 DEF SetArg, freeEventClear, Goto, PoolInv, PoolTypes
  <2>2. PoolTypes'
    BY <2>1, ZenonT(30) DEF PoolInv, PoolTypes, Pool, Holding
  <2>3. Places'
    BY <1>3, <2>1 DEF PoolInv, PoolTypes, Places, Pool, Holding, Freeing
  <2>4. NotShared' /\ Marked'
    BY <2>1 DEF PoolInv, NotShared, Marked, Pool
  <2>5. slot[g] \in emask
    BY <1>3 DEF PoolInv, Marked
  <2>6. \A h \in Goroutines : h # g /\ slot[h] \in Pool => slot[h] # slot[g]
    BY <1>3 DEF PoolInv, NotShared
  <2>7. Contents'
    BY <1>3, <2>1, <2>5, <2>6 DEF PoolInv, PoolTypes, Contents, Pool, Blank
  <2> QED BY <2>2, <2>3, <2>4, <2>7 DEF PoolInv
<1> QED BY <1>2, <1>3

(* freeEvent's swap gives the event back, which is blank by then, or fails *)
(* and tries again.                                                        *)
LEMMA FreePreserves ==
  ASSUME PoolInv, NEW g \in Goroutines, freeEventCAS(g)
  PROVE  PoolInv'
<1>1. pc[g] = "freeCAS" /\ slot[g] \in Pool /\ mask' \in [Goroutines -> SUBSET Pool]
  BY DEF freeEventCAS, PoolInv, PoolTypes, Places, Freeing
<1>2. CASE emask = mask[g]
  <2>1. /\ emask' = emask \ {slot[g]}
        /\ slot' = [slot EXCEPT ![g] = PoolSize]
        /\ pc' = [pc EXCEPT ![g] = "idle"]
        /\ UNCHANGED epool
    BY <1>2 DEF freeEventCAS, Goto
  <2>2. PoolSize \notin Pool
    BY OwnEventNotInPool DEF PoolInv, PoolTypes
  <2>3. epool[slot[g]] = None
    BY <1>1 DEF PoolInv, Contents, Blank
  <2>4. \A h \in Goroutines : h # g => slot[h] # slot[g]
    BY <1>1 DEF PoolInv, NotShared
  <2>5. PoolTypes'
    BY <1>1, <2>1, ZenonT(30) DEF PoolInv, PoolTypes, Pool
  <2>6. Places'
    BY <2>1, <2>2 DEF PoolInv, PoolTypes, Places, Pool, Freeing
  <2>7. NotShared'
    BY <2>1, <2>2 DEF PoolInv, PoolTypes, NotShared, Pool
  <2>8. Marked'
    BY <1>1, <2>1, <2>2, <2>4 DEF PoolInv, PoolTypes, Marked, Pool
  <2>9. Contents'
    BY <1>1, <2>1, <2>2, <2>3 DEF PoolInv, PoolTypes, Contents, Pool
  <2> QED BY <2>5, <2>6, <2>7, <2>8, <2>9 DEF PoolInv
<1>3. CASE emask # mask[g]
  <2>1. UNCHANGED <<emask, epool, slot>> /\ pc' = [pc EXCEPT ![g] = "free"]
    BY <1>3 DEF freeEventCAS, Goto
  <2> QED
    BY <1>1, <2>1, MovePreserves, ZenonT(30) DEF Holding, Freeing, Blank
<1> QED BY <1>2, <1>3

(* Every step of a goroutine or of a registration keeps the pool in order. *)
LEMMA PoolStep ==
  ASSUME PoolInv, [Next]_vars
  PROVE  PoolInv'
<1>1. CASE UNCHANGED vars
  BY <1>1 DEF vars, poolVars, PoolInv, PoolTypes, Places, NotShared, Marked, Contents, Pool
<1>2. ASSUME UNCHANGED <<poolVars, pc>> PROVE PoolInv'
  BY <1>2 DEF poolVars, PoolInv, PoolTypes, Places, NotShared, Marked, Contents, Pool
<1>3. ASSUME NEW t \in Topics, NEW once \in BOOLEAN, addHandler(t, once) PROVE PoolInv'
  BY <1>2, <1>3 DEF addHandler
<1>4. ASSUME NEW t \in Topics, NEW n \in 1..id, Off(t, n) PROVE PoolInv'
  BY <1>2, <1>4 DEF Off
<1>5. ASSUME NEW t \in Topics, OffAll(t) PROVE PoolInv'
  BY <1>2, <1>5 DEF OffAll
<1>6. ASSUME NEW g \in Goroutines, Step(g) PROVE PoolInv'
  <2> DEFINE Unmoved == UNCHANGED <<emask, epool, slot>>
  <2>1. mask \in [Goroutines -> SUBSET Pool] /\ emask \subseteq Pool
    BY DEF PoolInv, PoolTypes
  <2>2. CASE Fire(g)
    <3>1. Unmoved /\ mask' = mask /\ pc' = [pc EXCEPT ![g] = "new"] /\ pc[g] = "idle"
      BY <2>2 DEF Fire, Goto, poolVars
    <3>2. slot[g] \notin Pool
      BY <3>1 DEF PoolInv, Places, Holding
    <3> QED BY <2>1, <3>1, <3>2, MovePreserves, ZenonT(30) DEF Freeing
  <2>3. CASE newEventLoad(g)
    <3>1. Unmoved /\ mask' \in [Goroutines -> SUBSET Pool] /\ pc' = [pc EXCEPT ![g] = "newCAS"]
      BY <2>1, <2>3 DEF newEventLoad, Goto
    <3>2. slot[g] \notin Pool
      BY <2>3 DEF newEventLoad, PoolInv, Places, Holding
    <3> QED BY <3>1, <3>2, MovePreserves, ZenonT(30) DEF Freeing
  <2>4. CASE newEventCAS(g)
    BY <2>4, NewPreserves
  <2>5. CASE SetArg(g) \/ freeEventClear(g)
    BY <2>5, WritePreserves
  <2>6. CASE Call(g)
    <3>1. pc[g] = "call" /\ Unmoved /\ mask' = mask
      BY <2>6 DEF Call, poolVars
    <3>2. PICK l \in {"call", "offOnce", "prevented"} : pc' = [pc EXCEPT ![g] = l]
      BY <2>6, <3>1 DEF Call, Goto, PoolInv, PoolTypes
    <3> QED BY <2>1, <3>1, <3>2, MovePreserves, ZenonT(30) DEF Holding, Freeing, Blank
  <2>7. CASE offOnce(g)
    <3>1. pc[g] \in {"offOnce", "prevented"} /\ Unmoved /\ mask' = mask
      BY <2>7 DEF offOnce, poolVars
    <3>2. PICK l \in {"call", "clear"} : pc' = [pc EXCEPT ![g] = l]
      BY <2>7, ZenonT(30) DEF offOnce, Goto
    <3> QED BY <2>1, <3>1, <3>2, MovePreserves, ZenonT(30) DEF Holding, Freeing, Blank
  <2>8. CASE freeEventLoad(g)
    <3>1. /\ pc[g] = "free" /\ Unmoved
          /\ mask' \in [Goroutines -> SUBSET Pool]
          /\ pc' = [pc EXCEPT ![g] = "freeCAS"]
      BY <2>1, <2>8 DEF freeEventLoad, Goto
    <3>2. slot[g] \in Pool
      BY <3>1 DEF PoolInv, Places, Freeing
    <3> QED BY <3>1, <3>2, MovePreserves, ZenonT(30) DEF Holding, Freeing, Blank
  <2>9. CASE freeEventCAS(g)
    BY <2>9, FreePreserves
  <2> QED BY <1>6, <2>2, <2>3, <2>4, <2>5, <2>6, <2>7, <2>8, <2>9 DEF Step
<1> QED BY <1>1, <1>3, <1>4, <1>5, <1>6 DEF Next

(* However many goroutines fire events, and however their loads and swaps  *)
(* of the mask interleave, no event of the pool is handed out twice and    *)
(* none is lost (newEvent and freeEvent, events.go:161-186).               *)
THEOREM PoolIsExclusive == PoolSize \in Nat /\ Spec => []PoolExclusive
<1>1. PoolInv => PoolExclusive
  <2> SUFFICES ASSUME PoolInv PROVE PoolExclusive
    OBVIOUS
  <2>1. \A b : b \in emask <=> b \in Pool /\ \E g \in Goroutines : slot[g] = b
    BY DEF PoolInv, PoolTypes, Marked
  <2>2. PoolSize \notin Pool /\ \A g \in Goroutines : slot[g] \in Pool \cup {PoolSize}
    BY OwnEventNotInPool DEF PoolInv, PoolTypes
  <2>3. emask = {slot[g] : g \in Goroutines} \ {PoolSize}
    BY <2>1, <2>2
  <2> QED BY <2>3 DEF PoolExclusive, PoolInv, NotShared
<1> QED BY <1>1, PoolInit, PoolStep, PTL DEF Spec

(* Handlers see the argument that their own event was fired with, and an   *)
(* event that is free has been cleared (Fire and freeEvent).               *)
THEOREM ArgsAreIntact == PoolSize \in Nat /\ Spec => []ArgsIntact
<1>1. PoolInv => ArgsIntact
  BY DEF PoolInv, Contents, ArgsIntact, Blank
<1> QED BY <1>1, PoolInit, PoolStep, PTL DEF Spec
-----------------------------------------------------------------------------
(* The lists of handlers.                                                  *)

(* Newest first.                                                           *)
Sorted(s) == \A k, l \in DOMAIN s : k < l => s[k].id > s[l].id

ListTypes ==
  /\ id \in Nat
  /\ handlers \in [Topics -> Seq(Handlers)]
  /\ arr \in [Goroutines -> [Topics -> Seq(Handlers)]]
  /\ ht \in [Goroutines -> Topics] /\ i \in [Goroutines -> Nat]
  /\ DOMAIN pc = Goroutines

(* Ids up to n have been given, in increasing order and only once, to the  *)
(* handlers H and the snapshots A.                                         *)
Numbered(s, n) == Sorted(s) /\ \A k \in DOMAIN s : s[k].id \in 1..n

IdsInOrder(H, A, n) ==
  \A t \in Topics : Numbered(H[t], n) /\ \A g \in Goroutines : Numbered(A[g][t], n)

(* A handler that is registered and not newer than the snapshot of a Fire  *)
(* belongs to the snapshot; the other topic has none of its ids.           *)
Known(s, a) ==
  \A k \in DOMAIN s, l \in DOMAIN a : s[k].id <= a[l].id => \E m \in DOMAIN a : a[m] = s[k]

Apart(s, a) == \A k \in DOMAIN s, l \in DOMAIN a : s[k].id # a[l].id

Snapshots(H, A) ==
  \A t, u \in Topics :
    /\ t # u => Apart(H[t], H[u])
    /\ \A g \in Goroutines : Known(H[t], A[g][t]) /\ (t # u => Apart(H[t], A[g][u]))

(* A Fire that is at p has called the first n handlers of s.               *)
Progress(p, s, n) ==
  /\ p \in {"new", "newCAS", "set"} => Len(s) > 0 /\ n = 0
  /\ p = "call" => n < Len(s)
  /\ p \in {"offOnce", "prevented"} => n \in 1..Len(s)
  /\ p \in {"idle", "clear", "free", "freeCAS"} => n = 0

HaveRun(s, n, R) == \A l \in 1..n : l \in DOMAIN s /\ s[l].id \in R

ListInv ==
  /\ ListTypes
  /\ IdsInOrder(handlers, arr, id) /\ Snapshots(handlers, arr)
  /\ \A g \in Goroutines : Progress(pc[g], List(g), i[g]) /\ HaveRun(List(g), i[g], ran)
  /\ \A n \in spent : n \in 1..id
  /\ OnceGone

(* What is left of a list.                                                 *)
LEMMA WithoutLeaves ==
  ASSUME NEW s \in Seq(Handlers), NEW ids, NEW r \in Without(s, ids)
  PROVE  /\ r \in Seq(Handlers)
         /\ \A k \in DOMAIN r : \E l \in DOMAIN s : r[k] = s[l] /\ s[l].id \notin ids
         /\ \A l \in DOMAIN s : s[l].id \notin ids => \E k \in DOMAIN r : r[k] = s[l]
         /\ Sorted(s) => Sorted(r)
<1> DEFINE S == {k \in DOMAIN s : s[k].id \notin ids}
           Good(h) == /\ \A a, b \in DOMAIN h : a < b => h[a] < h[b]
                      /\ \A x \in S : \E a \in DOMAIN h : h[a] = x
<1>1. Len(s) \in Nat /\ DOMAIN s = 1..Len(s) /\ S \in SUBSET (1..Len(s))
  OBVIOUS
<1>2. PICK f \in InOrder(S, Len(s)) : r = [k \in DOMAIN f |-> s[f[k]]]
  BY DEF Without
<1> HIDE DEF S
<1>4. f \in UNION {[1..m -> S] : m \in 0..Len(s)} /\ Good(f)
  BY DEF InOrder
<1> HIDE DEF Good
<1>5. PICK m \in 0..Len(s) : f \in [1..m -> S]
  BY <1>4
<1>6. r = [k \in DOMAIN f |-> s[f[k]]]
  BY <1>2
<1>7. m \in Nat /\ DOMAIN f = 1..m
  BY <1>1, <1>5
<1>8. \A k \in 1..m : f[k] \in DOMAIN s /\ s[f[k]].id \notin ids /\ s[f[k]] \in Handlers
  BY <1>5, <1>1 DEF S
<1>9. r \in [1..m -> Handlers]
  BY <1>6, <1>7, <1>8
<1>10. r \in Seq(Handlers) /\ DOMAIN r = 1..m
  BY <1>7, <1>9
<1>11. \A k \in DOMAIN r : \E l \in DOMAIN s : r[k] = s[l] /\ s[l].id \notin ids
  BY <1>6, <1>7, <1>8, <1>10
<1>12. \A l \in DOMAIN s : s[l].id \notin ids => \E k \in DOMAIN r : r[k] = s[l]
  BY <1>4, <1>6, <1>7, <1>10 DEF Good, S
<1>13. ASSUME Sorted(s) PROVE Sorted(r)
  BY <1>4, <1>6, <1>7, <1>8, <1>10, <1>13 DEF Good, Sorted
<1> QED BY <1>10, <1>11, <1>12, <1>13

(* A new emitter has no handlers.                                          *)
LEMMA ListInit == Init => ListInv
<1> SUFFICES ASSUME Init PROVE ListInv
  OBVIOUS
<1>1. /\ \A t \in Topics : handlers[t] = <<>> /\ \A g \in Goroutines : arr[g][t] = <<>>
      /\ \A g \in Goroutines : i[g] = 0 /\ pc[g] = "idle"
      /\ id = 0 /\ spent = {}
  BY DEF Init, Empty
<1>2. ListTypes
  BY DEF Init, Empty, ListTypes, Topics
<1>3. DOMAIN << >> = {}
  OBVIOUS
<1>4. IdsInOrder(handlers, arr, id) /\ Snapshots(handlers, arr) /\ OnceGone
  BY <1>1, <1>3, ZenonT(30) DEF IdsInOrder, Numbered, Snapshots, Known, Apart, OnceGone, Sorted
<1>5. \A s : Progress("idle", s, 0) /\ HaveRun(s, 0, ran)
  BY DEF Progress, HaveRun
<1>6. \A g \in Goroutines : Progress(pc[g], List(g), i[g]) /\ HaveRun(List(g), i[g], ran)
  BY <1>1, <1>5, ZenonT(30)
<1> QED BY <1>1, <1>2, <1>4, <1>6 DEF ListInv

(* A list with fewer handlers.                                             *)
Fewer(r, s) ==
  /\ r \in Seq(Handlers) /\ (Sorted(s) => Sorted(r))
  /\ \A k \in DOMAIN r : \E l \in DOMAIN s : r[k] = s[l]

(* Removing handlers, and snapshots, keeps the lists in order.             *)
LEMMA FewerInOrder ==
  ASSUME NEW H, NEW A, NEW n, IdsInOrder(H, A, n), Snapshots(H, A),
         NEW H2, \A t \in Topics : Fewer(H2[t], H[t]),
         NEW A2, \A g \in Goroutines, t \in Topics : A2[g][t] \in {A[g][t], << >>}
  PROVE  IdsInOrder(H2, A2, n) /\ Snapshots(H2, A2)
<1>1. DOMAIN << >> = {}
  OBVIOUS
<1>2. \A t \in Topics : Numbered(H2[t], n)
  BY DEF IdsInOrder, Numbered, Fewer
<1>3. \A g \in Goroutines, t \in Topics : Numbered(A2[g][t], n)
  BY <1>1 DEF IdsInOrder, Numbered, Sorted
<1>4. \A t, u \in Topics : t # u => Apart(H2[t], H2[u])
  <2> SUFFICES ASSUME NEW t \in Topics, NEW u \in Topics, t # u PROVE Apart(H2[t], H2[u])
    OBVIOUS
  <2>1. Apart(H[t], H[u]) /\ Fewer(H2[t], H[t]) /\ Fewer(H2[u], H[u])
    BY DEF Snapshots
  <2> QED BY <2>1 DEF Apart, Fewer
<1>5. ASSUME NEW g \in Goroutines, NEW t \in Topics, NEW u \in Topics
      PROVE  Known(H2[t], A2[g][t]) /\ (t # u => Apart(H2[t], A2[g][u]))
  <2>1. Known(H[t], A[g][t]) /\ (t # u => Apart(H[t], A[g][u])) /\ Fewer(H2[t], H[t])
    BY DEF Snapshots
  <2>2. A2[g][t] \in {A[g][t], << >>} /\ A2[g][u] \in {A[g][u], << >>}
    OBVIOUS
  <2>3. Known(H2[t], A2[g][t])
    BY <1>1, <2>1, <2>2 DEF Known, Fewer
  <2>4. t # u => Apart(H2[t], A2[g][u])
    BY <1>1, <2>1, <2>2 DEF Apart, Fewer
  <2> QED BY <2>3, <2>4
<1> QED BY <1>2, <1>3, <1>4, <1>5 DEF IdsInOrder, Snapshots

(* A list with a new handler in front.                                     *)
LEMMA Prepends ==
  ASSUME NEW s \in Seq(Handlers), NEW h \in Handlers
  PROVE  LET r == <<h>> \o s IN
         /\ r \in Seq(Handlers) /\ DOMAIN r = 1..(Len(s) + 1) /\ DOMAIN s = 1..Len(s)
         /\ r[1] = h /\ \A k \in 2..(Len(s) + 1) : r[k] = s[k - 1] /\ k - 1 \in DOMAIN s
OBVIOUS

(* Adding a handler with the next id.                                      *)
LEMMA AddedInOrder ==
  ASSUME NEW H \in [Topics -> Seq(Handlers)], NEW A, NEW n \in Nat,
         IdsInOrder(H, A, n), Snapshots(H, A),
         NEW t \in Topics, NEW h \in Handlers, h.id = n + 1,
         NEW H2, H2 = [H EXCEPT ![t] = <<h>> \o @]
  PROVE  IdsInOrder(H2, A, n + 1) /\ Snapshots(H2, A)
<1> DEFINE s == H[t]
           r == <<h>> \o s
<1>1. H2[t] = r /\ (\A u \in Topics : u # t => H2[u] = H[u]) /\ s \in Seq(Handlers)
  OBVIOUS
<1>2. /\ DOMAIN r = 1..(Len(s) + 1) /\ DOMAIN s = 1..Len(s) /\ Len(s) \in Nat
      /\ r[1] = h /\ \A k \in 2..(Len(s) + 1) : r[k] = s[k - 1] /\ k - 1 \in DOMAIN s
  BY <1>1, Prepends
<1> HIDE DEF r, s
<1>3. \A k \in DOMAIN r : r[k] = h \/ \E l \in DOMAIN s : r[k] = s[l]
  <2> SUFFICES ASSUME NEW k \in DOMAIN r, k # 1 PROVE \E l \in DOMAIN s : r[k] = s[l]
    BY <1>2
  <2>1. k \in 2..(Len(s) + 1)
    BY <1>2
  <2> QED BY <1>2, <2>1, ZenonT(30)
<1>4. \A x \in 1..n : x \in 1..(n + 1) /\ n + 1 > x
  OBVIOUS
<1>5. Numbered(s, n) /\ \A g \in Goroutines, u \in Topics : Numbered(A[g][u], n)
  BY DEF IdsInOrder, s
<1>6. Numbered(r, n + 1)
  <2>1. \A k \in DOMAIN r : r[k].id \in 1..(n + 1)
    BY <1>3, <1>5 DEF Numbered
  <2>2. ASSUME NEW k \in DOMAIN r, NEW l \in DOMAIN r, k < l PROVE r[k].id > r[l].id
    <3>1. l \in 2..(Len(s) + 1) /\ l - 1 \in DOMAIN s /\ r[l] = s[l - 1]
      BY <1>2, <2>2
    <3>2. CASE k = 1
      BY <1>2, <1>4, <1>5, <3>1, <3>2 DEF Numbered
    <3>3. CASE k # 1
      <4>1. k \in 2..(Len(s) + 1) /\ k - 1 \in DOMAIN s /\ r[k] = s[k - 1] /\ k - 1 < l - 1
        BY <1>2, <2>2, <3>3
      <4> QED BY <1>5, <3>1, <4>1 DEF Numbered, Sorted
    <3> QED BY <3>2, <3>3
  <2> QED BY <2>1, <2>2 DEF Numbered, Sorted
<1>7. \A u \in Topics : Numbered(H2[u], n + 1)
  BY <1>1, <1>4, <1>6, ZenonT(30) DEF IdsInOrder, Numbered
<1>8. \A g \in Goroutines, u \in Topics : Numbered(A[g][u], n + 1)
  BY <1>4, <1>5 DEF Numbered
<1>9. \A u, v \in Topics : u # v => Apart(H2[u], H2[v])
  <2> SUFFICES ASSUME NEW u \in Topics, NEW v \in Topics, u # v PROVE Apart(H2[u], H2[v])
    OBVIOUS
  <2>1. Apart(H[u], H[v]) /\ Numbered(H[u], n) /\ Numbered(H[v], n)
    BY DEF Snapshots, IdsInOrder
  <2>2. CASE u = t
    BY <1>1, <1>3, <1>4, <2>1, <2>2 DEF Apart, Numbered, s
  <2>3. CASE v = t
    BY <1>1, <1>3, <1>4, <2>1, <2>3 DEF Apart, Numbered, s
  <2>4. CASE u # t /\ v # t
    BY <1>1, <2>1, <2>4
  <2> QED BY <2>2, <2>3, <2>4
<1>10. ASSUME NEW g \in Goroutines, NEW u \in Topics, NEW v \in Topics
       PROVE  Known(H2[u], A[g][u]) /\ (u # v => Apart(H2[u], A[g][v]))
  <2>1. Known(H[u], A[g][u]) /\ (u # v => Apart(H[u], A[g][v]))
    BY DEF Snapshots
  <2>2. Numbered(A[g][u], n) /\ Numbered(A[g][v], n)
    BY <1>5
  <2>3. CASE u # t
    BY <1>1, <2>1, <2>3
  <2>4. CASE u = t
    <3>1. Known(r, A[g][u])
      <4> SUFFICES ASSUME NEW k \in DOMAIN r, NEW l \in DOMAIN A[g][u], r[k].id <= A[g][u][l].id
                   PROVE  \E m \in DOMAIN A[g][u] : A[g][u][m] = r[k]
        BY DEF Known
      <4>1. A[g][u][l].id \in 1..n
        BY <2>2 DEF Numbered
      <4>2. r[k] # h
        BY <4>1
      <4>3. PICK j \in DOMAIN s : r[k] = s[j]
        BY <1>3, <4>2
      <4> QED BY <2>1, <2>4, <4>3, ZenonT(30) DEF Known, s
    <3>2. ASSUME u # v PROVE Apart(r, A[g][v])
      <4> SUFFICES ASSUME NEW k \in DOMAIN r, NEW l \in DOMAIN A[g][v]
                   PROVE  r[k].id # A[g][v][l].id
        BY DEF Apart
      <4>1. CASE r[k] = h
        <5>1. A[g][v][l].id \in 1..n
          BY <2>2 DEF Numbered
        <5> QED BY <4>1, <5>1
      <4>2. ASSUME NEW j \in DOMAIN s, r[k] = s[j] PROVE r[k].id # A[g][v][l].id
        BY <2>1, <2>4, <3>2, <4>2, ZenonT(30) DEF Apart, s
      <4> QED BY <1>3, <4>1, <4>2, ZenonT(30)
    <3> QED BY <1>1, <2>4, <3>1, <3>2, ZenonT(30)
  <2> QED BY <2>3, <2>4
<1> QED BY <1>7, <1>8, <1>9, <1>10 DEF IdsInOrder, Snapshots

(* Taking a snapshot.                                                      *)
LEMMA TakenInOrder ==
  ASSUME NEW H, NEW A, NEW n \in Nat, IdsInOrder(H, A, n), Snapshots(H, A), NEW g \in Goroutines,
         NEW A2, \A f \in Goroutines, t \in Topics : A2[f][t] = IF f = g THEN H[t] ELSE A[f][t]
  PROVE  IdsInOrder(H, A2, n) /\ Snapshots(H, A2)
<1>1. IdsInOrder(H, A2, n)
  BY DEF IdsInOrder
<1>2. \A t \in Topics : Known(H[t], H[t])
  BY DEF Known
<1>3. Snapshots(H, A2)
  BY <1>2 DEF Snapshots
<1> QED BY <1>1, <1>3

(* A goroutine that moves within Fire without touching the lists.          *)
LEMMA MoveInOrder ==
  ASSUME ListInv, NEW g \in Goroutines, NEW l, pc' = [pc EXCEPT ![g] = l],
         UNCHANGED <<listVars, callVars>>, Progress(l, List(g), i[g])
  PROVE  ListInv'
<1>1. UNCHANGED <<id, handlers, arr, ht, i, ran, spent>>
  BY DEF listVars, callVars
<1>2. ListTypes'
  BY <1>1 DEF ListInv, ListTypes
<1>3. IdsInOrder(handlers', arr', id') /\ Snapshots(handlers', arr')
  BY <1>1 DEF ListInv
<1>4. ASSUME NEW f \in Goroutines
      PROVE  Progress(pc'[f], List(f)', i'[f]) /\ HaveRun(List(f)', i'[f], ran')
  <2>1. List(f)' = List(f) /\ i'[f] = i[f] /\ ran' = ran
    BY <1>1 DEF List
  <2>2. pc'[f] = (IF f = g THEN l ELSE pc[f])
    BY DEF ListInv, ListTypes
  <2>3. Progress(pc[f], List(f), i[f]) /\ HaveRun(List(f), i[f], ran)
    BY DEF ListInv
  <2> QED BY <2>1, <2>2, <2>3
<1>5. OnceGone' /\ \A n \in spent' : n \in 1..id'
  BY <1>1 DEF ListInv, OnceGone
<1> QED BY <1>2, <1>3, <1>4, <1>5 DEF ListInv

(* The steps on the pool of events.                                        *)
LEMMA PoolStepInOrder ==
  ASSUME ListInv, NEW g \in Goroutines,
         \/ newEventLoad(g) \/ newEventCAS(g) \/ SetArg(g)
         \/ freeEventClear(g) \/ freeEventLoad(g) \/ freeEventCAS(g)
  PROVE  ListInv'
<1>1. UNCHANGED <<listVars, callVars>>
  BY DEF newEventLoad, newEventCAS, SetArg, freeEventClear, freeEventLoad, freeEventCAS
<1>2. PICK l : /\ pc' = [pc EXCEPT ![g] = l]
               /\ \/ pc[g] \in {"new", "newCAS"} /\ l \in {"newCAS", "set"}
                  \/ pc[g] = "set" /\ l = "call"
                  \/ pc[g] \in {"clear", "free", "freeCAS"} /\ l \in {"idle", "free", "freeCAS"}
  BY DEF newEventLoad, newEventCAS, SetArg, freeEventClear, freeEventLoad, freeEventCAS,
     Goto
<1>3. Progress(pc[g], List(g), i[g])
  BY DEF ListInv
<1>4. Progress(l, List(g), i[g])
  BY <1>2, <1>3 DEF Progress
<1> QED BY <1>1, <1>2, <1>4, MoveInOrder, ZenonT(30)

(* Fire takes its snapshots.                                               *)
LEMMA FireInOrder ==
  ASSUME ListInv, NEW g \in Goroutines, Fire(g)
  PROVE  ListInv'
<1>1. /\ UNCHANGED <<id, handlers, i, ran, spent>> /\ pc[g] = "idle" /\ handlers # Empty
      /\ arr' = [arr EXCEPT ![g] = handlers] /\ ht' = [ht EXCEPT ![g] = First(handlers)]
      /\ pc' = [pc EXCEPT ![g] = "new"]
  BY DEF Fire, listVars, Goto
<1>2. First(handlers) \in Topics /\ handlers[First(handlers)] # << >>
  <2>1. handlers["*"] # << >> \/ handlers["event"] # << >>
    <3> SUFFICES ASSUME handlers["*"] = << >>, handlers["event"] = << >> PROVE handlers = Empty
      BY <1>1
    <3>1. \A t \in Topics : handlers[t] = << >>
      BY DEF Topics
    <3>2. handlers = [t \in Topics |-> handlers[t]]
      BY DEF ListInv, ListTypes
    <3> QED BY <3>1, <3>2 DEF Empty
  <2> QED BY <2>1 DEF First, Topics
<1>3. ListTypes'
  BY <1>1, <1>2 DEF ListInv, ListTypes
<1>4. \A f \in Goroutines, t \in Topics : arr'[f][t] = IF f = g THEN handlers[t] ELSE arr[f][t]
  BY <1>1 DEF ListInv, ListTypes
<1>5. IdsInOrder(handlers', arr', id') /\ Snapshots(handlers', arr')
  BY <1>1, <1>4, TakenInOrder, ZenonT(30) DEF ListInv, ListTypes
<1>6. ASSUME NEW f \in Goroutines
      PROVE  Progress(pc'[f], List(f)', i'[f]) /\ HaveRun(List(f)', i'[f], ran')
  <2>1. Progress(pc[f], List(f), i[f]) /\ HaveRun(List(f), i[f], ran)
    BY DEF ListInv
  <2>2. CASE f = g
    <3>1. List(f)' = handlers[First(handlers)] /\ i'[f] = 0 /\ pc'[f] = "new"
      BY <1>1, <1>3, <2>1, <2>2 DEF List, Progress, ListInv, ListTypes
    <3>2. Len(handlers[First(handlers)]) > 0
      BY <1>2 DEF ListInv, ListTypes
    <3> QED BY <3>1, <3>2 DEF Progress, HaveRun
  <2>3. CASE f # g
    <3>1. List(f)' = List(f) /\ i'[f] = i[f] /\ pc'[f] = pc[f] /\ ran' = ran
      BY <1>1, <2>3 DEF List, ListInv, ListTypes
    <3> QED BY <2>1, <3>1
  <2> QED BY <2>2, <2>3
<1>7. OnceGone' /\ \A n \in spent' : n \in 1..id'
  BY <1>1 DEF ListInv, OnceGone
<1> QED BY <1>3, <1>5, <1>6, <1>7, ZenonT(30) DEF ListInv

(* Fire calls the next handler.                                            *)
LEMMA CallInOrder ==
  ASSUME ListInv, NEW g \in Goroutines, Call(g)
  PROVE  ListInv'
<1>1. /\ UNCHANGED <<id, handlers, arr, ht, spent>> /\ pc[g] = "call"
      /\ i' = [i EXCEPT ![g] = @ + 1] /\ ran' = ran \cup {List(g)[i[g] + 1].id}
  BY DEF Call, listVars
<1>2. /\ \/ i[g] + 1 < Len(List(g)) /\ pc' = pc
         \/ i[g] + 1 = Len(List(g)) /\ pc' = [pc EXCEPT ![g] = "offOnce"]
         \/ pc' = [pc EXCEPT ![g] = "prevented"]
  BY DEF Call, Goto
<1>3. ListTypes'
  BY <1>1, <1>2 DEF ListInv, ListTypes
<1>4. IdsInOrder(handlers', arr', id') /\ Snapshots(handlers', arr')
  BY <1>1 DEF ListInv
<1>5. ASSUME NEW f \in Goroutines
      PROVE  Progress(pc'[f], List(f)', i'[f]) /\ HaveRun(List(f)', i'[f], ran')
  <2>1. Progress(pc[f], List(f), i[f]) /\ HaveRun(List(f), i[f], ran)
    BY DEF ListInv
  <2>2. List(f)' = List(f) /\ ran \subseteq ran'
    BY <1>1 DEF List
  <2>3. CASE f = g
    <3>1. i[g] \in Nat /\ i'[g] = i[g] + 1 /\ List(g) \in Seq(Handlers) /\ i[g] < Len(List(g))
      BY <1>1, <2>1, <2>3 DEF ListInv, ListTypes, List, Progress
    <3>2. \/ pc'[g] = "call" /\ i[g] + 1 < Len(List(g))
          \/ pc'[g] \in {"offOnce", "prevented"} /\ i[g] + 1 \in 1..Len(List(g))
      BY <1>1, <1>2, <3>1 DEF ListInv, ListTypes
    <3>3. \A l \in 1..(i[g] + 1) : l \in DOMAIN List(g) /\ List(g)[l].id \in ran'
      <4> SUFFICES ASSUME NEW l \in 1..(i[g] + 1)
                   PROVE  l \in DOMAIN List(g) /\ List(g)[l].id \in ran'
        OBVIOUS
      <4>1. l = i[g] + 1 \/ l \in 1..i[g]
        BY <3>1
      <4> QED BY <1>1, <2>1, <2>3, <3>1, <4>1 DEF HaveRun
    <3> QED BY <2>2, <2>3, <3>1, <3>2, <3>3 DEF Progress, HaveRun
  <2>4. CASE f # g
    <3>1. pc'[f] = pc[f] /\ i'[f] = i[f]
      BY <1>1, <1>2, <2>4 DEF ListInv, ListTypes
    <3> QED BY <2>1, <2>2, <3>1 DEF HaveRun
  <2> QED BY <2>3, <2>4
<1>6. OnceGone' /\ \A n \in spent' : n \in 1..id'
  BY <1>1 DEF ListInv, OnceGone
<1> QED BY <1>3, <1>4, <1>5, <1>6 DEF ListInv

(* What offOnce removes and what it leaves, with s the list that Fire has  *)
(* called handlers of, t its topic and n their number.                     *)
LEMMA offOnceFacts ==
  ASSUME ListInv, NEW g \in Goroutines, offOnce(g)
  PROVE  LET s == List(g)
             t == ht[g]
             n == i[g] IN
         /\ t \in Topics /\ s \in Seq(Handlers) /\ n \in 1..Len(s)
         /\ Numbered(s, id) /\ Known(handlers[t], s) /\ HaveRun(s, n, ran)
         /\ \A k \in 1..n : Called(g)[k] = s[k]
         /\ \A u \in Topics : u # t => handlers'[u] = handlers[u] /\ Apart(handlers[u], s)
         /\ Fewer(handlers'[t], handlers[t])
         /\ \A k \in DOMAIN handlers[t] :
              \/ \E l \in DOMAIN handlers'[t] : handlers'[t][l] = handlers[t][k]
              \/ handlers[t][k].id \in Spent(g)
         /\ (\E k \in 1..n : s[k].once) =>
              \A l \in DOMAIN handlers'[t] : handlers'[t][l].id \notin Spent(g)
<1> DEFINE s == List(g)
           t == ht[g]
           n == i[g]
           any == \E k \in 1..n : Called(g)[k].once
<1>1. /\ t \in Topics /\ s \in Seq(Handlers) /\ s = arr[g][t] /\ n \in Nat
      /\ handlers[t] \in Seq(Handlers) /\ handlers \in [Topics -> Seq(Handlers)]
  BY DEF ListInv, ListTypes, List
<1>2. n \in 1..Len(s) /\ HaveRun(s, n, ran)
  BY DEF ListInv, offOnce, Progress
<1>3. Numbered(s, id) /\ Known(handlers[t], s) /\ \A u \in Topics : u # t => Apart(handlers[u], s)
  BY <1>1, ZenonT(30) DEF ListInv, IdsInOrder, Snapshots
<1>4. \A k \in 1..n : Called(g)[k] = s[k]
  BY <1>1, <1>2 DEF Called
<1>5. IF any
      THEN \E r \in Without(handlers[t], Spent(g)) : handlers' = [handlers EXCEPT ![t] = r]
      ELSE handlers' = handlers
  BY DEF offOnce
<1>6. \A u \in Topics : u # t => handlers'[u] = handlers[u]
  BY <1>1, <1>5
<1>7. any <=> \E k \in 1..n : s[k].once
  BY <1>4
<1>8. CASE any
  <2>1. handlers'[t] \in Without(handlers[t], Spent(g))
    BY <1>1, <1>5, <1>8
  <2> HIDE DEF s, t, n, any
  <2>2. /\ handlers'[t] \in Seq(Handlers)
        /\ \A k \in DOMAIN handlers'[t] : \E l \in DOMAIN handlers[t] :
             handlers'[t][k] = handlers[t][l] /\ handlers[t][l].id \notin Spent(g)
        /\ \A l \in DOMAIN handlers[t] : handlers[t][l].id \notin Spent(g) =>
             \E k \in DOMAIN handlers'[t] : handlers'[t][k] = handlers[t][l]
        /\ Sorted(handlers[t]) => Sorted(handlers'[t])
    BY <1>1, <2>1, WithoutLeaves
  <2>3. Fewer(handlers'[t], handlers[t])
    BY <2>2 DEF Fewer
  <2>4. \A l \in DOMAIN handlers'[t] : handlers'[t][l].id \notin Spent(g)
    BY <2>2
  <2>5. \A k \in DOMAIN handlers[t] :
          \/ \E l \in DOMAIN handlers'[t] : handlers'[t][l] = handlers[t][k]
          \/ handlers[t][k].id \in Spent(g)
    BY <2>2
  <2> QED BY <1>1, <1>2, <1>3, <1>4, <1>6, <2>3, <2>4, <2>5, ZenonT(30) DEF s, t, n
<1>9. CASE ~ any
  <2>1. handlers' = handlers
    BY <1>5, <1>9
  <2> HIDE DEF s, t, n, any
  <2>2. Fewer(handlers'[t], handlers[t])
    BY <1>1, <2>1 DEF Fewer
  <2>3. \A k \in DOMAIN handlers[t] : \E l \in DOMAIN handlers'[t] : handlers'[t][l] = handlers[t][k]
    BY <2>1
  <2> QED BY <1>1, <1>2, <1>3, <1>4, <1>6, <1>7, <1>9, <2>2, <2>3, ZenonT(30) DEF s, t, n
<1> QED BY <1>8, <1>9, ZenonT(30)

(* offOnce removes only handlers that have been called.                    *)
LEMMA RemovedHaveRun ==
  ASSUME ListInv, NEW g \in Goroutines, offOnce(g), NEW k \in DOMAIN handlers[ht[g]],
         \A l \in DOMAIN handlers'[ht[g]] : handlers'[ht[g]][l].id # handlers[ht[g]][k].id
  PROVE  handlers[ht[g]][k].id \in ran
<1> DEFINE s == List(g)
           n == i[g]
           h == handlers[ht[g]][k]
<1>1. /\ s \in Seq(Handlers) /\ n \in 1..Len(s) /\ Numbered(s, id) /\ Known(handlers[ht[g]], s)
      /\ HaveRun(s, n, ran) /\ Called(g)[n] = s[n] /\ h.id \in Spent(g)
  <2>1. /\ s \in Seq(Handlers) /\ n \in 1..Len(s) /\ Numbered(s, id)
        /\ Known(handlers[ht[g]], s) /\ HaveRun(s, n, ran)
        /\ \A l \in 1..n : Called(g)[l] = s[l]
    BY offOnceFacts, ZenonT(30)
  <2>2. \/ \E l \in DOMAIN handlers'[ht[g]] : handlers'[ht[g]][l] = h
        \/ h.id \in Spent(g)
    BY offOnceFacts, ZenonT(30)
  <2>3. n \in 1..n
    <3> HIDE DEF n
    <3> QED BY <2>1
  <2> QED BY <2>1, <2>2, <2>3, ZenonT(30)
<1>2. h.id >= s[n].id /\ h.id <= s[1].id
  BY <1>1, ZenonT(30) DEF Spent
<1> HIDE DEF s, n, h
<1>3. 1 \in DOMAIN s /\ n \in DOMAIN s /\ DOMAIN s = 1..Len(s)
  BY <1>1
<1>4. PICK m \in DOMAIN s : s[m] = h
  BY <1>1, <1>2, <1>3 DEF Known, h
<1>5. m <= n
  <2> SUFFICES ASSUME n < m PROVE FALSE
    BY <1>1, <1>3
  <2>1. s[n].id > s[m].id /\ s[n].id \in Int /\ s[m].id \in Int
    BY <1>1, <1>3 DEF Numbered, Sorted
  <2> QED BY <1>2, <1>4, <2>1
<1>6. m \in 1..n
  BY <1>1, <1>3, <1>5
<1> QED BY <1>1, <1>4, <1>6 DEF HaveRun, h

(* The one-shot handlers that have been called are not registered when     *)
(* offOnce is done.                                                        *)
LEMMA offOnceGone ==
  ASSUME ListInv, NEW g \in Goroutines, offOnce(g), NEW u \in Topics, NEW l \in DOMAIN handlers'[u]
  PROVE  handlers'[u][l].id \notin spent'
<1> DEFINE s == List(g)
           n == i[g]
           t == ht[g]
           x == handlers'[u][l]
<1>1. /\ s \in Seq(Handlers) /\ n \in 1..Len(s) /\ Numbered(s, id) /\ Known(handlers[t], s)
      /\ t \in Topics /\ \A k \in 1..n : Called(g)[k] = s[k]
  BY offOnceFacts, ZenonT(30)
<1>2. /\ u # t => handlers'[u] = handlers[u] /\ Apart(handlers[u], s)
      /\ Fewer(handlers'[t], handlers[t])
      /\ (\E k \in 1..n : s[k].once) =>
           \A m \in DOMAIN handlers'[t] : handlers'[t][m].id \notin Spent(g)
  BY offOnceFacts, ZenonT(30)
<1>3. spent' = spent \cup {Called(g)[k].id : k \in {m \in 1..n : Called(g)[m].once}}
  BY DEF offOnce
<1>4. PICK j \in DOMAIN handlers[u] : x = handlers[u][j]
  BY <1>2 DEF Fewer
<1>5. x.id \notin spent
  BY <1>4 DEF ListInv, OnceGone
<1>6. ASSUME NEW k \in 1..n, s[k].once, x.id = s[k].id PROVE FALSE
  <2> HIDE DEF s, n, t, x
  <2>1. k \in DOMAIN s /\ 1 \in DOMAIN s /\ n \in DOMAIN s /\ DOMAIN s = 1..Len(s)
    BY <1>1
  <2>2. u = t
    BY <1>2, <1>4, <1>6, <2>1 DEF Apart, x
  <2>3. s[k].id \in 1..id /\ s[1].id \in 1..id /\ s[n].id \in 1..id
    BY <1>1, <2>1 DEF Numbered
  <2>4. s[k].id <= s[1].id /\ s[k].id >= s[n].id
    <3>1. k = 1 \/ 1 < k
      BY <2>1
    <3>2. k = n \/ k < n
      BY <1>1
    <3> QED BY <1>1, <2>1, <2>3, <3>1, <3>2 DEF Numbered, Sorted
  <2>5. PICK m \in DOMAIN s : s[m] = x
    BY <1>1, <1>4, <1>6, <2>1, <2>2, <2>3 DEF Known, x
  <2>6. m = k
    <3> SUFFICES ASSUME m # k PROVE FALSE
      OBVIOUS
    <3>1. m < k \/ k < m
      BY <1>1, <2>1
    <3> QED BY <1>1, <1>6, <2>1, <2>3, <2>5, <3>1 DEF Numbered, Sorted
  <2>7. x.id \in Spent(g)
    <3>1. x.once /\ Called(g)[n].id = s[n].id /\ handlers[t][j] = x /\ j \in DOMAIN handlers[t]
      BY <1>1, <1>4, <1>6, <2>2, <2>5, <2>6 DEF x
    <3> QED BY <1>6, <2>3, <2>4, <3>1 DEF Spent, s, n, t
  <2> QED BY <1>2, <1>6, <2>2, <2>7 DEF x
<1> HIDE DEF s, n, t, x
<1>7. x.id \notin {Called(g)[k].id : k \in {m \in 1..n : Called(g)[m].once}}
  BY <1>1, <1>6
<1> QED BY <1>3, <1>5, <1>7 DEF x

LEMMA offOnceInOrder ==
  ASSUME ListInv, NEW g \in Goroutines, offOnce(g)
  PROVE  ListInv'
<1> DEFINE s == List(g)
           t == ht[g]
           n == i[g]
           more == pc[g] = "offOnce" /\ t = "*" /\ arr[g]["event"] # <<>>
<1>1. /\ id' = id /\ ran' = ran /\ i' = [i EXCEPT ![g] = 0]
      /\ ht' = [ht EXCEPT ![g] = IF more THEN "event" ELSE "*"]
      /\ arr' = [arr EXCEPT ![g] = IF more THEN @ ELSE Empty]
      /\ pc' = [pc EXCEPT ![g] = IF more THEN "call" ELSE "clear"]
  BY DEF offOnce, Goto
<1>2. /\ s \in Seq(Handlers) /\ n \in 1..Len(s) /\ Numbered(s, id) /\ t \in Topics
      /\ \A k \in 1..n : Called(g)[k] = s[k]
      /\ \A u \in Topics : u # t => handlers'[u] = handlers[u]
      /\ Fewer(handlers'[t], handlers[t])
  BY offOnceFacts, ZenonT(30)
<1>3. \A u \in Topics : Fewer(handlers'[u], handlers[u])
  <2>1. \A u \in Topics : Fewer(handlers[u], handlers[u])
    BY DEF ListInv, ListTypes, Fewer
  <2> QED BY <1>2, <2>1
<1>4. handlers' \in [Topics -> Seq(Handlers)]
  <2>1. handlers' \in [Topics -> {handlers'[u] : u \in Topics}]
    <3>1. handlers' = handlers \/ \E r : handlers' = [handlers EXCEPT ![t] = r]
      BY DEF offOnce
    <3> QED BY <3>1 DEF ListInv, ListTypes
  <2> QED BY <1>3, <2>1 DEF Fewer
<1>5. Empty \in [Topics -> Seq(Handlers)] /\ \A u \in Topics : Empty[u] = << >>
  BY DEF Empty
<1>6. ListTypes'
  <2>1. arr' \in [Goroutines -> [Topics -> Seq(Handlers)]]
    BY <1>1, <1>5 DEF ListInv, ListTypes
  <2>2. ht' \in [Goroutines -> Topics] /\ i' \in [Goroutines -> Nat] /\ DOMAIN pc' = Goroutines
    BY <1>1 DEF ListInv, ListTypes, Topics
  <2> QED BY <1>1, <1>4, <2>1, <2>2 DEF ListInv, ListTypes
<1>7. \A f \in Goroutines, u \in Topics : arr'[f][u] \in {arr[f][u], << >>}
  BY <1>1, <1>5 DEF ListInv, ListTypes
<1>8. IdsInOrder(handlers', arr', id') /\ Snapshots(handlers', arr')
  BY <1>1, <1>3, <1>7, FewerInOrder, ZenonT(30) DEF ListInv
<1>9. ASSUME NEW f \in Goroutines
      PROVE  Progress(pc'[f], List(f)', i'[f]) /\ HaveRun(List(f)', i'[f], ran')
  <2>1. CASE f = g
    <3>1. i'[g] = 0
      BY <1>1 DEF ListInv, ListTypes
    <3>2. CASE more
      <4>1. pc'[g] = "call" /\ List(g)' = arr[g]["event"]
        BY <1>1, <3>2 DEF ListInv, ListTypes, List
      <4>2. Len(arr[g]["event"]) > 0
        BY <3>2 DEF ListInv, ListTypes, Topics
      <4> QED BY <2>1, <3>1, <4>1, <4>2 DEF Progress, HaveRun
    <3>3. CASE ~ more
      <4>1. pc'[g] = "clear"
        BY <1>1, <3>3 DEF ListInv, ListTypes
      <4> QED BY <2>1, <3>1, <4>1 DEF Progress, HaveRun
    <3> QED BY <3>2, <3>3
  <2>2. CASE f # g
    <3>1. List(f)' = List(f) /\ i'[f] = i[f] /\ pc'[f] = pc[f] /\ ran' = ran
      BY <1>1, <2>2 DEF List, ListInv, ListTypes
    <3> QED BY <3>1, ZenonT(30) DEF ListInv
  <2> QED BY <2>1, <2>2
<1>10. OnceGone'
  BY offOnceGone DEF OnceGone
<1>11. \A m \in spent' : m \in 1..id'
  <2>1. spent' = spent \cup {Called(g)[k].id : k \in {m \in 1..n : Called(g)[m].once}}
    BY DEF offOnce
  <2>2. \A k \in 1..n : k \in DOMAIN s /\ Called(g)[k] = s[k]
    BY <1>2
  <2>3. \A k \in 1..n : Called(g)[k].id \in 1..id
    BY <1>2, <2>2 DEF Numbered
  <2>4. \A m \in spent : m \in 1..id
    BY DEF ListInv
  <2> HIDE DEF s, n
  <2> QED BY <1>1, <2>1, <2>3, <2>4
<1> QED BY <1>6, <1>8, <1>9, <1>10, <1>11 DEF ListInv

(* What is left of a list is a list with fewer handlers.                   *)
LEMMA WithoutFewer ==
  ASSUME NEW s \in Seq(Handlers), NEW ids, NEW r \in Without(s, ids)
  PROVE  Fewer(r, s)
BY WithoutLeaves DEF Fewer

(* A registration.                                                         *)
LEMMA RegistersInOrder ==
  ASSUME ListInv, NEW t \in Topics,
         \/ \E once \in BOOLEAN : addHandler(t, once)
         \/ \E n \in 1..id : Off(t, n)
         \/ OffAll(t)
  PROVE  ListInv'
<1>1. UNCHANGED <<arr, ht, i, ran, spent, pc>>
  BY ZenonT(30) DEF addHandler, Off, OffAll, callVars
<1>2. \A f \in Goroutines :
        Progress(pc'[f], List(f)', i'[f]) /\ HaveRun(List(f)', i'[f], ran')
  BY <1>1 DEF ListInv, List
<1>3. ASSUME NEW once \in BOOLEAN, addHandler(t, once) PROVE ListInv'
  <2> DEFINE h == [id |-> id + 1, once |-> once]
  <2>1. id' = id + 1 /\ handlers' = [handlers EXCEPT ![t] = <<h>> \o @] /\ id \in Nat
    BY <1>3 DEF addHandler, ListInv, ListTypes
  <2>2. h \in Handlers /\ h.id = id + 1
    BY <2>1 DEF Handlers
  <2> HIDE DEF h
  <2>3. IdsInOrder(handlers', arr', id') /\ Snapshots(handlers', arr')
    BY <1>1, <2>1, <2>2, AddedInOrder, ZenonT(30) DEF ListInv, ListTypes
  <2>4. ListTypes'
    <3>1. handlers \in [Topics -> Seq(Handlers)]
      BY ZenonT(30) DEF ListInv, ListTypes
    <3>2. <<h>> \o handlers[t] \in Seq(Handlers)
      BY <2>2, <3>1
    <3>3. handlers' \in [Topics -> Seq(Handlers)]
      BY <2>1, <3>1, <3>2, ZenonT(30)
    <3>4. id' \in Nat
      BY <2>1
    <3> QED BY <1>1, <3>3, <3>4, ZenonT(30) DEF ListInv, ListTypes
  <2>5. \A n \in spent' : n \in 1..id'
    <3>1. spent' = spent /\ \A n \in spent : n \in 1..id
      BY <1>1, ZenonT(30) DEF ListInv
    <3>2. \A n \in 1..id : n \in 1..id'
      BY <2>1
    <3> QED BY <3>1, <3>2, ZenonT(30)
  <2>6. OnceGone'
    <3> SUFFICES ASSUME NEW u \in Topics, NEW k \in DOMAIN handlers'[u]
                 PROVE  handlers'[u][k].id \notin spent
      BY <1>1 DEF OnceGone
    <3>1. handlers'[u][k] = h \/ \E l \in DOMAIN handlers[u] : handlers'[u][k] = handlers[u][l]
      BY <2>1, <2>2, Prepends DEF ListInv, ListTypes
    <3> QED BY <2>1, <2>2, <3>1 DEF ListInv, OnceGone
  <2> QED BY <1>2, <2>3, <2>4, <2>5, <2>6 DEF ListInv
<1>4. ASSUME NEW r, Fewer(r, handlers[t]), handlers' = [handlers EXCEPT ![t] = r], id' = id
      PROVE  ListInv'
  <2>1. \A u \in Topics : Fewer(handlers'[u], handlers[u])
    BY <1>4 DEF ListInv, ListTypes, Fewer
  <2>2. IdsInOrder(handlers', arr', id') /\ Snapshots(handlers', arr')
    BY <1>1, <1>4, <2>1, FewerInOrder, ZenonT(30) DEF ListInv
  <2>3. ListTypes'
    BY <1>1, <1>4 DEF ListInv, ListTypes, Fewer
  <2>4. OnceGone' /\ \A n \in spent' : n \in 1..id'
    BY <1>1, <1>4, <2>1 DEF ListInv, OnceGone, Fewer
  <2> QED BY <1>2, <2>2, <2>3, <2>4, ZenonT(30) DEF ListInv
<1>5. ASSUME NEW n \in 1..id, Off(t, n) PROVE ListInv'
  <2>1. PICK q \in Without(handlers[t], {n}) : handlers' = [handlers EXCEPT ![t] = q]
    BY <1>5, ZenonT(30) DEF Off
  <2>2. Fewer(q, handlers[t])
    <3>1. handlers[t] \in Seq(Handlers)
      BY DEF ListInv, ListTypes
    <3> QED BY <3>1, WithoutFewer, ZenonT(30)
  <2> QED BY <1>4, <1>5, <2>1, <2>2, ZenonT(30) DEF Off
<1>6. CASE OffAll(t)
  <2>1. Fewer(<< >>, handlers[t])
    <3>1. << >> \in Seq(Handlers) /\ DOMAIN << >> = {}
      OBVIOUS
    <3> QED BY <3>1, ZenonT(30) DEF Fewer, Sorted
  <2> QED BY <1>4, <1>6, <2>1, ZenonT(30) DEF OffAll
<1> QED BY <1>3, <1>5, <1>6

(* The lists stay in order.                                                *)
LEMMA ListStep == ListInv /\ [Next]_vars => ListInv'
<1> SUFFICES ASSUME ListInv, [Next]_vars PROVE ListInv'
  OBVIOUS
<1>1. CASE UNCHANGED vars
  BY <1>1, ZenonT(30) DEF vars, listVars, callVars, ListInv, ListTypes, List, OnceGone
<1>2. ASSUME NEW g \in Goroutines, Step(g) PROVE ListInv'
  BY <1>2, FireInOrder, PoolStepInOrder, CallInOrder, offOnceInOrder DEF Step
<1> QED BY <1>1, <1>2, RegistersInOrder DEF Next

(* Fire removes a one-shot handler only after it has been called, however  *)
(* goroutines register, remove and fire meanwhile (events.go:143-158,      *)
(* 204-225).                                                               *)
THEOREM OnceIsNotLost == Spec => OnceNotLost
<1>1. ListInv /\ [Next]_vars => [OnceNotLostStep]_vars
  BY RemovedHaveRun, ZenonT(30) DEF OnceNotLostStep
<1> QED BY <1>1, ListInit, ListStep, PTL DEF Spec, OnceNotLost

(* When a Fire that has called a one-shot handler is past offOnce, the     *)
(* handler is registered no more, and never again.                         *)
THEOREM OnceIsGone == Spec => []OnceGone
<1>1. ListInv => OnceGone
  BY ZenonT(30) DEF ListInv
<1> QED BY <1>1, ListInit, ListStep, PTL DEF Spec
-----------------------------------------------------------------------------
(* Off and offOnce never block: what is left of a list can be listed.      *)
INSTANCE WellFoundedInduction

(* A set of natural numbers has a least element.                           *)
LEMMA HasMin ==
  ASSUME NEW S, S \subseteq Nat, S # {}
  PROVE  \E x \in S : \A y \in S : x <= y
<1>1. PICK x \in S : \A y \in S : ~ (<<y, x>> \in OpToRel(<, Nat))
  BY NatLessThanWellFounded, WFMin, ZenonT(30)
<1>2. \A y \in S : x <= y
  <2>1. SUFFICES ASSUME NEW y \in S, ~ (x <= y) PROVE FALSE
    OBVIOUS
  <2>2. y < x
    BY <2>1
  <2>3. <<y, x>> \in OpToRel(<, Nat)
    BY <2>2 DEF OpToRel
  <2> QED BY <1>1, <2>3, ZenonT(30)
<1> QED BY <1>2

(* A finite set of positive numbers can be listed in increasing order.     *)
LEMMA ListedInOrder ==
  ASSUME NEW n \in Nat, NEW S \in SUBSET (1..n)
  PROVE  \E m \in 0..n : \E f \in [1..m -> S] :
           /\ \A a, b \in 1..m : a < b => f[a] < f[b]
           /\ \A x \in S : \E a \in 1..m : f[a] = x
<1> DEFINE Lists(f, m, R) == /\ \A a, b \in 1..m : a < b => f[a] < f[b]
                             /\ \A x \in R : \E a \in 1..m : f[a] = x
           P(k) == \A R \in SUBSET (1..k) : \E m \in 0..k : \E f \in [1..m -> R] : Lists(f, m, R)
           T == {k \in Nat : ~ P(k)}
<1>1. P(0)
  <2> SUFFICES ASSUME NEW R \in SUBSET (1..0)
               PROVE  \E m \in 0..0 : \E f \in [1..m -> R] : Lists(f, m, R)
    OBVIOUS
  <2> DEFINE f == [a \in 1..0 |-> a]
  <2>1. f \in [1..0 -> R] /\ Lists(f, 0, R)
    OBVIOUS
  <2>2. 0 \in 0..0
    OBVIOUS
  <2> HIDE DEF f, Lists
  <2> QED BY <2>1, <2>2, ZenonT(30)
<1>2. ASSUME NEW k \in Nat, P(k) PROVE P(k + 1)
  <2> SUFFICES ASSUME NEW R \in SUBSET (1..(k + 1))
               PROVE  \E m \in 0..(k + 1) : \E f \in [1..m -> R] : Lists(f, m, R)
    BY ZenonT(30)
  <2> DEFINE Q == R \ {k + 1}
  <2>1. Q \in SUBSET (1..k)
    OBVIOUS
  <2>2. PICK m \in 0..k : \E f \in [1..m -> Q] : Lists(f, m, Q)
    BY <1>2, <2>1, ZenonT(30)
  <2>3. PICK f \in [1..m -> Q] : Lists(f, m, Q)
    BY <2>2
  <2>4. CASE k + 1 \notin R
    <3>1. Q = R
      BY <2>4
    <3> QED BY <2>3, <3>1
  <2>5. CASE k + 1 \in R
    <3> DEFINE h == [a \in 1..(m + 1) |-> IF a = m + 1 THEN k + 1 ELSE f[a]]
    <3>1. \A a \in 1..m : f[a] \in Q /\ f[a] \in 1..k
      BY <2>1, ZenonT(30)
    <3>2. h \in [1..(m + 1) -> R]
      BY <2>5, <3>1
    <3>3. \A a, b \in 1..(m + 1) : a < b => h[a] < h[b]
      BY <2>3, <3>1
    <3>4. \A x \in R : \E a \in 1..(m + 1) : h[a] = x
      <4> SUFFICES ASSUME NEW x \in R PROVE \E a \in 1..(m + 1) : h[a] = x
        OBVIOUS
      <4>1. CASE x = k + 1
        BY <4>1
      <4>2. CASE x # k + 1
        <5>1. PICK a \in 1..m : f[a] = x
          BY <2>3, <4>2
        <5> QED BY <5>1
      <4> QED BY <4>1, <4>2
    <3> HIDE DEF h
    <3> QED BY <3>2, <3>3, <3>4
  <2> QED BY <2>4, <2>5
<1> HIDE DEF P
<1>3. T = {}
  <2> SUFFICES ASSUME T # {} PROVE FALSE
    OBVIOUS
  <2>1. PICK k \in T : \A j \in T : k <= j
    BY HasMin, ZenonT(30)
  <2>2. k \in Nat /\ ~ P(k) /\ k # 0
    BY <1>1
  <2>3. k - 1 \in Nat /\ k - 1 \notin T
    BY <2>1, <2>2
  <2>4. P(k - 1)
    BY <2>3
  <2>5. P((k - 1) + 1)
    BY <1>2, <2>3, <2>4
  <2> QED BY <2>2, <2>5
<1>4. P(n)
  BY <1>3
<1> QED BY <1>4, ZenonT(30) DEF P

(* Every list has one that is left without the handlers to be removed.     *)
LEMMA WithoutExists ==
  ASSUME NEW s \in Seq(Handlers), NEW ids
  PROVE  \E r : r \in Without(s, ids)
<1> DEFINE S == {k \in DOMAIN s : s[k].id \notin ids}
<1>1. Len(s) \in Nat /\ S \in SUBSET (1..Len(s))
  OBVIOUS
<1> HIDE DEF S
<1>2. PICK m \in 0..Len(s) : \E f \in [1..m -> S] :
        /\ \A a, b \in 1..m : a < b => f[a] < f[b]
        /\ \A x \in S : \E a \in 1..m : f[a] = x
  BY <1>1, ListedInOrder, ZenonT(30)
<1>3. PICK f \in [1..m -> S] : /\ \A a, b \in 1..m : a < b => f[a] < f[b]
                               /\ \A x \in S : \E a \in 1..m : f[a] = x
  BY <1>2
<1>4. DOMAIN f = 1..m /\ f \in UNION {[1..n -> S] : n \in 0..Len(s)}
  OBVIOUS
<1>5. f \in InOrder(S, Len(s))
  BY <1>3, <1>4 DEF InOrder
<1> QED BY <1>5, ZenonT(30) DEF Without, S
=============================================================================

---------------------------- MODULE EventEmitter ----------------------------
(***************************************************************************)
(* The event emitter of the network package (network/events.go): several   *)
(* goroutines register and remove handlers and fire events at the same     *)
(* time.  Fire takes a snapshot of the handlers under a read lock, takes   *)
(* an Event from a free list of a few events (or allocates one), calls the *)
(* handlers without any lock, removes the one-shot handlers it has called  *)
(* and returns the Event.  The free list is a bit mask that is loaded,     *)
(* and changed by a compare-and-swap, in two atomic steps.                 *)
(*                                                                         *)
(* A goroutine fires one event at a time, so its name stands for the       *)
(* argument of its event.  Handlers that fire events themselves behave as  *)
(* other goroutines do.                                                    *)
(***************************************************************************)
EXTENDS Naturals, Sequences

CONSTANTS
  Goroutines,   \* those that fire events
  None,         \* the argument of an event that is not in use
  PoolSize,     \* len(EventEmitter.epool)
  MaxHandlers   \* bound on the handlers registered in a behaviour

VARIABLES
  id,        \* EventEmitter.id
  handlers,  \* EventEmitter.handlers, newest first, as [id, once]
  emask,     \* EventEmitter.emask, the events in use
  epool,     \* EventEmitter.epool: the argument of every event
  pc,        \* where each goroutine is in Fire
  arr,       \* arr1 and arr2 of Fire
  mask,      \* m of newEvent and freeEvent
  slot,      \* the event of the goroutine, PoolSize for one of its own
  ht,        \* the topic whose handlers are being called
  i,         \* how many of them have been called
  ran,       \* history: the handlers that have been called
  spent      \* history: the one-shot handlers called by a Fire that has returned

listVars == <<id, handlers>>
poolVars == <<emask, epool, mask, slot>>
callVars == <<arr, ht, i, ran, spent>>
vars == <<listVars, poolVars, callVars, pc>>

Pool == 0..(PoolSize - 1)
Topics == {"*", "event"}

(* The catch-all handlers are called first.                                *)
Empty == [t \in Topics |-> <<>>]
First(a) == IF a["*"] # <<>> THEN "*" ELSE "event"

Init ==
  /\ id = 0 /\ handlers = Empty
  /\ emask = {} /\ epool = [b \in Pool |-> None]
  /\ pc = [g \in Goroutines |-> "idle"]
  /\ arr = [g \in Goroutines |-> Empty]
  /\ mask = [g \in Goroutines |-> {}]
  /\ slot = [g \in Goroutines |-> PoolSize]
  /\ ht = [g \in Goroutines |-> "*"]
  /\ i = [g \in Goroutines |-> 0]
  /\ ran = {} /\ spent = {}

Goto(g, l) == pc' = [pc EXCEPT ![g] = l]
-----------------------------------------------------------------------------
(* On and Once, Off and OffAll, under the write lock.                      *)

addHandler(t, once) ==
  /\ id < MaxHandlers
  /\ id' = id + 1
  /\ handlers' = [handlers EXCEPT ![t] = <<[id |-> id + 1, once |-> once]>> \o @]
  /\ UNCHANGED <<poolVars, callVars, pc>>

(* A set of indices up to n, in order: there is one such list of them.     *)
InOrder(S, n) ==
  {f \in UNION {[1..m -> S] : m \in 0..n} :
     /\ \A a, b \in DOMAIN f : a < b => f[a] < f[b]
     /\ \A x \in S : \E a \in DOMAIN f : f[a] = x}

(* What a list becomes: the handlers not among these ids, in their order.  *)
Without(s, ids) ==
  {[k \in DOMAIN f |-> s[f[k]]] :
     f \in InOrder({k \in DOMAIN s : s[k].id \notin ids}, Len(s))}

Off(t, n) ==
  /\ \E s \in Without(handlers[t], {n}) : handlers' = [handlers EXCEPT ![t] = s]
  /\ UNCHANGED <<id, poolVars, callVars, pc>>

(* It panics on an emitter that never had a handler.                       *)
OffAll(t) ==
  /\ id > 0
  /\ handlers' = [handlers EXCEPT ![t] = <<>>]
  /\ UNCHANGED <<id, poolVars, callVars, pc>>
-----------------------------------------------------------------------------
(* Fire returns false at once if there are no handlers.                    *)
Fire(g) ==
  /\ pc[g] = "idle" /\ handlers # Empty
  /\ arr' = [arr EXCEPT ![g] = handlers]
  /\ ht' = [ht EXCEPT ![g] = First(handlers)]
  /\ Goto(g, "new")
  /\ UNCHANGED <<listVars, poolVars, i, ran, spent>>

newEventLoad(g) ==
  /\ pc[g] = "new"
  /\ mask' = [mask EXCEPT ![g] = emask]
  /\ Goto(g, "newCAS")
  /\ UNCHANGED <<listVars, emask, epool, slot, callVars>>

(* One attempt only, for the first event that was free when the mask was   *)
(* loaded; an event of its own is allocated when it fails.                 *)
newEventCAS(g) ==
  /\ pc[g] = "newCAS"
  /\ IF Pool \ mask[g] # {} /\ emask = mask[g]
     THEN \E b \in Pool \ mask[g] :
            /\ \A a \in Pool \ mask[g] : b <= a
            /\ emask' = emask \cup {b}
            /\ slot' = [slot EXCEPT ![g] = b]
     ELSE UNCHANGED <<emask, slot>>
  /\ Goto(g, "set")
  /\ UNCHANGED <<listVars, epool, mask, callVars>>

SetArg(g) ==
  /\ pc[g] = "set"
  /\ epool' = IF slot[g] \in Pool THEN [epool EXCEPT ![slot[g]] = g] ELSE epool
  /\ Goto(g, "call")
  /\ UNCHANGED <<listVars, emask, mask, slot, callVars>>

List(g) == arr[g][ht[g]]
Called(g) == SubSeq(List(g), 1, i[g])

(* fire calls the next handler, which may prevent the next ones.           *)
Call(g) ==
  /\ pc[g] = "call"
  /\ i' = [i EXCEPT ![g] = @ + 1]
  /\ ran' = ran \cup {List(g)[i[g] + 1].id}
  /\ \/ i[g] + 1 < Len(List(g)) /\ UNCHANGED pc
     \/ i[g] + 1 = Len(List(g)) /\ Goto(g, "offOnce")
     \/ Goto(g, "prevented")
  /\ UNCHANGED <<listVars, poolVars, arr, ht, spent>>

(* Mutant: also removes one-shot handlers newer than the snapshot.         *)
Spent_Newer(g) ==
  {n \in 1..id : /\ n >= Called(g)[i[g]].id
                 /\ \E k \in DOMAIN handlers[ht[g]] :
                      handlers[ht[g]][k].id = n /\ handlers[ht[g]][k].once}

(* The one-shot handlers offOnce removes: those in the range of ids from   *)
(* the last handler called to the first.                                   *)
Spent(g) ==
  {n \in 1..id : /\ n >= Called(g)[i[g]].id /\ n <= List(g)[1].id
                 /\ \E k \in DOMAIN handlers[ht[g]] :
                      handlers[ht[g]][k].id = n /\ handlers[ht[g]][k].once}

(* offOnce, if one of the called handlers is a one-shot handler, and then  *)
(* the handlers of the event's own topic unless a handler prevents it.     *)
offOnce(g) ==
  LET any == \E k \in 1..i[g] : Called(g)[k].once
      more == pc[g] = "offOnce" /\ ht[g] = "*" /\ arr[g]["event"] # <<>> IN
  /\ pc[g] \in {"offOnce", "prevented"}
  /\ IF any
     THEN \E s \in Without(handlers[ht[g]], Spent(g)) : handlers' = [handlers EXCEPT ![ht[g]] = s]
     ELSE UNCHANGED handlers
  /\ spent' = spent \cup {Called(g)[k].id : k \in {l \in 1..i[g] : Called(g)[l].once}}
  /\ i' = [i EXCEPT ![g] = 0]
  /\ ht' = [ht EXCEPT ![g] = IF more THEN "event" ELSE "*"]
  /\ arr' = [arr EXCEPT ![g] = IF more THEN @ ELSE Empty]
  /\ Goto(g, IF more THEN "call" ELSE "clear")
  /\ UNCHANGED <<id, poolVars, ran>>

(* Mutant: gives the event back without clearing it.                       *)
freeEventClear_Not(g) ==
  /\ pc[g] = "clear"
  /\ Goto(g, IF slot[g] \in Pool THEN "free" ELSE "idle")
  /\ UNCHANGED <<listVars, poolVars, callVars>>

(* freeEvent clears the event and then gives it back.                      *)
freeEventClear(g) ==
  /\ pc[g] = "clear"
  /\ epool' = IF slot[g] \in Pool THEN [epool EXCEPT ![slot[g]] = None] ELSE epool
  /\ Goto(g, IF slot[g] \in Pool THEN "free" ELSE "idle")
  /\ mask' = [mask EXCEPT ![g] = {}]
  /\ UNCHANGED <<listVars, emask, slot, callVars>>

freeEventLoad(g) ==
  /\ pc[g] = "free"
  /\ mask' = [mask EXCEPT ![g] = emask]
  /\ Goto(g, "freeCAS")
  /\ UNCHANGED <<listVars, emask, epool, slot, callVars>>

freeEventCAS(g) ==
  /\ pc[g] = "freeCAS"
  /\ mask' = [mask EXCEPT ![g] = {}]
  /\ IF emask = mask[g]
     THEN /\ emask' = emask \ {slot[g]}
          /\ slot' = [slot EXCEPT ![g] = PoolSize]
          /\ Goto(g, "idle")
     ELSE UNCHANGED <<emask, slot>> /\ Goto(g, "free")
  /\ UNCHANGED <<listVars, epool, callVars>>
-----------------------------------------------------------------------------
Step(g) ==
  \/ Fire(g) \/ newEventLoad(g) \/ newEventCAS(g) \/ SetArg(g) \/ Call(g) \/ offOnce(g)
  \/ freeEventClear(g) \/ freeEventLoad(g) \/ freeEventCAS(g)

Next ==
  \/ \E g \in Goroutines : Step(g)
  \/ \E t \in Topics : \/ \E once \in BOOLEAN : addHandler(t, once)
                       \/ \E n \in 1..id : Off(t, n)
                       \/ OffAll(t)

Spec == Init /\ [][Next]_vars
-----------------------------------------------------------------------------
Handlers == [id : Nat, once : BOOLEAN]

TypeOK ==
  /\ id \in Nat
  /\ handlers \in [Topics -> Seq(Handlers)]
  /\ emask \subseteq Pool /\ epool \in [Pool -> Goroutines \cup {None}]
  /\ pc \in [Goroutines -> {"idle", "new", "newCAS", "set", "call", "offOnce", "prevented",
                            "clear", "free", "freeCAS"}]
  /\ arr \in [Goroutines -> [Topics -> Seq(Handlers)]]
  /\ mask \in [Goroutines -> SUBSET Pool]
  /\ slot \in [Goroutines -> Pool \cup {PoolSize}]
  /\ ht \in [Goroutines -> Topics]
  /\ i \in [Goroutines -> Nat]
  /\ ran \subseteq Nat /\ spent \subseteq Nat

(* Two goroutines never use the same event of the pool, and exactly the    *)
(* events in use are marked in emask: no event is lost or handed out       *)
(* twice, whatever the order of the loads and the swaps.                   *)
PoolExclusive ==
  /\ \A g, h \in Goroutines : slot[g] = slot[h] /\ slot[g] \in Pool => g = h
  /\ emask = {slot[g] : g \in Goroutines} \ {PoolSize}

(* A handler sees the argument its event was fired with, and an event that *)
(* is free has been cleared.                                               *)
ArgsIntact ==
  /\ \A g \in Goroutines :
       pc[g] \in {"call", "offOnce", "prevented"} /\ slot[g] \in Pool => epool[slot[g]] = g
  /\ \A b \in Pool \ emask : epool[b] = None

(* What this step removes has been called.                                 *)
OnceNotLostStep ==
  \A g \in Goroutines : offOnce(g) =>
    \A k \in DOMAIN handlers[ht[g]] :
      LET h == handlers[ht[g]][k] IN
      (\A l \in DOMAIN handlers'[ht[g]] : handlers'[ht[g]][l].id # h.id) => h.id \in ran

(* A one-shot handler is removed by Fire only after it has been called:    *)
(* the range of ids that offOnce removes holds no other handler.           *)
OnceNotLost == [][OnceNotLostStep]_vars

(* A one-shot handler is not registered any more when a Fire that has      *)
(* called it returns: a Fire that begins later never calls it again.       *)
OnceGone == \A t \in Topics : \A k \in DOMAIN handlers[t] : handlers[t][k].id \notin spent

(* "Once an event of type a is fired, call handler h once" (events.go:     *)
(* 114): no handler that has been called is waiting to be called as a      *)
(* one-shot handler.                                                       *)
OnceRunsOnce ==
  [][\A g \in Goroutines : Call(g) =>
       LET h == List(g)[i[g] + 1] IN h.once => h.id \notin ran]_vars
=============================================================================

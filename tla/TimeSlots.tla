----------------------------- MODULE TimeSlots -----------------------------
(***************************************************************************)
(* How the game loop packs the actions of the players into TimeSlot        *)
(* packets (network/lobby/game.go: onGameAction, EnqueueAction,            *)
(* splitActions, gameloop).  The loop holds actmut over the packets of a   *)
(* turn (variable sending); every packet is one step.                      *)
(***************************************************************************)
EXTENDS Naturals, Sequences, FiniteSetsExt

CONSTANTS
  mtu,         \* the most bytes of a TimeSlot packet
  DataSizes,   \* the sizes of Data that clients send
  MaxActions,  \* bound on the actions of the behaviour
  MaxTurns     \* bound on the turns of the behaviour

VARIABLES
  actions,   \* Game.actions, as [id, size]
  sending,   \* the loop is between two packets of a turn
  slots,     \* the packets of this turn so far, as [actions, fragment]
  turns,     \* Game.tick
  accepted,  \* history: how many actions have been enqueued
  sent       \* history: the ids of the actions in the packets sent so far

vars == <<actions, sending, slots, turns, accepted, sent>>

Init == /\ actions = <<>> /\ slots = <<>>
        /\ sending = FALSE
        /\ turns = 0 /\ accepted = 0 /\ sent = <<>>

Some(S) == CHOOSE i \in S : TRUE

(* What splitActions adds up for the actions s, and the bytes of the       *)
(* packet that TimeSlot.Serialize writes for them: 4 of the packet header, *)
(* 2 of the time increment, 2 of a checksum, and for every action its      *)
(* PlayerID, a length of 2 bytes and its data.                             *)
SizeOf(s) == MapThenFoldSet(+, 0, LAMBDA i : s[i].size + 3, Some, DOMAIN s)
PacketSize(s) == 4 + 2 + 2 + MapThenFoldSet(+, 0, LAMBDA i : 1 + 2 + s[i].size, Some, DOMAIN s)

Ids(s) == [i \in DOMAIN s |-> s[i].id]

EnqueueAction(size) ==
  /\ ~sending
  /\ actions' = Append(actions, [id |-> accepted + 1, size |-> size])
  /\ accepted' = accepted + 1
  /\ UNCHANGED <<sending, slots, turns, sent>>

(* An action that is too long gets its player kicked instead.              *)
onGameAction(size) == size <= mtu - 10 /\ EnqueueAction(size)

(* A packet has room for the first i actions of the queue.                 *)
Fits(i) == SizeOf(SubSeq(actions, 1, i)) + 7 <= mtu

(* Mutant: drops what does not fit.                                        *)
splitActions_Drops ==
  \E cut \in 0..Len(actions) :
    /\ \A i \in 1..cut : Fits(i)
    /\ cut < Len(actions) => ~ Fits(cut + 1)
    /\ actions' = <<>>
    /\ slots' = Append(slots, [actions |-> SubSeq(actions, 1, cut),
                              fragment |-> cut < Len(actions)])

(* splitActions cuts the queue before the first action that exceeds the    *)
(* limit; a packet that is followed by another one is a fragment.          *)
splitActions ==
  \E cut \in 0..Len(actions) :
    /\ \A i \in 1..cut : Fits(i)
    /\ cut < Len(actions) => ~ Fits(cut + 1)
    /\ actions' = SubSeq(actions, cut + 1, Len(actions))
    /\ slots' = Append(slots, [actions |-> SubSeq(actions, 1, cut),
                              fragment |-> cut < Len(actions)])

(* The tick of a turn takes actmut and sends the first packet.             *)
BeginTurn ==
  /\ ~sending /\ turns < MaxTurns
  /\ turns' = turns + 1
  /\ sending' = TRUE
  /\ slots' = <<>> /\ UNCHANGED actions
  /\ UNCHANGED <<accepted, sent>>

(* One packet of the loop, which goes on as long as there are actions.     *)
SendSlot ==
  /\ sending
  /\ splitActions
  /\ sending' = (actions' # <<>>)
  /\ sent' = sent \o Ids(slots'[Len(slots')].actions)
  /\ UNCHANGED <<turns, accepted>>

Next == \/ BeginTurn \/ SendSlot
        \/ \E size \in DataSizes : accepted < MaxActions /\ onGameAction(size)

Spec == Init /\ [][Next]_vars

-----------------------------------------------------------------------------
Actions == [id : Nat, size : DataSizes]
Packets == [actions : Seq(Actions), fragment : BOOLEAN]

TypeOK ==
  /\ actions \in Seq(Actions)
  /\ sending \in BOOLEAN
  /\ slots \in Seq(Packets)
  /\ turns \in 0..MaxTurns
  /\ accepted \in 0..MaxActions
  /\ sent \in Seq(Nat)

(* Every accepted action is sent once, in the order of EnqueueAction: the  *)
(* queue of the game continues what the turns so far have sent.            *)
ActionsInOrder == sent \o Ids(actions) = [i \in 1..accepted |-> i]

(* Exactly the packets before the last one of a turn are fragments, and a  *)
(* packet has at most one byte more than mtu: splitActions reckons with 7  *)
(* bytes besides the actions where Serialize writes 8.  A fragment takes   *)
(* an action off the queue, so a turn ends.                                *)
SlotsFit ==
  \A i \in DOMAIN slots :
    /\ PacketSize(slots[i].actions) <= mtu + 1
    /\ slots[i].fragment = (sending \/ i < Len(slots))
    /\ slots[i].fragment => slots[i].actions # <<>>
=============================================================================

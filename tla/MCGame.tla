------------------------------- MODULE MCGame -------------------------------
(***************************************************************************)
(* Small games for TLC.  The three machines of a game are looked at one at *)
(* a time: each initial state chooses one of them, and the others stand    *)
(* still in their initial states.  The first is GameStart itself.          *)
(***************************************************************************)
EXTENDS GameStart, Sequences

CONSTANTS Setups, LagObservers, Shown, DropAfter, LagTimeout,
          mtu, DataSizes, MaxActions, MaxTurns,
          c1, c2, c3     \* the clients of the small games

(* The players of a game are among the clients; a lag screen appears with  *)
(* a positive duration.                                                    *)
ASSUME LagAssumption ==
  /\ Setups \subseteq [players : SUBSET Clients, observers : SUBSET Clients,
                       pinged : SUBSET Clients]
  /\ Shown \in Nat \ {0} /\ DropAfter \in Nat /\ LagTimeout \in Nat

VARIABLES machine,
          observers, reading, readers, connected, ping, lag, laggers, dropmask, screen, voted,
          actions, sending, slots, turns, accepted, sent

(* Two players who may lag, or an observer and a player, or a player who   *)
(* may lag and two who do not.                                             *)
Game(seated, watching, pinged) == [players |-> seated, observers |-> watching, pinged |-> pinged]
SmallGames == {Game({c1, c2}, {}, {c1, c2}), Game({c1, c2}, {c2}, {c1, c2}),
               Game({c1, c2, c3}, {}, {c1})}

Lag == INSTANCE LagScreen WITH pc <- reading, players <- readers, open <- connected

Slots == INSTANCE TimeSlots

lagVars == <<observers, reading, readers, connected, ping, lag, laggers, dropmask, screen, voted>>
slotVars == <<actions, sending, slots, turns, accepted, sent>>

MCInit ==
  /\ machine \in {"start", "lag", "slots"}
  /\ Init /\ Lag!Init /\ Slots!Init
  /\ machine # "lag" => readers = {c1, c2} /\ observers = {}

MCNext ==
  /\ UNCHANGED machine
  /\ \/ machine = "start" /\ Next /\ UNCHANGED <<lagVars, slotVars>>
     \/ machine = "lag" /\ Lag!Next /\ UNCHANGED <<vars, slotVars>>
     \/ machine = "slots" /\ Slots!Next /\ UNCHANGED <<vars, lagVars>>

(* The fairness of GameStart and of LagScreen (c3 is never pinged).        *)
MCSpec ==
  /\ MCInit /\ [][MCNext]_<<machine, vars, lagVars, slotVars>>
  /\ WF_vars(machine = "start" /\ (Play \/ Done))
  /\ \A c \in Clients :
       /\ WF_vars(machine = "start" /\ ReadyTimeout(c))
       /\ WF_vars(machine = "start" /\ LoadTimeout(c))
       /\ WF_vars(machine = "start" /\ Goroutine(c))
  /\ WF_lagVars(machine = "lag" /\ (Lag!newScreen \/ Lag!incLaggers))
  /\ \A c \in Clients :
       /\ WF_lagVars(machine = "lag" /\ Lag!Pinger(c))
       /\ WF_lagVars(machine = "lag" /\ Lag!Reader(c))
  /\ \A c \in {c1, c2} : SF_lagVars(machine = "lag" /\ Lag!StopPing(c))

(* LagScreen: the clients' lag screens show the laggers whose time runs.   *)
ScreenMatches == Lag!ScreenMatches

(* LagScreen: before LagTimeout, dropping takes everybody's fresh vote.    *)
DroppedByVote == [][Lag!DroppedByVoteStep]_lagVars

(* LagScreen: every lagger recovers or is removed.                         *)
LaggersAreResolved == Lag!LaggersAreResolved

(* TimeSlots: every action is sent once and in order.                      *)
ActionsInOrder == Slots!ActionsInOrder
=============================================================================

------------------------------ MODULE GameAcks ------------------------------
(***************************************************************************)
(* How a running game compares what its players compute                    *)
(* (network/lobby/game.go, player.go).  Every player acknowledges every    *)
(* turn with a checksum of its state.  The acknowledgements wait in a      *)
(* queue per player; ackmask holds the players the game is waiting for,    *)
(* and when it becomes empty drainAcks takes one acknowledgement from      *)
(* every queue, round after round, and drops the players that disagree.    *)
(*                                                                         *)
(* A player's goroutine first queues the acknowledgement under the         *)
(* player's own mutex (onTimeSlotAck) and then handles the Tick event      *)
(* under Game.ackmut (onGameTick): two steps.  drainAcks holds ackmut and  *)
(* slotmut over all its rounds (variable drainer); a round is one step,    *)
(* because an acknowledgement queued in the middle of a round commutes     *)
(* with the reads of the other queues.                                     *)
(***************************************************************************)
EXTENDS Integers, Sequences, FiniteSets

CONSTANTS
  Clients,     \* connections; each is in one game at most once
  Nobody,      \* an absent entry of Lobby.players, or no goroutine
  IDs,         \* the PlayerIDs there are slots for
  Setups,      \* the lobbies and turn rates that a game may begin with
  Checksums,   \* the checksums that acknowledgements may carry
  QueueCap,    \* len(Player.ackarr)
  MaxTick      \* bound on the turns of the game

VARIABLES
  setup,     \* the lobby and the turn rate of this game
  players,   \* Lobby.players
  pid,       \* PlayerID of each client, 0 before it joins
  pc,        \* where the goroutine of each client is
  closed,    \* the connection is closed or broken
  ackq,      \* Player.ackarr, from ackidx, acklen long
  ptick,     \* Player.tick
  queued,    \* the queue length the Tick event of the player carries
  locked,    \* Lobby.locked: Game.Start has been called
  tick,      \* Game.tick
  ackmask,   \* Game.ackmask
  drainer,   \* the client whose goroutine is in drainAcks' loop, or Nobody
  panicked,  \* drainAcks has panicked: the process is gone
  straggled  \* history: stragglers have been dropped

vars == <<setup, players, pid, pc, closed, ackq, ptick, queued, locked, tick, ackmask,
          drainer, panicked, straggled>>

ASSUME AcksAssumption ==
  /\ IDs \subseteq 1..32 /\ IDs # {}
  /\ Nobody \notin Clients
  /\ Setups \subseteq [seated : [Clients -> IDs \cup {0}], observers : SUBSET Clients,
                      limit : Nat \ {0}]
  /\ \A s \in Setups : \A c, d \in Clients :
       s.seated[c] = s.seated[d] => c = d \/ s.seated[c] = 0
  /\ {QueueCap, MaxTick} \subseteq Nat \ {0}

(* PlayerID of the clients who are in the lobby at first, else 0; the      *)
(* clients whose slot is on ObsTeam; and the queue length from which       *)
(* stragglers are dropped, which depends on TurnRate.                      *)
Seated == setup.seated
Observers == setup.observers
QueueLimit == setup.limit

Registered == {c \in Clients : pid[c] # 0 /\ players[pid[c]] = c}

(* Nobody is in drainAcks' loop, which holds both mutexes.                 *)
MutexesFree == drainer = Nobody
-----------------------------------------------------------------------------
Init ==
  /\ setup \in Setups
  /\ pid = Seated
  /\ players = [p \in IDs |-> IF \E c \in Clients : Seated[c] = p
                              THEN CHOOSE c \in Clients : Seated[c] = p ELSE Nobody]
  /\ pc = [c \in Clients |-> IF Seated[c] = 0 THEN "idle" ELSE "reading"]
  /\ closed = [c \in Clients |-> FALSE]
  /\ ackq = [c \in Clients |-> <<>>]
  /\ ptick = [c \in Clients |-> 0]
  /\ queued = [c \in Clients |-> 0]
  /\ locked = FALSE
  /\ tick = 0
  /\ ackmask = {Seated[c] : c \in Clients} \ {0}
  /\ drainer = Nobody
  /\ panicked = FALSE /\ straggled = FALSE

connVars == <<pid, closed, locked, tick>>
queueVars == <<ackq, ptick, queued>>
-----------------------------------------------------------------------------
(* Entering and leaving.  JoinAndServe registers the player under slotmut; *)
(* the PlayerJoined event is fired afterwards by the new goroutine.        *)

Join(c) ==
  /\ pc[c] = "idle" /\ ~locked /\ MutexesFree
  /\ \E p \in IDs :
       /\ players[p] = Nobody /\ \A q \in IDs : players[q] = Nobody => p <= q
       /\ players' = [players EXCEPT ![p] = c]
       /\ pid' = [pid EXCEPT ![c] = p]
  /\ pc' = [pc EXCEPT ![c] = "joined"]
  /\ UNCHANGED <<closed, queueVars, locked, tick, ackmask, drainer, panicked, straggled>>

onPlayerJoined(c) ==
  /\ pc[c] = "joined" /\ MutexesFree
  /\ ackmask' = ackmask \cup {pid[c]}
  /\ pc' = [pc EXCEPT ![c] = "reading"]
  /\ UNCHANGED <<players, connVars, queueVars, drainer, panicked, straggled>>

(* Game.Start needs every player to be ready, which none is before its     *)
(* goroutine has read the first packets; from then on nobody can join.     *)
Start ==
  /\ ~locked /\ MutexesFree
  /\ \A c \in Registered : pc[c] # "joined"
  /\ locked' = TRUE
  /\ UNCHANGED <<players, pid, pc, closed, queueVars, tick, ackmask, drainer, panicked, straggled>>

(* The game loop sends the next turn to all players.                       *)
Tick ==
  /\ locked /\ tick < MaxTick
  /\ tick' = tick + 1
  /\ UNCHANGED <<players, pid, pc, closed, queueVars, locked, ackmask, drainer, panicked, straggled>>

(* The client hangs up, the connection fails, or somebody kicks the player. *)
Disconnect(c) ==
  /\ pc[c] \in {"joined", "reading", "ticking"}
  /\ closed' = [closed EXCEPT ![c] = TRUE]
  /\ UNCHANGED <<players, pid, pc, queueVars, locked, tick, ackmask, drainer, panicked, straggled>>

(* Lobby.onLeave, after which the goroutine fires PlayerLeft.              *)
onLeave(c) ==
  /\ pc[c] = "reading" /\ closed[c] /\ MutexesFree
  /\ players' = [players EXCEPT ![pid[c]] = Nobody]
  /\ pc' = [pc EXCEPT ![c] = "left"]
  /\ UNCHANGED <<connVars, queueVars, ackmask, drainer, panicked, straggled>>
-----------------------------------------------------------------------------
(* Acknowledgements.                                                       *)

(* The event handler of c's goroutine returns.                             *)
Return(c) == pc' = [pc EXCEPT ![c] = IF @ = "left" THEN "gone" ELSE "reading"]

(* drainAcks up to its loop, called by c's goroutine with mask in ackmask. *)
drainAcks(c, mask) ==
  /\ ackmask' = mask \ {pid[c]}
  /\ IF pid[c] \in mask /\ ackmask' = {}
     THEN drainer' = c /\ UNCHANGED pc
     ELSE Return(c) /\ UNCHANGED drainer

(* Mutant: players and observers have the same weight.                     *)
Extra_None == 1

(* "Players count extra" in desync: 0xFF votes, an observer has one.       *)
Extra == 255

Votes(a) ==
  LET voters == {c \in Registered : Head(ackq[c]) = a}
  IN  Extra * Cardinality(voters \ Observers) + Cardinality(voters \cap Observers)

(* The checksums desync may settle on: those with the most votes.  Which   *)
(* of several it is depends on the iteration order of the players map.     *)
Majority == {a \in Checksums : \A b \in Checksums : Votes(a) >= Votes(b)}

CouldNotDequeue == \E c \in Registered : ackq[c] = <<>>

(* Mutant: drains one round only.                                          *)
drainRound_Once ==
  LET emptied == {c \in Registered : Len(ackq[c]) = 1} IN
  /\ drainer # Nobody /\ ~CouldNotDequeue
  /\ ackq' = [c \in Clients |-> IF c \in Registered THEN Tail(ackq[c]) ELSE ackq[c]]
  /\ ackmask' = {pid[c] : c \in emptied}
  /\ drainer' = Nobody /\ Return(drainer)
  /\ UNCHANGED <<players, pid, closed, ptick, queued, locked, tick, panicked, straggled>>

(* Mutant: marks players who have one more acknowledgement in the queue.   *)
drainRound_MarksEarly ==
  LET emptied == {c \in Registered : Len(ackq[c]) <= 2} IN
  /\ drainer # Nobody /\ ~CouldNotDequeue
  /\ ackq' = [c \in Clients |-> IF c \in Registered THEN Tail(ackq[c]) ELSE ackq[c]]
  /\ \E max \in Majority :
       LET dropped == {c \in Registered : Head(ackq[c]) # max} IN
       /\ closed' = [c \in Clients |-> closed[c] \/ c \in dropped]
       /\ players' = [p \in IDs |-> IF players[p] \in dropped THEN Nobody ELSE players[p]]
       /\ ackmask' = {pid[c] : c \in emptied \ dropped}
  /\ IF ackmask' = {} /\ Registered # {}
     THEN UNCHANGED <<drainer, pc>>
     ELSE drainer' = Nobody /\ Return(drainer)
  /\ UNCHANGED <<pid, ptick, queued, locked, tick, panicked, straggled>>

(* One round of the loop.  The players who disagree are kicked and         *)
(* deleted at once; without any player left the loop ends.                 *)
drainRound ==
  LET emptied == {c \in Registered : Len(ackq[c]) = 1} IN
  /\ drainer # Nobody /\ ~CouldNotDequeue
  /\ ackq' = [c \in Clients |-> IF c \in Registered THEN Tail(ackq[c]) ELSE ackq[c]]
  /\ \E max \in Majority :
       LET dropped == {c \in Registered : Head(ackq[c]) # max} IN
       /\ closed' = [c \in Clients |-> closed[c] \/ c \in dropped]
       /\ players' = [p \in IDs |-> IF players[p] \in dropped THEN Nobody ELSE players[p]]
       /\ ackmask' = {pid[c] : c \in emptied \ dropped}
  /\ IF ackmask' = {} /\ Registered # {}
     THEN UNCHANGED <<drainer, pc>>
     ELSE drainer' = Nobody /\ Return(drainer)
  /\ UNCHANGED <<pid, ptick, queued, locked, tick, panicked, straggled>>

(* panic("lobby: Could not dequeue ack")                                   *)
drainPanic ==
  /\ drainer # Nobody /\ CouldNotDequeue
  /\ panicked' = TRUE
  /\ UNCHANGED <<players, connVars, pc, queueVars, ackmask, drainer, straggled>>

(* Mutant: a full queue loses its first acknowledgement to the new one.    *)
onTimeSlotAck_Overwrites(c, a) ==
  LET full == Len(ackq[c]) >= QueueCap IN
  /\ pc[c] = "reading" /\ ~closed[c]
  /\ ackq' = [ackq EXCEPT ![c] = Append(IF full THEN Tail(@) ELSE @, a)]
  /\ ptick' = [ptick EXCEPT ![c] = @ + 1]
  /\ queued' = [queued EXCEPT ![c] = Len(ackq'[c])]
  /\ pc' = [pc EXCEPT ![c] = "ticking"]
  /\ UNCHANGED <<players, connVars, ackmask, drainer, panicked, straggled>>

(* Player.onTimeSlotAck: a player whose queue is full is kicked.           *)
onTimeSlotAck(c, a) ==
  /\ pc[c] = "reading" /\ ~closed[c]
  /\ \/ /\ Len(ackq[c]) >= QueueCap
        /\ closed' = [closed EXCEPT ![c] = TRUE]
        /\ UNCHANGED <<queueVars, pc>>
     \/ /\ Len(ackq[c]) < QueueCap
        /\ ackq' = [ackq EXCEPT ![c] = Append(@, a)]
        /\ ptick' = [ptick EXCEPT ![c] = @ + 1]
        /\ queued' = [queued EXCEPT ![c] = Len(ackq[c]) + 1]
        /\ pc' = [pc EXCEPT ![c] = "ticking"]
        /\ UNCHANGED closed
  /\ UNCHANGED <<players, pid, locked, tick, ackmask, drainer, panicked, straggled>>

(* The players the game waits for, all dropped by a straggler check.       *)
Stragglers == {c \in Registered : pid[c] \in ackmask}

(* Game.onGameTick: an acknowledgement of a turn that has not been sent,   *)
(* one that fills the queue so far that the stragglers are dropped (and    *)
(* ackmask is set to 0), and any other.                                    *)
onGameTick(c) ==
  /\ pc[c] = "ticking"
  /\ \/ /\ ptick[c] > tick
        /\ closed' = [closed EXCEPT ![c] = TRUE]
        /\ Return(c)
        /\ UNCHANGED <<players, ackmask, drainer, straggled>>
     \/ /\ ptick[c] <= tick /\ MutexesFree /\ queued[c] >= QueueLimit
        /\ closed' = [d \in Clients |-> closed[d] \/ d \in Stragglers]
        /\ players' = [p \in IDs |-> IF players[p] \in Stragglers THEN Nobody ELSE players[p]]
        /\ drainAcks(c, {})
        /\ straggled' = TRUE
     \/ /\ ptick[c] <= tick /\ MutexesFree /\ queued[c] < QueueLimit
        /\ drainAcks(c, ackmask)
        /\ UNCHANGED <<players, closed, straggled>>
  /\ UNCHANGED <<pid, queueVars, locked, tick, panicked>>

(* Mutant: nobody tells drainAcks that a player has left.                  *)
onPlayerLeft_Forgets(c) ==
  /\ pc[c] = "left" /\ MutexesFree
  /\ Return(c)
  /\ UNCHANGED <<players, connVars, queueVars, ackmask, drainer, panicked, straggled>>

onPlayerLeft(c) ==
  /\ pc[c] = "left" /\ MutexesFree
  /\ drainAcks(c, ackmask)
  /\ UNCHANGED <<players, connVars, queueVars, panicked, straggled>>
-----------------------------------------------------------------------------
Client(c) ==
  \/ Join(c) \/ onPlayerJoined(c) \/ Disconnect(c) \/ onLeave(c) \/ onPlayerLeft(c)
  \/ (\E a \in Checksums : onTimeSlotAck(c, a)) \/ onGameTick(c)

Next == /\ ~panicked /\ UNCHANGED setup
        /\ \/ Start \/ Tick \/ drainRound \/ drainPanic
           \/ \E c \in Clients : Client(c)

Spec == Init /\ [][Next]_vars

Goroutine(c) == onPlayerJoined(c) \/ onGameTick(c) \/ onLeave(c) \/ onPlayerLeft(c)

(* The goroutines keep running.  Nothing is assumed of the clients, the    *)
(* host or the clock.                                                      *)
FairSpec ==
  /\ Spec
  /\ WF_vars(UNCHANGED setup /\ (drainRound \/ drainPanic))
  /\ \A c \in Clients : WF_vars(UNCHANGED setup /\ Goroutine(c))
-----------------------------------------------------------------------------
TypeOK ==
  /\ setup \in Setups
  /\ players \in [IDs -> Clients \cup {Nobody}]
  /\ pid \in [Clients -> IDs \cup {0}]
  /\ pc \in [Clients -> {"idle", "joined", "reading", "ticking", "left", "gone"}]
  /\ closed \in [Clients -> BOOLEAN]
  /\ ackq \in [Clients -> Seq(Checksums)]
  /\ \A c \in Clients : Len(ackq[c]) <= QueueCap
  /\ ptick \in [Clients -> Nat]
  /\ queued \in [Clients -> 0..QueueCap]
  /\ locked \in BOOLEAN
  /\ tick \in 0..MaxTick
  /\ ackmask \subseteq IDs
  /\ drainer \in Clients \cup {Nobody}
  /\ panicked \in BOOLEAN /\ straggled \in BOOLEAN

(* drainAcks, which panics when a queue is empty, finds an acknowledgement *)
(* of every player whenever nobody is marked in ackmask.                   *)
NoPanic == ~panicked

(* A client's goroutine still has to run onPlayerLeft.                     *)
Alive(c) == pc[c] \in {"joined", "reading", "ticking", "left"}

(* The game waits only for players whose goroutine is still there to       *)
(* acknowledge or to leave, so a player who is gone never blocks the rest. *)
WaitsForTheLiving == \A p \in ackmask : \E c \in Clients : pid[c] = p /\ Alive(c)

(* All players have had equally many acknowledgements compared: a round    *)
(* compares checksums of the same turn, in spite of drops, full queues and *)
(* acknowledgements that arrive during a round.                            *)
ComparesSameTurn ==
  (\A c \in Clients : Seated[c] # 0) =>
    \A c, d \in Registered : ptick[c] - Len(ackq[c]) = ptick[d] - Len(ackq[d])

(* The registered players whose PlayerJoined event has been handled.       *)
Playing == {c \in Registered : pc[c] # "joined"}

(* As long as no stragglers have been dropped, which clears ackmask, the   *)
(* game waits for one of its players or is comparing: ackmask never        *)
(* becomes empty outside drainAcks while there are players.                *)
WaitsForSomeone == ~straggled /\ MutexesFree /\ Playing # {} => ackmask # {}

(* Observers cannot have players dropped: a player is dropped in a round   *)
(* only if another player (not an observer) computed something else.       *)
ObserversDoNotDecide ==
  [][drainRound => \A c \in Registered \ Observers :
       players'[pid[c]] # c =>
         \E d \in Registered \ Observers : Head(ackq[d]) # Head(ackq[c])]_vars

(* Once every player has acknowledged a turn the checksums are compared,   *)
(* unless stragglers are dropped.                                          *)
AllAcked == Registered # {} /\ \A c \in Registered : ackq[c] # <<>>
AcksAreCompared == AllAcked ~> ~AllAcked \/ panicked \/ straggled
=============================================================================

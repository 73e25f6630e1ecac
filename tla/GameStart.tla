----------------------------- MODULE GameStart -----------------------------
(***************************************************************************)
(* How a lobby becomes a running game and how the game ends                *)
(* (network/lobby/game.go: Start, swapStage; player.go: readiness; the     *)
(* goroutine of a player in lobby.go: JoinAndServe, onLeave).              *)
(*                                                                         *)
(* Start registers two one-shot handlers per player, counts the players in *)
(* a wait group and arms a timer per player.  The handler of GameLoaded    *)
(* counts its player down.  The handler of RunStop, which a goroutine runs *)
(* when its connection is over, counts down a player who has not loaded    *)
(* and then holds the goroutine until everybody else has loaded.           *)
(*                                                                         *)
(* Time is not modelled: a timer that is armed may fire at any moment.     *)
(***************************************************************************)
EXTENDS Naturals, FiniteSets

CONSTANTS
  Clients,     \* connections; each joins at most once
  TurnRate     \* Game.TurnRate; with 0 there is no game loop

VARIABLES
  stage,       \* Game.stage
  locked,      \* Lobby.locked
  players,     \* the clients in Lobby.players
  pc,          \* where the goroutine of each client is
  open,        \* the connection is open
  ready,       \* Player.ready: the map has been found
  rtt,         \* Player.rtt is known
  readyTimer,  \* the timer of JoinAndServe is armed
  loadTimer,   \* the timer of Start is armed
  onLoaded,    \* Start's handler of GameLoaded is registered
  onStop,      \* Start's handler of RunStop is registered
  wg           \* the counter of Start's wait group

connVars == <<players, pc, open, ready, rtt>>
handlers == <<loadTimer, onLoaded, onStop, wg>>
vars == <<stage, locked, connVars, readyTimer, handlers>>

none == [c \in Clients |-> FALSE]

Init ==
  /\ stage = "Lobby"
  /\ locked = FALSE
  /\ players = {}
  /\ pc = [c \in Clients |-> "idle"]
  /\ open = [c \in Clients |-> TRUE]
  /\ ready = none /\ rtt = none
  /\ readyTimer = none
  /\ loadTimer = none /\ onLoaded = none /\ onStop = none
  /\ wg = 0

Ready(c) == ready[c] /\ rtt[c]
-----------------------------------------------------------------------------
(* A client in the lobby.                                                  *)

Join(c) ==
  /\ pc[c] = "idle" /\ ~locked
  /\ players' = players \cup {c}
  /\ pc' = [pc EXCEPT ![c] = "running"]
  /\ readyTimer' = [readyTimer EXCEPT ![c] = TRUE]
  /\ UNCHANGED <<stage, locked, open, ready, rtt, handlers>>

(* The goroutine of c has read a packet.                                   *)
Reads(c) == pc[c] = "running" /\ open[c]

(* The event Ready, fired by whichever of the two packets comes second,    *)
(* stops the timer.                                                        *)
onPong(c) ==
  /\ Reads(c) /\ ~rtt[c]
  /\ rtt' = [rtt EXCEPT ![c] = TRUE]
  /\ readyTimer' = [readyTimer EXCEPT ![c] = @ /\ ~ready[c]]
  /\ UNCHANGED <<stage, locked, players, pc, open, ready, handlers>>

(* A player who misses the map is kicked.                                  *)
onMapState(c, found) ==
  /\ Reads(c) /\ ~ready[c]
  /\ ready' = [ready EXCEPT ![c] = found]
  /\ open' = [open EXCEPT ![c] = found]
  /\ readyTimer' = [readyTimer EXCEPT ![c] = @ /\ ~(found /\ rtt[c])]
  /\ UNCHANGED <<stage, locked, players, pc, rtt, handlers>>

ReadyTimeout(c) ==
  /\ readyTimer[c]
  /\ readyTimer' = [readyTimer EXCEPT ![c] = FALSE]
  /\ open' = [open EXCEPT ![c] = FALSE]
  /\ UNCHANGED <<stage, locked, players, pc, ready, rtt, handlers>>

(* The client leaves, the connection breaks, or somebody kicks the player. *)
Disconnect(c) ==
  /\ pc[c] # "idle" /\ open[c]
  /\ open' = [open EXCEPT ![c] = FALSE]
  /\ UNCHANGED <<stage, locked, players, pc, ready, rtt, readyTimer, handlers>>
-----------------------------------------------------------------------------
(* The game.                                                               *)

swapStage(old, new) == stage = old /\ stage' = new

(* Start holds slotmut throughout; it returns ErrNotReady or ErrLocked     *)
(* without a change in the other cases.                                    *)
Start ==
  /\ \A c \in players : Ready(c)
  /\ swapStage("Lobby", "Loading")
  /\ wg' = Cardinality(players)
  /\ loadTimer' = [c \in Clients |-> c \in players]
  /\ onLoaded' = [c \in Clients |-> c \in players]
  /\ onStop' = [c \in Clients |-> c \in players]
  /\ locked' = TRUE
  /\ UNCHANGED <<connVars, readyTimer>>

LoadTimeout(c) ==
  /\ loadTimer[c]
  /\ loadTimer' = [loadTimer EXCEPT ![c] = FALSE]
  /\ open' = [open EXCEPT ![c] = FALSE]
  /\ UNCHANGED <<stage, locked, players, pc, ready, rtt, readyTimer, onLoaded, onStop, wg>>

(* The event GameLoaded runs Start's handler if it still is registered.    *)
FireGameLoaded(c) ==
  /\ wg' = IF onLoaded[c] THEN wg - 1 ELSE wg
  /\ loadTimer' = [loadTimer EXCEPT ![c] = @ /\ ~onLoaded[c]]
  /\ onLoaded' = [onLoaded EXCEPT ![c] = FALSE]

GameLoaded(c) ==
  /\ Reads(c)
  /\ FireGameLoaded(c)
  /\ UNCHANGED <<stage, locked, connVars, readyTimer, onStop>>

(* Mutant: a player who hangs up while loading is not counted down.        *)
RunStop_Uncounted(c) ==
  /\ pc[c] = "running" /\ ~open[c]
  /\ pc' = [pc EXCEPT ![c] = IF onStop[c] THEN "waiting" ELSE "ended"]
  /\ UNCHANGED <<stage, locked, players, open, ready, rtt, readyTimer, handlers>>

(* Mutant: a player who hangs up while loading does not wait.              *)
RunStop_Leaves(c) ==
  /\ pc[c] = "running" /\ ~open[c]
  /\ pc' = [pc EXCEPT ![c] = "ended"]
  /\ IF onStop[c] THEN FireGameLoaded(c) ELSE UNCHANGED <<wg, loadTimer, onLoaded>>
  /\ onStop' = [onStop EXCEPT ![c] = FALSE]
  /\ UNCHANGED <<stage, locked, players, open, ready, rtt, readyTimer>>

(* The goroutine's Run notices the end of the connection and fires         *)
(* RunStop.  Without Start's handler Run returns at once.                  *)
RunStop(c) ==
  /\ pc[c] = "running" /\ ~open[c]
  /\ IF onStop[c]
     THEN FireGameLoaded(c) /\ pc' = [pc EXCEPT ![c] = "waiting"]
     ELSE UNCHANGED <<wg, loadTimer, onLoaded>> /\ pc' = [pc EXCEPT ![c] = "ended"]
  /\ UNCHANGED <<stage, locked, players, open, ready, rtt, readyTimer, onStop>>

(* The wait of the RunStop handler is over.                                *)
WaitOver(c) ==
  /\ pc[c] = "waiting" /\ wg = 0
  /\ pc' = [pc EXCEPT ![c] = "ended"]
  /\ onStop' = [onStop EXCEPT ![c] = FALSE]
  /\ UNCHANGED <<stage, locked, players, open, ready, rtt, readyTimer, loadTimer, onLoaded, wg>>

(* What the goroutine does after Run, under slotmut.                       *)
onLeave(c) ==
  /\ pc[c] = "ended"
  /\ readyTimer' = [readyTimer EXCEPT ![c] = FALSE]
  /\ players' = players \ {c}
  /\ pc' = [pc EXCEPT ![c] = "gone"]
  /\ UNCHANGED <<stage, locked, open, ready, rtt, handlers>>

(* Start's goroutine after its wait, and after the game loop, which ends   *)
(* when the goroutines of all players have.                                *)
Play ==
  /\ wg = 0
  /\ swapStage("Loading", "Playing")
  /\ UNCHANGED <<locked, connVars, readyTimer, handlers>>

Done ==
  /\ TurnRate = 0 \/ \A c \in Clients : pc[c] \in {"idle", "gone"}
  /\ swapStage("Playing", "Done")
  /\ UNCHANGED <<locked, connVars, readyTimer, handlers>>
-----------------------------------------------------------------------------
Client(c) ==
  \/ Join(c) \/ onPong(c) \/ (\E found \in BOOLEAN : onMapState(c, found))
  \/ GameLoaded(c) \/ Disconnect(c)

Goroutine(c) == RunStop(c) \/ WaitOver(c) \/ onLeave(c)

Server(c) == ReadyTimeout(c) \/ LoadTimeout(c) \/ Goroutine(c)

Next == \/ Start \/ Play \/ Done
        \/ \E c \in Clients : Client(c) \/ Server(c)

Spec == Init /\ [][Next]_vars

(* Timers fire and goroutines run.  Nothing is assumed of the clients or   *)
(* of the host's call of Start.                                            *)
FairSpec ==
  /\ Spec
  /\ WF_vars(Play \/ Done)
  /\ \A c \in Clients :
       WF_vars(ReadyTimeout(c)) /\ WF_vars(LoadTimeout(c)) /\ WF_vars(Goroutine(c))
-----------------------------------------------------------------------------
TypeOK ==
  /\ stage \in {"Lobby", "Loading", "Playing", "Done"}
  /\ locked \in BOOLEAN
  /\ players \subseteq Clients
  /\ pc \in [Clients -> {"idle", "running", "waiting", "ended", "gone"}]
  /\ {open, ready, rtt, readyTimer, loadTimer, onLoaded, onStop} \subseteq [Clients -> BOOLEAN]
  /\ wg \in Nat

(* The goroutine of c was past its RunStop event when Start registered the *)
(* handlers, and no event will run them any more.                          *)
Stranded(c) == onLoaded[c] /\ pc[c] \in {"ended", "gone"}

(* The wait group counts exactly the players whose GameLoaded handler has  *)
(* not run: nobody is counted down twice (a negative counter panics) or    *)
(* forgotten.                                                              *)
WaitGroupCounts == wg = Cardinality({c \in Clients : onLoaded[c]})

(* "Do not leave the game until everyone is done loading to prevent        *)
(* desync" (game.go:155): no player is removed while another still loads.  *)
NoLeaveWhileLoading == [][stage = "Loading" /\ wg > 0 => players \subseteq players']_vars

(* Who is removed by this step while another still loads is stranded.      *)
HandlersHoldStep == \A c \in players \ players' : stage = "Loading" /\ wg > 0 => Stranded(c)

(* NoLeaveWhileLoading for every player whose goroutine was reading when   *)
(* Start was called: it leaves only after the wait of its RunStop handler. *)
HandlersHold == [][HandlersHoldStep]_vars

(* Loading ends: every player loads, hangs up or is kicked by its timer,   *)
(* and the players who wait for each other do so for a while only.  A      *)
(* stranded player is the one exception.                                   *)
LoadingEnds == stage = "Loading" ~> (stage # "Loading" \/ \E c \in Clients : Stranded(c))

(* A player who does not become ready is out of the lobby in the end.      *)
UnreadyAreDropped == \A c \in Clients : pc[c] = "running" ~> (Ready(c) \/ pc[c] # "running")

(* When all connections of a running game are over, the game is done.      *)
GameEnds == (stage = "Playing" /\ \A c \in Clients : ~open[c] \/ pc[c] = "idle") ~> stage = "Done"
=============================================================================

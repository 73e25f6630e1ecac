----------------------------- MODULE LagScreen -----------------------------
(***************************************************************************)
(* How a running game notices that a player lags, holds the turns, shows   *)
(* the lag screen and drops the player (network/lobby/game.go: incLaggers, *)
(* onStartLag, onStopLag, onDropLaggers; player.go: runPing, setLag).      *)
(*                                                                         *)
(* Every player has a goroutine that pings the client and one that reads   *)
(* its packets; the game loop is a goroutine of its own.  Game.actmut      *)
(* makes each handler one step.  A ping that is not answered in time       *)
(* starts the lag; the answer to a later ping ends it.  Time is not        *)
(* modelled, except that the duration of a lag grows with the ticks of the *)
(* game loop: Shown, DropAfter and LagTimeout stand for 15 s, 25 s and     *)
(* Game.LagTimeout.                                                        *)
(***************************************************************************)
EXTENDS Naturals, Sequences, FiniteSets, Functions

CONSTANTS
  Clients,       \* connections
  Setups,        \* games: the players, those on ObsTeam and those with a PingInterval
  LagObservers,  \* Game.LagObservers: hold the game for observers too
  Shown, DropAfter, LagTimeout

VARIABLES
  observers, \* the players whose slot is on ObsTeam (the slots are locked)
  players,   \* the clients in Lobby.players
  pc,        \* where the reading goroutine of each player is
  ping,      \* where the pinging goroutine of each player is
  open,      \* the connection is open
  lag,       \* Player.lag
  laggers,   \* Game.laggers.Players
  dropmask,  \* Game.dropmask: whose vote for dropping is missing
  screen,    \* the players on the lag screen the clients show
  voted      \* history: who was on the lag screen when it was sent or has voted since

gameVars == <<laggers, dropmask, screen, voted>>
vars == <<observers, players, pc, ping, open, lag, gameVars>>

Kicked == Shown + LagTimeout + 1     \* math.MaxUint32, which no duration reaches

Listed(c) == \E i \in DOMAIN laggers : laggers[i].id = c

Init ==
  /\ \E s \in Setups :
       /\ players = s.players
       /\ observers = s.observers
       /\ ping = [c \in Clients |-> IF c \in s.pinged THEN "idle" ELSE "off"]
  /\ pc = [c \in Clients |-> IF c \in players THEN "running" ELSE "gone"]
  /\ open = [c \in Clients |-> c \in players]
  /\ lag = [c \in Clients |-> FALSE]
  /\ laggers = <<>> /\ dropmask = {} /\ screen = {} /\ voted = {}
-----------------------------------------------------------------------------
(* The pinging goroutine: it waits for its ticker, sends a ping and then   *)
(* waits for the answer; setLag and the event it fires are two steps.      *)

SendPing(c) ==
  /\ ping[c] = "idle"
  /\ ping' = [ping EXCEPT ![c] = "waiting"]
  /\ UNCHANGED <<observers, players, pc, open, lag, gameVars>>

(* An answer in time ends the lag; a late one only ends the waiting.       *)
Pong(c) ==
  /\ ping[c] \in {"waiting", "late"} /\ pc[c] = "running" /\ open[c]
  /\ IF ping[c] = "waiting" /\ lag[c]
     THEN lag' = [lag EXCEPT ![c] = FALSE] /\ ping' = [ping EXCEPT ![c] = "stopping"]
     ELSE UNCHANGED lag /\ ping' = [ping EXCEPT ![c] = "idle"]
  /\ UNCHANGED <<observers, players, pc, open, gameVars>>

Timeout(c) ==
  /\ ping[c] = "waiting"
  /\ lag' = [lag EXCEPT ![c] = TRUE]
  /\ ping' = [ping EXCEPT ![c] = IF lag[c] THEN "late" ELSE "starting"]
  /\ UNCHANGED <<observers, players, pc, open, gameVars>>

onStartLag(c) ==
  /\ ping[c] = "starting"
  /\ laggers' = IF c \in observers /\ ~LagObservers THEN laggers
                ELSE Append(laggers, [id |-> c, dur |-> 0])
  /\ ping' = [ping EXCEPT ![c] = "late"]
  /\ UNCHANGED <<observers, players, pc, open, lag, dropmask, screen, voted>>

(* append(s[:i], s[i+1:]...)                                               *)
Without(s, i) == SubSeq(s, 1, i - 1) \o SubSeq(s, i + 1, Len(s))

(* Mutant: the clients are told only of a lagger who has not been kicked.  *)
RemoveLagger_Silent(c) ==
  /\ \/ ~ Listed(c) /\ UNCHANGED <<laggers, screen>>
     \/ \E i \in DOMAIN laggers :
          /\ laggers[i].id = c
          /\ screen' = IF laggers[i].dur \in 1..LagTimeout THEN screen \ {c} ELSE screen
          /\ laggers' = Without(laggers, i)
  /\ UNCHANGED <<dropmask, voted>>

(* onStopLag removes the entry of c, and sends StopLag if the lag screen   *)
(* shows it.  The loop of the code goes on over the shifted list, where it *)
(* finds nothing: nobody is listed twice (ListedOnce).                     *)
RemoveLagger(c) ==
  /\ \/ ~ Listed(c) /\ UNCHANGED <<laggers, screen>>
     \/ \E i \in DOMAIN laggers :
          /\ laggers[i].id = c
          /\ screen' = IF laggers[i].dur > 0 THEN screen \ {c} ELSE screen
          /\ laggers' = Without(laggers, i)
  /\ UNCHANGED <<dropmask, voted>>

onStopLag(c) ==
  /\ ping[c] = "stopping"
  /\ RemoveLagger(c)
  /\ ping' = [ping EXCEPT ![c] = "idle"]
  /\ UNCHANGED <<observers, players, pc, open, lag>>
-----------------------------------------------------------------------------
(* The reading goroutine.                                                  *)

Disconnect(c) ==
  /\ open[c] /\ pc[c] = "running"
  /\ open' = [open EXCEPT ![c] = FALSE]
  /\ UNCHANGED <<observers, players, pc, ping, lag, gameVars>>

Vote(c) ==
  /\ dropmask' = dropmask \ {c}
  /\ voted' = voted \cup {c}
  /\ UNCHANGED <<laggers, screen>>

onDropLaggers(c) ==
  /\ pc[c] = "running" /\ open[c]
  /\ Vote(c)
  /\ UNCHANGED <<observers, players, pc, ping, open, lag>>

(* Start's RunStop handler fires DropLaggers for a player who hangs up.    *)
RunStop(c) ==
  /\ pc[c] = "running" /\ ~open[c]
  /\ Vote(c)
  /\ pc' = [pc EXCEPT ![c] = "stopped"]
  /\ UNCHANGED <<observers, players, ping, open, lag>>

(* Run's deferred call, if the player is pinged: it hands the stop signal  *)
(* to the pinging goroutine, which takes it when it is not inside setLag,  *)
(* and ends the lag.                                                       *)
StopPing(c) ==
  /\ pc[c] = "stopped" /\ ping[c] \in {"idle", "waiting", "late", "off"}
  /\ ping' = [ping EXCEPT ![c] = "off"]
  /\ pc' = [pc EXCEPT ![c] = IF lag[c] THEN "unlagging" ELSE "ended"]
  /\ lag' = [lag EXCEPT ![c] = FALSE]
  /\ UNCHANGED <<observers, players, open, gameVars>>

StopLagAfterRun(c) ==
  /\ pc[c] = "unlagging"
  /\ RemoveLagger(c)
  /\ pc' = [pc EXCEPT ![c] = "ended"]
  /\ UNCHANGED <<observers, players, ping, open, lag>>

onLeave(c) ==
  /\ pc[c] = "ended"
  /\ players' = players \ {c}
  /\ pc' = [pc EXCEPT ![c] = "gone"]
  /\ UNCHANGED <<observers, ping, open, lag, gameVars>>
-----------------------------------------------------------------------------
(* The game loop while somebody lags.                                      *)

(* Mutant: the votes of an earlier lag screen count for the new one.       *)
newScreen_KeepsVotes ==
  /\ laggers # <<>> /\ Head(laggers).dur = 0
  /\ dropmask' = dropmask \ {l.id : l \in Range(laggers)}
  /\ laggers' = [i \in DOMAIN laggers |-> [laggers[i] EXCEPT !.dur = Shown]]
  /\ screen' = {l.id : l \in Range(laggers)}
  /\ voted' = screen'
  /\ UNCHANGED <<observers, players, pc, ping, open, lag>>

(* incLaggers sends a lag screen with all laggers and asks the others for  *)
(* their votes.                                                            *)
newScreen ==
  /\ laggers # <<>> /\ Head(laggers).dur = 0
  /\ dropmask' = (players \ observers) \ {l.id : l \in Range(laggers)}
  /\ laggers' = [i \in DOMAIN laggers |-> [laggers[i] EXCEPT !.dur = Shown]]
  /\ screen' = {l.id : l \in Range(laggers)}
  /\ voted' = screen'
  /\ UNCHANGED <<observers, players, pc, ping, open, lag>>

(* The entries the loop reaches: it stops at the first one that is not on  *)
(* the lag screen.                                                         *)
Reached == {i \in DOMAIN laggers : \A j \in 1..i : laggers[j].dur # 0}

(* Mutant: a lagger is dropped by the votes of the others only.            *)
Expired_Never(dur) == dur >= DropAfter /\ dropmask = {}

Expired(dur) == dur >= LagTimeout \/ (dur >= DropAfter /\ dropmask = {})

incLaggers ==
  LET grown == [i \in DOMAIN laggers |->
                  IF i \in Reached /\ laggers[i].dur # Kicked
                  THEN laggers[i].dur + 1 ELSE laggers[i].dur]
      drop == {i \in Reached : laggers[i].dur # Kicked /\ Expired(grown[i])}
  IN /\ laggers # <<>> /\ Head(laggers).dur # 0
     /\ laggers' = [i \in DOMAIN laggers |->
                      [laggers[i] EXCEPT !.dur = IF i \in drop THEN Kicked ELSE grown[i]]]
     /\ open' = [c \in Clients |-> open[c] /\ ~(c \in players /\ \E i \in drop : laggers[i].id = c)]
     /\ UNCHANGED <<observers, players, pc, ping, lag, dropmask, screen, voted>>
-----------------------------------------------------------------------------
Pinger(c) == SendPing(c) \/ Timeout(c) \/ onStartLag(c) \/ onStopLag(c)

Reader(c) == RunStop(c) \/ StopPing(c) \/ StopLagAfterRun(c) \/ onLeave(c)

Next == \/ newScreen \/ incLaggers
        \/ \E c \in Clients : Pinger(c) \/ Reader(c)
                              \/ Pong(c) \/ Disconnect(c) \/ onDropLaggers(c)

Spec == Init /\ [][Next]_vars

(* The game loop's ticker ticks, timers fire and goroutines run; a         *)
(* goroutine that waits for actmut gets it.  Clients may be silent.        *)
FairSpec ==
  /\ Spec
  /\ WF_vars(newScreen \/ incLaggers)
  /\ \A c \in Clients : WF_vars(Pinger(c)) /\ WF_vars(Reader(c)) /\ SF_vars(StopPing(c))
-----------------------------------------------------------------------------
TypeOK ==
  /\ observers \subseteq Clients /\ players \subseteq Clients
  /\ pc \in [Clients -> {"running", "stopped", "unlagging", "ended", "gone"}]
  /\ ping \in [Clients -> {"idle", "waiting", "starting", "late", "stopping", "off"}]
  /\ open \in [Clients -> BOOLEAN]
  /\ lag \in [Clients -> BOOLEAN]
  /\ laggers \in Seq([id : Clients, dur : 0..Kicked])
  /\ dropmask \subseteq Clients /\ screen \subseteq Clients /\ voted \subseteq Clients

(* Nobody is on the list twice, although the lag begins and ends in        *)
(* different goroutines; onStopLag would otherwise skip an entry.          *)
ListedOnce == \A i, j \in DOMAIN laggers : laggers[i].id = laggers[j].id => i = j

(* A listed player has its lag flag set or is about to be removed, so no   *)
(* entry outlives its player: a stale one would hold the game for ever.    *)
ListedPlayersLag ==
  \A c \in Clients : Listed(c) => lag[c] \/ ping[c] = "stopping" \/ pc[c] = "unlagging"

(* The clients' lag screens show exactly the laggers whose duration runs:  *)
(* every StartLag is followed by the StopLag of each player in it, and no  *)
(* turn is sent to a client that still shows a lag screen.                 *)
ScreenMatches == screen = {l.id : l \in {x \in Range(laggers) : x.dur > 0}}

(* Before LagTimeout a lagger is dropped only with the votes, given since  *)
(* the lag screen was sent, of all players who were not on it: observers   *)
(* excepted, those who began to lag later included.                        *)
DroppedByVoteStep ==
  \A i \in DOMAIN laggers \cap DOMAIN laggers' :
    /\ laggers[i].id = laggers'[i].id
    /\ laggers[i].dur + 1 < LagTimeout /\ laggers'[i].dur = Kicked
    => \A c \in Clients \ observers : pc[c] = "running" => c \in voted
DroppedByVote == [][DroppedByVoteStep]_vars

(* Every lagger recovers or is removed, also one who began to lag after    *)
(* the lag screen was sent and one whose drop not everybody votes for.     *)
LaggersAreResolved == \A c \in Clients : Listed(c) ~> ~Listed(c)
=============================================================================

---------------------------- MODULE MCDepartures ----------------------------
(***************************************************************************)
(* What follows when players leave: small games and a small lobby for TLC. *)
(* Each initial state chooses one of the two machines, and the other       *)
(* stands still in its initial state.                                      *)
(***************************************************************************)
EXTENDS GameAcks, TLC

CONSTANTS c1, c2, NoPlayer, NumSlots, NumPlayers, ObsTeam, ColorSet,
          CustomForces, FixedSettings, Teams, Colors, Races, Handicaps, AIs, Progress,
          Calls, Faults

VARIABLES machine,
          slots, baseStatus, lobbyPlayers, lobbyLocked, lobbyPid, lobbyPc, lobbyClosed,
          shuffle, fresh, lobbyPanicked, started

(* Two players who are in the lobby from the start, a player and an        *)
(* observer, and a player whom another may join while the game starts.     *)
(* Stragglers are dropped in the last game only.                           *)
Games ==
  {[seated |-> c1 :> 1 @@ c2 :> 2, observers |-> {}, limit |-> 9],
   [seated |-> c1 :> 1 @@ c2 :> 2, observers |-> {c2}, limit |-> 9],
   [seated |-> c1 :> 1 @@ c2 :> 0, observers |-> {}, limit |-> 2]}

(* The lobby does not depend on the game.                                  *)
OneGame == [seated |-> c1 :> 1 @@ c2 :> 2, observers |-> {}, limit |-> 9]

(* Two slots of the observers' force, which the players join all the same  *)
(* as the map has no custom forces; the second one is closed.              *)
Slot(status) == [pid |-> 0, status |-> status, color |-> 0, team |-> ObsTeam,
                 race |-> {"random", "selectable"}, handicap |-> 100, ai |-> "none",
                 download |-> 0]

Slots == INSTANCE Lobby WITH BaseSlots <- <<Slot("open"), Slot("closed")>>,
                             players <- lobbyPlayers, locked <- lobbyLocked,
                             pid <- lobbyPid, pc <- lobbyPc, closed <- lobbyClosed,
                             panicked <- lobbyPanicked

lobbyVars == <<slots, baseStatus, lobbyPlayers, lobbyLocked, lobbyPid, lobbyPc,
               lobbyClosed, shuffle, fresh, lobbyPanicked, started>>

MCInit ==
  /\ machine \in {"game", "lobby"} /\ Init /\ Slots!Init
  /\ machine = "lobby" => setup = OneGame

MCNext ==
  /\ UNCHANGED machine
  /\ \/ machine = "game" /\ Next /\ UNCHANGED lobbyVars
     \/ machine = "lobby" /\ Slots!Next /\ UNCHANGED vars

(* The fairness of GameAcks and of Lobby.                                  *)
MCSpec ==
  /\ MCInit /\ [][MCNext]_<<machine, vars, lobbyVars>>
  /\ WF_vars(machine = "game" /\ ~panicked /\ UNCHANGED setup /\ (drainRound \/ drainPanic))
  /\ \A c \in Clients :
       WF_vars(machine = "game" /\ ~panicked /\ UNCHANGED setup /\ Goroutine(c))
  /\ WF_lobbyVars(/\ machine = "lobby" /\ ~lobbyPanicked /\ UNCHANGED started
                  /\ (\E j \in Slots!Slots : Slots!ShuffleStep(j)) \/ Slots!ShuffleEnd)
  /\ \A c \in Clients :
       /\ SF_lobbyVars(machine = "lobby" /\ UNCHANGED started /\ Slots!onLeave(c))
       /\ SF_lobbyVars(machine = "lobby" /\ UNCHANGED started /\ Slots!Packet(c))

(* Lobby: a player whose connection is closed leaves and gives its slot    *)
(* back.                                                                   *)
ClosedPlayersLeave == Slots!ClosedPlayersLeave
=============================================================================

------------------------------- MODULE Lobby -------------------------------
(***************************************************************************)
(* The slot table of a game lobby (network/lobby/lobby.go; of game.go      *)
(* Start, as far as it ends the lobby): joining, leaving, the host's slot  *)
(* operations and the players' change requests.                            *)
(*                                                                         *)
(* Every operation runs under Lobby.slotmut and is one action, except      *)
(* ShuffleSlots, whose loop holds slotmut over several steps (variable     *)
(* shuffle).  Each connection has a goroutine (JoinAndServe) that reads a  *)
(* packet, handles it, and calls onLeave once reading fails.  Slot indices *)
(* start at 1 here and at 0 in the code.                                   *)
(***************************************************************************)
EXTENDS Integers, FiniteSets, FiniteSetsExt

CONSTANTS
  Clients,        \* connections; each asks to join at most once
  NoPlayer,       \* an absent entry of Lobby.players
  NumSlots,       \* len(slotBase.Slots)
  BaseSlots,      \* the slot table handed to NewLobby
  NumPlayers,     \* slotBase.NumPlayers
  ObsTeam,        \* Lobby.ObsTeam
  ColorSet,       \* Lobby.ColorSet
  CustomForces,   \* slotBase.SlotLayout & LayoutCustomForces # 0
  FixedSettings,  \* slotBase.SlotLayout & LayoutFixedPlayerSettings # 0
  Teams, Colors, Races, Handicaps, AIs, Progress,
                  \* the values that calls and packets may carry
  Calls,          \* the host operations the program embedding the lobby uses
  Faults          \* which of "send" (a write to a joining client fails) and
                  \* "close" (Lobby.Close is called) may happen

VARIABLES
  slots,       \* Lobby.slots
  baseStatus,  \* the SlotStatus column of Lobby.slotBase.Slots
  players,     \* Lobby.players
  locked,      \* Lobby.locked
  started,     \* Game.stage is past StageLobby
  pid,         \* Player.PlayerInfo.PlayerID of each connection
  pc,          \* where the goroutine of each connection is
  closed,      \* the connection is closed or broken
  shuffle,     \* progress of ShuffleSlots while it holds slotmut
  fresh,       \* the table has not changed since it was sent to the players
  panicked     \* pidToSID has panicked: the process is gone

vars == <<slots, baseStatus, players, locked, pid, pc, closed, shuffle, fresh,
          panicked, started>>

Slots == 1..NumSlots
PIDs == 1..32               \* the bits of a protocol.BitSet32
NoPID == 0                  \* PlayerID of an untouched slot
ComputerPID == 255          \* PlayerID initSlot gives to a slot
ObsDisabled == 255
NoColor == 32               \* bits.TrailingZeros32(0)
Open == "open"
Closed == "closed"
Occupied == "occupied"
NoAI == "none"              \* SlotData.Computer is false
Selectable == "selectable"  \* RaceSelectable; a RacePref is a set of flags
RaceFlags == {"human", "orc", "nightelf", "undead", "demon", "random",
              Selectable}

(* w3gs.SlotData, DownloadStatus reduced to unknown, none and complete.    *)
SlotData == [pid : PIDs \cup {NoPID, ComputerPID},
             status : {Open, Closed, Occupied},
             color : 0..NoColor,
             team : 0..255,
             race : SUBSET RaceFlags,
             handicap : 0..100,
             ai : AIs \cup {NoAI},
             download : {0, 100, 255}]

ASSUME LobbyAssumption ==
  /\ NumSlots \in 1..24
  /\ BaseSlots \in [Slots -> SlotData]
  /\ \A s \in Slots : /\ BaseSlots[s].pid = NoPID
                      /\ BaseSlots[s].status \in {Open, Closed}
                      /\ BaseSlots[s].color \in 0..23
  /\ NumPlayers \in 1..NumSlots
  /\ ObsTeam \in 0..255
  /\ ObsTeam >= NumPlayers
  /\ ColorSet \subseteq 0..31
  /\ {CustomForces, FixedSettings} \subseteq BOOLEAN
  /\ Teams \subseteq 0..255
  /\ Colors \subseteq 0..255
  /\ Races \subseteq SUBSET RaceFlags
  /\ Handicaps \subseteq 0..255
  /\ NoAI \notin AIs
  /\ Progress \subseteq {0, 100}
  /\ NoPlayer \notin Clients
-----------------------------------------------------------------------------
(* Helpers; each is evaluated with slotmut held.                           *)

slotBase(s) == [BaseSlots[s] EXCEPT !.status = baseStatus[s]]

pidToSID(p) == Min({s \in Slots : slots[s].pid = p})
HasSlot(p) == \E s \in Slots : slots[s].pid = p

OpenSlots == {s \in Slots : slots[s].status = Open}
findEmptySlot == Min(OpenSlots)
findEmptyTeamSlot(t) == Min({s \in OpenSlots : slots[s].team = t})

(* Mutant: the number of players plus one, wrong once somebody has left.   *)
findEmptyPID_Count == 1 + Cardinality({p \in PIDs : players[p] # NoPlayer})
findEmptyPID == Min({p \in PIDs : players[p] = NoPlayer})

(* The slots that hold a player (or computer) who is not observing.        *)
Playing(tab) == {s \in Slots : tab[s].status = Occupied /\ tab[s].team # ObsTeam}
countPlayers(tab) == Cardinality(Playing(tab))
findEmptyTeam == Min(0..32 \ {slots[s].team : s \in Playing(slots)})

(* Mutant: forgets that computers have colours too.                        *)
availableColors_Humans ==
  ColorSet \ {slots[s].color : s \in {t \in Playing(slots) : slots[t].ai = NoAI}}
availableColors == ColorSet \ {slots[s].color : s \in Playing(slots)}
findEmptyColor == IF availableColors = {} THEN NoColor ELSE Min(availableColors)

(* Mutant: any free team will do, whatever the number of players.          *)
initTeam_NoLimit == findEmptyTeam
initTeam == IF countPlayers(slots) < NumPlayers THEN findEmptyTeam ELSE ObsTeam
initSlotFull == /\ ~CustomForces
                /\ initTeam >= NumPlayers
                /\ ObsTeam = ObsDisabled
initSlot(s) ==
  [pid      |-> ComputerPID,
   status   |-> Occupied,
   color    |-> IF FixedSettings THEN BaseSlots[s].color ELSE findEmptyColor,
   team     |-> IF CustomForces THEN BaseSlots[s].team
                ELSE IF initTeam < NumPlayers THEN initTeam ELSE ObsTeam,
   race     |-> BaseSlots[s].race,
   handicap |-> BaseSlots[s].handicap,
   ai       |-> NoAI,
   download |-> 255]

(* The table after swapSlots(a, b, swapTeams).                             *)
swapSlots(a, b, swapTeams) ==
  LET fixedRace == \E s \in {a, b} : Selectable \notin slots[s].race
      moved(from, to) ==
        [slots[from] EXCEPT
           !.team     = IF swapTeams THEN @ ELSE slots[to].team,
           !.color    = IF FixedSettings THEN slots[to].color ELSE @,
           !.handicap = IF FixedSettings THEN slots[to].handicap ELSE @,
           !.race     = IF fixedRace THEN slots[to].race ELSE @]
  IN  [slots EXCEPT ![a] = moved(b, a), ![b] = moved(a, b)]
-----------------------------------------------------------------------------
Init ==
  /\ slots = BaseSlots
  /\ baseStatus = [s \in Slots |-> BaseSlots[s].status]
  /\ players = [p \in PIDs |-> NoPlayer]
  /\ locked = FALSE
  /\ started = FALSE
  /\ pid = [c \in Clients |-> NoPID]
  /\ pc = [c \in Clients |-> "idle"]
  /\ closed = [c \in Clients |-> FALSE]
  /\ shuffle = [left |-> 0, teams |-> FALSE]
  /\ fresh = TRUE
  /\ panicked = FALSE

(* Nobody else holds slotmut.                                              *)
SlotmutFree == shuffle.left = 0

(* The lobby changes its table to tab and ends with refreshSlots, which    *)
(* sends the table to every player unless onRefreshSlots, Game's handler   *)
(* of the event, prevents it: the game has started.                        *)
refreshSlots(tab) ==
  /\ slots' = tab
  /\ fresh' = (~started \/ (fresh /\ tab = slots))

connVars == <<pid, pc>>
tableVars == <<slots, fresh, baseStatus>>
-----------------------------------------------------------------------------
(* Joining: the three early returns of join, a failed write of its first   *)
(* packets (the slot stays taken: there is no rollback), and success.      *)

JoinRejected(c) ==
  /\ pc[c] = "idle" /\ SlotmutFree
  /\ \/ locked
     \/ OpenSlots = {}
     \/ initSlotFull
  /\ pc' = [pc EXCEPT ![c] = "rejected"]
  /\ UNCHANGED <<slots, baseStatus, players, locked, pid, closed, shuffle, fresh, panicked>>

TakeSlot == [slots EXCEPT ![findEmptySlot] = [initSlot(findEmptySlot) EXCEPT !.pid = findEmptyPID]]

JoinSendFails(c) ==
  /\ "send" \in Faults
  /\ pc[c] = "idle" /\ SlotmutFree
  /\ ~locked /\ OpenSlots # {} /\ ~initSlotFull
  /\ slots' = TakeSlot
  /\ fresh' = FALSE
  /\ pc' = [pc EXCEPT ![c] = "rejected"]
  /\ UNCHANGED <<baseStatus, players, locked, pid, closed, shuffle, panicked>>

Join(c) ==
  /\ pc[c] = "idle" /\ SlotmutFree
  /\ ~locked /\ OpenSlots # {} /\ ~initSlotFull
  /\ slots' = TakeSlot /\ fresh' = TRUE
  /\ players' = [players EXCEPT ![findEmptyPID] = c]
  /\ pid' = [pid EXCEPT ![c] = findEmptyPID]
  /\ pc' = [pc EXCEPT ![c] = "reading"]
  /\ UNCHANGED <<baseStatus, locked, closed, shuffle, panicked>>

(* The connection ends: the client hangs up, a read or write fails or times *)
(* out, ReadyTimeout expires, or Player.Kick is called.                    *)
Disconnect(c) ==
  /\ pc[c] \in {"reading", "handling"}
  /\ closed' = [closed EXCEPT ![c] = TRUE]
  /\ UNCHANGED <<tableVars, players, locked, connVars, shuffle, panicked>>

(* Player.Run reads a packet, which is handled by one of the actions below. *)
Read(c) ==
  /\ pc[c] = "reading" /\ ~closed[c]
  /\ pc' = [pc EXCEPT ![c] = "handling"]
  /\ UNCHANGED <<tableVars, players, locked, pid, closed, shuffle, panicked>>

(* Mutant: gives the slot back without telling the remaining players.      *)
onLeave_Silent(c) ==
  /\ pc[c] = "reading" /\ closed[c] /\ SlotmutFree
  /\ players' = [players EXCEPT ![pid[c]] = NoPlayer]
  /\ slots' = [slots EXCEPT ![pidToSID(pid[c])] = slotBase(pidToSID(pid[c]))]
  /\ fresh' = (fresh /\ slots' = slots)
  /\ pc' = [pc EXCEPT ![c] = "left"]
  /\ UNCHANGED <<baseStatus, locked, pid, closed, shuffle, panicked>>

(* Mutant: treats leaving like the slot changes a locked lobby refuses.    *)
onLeave_Unlocked(c) ==
  /\ pc[c] = "reading" /\ closed[c] /\ SlotmutFree /\ ~locked
  /\ players' = [players EXCEPT ![pid[c]] = NoPlayer]
  /\ IF HasSlot(pid[c])
     THEN LET s == pidToSID(pid[c]) IN refreshSlots([slots EXCEPT ![s] = slotBase(s)])
     ELSE UNCHANGED <<slots, fresh>>
  /\ panicked' = ~HasSlot(pid[c])
  /\ pc' = [pc EXCEPT ![c] = "left"]
  /\ UNCHANGED <<baseStatus, locked, pid, closed, shuffle>>

onLeave(c) ==
  /\ pc[c] = "reading" /\ closed[c] /\ SlotmutFree
  /\ players' = [players EXCEPT ![pid[c]] = NoPlayer]
  /\ IF HasSlot(pid[c])
     THEN LET s == pidToSID(pid[c]) IN refreshSlots([slots EXCEPT ![s] = slotBase(s)])
     ELSE UNCHANGED <<slots, fresh>>
  /\ panicked' = ~HasSlot(pid[c])
  /\ pc' = [pc EXCEPT ![c] = "left"]
  /\ UNCHANGED <<baseStatus, locked, pid, closed, shuffle>>
-----------------------------------------------------------------------------
(* Packets from the players.  A handler that looks up its player's slot    *)
(* panics when there is none; every handler returns to reading.            *)

Handled(c, kick) ==
  /\ pc' = [pc EXCEPT ![c] = "reading"]
  /\ closed' = [closed EXCEPT ![c] = @ \/ kick]
  /\ UNCHANGED <<baseStatus, players, locked, pid, shuffle>>

Ignored(c) == Handled(c, FALSE) /\ UNCHANGED <<slots, fresh, panicked>>
Kicked(c) == Handled(c, TRUE) /\ UNCHANGED <<slots, fresh, panicked>>
Panics(c) == Handled(c, FALSE) /\ panicked' = TRUE /\ UNCHANGED <<slots, fresh>>

(* A change request by c: ignored when locked or refused, answered with a  *)
(* kick when invalid, otherwise applied.                                   *)
Request(c, invalid, refused, tab) ==
  LET known == HasSlot(pid[c]) IN
  /\ pc[c] = "handling" /\ SlotmutFree
  /\ \/ locked /\ Ignored(c)
     \/ ~locked /\ ~known /\ Panics(c)
     \/ ~locked /\ known /\ invalid /\ Kicked(c)
     \/ ~locked /\ known /\ ~invalid /\ refused /\ Ignored(c)
     \/ /\ ~locked /\ known /\ ~invalid /\ ~refused
        /\ Handled(c, FALSE) /\ refreshSlots(tab) /\ UNCHANGED panicked

(* An unknown or malformed message, an overlong chat line or a profile of  *)
(* somebody else.  Valid chat and profiles are relayed and change nothing. *)
onInvalidMessage(c) == pc[c] = "handling" /\ Kicked(c)
onPlayerChat(c) == pc[c] = "handling" /\ SlotmutFree /\ Ignored(c)

(* A map state that is not ready also makes Player.onMapState kick.        *)
onMapState(c, ready, progress) ==
  /\ pc[c] = "handling" /\ SlotmutFree
  /\ ready => progress = 100
  /\ \/ ~HasSlot(pid[c]) /\ Panics(c)
     \/ /\ HasSlot(pid[c])
        /\ Handled(c, ~ready)
        /\ LET s == pidToSID(pid[c])
           IN  \/ /\ slots[s].download # progress
                  /\ refreshSlots([slots EXCEPT ![s].download = progress])
               \/ slots[s].download = progress /\ UNCHANGED <<slots, fresh>>
        /\ UNCHANGED panicked

teamInvalid(t) == /\ t >= NumPlayers
                  /\ ObsTeam = ObsDisabled \/ t # ObsTeam
withTeam(s, t) == [slots EXCEPT ![s].team = t]
playersOccupied(s, t) == countPlayers(withTeam(s, t)) > NumPlayers

onTeamChange(c, t) ==
  \/ /\ CustomForces
     /\ \A s \in OpenSlots : slots[s].team # t
     /\ pc[c] = "handling" /\ SlotmutFree /\ Ignored(c)
  \/ /\ CustomForces
     /\ \E s \in OpenSlots : slots[s].team = t
     /\ Request(c, FALSE, FALSE, swapSlots(pidToSID(pid[c]), findEmptyTeamSlot(t), FALSE))
  \/ /\ ~CustomForces
     /\ LET s == pidToSID(pid[c])
        IN  Request(c, teamInvalid(t), playersOccupied(s, t), withTeam(s, t))

withColor(s, col) == [slots EXCEPT ![s].color = col]

onColorChange(c, col) ==
  \/ FixedSettings /\ onInvalidMessage(c)
  \/ /\ ~FixedSettings
     /\ Request(c, col >= 32, col \notin availableColors, withColor(pidToSID(pid[c]), col))

raceInvalid(s, r) == \/ Selectable \notin slots[s].race
                     \/ Cardinality(r \ {Selectable}) # 1
                     \/ "demon" \in r
withRace(s, r) == [slots EXCEPT ![s].race = r \cup {Selectable}]

onRaceChange(c, r) ==
  LET s == pidToSID(pid[c]) IN Request(c, raceInvalid(s, r), FALSE, withRace(s, r))

withHandicap(s, h) == [slots EXCEPT ![s].handicap = h]

onHandicapChange(c, h) ==
  \/ FixedSettings /\ onInvalidMessage(c)
  \/ ~FixedSettings /\ Request(c, h > 100, FALSE, withHandicap(pidToSID(pid[c]), h))

Packet(c) ==
  \/ onInvalidMessage(c)
  \/ onPlayerChat(c)
  \/ \E ready \in BOOLEAN, progress \in Progress : onMapState(c, ready, progress)
  \/ \E t \in Teams : onTeamChange(c, t)
  \/ \E col \in Colors : onColorChange(c, col)
  \/ \E r \in Races : onRaceChange(c, r)
  \/ \E h \in Handicaps : onHandicapChange(c, h)
-----------------------------------------------------------------------------
(* Host operations.  A call that returns an error and changes nothing is a *)
(* stuttering step and has no action.                                      *)

(* Mutant: the locked flag is not looked at.                               *)
Call_Unguarded(op) == op \in Calls /\ SlotmutFree

Call(op) == op \in Calls /\ SlotmutFree /\ ~locked

Lock ==
  /\ "Lock" \in Calls /\ SlotmutFree
  /\ locked' = TRUE
  /\ UNCHANGED <<tableVars, players, connVars, closed, shuffle, panicked>>

Unlock ==
  /\ "Lock" \in Calls /\ SlotmutFree
  /\ locked' = FALSE
  /\ UNCHANGED <<tableVars, players, connVars, closed, shuffle, panicked>>

(* Lobby.Close: every registered player is closed and forgotten at once,   *)
(* before its goroutine has called onLeave.                                *)
Close ==
  /\ "close" \in Faults /\ SlotmutFree
  /\ closed' = [c \in Clients |-> closed[c] \/ \E p \in PIDs : players[p] = c]
  /\ players' = [p \in PIDs |-> NoPlayer]
  /\ UNCHANGED <<tableVars, locked, connVars, shuffle, panicked>>

SetAll(from, to) ==
  /\ Call("AllSlots")
  /\ \E s \in Slots : slots[s].status = from
  /\ refreshSlots([s \in Slots |-> IF slots[s].status = from
                                   THEN [slots[s] EXCEPT !.status = to]
                                   ELSE slots[s]])
  /\ UNCHANGED <<baseStatus, players, locked, connVars, closed, shuffle, panicked>>

OpenAllSlots == SetAll(Closed, Open)
CloseAllSlots == SetAll(Open, Closed)

(* Mutant: a player who is being kicked no longer counts.                  *)
Registered_Open(s) == /\ slots[s].pid \in PIDs
                      /\ players[slots[s].pid] # NoPlayer
                      /\ ~closed[players[slots[s].pid]]
Registered(s) == slots[s].pid \in PIDs /\ players[slots[s].pid] # NoPlayer

(* Mutant: saves the status the slot has instead of the one asked for.     *)
changeSlotStatus_SavesOld(s, status, kick) ==
  /\ Call("SlotStatus")
  /\ baseStatus' = [baseStatus EXCEPT ![s] = slots[s].status]
  /\ slots[s].status = Occupied /\ Registered(s) /\ kick
  /\ closed' = [closed EXCEPT ![players[slots[s].pid]] = TRUE]
  /\ refreshSlots(slots)
  /\ UNCHANGED <<players, locked, connVars, shuffle, panicked>>

(* OpenSlot and CloseSlot.  The base status changes first, also when the   *)
(* call then fails with ErrSlotOccupied.                                   *)
changeSlotStatus(s, status, kick) ==
  /\ Call("SlotStatus")
  /\ baseStatus' = [baseStatus EXCEPT ![s] = status]
  /\ \/ /\ slots[s].status # Occupied
        /\ refreshSlots([slots EXCEPT ![s].status = status])
        /\ UNCHANGED closed
     \/ /\ slots[s].status = Occupied /\ Registered(s)
        /\ closed' = [closed EXCEPT ![players[slots[s].pid]] = @ \/ kick]
        /\ IF kick THEN refreshSlots(slots) ELSE UNCHANGED <<slots, fresh>>
     \/ /\ slots[s].status = Occupied /\ ~Registered(s)
        /\ refreshSlots([slots EXCEPT ![s] = [BaseSlots[s] EXCEPT !.status = status]])
        /\ UNCHANGED closed
  /\ UNCHANGED <<players, locked, connVars, shuffle, panicked>>

(* A host operation that only replaces the table and refreshes.            *)
Replace(op, tab) ==
  /\ Call(op)
  /\ refreshSlots(tab)
  /\ UNCHANGED <<baseStatus, players, locked, connVars, closed, shuffle, panicked>>

(* Mutant: teams travel with the players also under custom forces.         *)
SwapSlots_WithTeams(a, b) == Replace("SwapSlots", swapSlots(a, b, TRUE))

SwapSlots(a, b) == Replace("SwapSlots", swapSlots(a, b, ~CustomForces))

(* ShuffleSlots runs rand.Shuffle over the table with slotmut held: one    *)
(* exchange of the last unsettled slot with an earlier one per step, and   *)
(* refreshSlots after the last.                                            *)
ShuffleBegin(teams) ==
  /\ Call("ShuffleSlots")
  /\ shuffle' = [left |-> NumSlots, teams |-> teams]
  /\ UNCHANGED <<tableVars, players, locked, connVars, closed, panicked>>

ShuffleStep(j) ==
  LET i == shuffle.left
      occupied == slots[i].status = Occupied /\ slots[j].status = Occupied
  IN  /\ i > 1 /\ j <= i
      /\ slots' = swapSlots(i, j, ~CustomForces /\ occupied /\ ~shuffle.teams)
      /\ shuffle' = [shuffle EXCEPT !.left = i - 1]
      /\ fresh' = FALSE
      /\ UNCHANGED <<baseStatus, players, locked, connVars, closed, panicked>>

ShuffleEnd ==
  /\ shuffle.left = 1
  /\ refreshSlots(slots)
  /\ shuffle' = [left |-> 0, teams |-> FALSE]
  /\ UNCHANGED <<baseStatus, players, locked, connVars, closed, panicked>>

ChangeRace(s, r) ==
  /\ slots[s].status = Occupied /\ slots[s].race # r /\ ~raceInvalid(s, r)
  /\ Replace("ChangeRace", withRace(s, r))

ChangeTeam(s, t) ==
  /\ slots[s].status = Occupied /\ slots[s].team # t
  /\ ~CustomForces /\ ~teamInvalid(t) /\ ~playersOccupied(s, t)
  /\ Replace("ChangeTeam", withTeam(s, t))

ChangeColor(s, col) ==
  /\ slots[s].status = Occupied /\ slots[s].color # col
  /\ col < 32 /\ col \in availableColors
  /\ Replace("ChangeColor", withColor(s, col))

(* The guard compares the colour, not the handicap, with the argument.     *)
ChangeHandicap(s, h) ==
  /\ slots[s].status = Occupied /\ slots[s].color # h /\ h <= 100
  /\ Replace("ChangeHandicap", withHandicap(s, h))

(* A slot whose base team is the observers' is put back without a refresh. *)
ChangeComputer(s, ai) ==
  \/ /\ slots[s].status = Occupied /\ slots[s].ai \notin {NoAI, ai}
     /\ Replace("ChangeComputer", [slots EXCEPT ![s].ai = ai])
  \/ /\ slots[s].status # Occupied /\ ~initSlotFull
     /\ ObsTeam = ObsDisabled \/ BaseSlots[s].team # ObsTeam
     /\ Replace("ChangeComputer",
                [slots EXCEPT ![s] = [initSlot(s) EXCEPT !.ai = ai, !.download = 100]])
  \/ /\ slots[s].status # Occupied /\ ~initSlotFull
     /\ ObsTeam # ObsDisabled /\ BaseSlots[s].team = ObsTeam
     /\ Call("ChangeComputer")
     /\ slots' = [slots EXCEPT ![s] = slotBase(s)]
     /\ fresh' = (fresh /\ slots' = slots)
     /\ UNCHANGED <<baseStatus, players, locked, connVars, closed, shuffle, panicked>>

(* Game.Start once the players are ready; it returns ErrNotReady or        *)
(* ErrLocked without a change in the other cases.                          *)
Start ==
  /\ "Start" \in Calls /\ SlotmutFree /\ ~started
  /\ started' = TRUE /\ locked' = TRUE
  /\ UNCHANGED <<tableVars, players, connVars, closed, shuffle, panicked>>

Host ==
  \/ Lock \/ Unlock \/ Close \/ OpenAllSlots \/ CloseAllSlots
  \/ \E s \in Slots, kick \in BOOLEAN, status \in {Open, Closed} : changeSlotStatus(s, status, kick)
  \/ \E a, b \in Slots : SwapSlots(a, b)
  \/ \E teams \in BOOLEAN : ShuffleBegin(teams)
  \/ (\E j \in Slots : ShuffleStep(j)) \/ ShuffleEnd
  \/ \E s \in Slots : \/ \E r \in Races : ChangeRace(s, r)
                      \/ \E t \in Teams : ChangeTeam(s, t)
                      \/ \E col \in Colors : ChangeColor(s, col)
                      \/ \E h \in Handicaps : ChangeHandicap(s, h)
                      \/ \E ai \in AIs : ChangeComputer(s, ai)

Connection(c) ==
  \/ JoinRejected(c) \/ JoinSendFails(c) \/ Join(c)
  \/ Disconnect(c) \/ Read(c) \/ onLeave(c) \/ Packet(c)

Next ==
  /\ ~panicked
  /\ \/ Start
     \/ UNCHANGED started /\ (Host \/ \E c \in Clients : Connection(c))

Spec == Init /\ [][Next]_vars

(* Goroutines keep running, and Go's mutexes hand the lock to a waiter     *)
(* that has been starved, so a goroutine waiting for slotmut gets it even  *)
(* though the lock is taken again and again.  Clients and host owe nothing. *)
FairSpec ==
  /\ Spec
  /\ WF_vars(UNCHANGED started /\ ((\E j \in Slots : ShuffleStep(j)) \/ ShuffleEnd))
  /\ \A c \in Clients : /\ SF_vars(UNCHANGED started /\ onLeave(c))
                        /\ SF_vars(UNCHANGED started /\ Packet(c))
-----------------------------------------------------------------------------
TypeOK ==
  /\ slots \in [Slots -> SlotData]
  /\ baseStatus \in [Slots -> {Open, Closed}]
  /\ players \in [PIDs -> Clients \cup {NoPlayer}]
  /\ locked \in BOOLEAN
  /\ started \in BOOLEAN
  /\ pid \in [Clients -> PIDs \cup {NoPID}]
  /\ pc \in [Clients -> {"idle", "rejected", "reading", "handling", "left"}]
  /\ closed \in [Clients -> BOOLEAN]
  /\ shuffle \in [left : 0..NumSlots, teams : BOOLEAN]
  /\ fresh \in BOOLEAN
  /\ panicked \in BOOLEAN

(* The connections whose goroutine has not called onLeave yet.             *)
Live == {c \in Clients : pc[c] \in {"reading", "handling"}}
Human(s) == slots[s].status = Occupied /\ slots[s].ai = NoAI

(* Slots and connections match: the slots held by humans are exactly those *)
(* of the live connections, one each.  join takes the slot, swapSlots      *)
(* moves it and onLeave gives it back, each in its own critical section.   *)
SlotsMatchPlayers ==
  /\ \A c \in Live : \E s \in Slots : slots[s].pid = pid[c] /\ Human(s)
  /\ \A s \in Slots : Human(s) => \E c \in Live : pid[c] = slots[s].pid
  /\ \A s, t \in Slots : Human(s) /\ Human(t) /\ slots[s].pid = slots[t].pid => s = t
  /\ \A c, d \in Live : pid[c] = pid[d] => c = d

(* pidToSID, which panics when no slot has the player's id, always finds   *)
(* one, whatever the host does to the slots meanwhile.                     *)
NoPanic == ~panicked

(* Until the game starts the players have been sent the current table      *)
(* whenever slotmut is free: no operation changes a slot without a         *)
(* refresh, so the table in force when Start locks the lobby is the one    *)
(* they have.  Afterwards onRefreshSlots holds back what leaving changes.  *)
PlayersSeeSlots == SlotmutFree /\ ~started => fresh

(* With custom forces a team belongs to a slot: joins, swaps, shuffles,    *)
(* team requests and leaves never move a team to another slot.             *)
TeamsStayWithSlots == CustomForces => \A s \in Slots : slots[s].team = BaseSlots[s].team

(* A race that is not selectable also belongs to its slot.                 *)
FixedRacesStay ==
  \A s \in Slots : Selectable \notin BaseSlots[s].race => slots[s].race = BaseSlots[s].race

(* Two players who are not observing never have the same colour: the next  *)
(* free colour is taken on joining and ErrColorOccupied guards changes.    *)
UniqueColors ==
  \A s, t \in Playing(slots) : slots[s].color = slots[t].color => s = t

(* Without custom forces at most NumPlayers slots hold a player who is not *)
(* observing, the limit initSlot and changeTeam enforce.                   *)
PlayersWithinLimit ==
  ~CustomForces /\ SlotmutFree => countPlayers(slots) <= NumPlayers

(* "Lock lobby, disabling joins and slot changes": while the lobby is      *)
(* locked nobody registers, and a slot changes only by being given back    *)
(* when its player leaves, or in its download status.                      *)
LockFreezesSlots ==
  [][locked /\ locked' =>
       /\ \A p \in PIDs : players'[p] \in {players[p], NoPlayer}
       /\ \A s \in Slots :
            \/ slots'[s] = [slots[s] EXCEPT !.download = slots'[s].download]
            \/ /\ slots'[s] = slotBase(s)
               /\ \E c \in Live : pc'[c] = "left" /\ pid[c] = slots[s].pid]_vars

(* Once every goroutine is done, the slots the players held are free again *)
(* (lobby_test.go, TestJoin1: no slots are in use after the last leave).   *)
SlotsReleased == Live = {} => \A s \in Slots : ~Human(s)

(* A player who is kicked, hangs up or is closed with the lobby leaves, and *)
(* its slot is given back, unless a panic ends the process before.         *)
ClosedPlayersLeave == \A c \in Clients : closed[c] ~> pc[c] = "left" \/ panicked
=============================================================================

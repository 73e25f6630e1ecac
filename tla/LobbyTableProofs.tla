-------------------------- MODULE LobbyTableProofs --------------------------
(***************************************************************************)
(* Proofs about what the slot table may say: teams and races that belong   *)
(* to slots, the locked lobby, and what the players have been sent; the    *)
(* colours of the players and their number, in a lobby without observers.  *)
(***************************************************************************)
EXTENDS LobbyProofs

(* A step that names no prover is tried with SMT, Zenon and SMT again.     *)
USE SMTT(30), ZenonT(30), SMTT(60)

-----------------------------------------------------------------------------
(* Until the game starts the players have been sent the slot table         *)
(* whenever slotmut is free, and so the table with which Start locks the   *)
(* lobby: if joins do not fail halfway, and no base slot is on the         *)
(* observers' team (changeComputer resets such a slot without a refresh),  *)
(* every operation that changes a slot sends it on before it unlocks.      *)
(* After the start onRefreshSlots prevents that, and nothing is claimed.   *)
THEOREM SlotsAreSent ==
  ASSUME Faults = {},
         ObsTeam = ObsDisabled \/ \A s \in Slots : BaseSlots[s].team # ObsTeam
  PROVE  Spec => []PlayersSeeSlots
<1>1. Init => BaseInv /\ PlayersSeeSlots
  BY BaseInit, ZenonT(30) DEF Init, PlayersSeeSlots
<1>2. ASSUME BaseInv, PlayersSeeSlots, [Next]_vars
      PROVE  BaseInv' /\ PlayersSeeSlots'
  <2>1. BaseInv' /\ TypeOK
    BY <1>2, BaseStep DEF BaseInv
  <2> SUFFICES ASSUME ~started'
               PROVE  PlayersSeeSlots'
    BY <2>1, ZenonT(30) DEF PlayersSeeSlots
  <2>9. ~started
    BY <1>2, ZenonT(30) DEF Next, Start, vars
  <2>2. CASE UNCHANGED <<shuffle, fresh>> \/ fresh' = TRUE
    BY <1>2, <2>1, <2>2, <2>9 DEF PlayersSeeSlots, SlotmutFree
  <2>3. CASE UNCHANGED vars
    BY <2>2, <2>3 DEF vars
  <2>4. CASE Host
    <3>1. CASE Lock \/ Unlock \/ Close
      BY <2>2, <3>1, ZenonT(30) DEF Lock, Unlock, Close, tableVars
    <3>2. ASSUME NEW s \in Slots, NEW kick \in BOOLEAN, NEW status \in {Open, Closed},
                 changeSlotStatus(s, status, kick)
          PROVE  PlayersSeeSlots'
      BY <2>2, <2>9, <3>2, ZenonT(30) DEF changeSlotStatus, refreshSlots
    <3>3. CASE OpenAllSlots \/ CloseAllSlots \/ (\E a, b \in Slots : SwapSlots(a, b)) \/ ShuffleEnd
      BY <2>2, <2>9, <3>3, ZenonT(30) DEF OpenAllSlots, CloseAllSlots, SetAll, SwapSlots, Replace,
         ShuffleEnd, refreshSlots
    <3>4. CASE \E teams \in BOOLEAN : ShuffleBegin(teams)
      <4>1. shuffle'.left = NumSlots /\ NumSlots # 0
        BY <3>4, LobbyAssumption DEF ShuffleBegin
      <4> QED BY <2>1, <4>1 DEF PlayersSeeSlots, SlotmutFree
    <3>5. ASSUME NEW j \in Slots, ShuffleStep(j)
          PROVE  PlayersSeeSlots'
      <4> DEFINE l == shuffle.left - 1
      <4>1. shuffle.left \in 0..NumSlots /\ shuffle \in [left : 0..NumSlots, teams : BOOLEAN]
        BY <2>1 DEF TypeOK
      <4>2. shuffle' = [shuffle EXCEPT !.left = l] /\ shuffle.left > 1
        BY <3>5 DEF ShuffleStep
      <4>3. l # 0
        BY <4>1, <4>2, LobbyAssumption
      <4> HIDE DEF l
      <4>4. shuffle'.left = l
        BY <4>1, <4>2
      <4> QED BY <4>3, <4>4 DEF PlayersSeeSlots, SlotmutFree
    <3>6. ASSUME NEW s \in Slots,
                 \/ \E r \in Races : ChangeRace(s, r)
                 \/ \E t \in Teams : ChangeTeam(s, t)
                 \/ \E col \in Colors : ChangeColor(s, col)
                 \/ \E h \in Handicaps : ChangeHandicap(s, h)
                 \/ \E ai \in AIs : ChangeComputer(s, ai)
          PROVE  PlayersSeeSlots'
      BY <2>2, <2>9, <3>6, ZenonT(30) DEF ChangeRace, ChangeTeam, ChangeColor, ChangeHandicap, ChangeComputer,
                        Replace, refreshSlots
    <3> QED BY <2>1, <2>4, <3>1, <3>2, <3>3, <3>4, <3>5, <3>6 DEF Host
  <2>5. ASSUME NEW c \in Clients, JoinRejected(c) \/ Disconnect(c) \/ Read(c) \/ Join(c) \/ JoinSendFails(c)
        PROVE  PlayersSeeSlots'
    BY <2>2, <2>5, ZenonT(30) DEF JoinRejected, Disconnect, Read, Join, JoinSendFails, tableVars
  <2>6. ASSUME NEW c \in Clients, onLeave(c)
        PROVE  PlayersSeeSlots'
    BY <2>2, <2>6, <2>9, ZenonT(30) DEF onLeave, refreshSlots
  <2>7. ASSUME NEW c \in Clients, Packet(c)
        PROVE  PlayersSeeSlots'
    <3>1. UNCHANGED <<shuffle, fresh>> \/ fresh' = TRUE
      BY <2>7, <2>9, ZenonT(30) DEF Packet, onInvalidMessage, onPlayerChat, onMapState, onTeamChange,
         onColorChange, onRaceChange, onHandicapChange, Request, Ignored, Kicked, Panics,
         Handled, refreshSlots
    <3> QED BY <2>2, <3>1, ZenonT(30)
  <2>8. ~Start
    BY ZenonT(30) DEF Start
  <2> QED BY <1>2, <2>3, <2>4, <2>5, <2>6, <2>7, <2>8 DEF Next, Connection
<1> QED BY <1>1, <1>2, PTL DEF Spec
-----------------------------------------------------------------------------
(* Where teams and races belong to slots.                                  *)

(* A step leaves the team of slot s alone or sets the one of the base      *)
(* table, and so for the race unless it may be selected.                   *)
KeepsTeam(s) == slots'[s].team \in {slots[s].team, BaseSlots[s].team}
KeepsRace(s) == \/ slots'[s].race \in {slots[s].race, BaseSlots[s].race}
                \/ Selectable \in slots[s].race
Keeps == \A s \in Slots : KeepsRace(s) /\ (CustomForces => KeepsTeam(s))

(* Replacing one slot by data with the same, or the base, team and race.   *)
LEMMA OneSlotKeeps ==
  ASSUME TypeOK, NEW s \in Slots, NEW d \in SlotData, slots' = [slots EXCEPT ![s] = d],
         d.race \in {slots[s].race, BaseSlots[s].race} \/ Selectable \in slots[s].race,
         CustomForces => d.team \in {slots[s].team, BaseSlots[s].team}
  PROVE  Keeps
<1>1. \A t \in Slots : slots'[t] = IF t = s THEN d ELSE slots[t]
  BY DEF TypeOK
<1> QED BY <1>1 DEF Keeps, KeepsTeam, KeepsRace

(* Changing another field of a slot leaves its team and race alone.        *)
LEMMA SameKeeps ==
  ASSUME \A x \in Slots : slots'[x].team = slots[x].team /\ slots'[x].race = slots[x].race
  PROVE  Keeps
BY DEF Keeps, KeepsTeam, KeepsRace

(* changeColor.                                                            *)
LEMMA withColorKeeps ==
  ASSUME TypeOK, NEW s \in Slots, NEW col \in 0..31,
         slots' = withColor(s, col)
  PROVE  Keeps
<1>1. slots \in [Slots -> SlotData]
  BY DEF TypeOK
<1>2. slots' = [slots EXCEPT ![s] = [slots[s] EXCEPT !.color = col]]
  BY DEF withColor
<1>3. \A x \in Slots : slots'[x].team = slots[x].team /\ slots'[x].race = slots[x].race
  BY <1>1, <1>2 DEF SlotData
<1> QED BY <1>3, SameKeeps

(* changeHandicap.                                                         *)
LEMMA withHandicapKeeps ==
  ASSUME TypeOK, NEW s \in Slots, NEW h \in 0..100,
         slots' = withHandicap(s, h)
  PROVE  Keeps
<1>1. slots \in [Slots -> SlotData]
  BY DEF TypeOK
<1>2. slots' = [slots EXCEPT ![s] = [slots[s] EXCEPT !.handicap = h]]
  BY DEF withHandicap
<1>3. \A x \in Slots : slots'[x].team = slots[x].team /\ slots'[x].race = slots[x].race
  BY <1>1, <1>2 DEF SlotData
<1> QED BY <1>3, SameKeeps

(* The progress onMapState stores.                                         *)
LEMMA DownloadKeeps ==
  ASSUME TypeOK, NEW s \in Slots, NEW progress \in {0, 100},
         slots' = [slots EXCEPT ![s].download = progress]
  PROVE  Keeps
<1>1. slots \in [Slots -> SlotData]
  BY DEF TypeOK
<1>2. slots' = [slots EXCEPT ![s] = [slots[s] EXCEPT !.download = progress]]
  OBVIOUS
<1>3. \A x \in Slots : slots'[x].team = slots[x].team /\ slots'[x].race = slots[x].race
  BY <1>1, <1>2 DEF SlotData
<1> QED BY <1>3, SameKeeps

(* The status of an empty slot that is opened or closed.                   *)
LEMMA StatusKeeps ==
  ASSUME TypeOK, NEW s \in Slots, NEW st \in {Open, Closed},
         slots' = [slots EXCEPT ![s].status = st]
  PROVE  Keeps
<1>1. slots \in [Slots -> SlotData]
  BY DEF TypeOK
<1>2. slots' = [slots EXCEPT ![s] = [slots[s] EXCEPT !.status = st]]
  OBVIOUS
<1>3. \A x \in Slots : slots'[x].team = slots[x].team /\ slots'[x].race = slots[x].race
  BY <1>1, <1>2 DEF SlotData
<1> QED BY <1>3, SameKeeps

(* The strength of a computer.                                             *)
LEMMA AIKeeps ==
  ASSUME TypeOK, NEW s \in Slots, NEW ai \in AIs,
         slots' = [slots EXCEPT ![s].ai = ai]
  PROVE  Keeps
<1>1. slots \in [Slots -> SlotData]
  BY DEF TypeOK
<1>2. slots' = [slots EXCEPT ![s] = [slots[s] EXCEPT !.ai = ai]]
  OBVIOUS
<1>3. \A x \in Slots : slots'[x].team = slots[x].team /\ slots'[x].race = slots[x].race
  BY <1>1, <1>2 DEF SlotData
<1> QED BY <1>3, SameKeeps

(* changeTeam, which custom forces forbid.                                 *)
LEMMA withTeamKeeps ==
  ASSUME TypeOK, NEW s \in Slots, NEW t \in 0..255, ~CustomForces,
         slots' = withTeam(s, t)
  PROVE  Keeps
<1>1. slots \in [Slots -> SlotData]
  BY DEF TypeOK
<1>2. slots' = [slots EXCEPT ![s] = [slots[s] EXCEPT !.team = t]]
  BY DEF withTeam
<1>3. \A x \in Slots : slots'[x].race = slots[x].race
  BY <1>1, <1>2 DEF SlotData
<1> QED BY <1>3 DEF Keeps, KeepsRace

(* changeRace, which a selectable race allows.                             *)
LEMMA withRaceKeeps ==
  ASSUME TypeOK, NEW s \in Slots, NEW r \in SUBSET RaceFlags,
         Selectable \in slots[s].race, slots' = withRace(s, r)
  PROVE  Keeps
<1>1. slots \in [Slots -> SlotData]
  BY DEF TypeOK
<1>2. slots' = [slots EXCEPT ![s] = [slots[s] EXCEPT !.race = r \cup {Selectable}]]
  BY DEF withRace
<1>3. \A x \in Slots : slots'[x].team = slots[x].team /\ (x # s => slots'[x].race = slots[x].race)
  BY <1>1, <1>2 DEF SlotData
<1> QED BY <1>3 DEF Keeps, KeepsRace, KeepsTeam

(* Exchanges, which move teams only without custom forces.                 *)
LEMMA swapSlotsKeeps ==
  ASSUME TypeOK, NEW a \in Slots, NEW b \in Slots, NEW st \in BOOLEAN,
         CustomForces => ~st, slots' = swapSlots(a, b, st)
  PROVE  Keeps
<1>1. slots \in [Slots -> SlotData]
  BY DEF TypeOK
<1>2. \A s \in Slots : /\ ~st => slots'[s].team = slots[s].team
                       /\ slots'[s].race = slots[s].race \/ Selectable \in slots[s].race
  BY <1>1, swapSlotsType
<1> QED BY <1>2 DEF Keeps, KeepsRace, KeepsTeam

(* A slot that is given back.                                              *)
LEMMA slotBaseKeeps ==
  ASSUME TypeOK, NEW s \in Slots, slots' = [slots EXCEPT ![s] = slotBase(s)]
  PROVE  Keeps
BY OneSlotKeeps, slotBaseType, ZenonT(30)

(* A computer's slot that is opened or closed.                             *)
LEMMA ResetKeeps ==
  ASSUME TypeOK, NEW s \in Slots, NEW st \in {Open, Closed},
         slots' = [slots EXCEPT ![s] = [BaseSlots[s] EXCEPT !.status = st]]
  PROVE  Keeps
BY OneSlotKeeps, BaseSlotType, ZenonT(30)

(* The packets' handlers leave teams and races with their slots.           *)
LEMMA PacketKeeps ==
  ASSUME BaseInv, NEW c \in Clients, Packet(c)
  PROVE  Keeps
<1> DEFINE s == pidToSID(pid[c])
<1>1. TypeOK
  BY DEF BaseInv
<1>2. HasSlot(pid[c]) => s \in Slots
  BY pidToSIDFinds
<1> HIDE DEF s
<1>3. CASE slots' = slots
  BY <1>3 DEF Keeps, KeepsTeam, KeepsRace
<1>4. CASE onInvalidMessage(c) \/ onPlayerChat(c)
  BY <1>3, <1>4, ZenonT(30) DEF onInvalidMessage, onPlayerChat, Ignored, Kicked
<1>5. ASSUME NEW ready \in BOOLEAN, NEW progress \in Progress, onMapState(c, ready, progress), slots' # slots
      PROVE  Keeps
  <2>1. HasSlot(pid[c]) /\ slots' = [slots EXCEPT ![s].download = progress] /\ progress \in {0, 100}
    BY <1>5, LobbyAssumption, ZenonT(30) DEF onMapState, Panics, refreshSlots, s
  <2> QED BY <1>1, <1>2, <2>1, DownloadKeeps, ZenonT(30)
<1>6. ASSUME NEW t \in Teams, onTeamChange(c, t), slots' # slots
      PROVE  Keeps
  <2>1. /\ HasSlot(pid[c])
        /\ \/ ~CustomForces /\ slots' = withTeam(s, t)
           \/ /\ \E x \in OpenSlots : slots[x].team = t
              /\ slots' = swapSlots(s, findEmptyTeamSlot(t), FALSE)
    BY <1>6, ZenonT(30) DEF onTeamChange, Request, refreshSlots, Ignored, Kicked, Panics, s
  <2>2. t \in 0..255 /\ s \in Slots
    BY <1>2, <2>1, LobbyAssumption
  <2>3. CASE ~CustomForces /\ slots' = withTeam(s, t)
    BY <1>1, <2>2, <2>3, withTeamKeeps
  <2>4. CASE /\ \E x \in OpenSlots : slots[x].team = t
             /\ slots' = swapSlots(s, findEmptyTeamSlot(t), FALSE)
    <3>1. findEmptyTeamSlot(t) \in Slots
      BY <2>4, findEmptyTeamSlotOpen
    <3> QED BY <1>1, <2>2, <2>4, <3>1, swapSlotsKeeps, ZenonT(30)
  <2> QED BY <2>1, <2>3, <2>4, ZenonT(30)
<1>7. ASSUME NEW col \in Colors, onColorChange(c, col), slots' # slots
      PROVE  Keeps
  <2>1. HasSlot(pid[c]) /\ slots' = withColor(s, col) /\ ~(col >= 32)
    BY <1>7, ZenonT(30) DEF onColorChange, onInvalidMessage, Request, refreshSlots, Ignored, Kicked,
       Panics, s
  <2>2. col \in 0..31
    BY <2>1, LobbyAssumption
  <2> QED BY <1>1, <1>2, <2>1, <2>2, withColorKeeps
<1>8. ASSUME NEW r \in Races, onRaceChange(c, r), slots' # slots
      PROVE  Keeps
  <2>1. HasSlot(pid[c]) /\ slots' = withRace(s, r) /\ Selectable \in slots[s].race
    BY <1>8, ZenonT(30) DEF onRaceChange, Request, refreshSlots, Ignored, Kicked, Panics, raceInvalid, s
  <2>2. r \in SUBSET RaceFlags
    BY LobbyAssumption
  <2> QED BY <1>1, <1>2, <2>1, <2>2, withRaceKeeps
<1>9. ASSUME NEW h \in Handicaps, onHandicapChange(c, h), slots' # slots
      PROVE  Keeps
  <2>1. HasSlot(pid[c]) /\ slots' = withHandicap(s, h) /\ ~(h > 100)
    BY <1>9, ZenonT(30) DEF onHandicapChange, onInvalidMessage, Request, refreshSlots, Ignored, Kicked,
       Panics, s
  <2>2. h \in 0..100
    BY <2>1, LobbyAssumption
  <2> QED BY <1>1, <1>2, <2>1, <2>2, withHandicapKeeps
<1> QED BY <1>3, <1>4, <1>5, <1>6, <1>7, <1>8, <1>9 DEF Packet

(* So do the host's operations.                                            *)
LEMMA HostKeeps ==
  ASSUME BaseInv, Host
  PROVE  Keeps
<1>1. TypeOK /\ slots \in [Slots -> SlotData]
  BY DEF BaseInv, TypeOK
<1>2. CASE slots' = slots
  BY <1>2 DEF Keeps, KeepsTeam, KeepsRace
<1>3. CASE Lock \/ Unlock \/ Close \/ (\E teams \in BOOLEAN : ShuffleBegin(teams)) \/ ShuffleEnd
  BY <1>2, <1>3 DEF Lock, Unlock, Close, ShuffleBegin, ShuffleEnd, refreshSlots, tableVars
<1>4. ASSUME NEW from \in {Open, Closed}, NEW to \in {Open, Closed}, SetAll(from, to)
      PROVE  Keeps
  <2>1. \A x \in Slots : slots'[x] = IF slots[x].status = from
                                    THEN [slots[x] EXCEPT !.status = to] ELSE slots[x]
    BY <1>4 DEF SetAll, refreshSlots
  <2>2. ASSUME NEW d \in SlotData
        PROVE  [d EXCEPT !.status = to].team = d.team /\ [d EXCEPT !.status = to].race = d.race
    BY DEF SlotData
  <2>3. \A x \in Slots : slots'[x].team = slots[x].team /\ slots'[x].race = slots[x].race
    BY <1>1, <2>1, <2>2, ZenonT(30)
  <2> QED BY <2>3 DEF Keeps, KeepsTeam, KeepsRace
<1>5. ASSUME NEW s \in Slots, NEW kick \in BOOLEAN, NEW status \in {Open, Closed},
             changeSlotStatus(s, status, kick)
      PROVE  Keeps
  <2>1. \/ slots' = slots
        \/ slots' = [slots EXCEPT ![s].status = status]
        \/ slots' = [slots EXCEPT ![s] = [BaseSlots[s] EXCEPT !.status = status]]
    BY <1>5 DEF changeSlotStatus, refreshSlots
  <2> QED BY <1>1, <1>2, <2>1, StatusKeeps, ResetKeeps
<1>6. ASSUME NEW a \in Slots, NEW b \in Slots, SwapSlots(a, b)
      PROVE  Keeps
  <2>1. slots' = swapSlots(a, b, ~CustomForces) /\ (~CustomForces) \in BOOLEAN
    BY <1>6, LobbyAssumption DEF SwapSlots, Replace, refreshSlots
  <2> QED BY <1>1, <2>1, swapSlotsKeeps, ZenonT(30)
<1>7. ASSUME NEW j \in Slots, ShuffleStep(j)
      PROVE  Keeps
  <2> DEFINE occupied == slots[shuffle.left].status = Occupied /\ slots[j].status = Occupied
             st == ~CustomForces /\ occupied /\ ~shuffle.teams
  <2>1. shuffle.left \in 0..NumSlots /\ shuffle.left > 1 /\ slots' = swapSlots(shuffle.left, j, st)
    BY <1>1, <1>7 DEF ShuffleStep, TypeOK
  <2>2. shuffle.left \in Slots
    BY <2>1, LobbyAssumption DEF Slots
  <2>3. st \in BOOLEAN /\ (CustomForces => ~st)
    OBVIOUS
  <2> HIDE DEF st
  <2> QED BY <1>1, <2>1, <2>2, <2>3, swapSlotsKeeps
<1>8. ASSUME NEW s \in Slots, NEW r \in Races, ChangeRace(s, r)
      PROVE  Keeps
  <2>1. slots' = withRace(s, r) /\ Selectable \in slots[s].race /\ r \in SUBSET RaceFlags
    BY <1>8, LobbyAssumption DEF ChangeRace, raceInvalid, Replace, refreshSlots
  <2> QED BY <1>1, <2>1, withRaceKeeps
<1>9. ASSUME NEW s \in Slots, NEW t \in Teams, ChangeTeam(s, t)
      PROVE  Keeps
  <2>1. slots' = withTeam(s, t) /\ ~CustomForces /\ t \in 0..255
    BY <1>9, LobbyAssumption DEF ChangeTeam, Replace, refreshSlots
  <2> QED BY <1>1, <2>1, withTeamKeeps
<1>10. ASSUME NEW s \in Slots,
              \/ \E col \in Colors : ChangeColor(s, col)
              \/ \E h \in Handicaps : ChangeHandicap(s, h)
       PROVE  Keeps
  <2>1. \A x \in Colors : x < 32 => x \in 0..31
    BY LobbyAssumption
  <2>2. \A x \in Handicaps : x <= 100 => x \in 0..100
    BY LobbyAssumption
  <2>3. \/ \E col \in 0..31 : slots' = withColor(s, col)
        \/ \E h \in 0..100 : slots' = withHandicap(s, h)
    BY <1>10, <2>1, <2>2 DEF ChangeColor, ChangeHandicap, Replace, refreshSlots
  <2> QED BY <1>1, <2>3, withColorKeeps, withHandicapKeeps
<1>11. ASSUME NEW s \in Slots, NEW ai \in AIs, ChangeComputer(s, ai)
       PROVE  Keeps
  <2> DEFINE i == initSlot(s)
             d == [i EXCEPT !.ai = ai, !.download = 100]
  <2>1. \/ slots' = [slots EXCEPT ![s].ai = ai]
        \/ slots' = [slots EXCEPT ![s] = d]
        \/ slots' = [slots EXCEPT ![s] = slotBase(s)]
    BY <1>11 DEF ChangeComputer, Replace, refreshSlots
  <2>2. /\ d \in SlotData /\ d.race = BaseSlots[s].race
        /\ CustomForces => d.team = BaseSlots[s].team
    <3>1. /\ i \in SlotData /\ i.race = BaseSlots[s].race
          /\ CustomForces => i.team = BaseSlots[s].team
      BY initSlotType
    <3> HIDE DEF i
    <3> DEFINE e == [i EXCEPT !.ai = ai]
    <3>2. e \in SlotData /\ e.race = i.race /\ e.team = i.team
      BY <3>1 DEF SlotData
    <3>3. d = [e EXCEPT !.download = 100]
      OBVIOUS
    <3> HIDE DEF e, d
    <3>4. d \in SlotData /\ d.race = e.race /\ d.team = e.team
      BY <3>2, <3>3 DEF SlotData
    <3> QED BY <3>1, <3>2, <3>4
  <2> HIDE DEF d
  <2>3. CASE slots' = [slots EXCEPT ![s] = d]
    BY <1>1, <2>2, <2>3, OneSlotKeeps, ZenonT(30)
  <2> QED BY <1>1, <2>1, <2>3, AIKeeps, slotBaseKeeps
<1>12. CASE OpenAllSlots \/ CloseAllSlots
  BY <1>4, <1>12 DEF OpenAllSlots, CloseAllSlots
<1> QED BY <1>3, <1>5, <1>6, <1>7, <1>8, <1>9, <1>10, <1>11, <1>12 DEF Host

(* And so does every step.                                                 *)
LEMMA StepKeeps ==
  ASSUME BaseInv, [Next]_vars
  PROVE  Keeps
<1>1. TypeOK
  BY DEF BaseInv
<1>2. CASE slots' = slots
  BY <1>2 DEF Keeps, KeepsTeam, KeepsRace
<1>3. ASSUME NEW c \in Clients, JoinRejected(c) \/ Disconnect(c) \/ Read(c)
      PROVE  Keeps
  BY <1>2, <1>3 DEF JoinRejected, Disconnect, Read, tableVars
<1>4. ASSUME NEW c \in Clients, Join(c) \/ JoinSendFails(c)
      PROVE  Keeps
  <2>1. OpenSlots # {} /\ slots' = TakeSlot
    BY <1>4 DEF Join, JoinSendFails
  <2> QED BY <2>1, TakeSlotType DEF Keeps, KeepsTeam, KeepsRace
<1>5. ASSUME NEW c \in Clients, onLeave(c)
      PROVE  Keeps
  <2>1. CASE HasSlot(pid[c])
    <3> DEFINE s == pidToSID(pid[c])
    <3>1. s \in Slots
      BY <2>1, pidToSIDFinds
    <3>2. slots' = [slots EXCEPT ![s] = slotBase(s)]
      BY <1>5, <2>1 DEF onLeave, refreshSlots
    <3> HIDE DEF s
    <3> QED BY <1>1, <3>1, <3>2, slotBaseKeeps, ZenonT(30)
  <2> QED BY <1>2, <1>5, <2>1 DEF onLeave
<1>6. CASE Start
  BY <1>2, <1>6 DEF Start, tableVars
<1> QED BY <1>2, <1>3, <1>4, <1>5, <1>6, HostKeeps, PacketKeeps DEF Next, Connection, vars

(* With custom forces every slot keeps the team of the map, whatever       *)
(* sequence of joins, leaves, swaps, shuffles and requests happens.        *)
THEOREM TeamsBelongToSlots == Spec => []TeamsStayWithSlots
<1>1. Init => BaseInv /\ TeamsStayWithSlots
  BY BaseInit, ZenonT(30) DEF Init, TeamsStayWithSlots
<1>2. BaseInv /\ TeamsStayWithSlots /\ [Next]_vars => BaseInv' /\ TeamsStayWithSlots'
  BY BaseStep, StepKeeps DEF TeamsStayWithSlots, Keeps, KeepsTeam
<1> QED BY <1>1, <1>2, PTL DEF Spec

(* A race the map fixes is never moved to another slot nor changed.        *)
THEOREM FixedRacesBelongToSlots == Spec => []FixedRacesStay
<1>1. Init => BaseInv /\ FixedRacesStay
  BY BaseInit, ZenonT(30) DEF Init, FixedRacesStay
<1>2. BaseInv /\ FixedRacesStay /\ [Next]_vars => BaseInv' /\ FixedRacesStay'
  BY BaseStep, StepKeeps DEF FixedRacesStay, Keeps, KeepsRace
<1> QED BY <1>1, <1>2, PTL DEF Spec
-----------------------------------------------------------------------------
(* What a locked lobby still allows.                                       *)

(* ShuffleSlots holds slotmut, so Lock waits until it is done.             *)
ShufflesUnlocked == SlotmutFree \/ ~locked

(* Lock and ShuffleSlots exclude each other through slotmut.               *)
LEMMA ShufflesUnlockedStep ==
  ASSUME ShufflesUnlocked, [Next]_vars
  PROVE  ShufflesUnlocked'
<1>1. CASE UNCHANGED <<shuffle, locked>>
  BY <1>1 DEF ShufflesUnlocked, SlotmutFree
<1>2. CASE UNCHANGED vars
  BY <1>1, <1>2 DEF vars
<1>3. CASE Host
  <2>1. CASE Lock \/ Unlock
    BY <2>1 DEF Lock, Unlock, ShufflesUnlocked, SlotmutFree
  <2>2. CASE Close \/ OpenAllSlots \/ CloseAllSlots \/ \E a, b \in Slots : SwapSlots(a, b)
    BY <1>1, <2>2 DEF Close, OpenAllSlots, CloseAllSlots, SetAll, SwapSlots, Replace
  <2>3. CASE \E s \in Slots, kick \in BOOLEAN, status \in {Open, Closed} : changeSlotStatus(s, status, kick)
    BY <1>1, <2>3 DEF changeSlotStatus
  <2>4. CASE \/ \E teams \in BOOLEAN : ShuffleBegin(teams)
             \/ \E j \in Slots : ShuffleStep(j)
    <3>1. shuffle.left > 1 => ~SlotmutFree
      BY DEF SlotmutFree
    <3>2. ~locked
      BY <2>4, <3>1, ZenonT(30) DEF ShuffleBegin, ShuffleStep, Call, ShufflesUnlocked
    <3>3. locked' = locked
      BY <2>4 DEF ShuffleBegin, ShuffleStep
    <3> QED BY <3>2, <3>3, ZenonT(30) DEF ShufflesUnlocked
  <2>6. CASE ShuffleEnd
    BY <2>6 DEF ShuffleEnd, ShufflesUnlocked, SlotmutFree
  <2>5. CASE \E s \in Slots : \/ \E r \in Races : ChangeRace(s, r)
                              \/ \E t \in Teams : ChangeTeam(s, t)
                              \/ \E col \in Colors : ChangeColor(s, col)
                              \/ \E h \in Handicaps : ChangeHandicap(s, h)
                              \/ \E ai \in AIs : ChangeComputer(s, ai)
    <3>1. CASE \E s \in Slots : \/ \E r \in Races : ChangeRace(s, r)
                                \/ \E t \in Teams : ChangeTeam(s, t)
                                \/ \E col \in Colors : ChangeColor(s, col)
                                \/ \E h \in Handicaps : ChangeHandicap(s, h)
      BY <1>1, <3>1 DEF ChangeRace, ChangeTeam, ChangeColor, ChangeHandicap, Replace
    <3>2. ASSUME NEW s \in Slots, NEW ai \in AIs, ChangeComputer(s, ai)
          PROVE  UNCHANGED <<shuffle, locked>>
      BY <3>2 DEF ChangeComputer, Replace
    <3> QED BY <1>1, <2>5, <3>1, <3>2
  <2> QED BY <1>3, <2>1, <2>2, <2>3, <2>4, <2>5, <2>6 DEF Host
<1>4. ASSUME NEW c \in Clients, Connection(c)
      PROVE  ShufflesUnlocked'
  <2>1. CASE JoinRejected(c) \/ JoinSendFails(c) \/ Join(c) \/ Disconnect(c) \/ Read(c) \/ onLeave(c)
    BY <1>1, <2>1 DEF JoinRejected, JoinSendFails, Join, Disconnect, Read, onLeave
  <2>2. CASE Packet(c)
    BY <1>1, <2>2, ZenonT(30) DEF Packet, onInvalidMessage, onPlayerChat, onMapState, onTeamChange,
       onColorChange,
                      onRaceChange, onHandicapChange, Request, Ignored, Kicked, Panics, Handled
  <2> QED BY <1>4, <2>1, <2>2 DEF Connection
<1>5. CASE Start
  BY <1>5 DEF Start, ShufflesUnlocked, SlotmutFree
<1> QED BY <1>2, <1>3, <1>4, <1>5 DEF Next

(* "Lock lobby, disabling joins and slot changes": in a locked lobby       *)
(* nobody registers, and a slot changes only in its download status or by  *)
(* being given back when its player leaves.                                *)
THEOREM LockedSlotsFreeze == Spec => LockFreezesSlots
<1> DEFINE Frozen == /\ \A p \in PIDs : players'[p] \in {players[p], NoPlayer}
                     /\ \A s \in Slots :
                          \/ slots'[s] = [slots[s] EXCEPT !.download = slots'[s].download]
                          \/ /\ slots'[s] = slotBase(s)
                             /\ \E c \in Live : pc'[c] = "left" /\ pid[c] = slots[s].pid
<1>1. Init => BaseInv /\ ShufflesUnlocked
  BY BaseInit, ZenonT(30) DEF Init, ShufflesUnlocked
<1>2. BaseInv /\ ShufflesUnlocked /\ [Next]_vars => BaseInv' /\ ShufflesUnlocked'
  BY BaseStep, ShufflesUnlockedStep
<1>3. ASSUME BaseInv, ShufflesUnlocked, Next, locked, locked'
      PROVE  Frozen
  <2>1. TypeOK /\ SlotmutFree /\ \A s \in Slots : slots[s] \in SlotData
    <3>1. TypeOK /\ SlotmutFree
      BY <1>3 DEF BaseInv, ShufflesUnlocked
    <3> QED BY <3>1 DEF TypeOK
  <2>2. \A d \in SlotData : d = [d EXCEPT !.download = d.download]
    BY DEF SlotData
  <2>3. CASE UNCHANGED <<players, slots>>
    BY <2>1, <2>2, <2>3
  <2>4. CASE Close
    BY <2>1, <2>2, <2>4 DEF Close, tableVars
  <2>5. CASE Host
    <3>1. ~(\E j \in Slots : ShuffleStep(j)) /\ ~ShuffleEnd
      BY <2>1 DEF ShuffleStep, ShuffleEnd, SlotmutFree
    <3>2. \A op : ~ Call(op)
      BY <1>3, ZenonT(30) DEF Call
    <3>3. \A op, tab : ~ Replace(op, tab)
      BY <3>2, ZenonT(30) DEF Replace
    <3>4. /\ ~ OpenAllSlots /\ ~ CloseAllSlots
          /\ \A s, status, kick : ~ changeSlotStatus(s, status, kick)
          /\ \A teams : ~ ShuffleBegin(teams)
      BY <3>2, ZenonT(30) DEF OpenAllSlots, CloseAllSlots, SetAll, changeSlotStatus, ShuffleBegin
    <3>5. \A s, x : /\ ~ SwapSlots(s, x) /\ ~ ChangeRace(s, x) /\ ~ ChangeTeam(s, x)
                    /\ ~ ChangeColor(s, x) /\ ~ ChangeHandicap(s, x)
      BY <3>3, ZenonT(30) DEF SwapSlots, ChangeRace, ChangeTeam, ChangeColor, ChangeHandicap
    <3>6. \A s, ai : ~ ChangeComputer(s, ai)
      BY <3>2, <3>3, ZenonT(30) DEF ChangeComputer
    <3>7. Lock \/ Unlock \/ Close
      BY <2>5, <3>1, <3>4, <3>5, <3>6, ZenonT(30) DEF Host
    <3> QED BY <2>3, <2>4, <3>7 DEF Lock, Unlock, tableVars
  <2>6. ASSUME NEW c \in Clients, onLeave(c)
        PROVE  Frozen
    <3>1. players' = [players EXCEPT ![pid[c]] = NoPlayer]
      BY <2>6 DEF onLeave
    <3>2. \A p \in PIDs : players'[p] \in {players[p], NoPlayer}
      BY <2>1, <3>1 DEF TypeOK
    <3>3. CASE ~HasSlot(pid[c])
      BY <2>1, <2>2, <2>6, <3>2, <3>3 DEF onLeave
    <3>4. CASE HasSlot(pid[c])
      <4> DEFINE s == pidToSID(pid[c])
      <4>1. s \in Slots /\ slots[s].pid = pid[c]
        BY <3>4, pidToSIDFinds
      <4>2. slots' = [slots EXCEPT ![s] = slotBase(s)] /\ c \in Live /\ pc'[c] = "left"
        BY <2>1, <2>6, <3>4 DEF onLeave, refreshSlots, Live, TypeOK
      <4> HIDE DEF s
      <4>3. \A t \in Slots : slots'[t] = IF t = s THEN slotBase(s) ELSE slots[t]
        BY <2>1, <4>1, <4>2 DEF TypeOK
      <4> QED BY <2>1, <2>2, <3>2, <4>1, <4>2, <4>3
    <3> QED BY <3>3, <3>4
  <2>7. ASSUME NEW c \in Clients, Packet(c)
        PROVE  Frozen
    <3>1. players' = players
      BY <2>7, ZenonT(30) DEF Packet, onInvalidMessage, onPlayerChat, onMapState, onTeamChange,
         onColorChange,
                  onRaceChange, onHandicapChange, Request, Ignored, Kicked, Panics, Handled
    <3>2. \/ slots' = slots
          \/ \E progress \in {0, 100} :
               HasSlot(pid[c]) /\ slots' = [slots EXCEPT ![pidToSID(pid[c])].download = progress]
      <4>1. CASE \E ready \in BOOLEAN, progress \in Progress : onMapState(c, ready, progress)
        BY <4>1, LobbyAssumption, ZenonT(30) DEF onMapState, Panics, refreshSlots
      <4>2. CASE onInvalidMessage(c) \/ onPlayerChat(c)
        BY <4>2, ZenonT(30) DEF onInvalidMessage, onPlayerChat, Kicked, Ignored
      <4>3. CASE \/ \E t \in Teams : onTeamChange(c, t)
                 \/ \E col \in Colors : onColorChange(c, col)
                 \/ \E r \in Races : onRaceChange(c, r)
                 \/ \E h \in Handicaps : onHandicapChange(c, h)
        BY <1>3, <4>3, ZenonT(30) DEF onTeamChange, onColorChange, onRaceChange, onHandicapChange,
           onInvalidMessage,
                          Request, Ignored, Kicked
      <4> QED BY <2>7, <4>1, <4>2, <4>3 DEF Packet
    <3>3. ASSUME NEW progress \in {0, 100}, HasSlot(pid[c]),
                 slots' = [slots EXCEPT ![pidToSID(pid[c])].download = progress]
          PROVE  Frozen
      <4> DEFINE s == pidToSID(pid[c])
      <4>1. s \in Slots
        BY <3>3, pidToSIDFinds
      <4>2. slots' = [slots EXCEPT ![s] = [slots[s] EXCEPT !.download = progress]]
        BY <3>3
      <4> HIDE DEF s
      <4>3. \A t \in Slots : slots'[t] = IF t = s THEN [slots[s] EXCEPT !.download = progress] ELSE slots[t]
        BY <2>1, <4>1, <4>2 DEF TypeOK
      <4>4. \A d \in SlotData : [d EXCEPT !.download = progress].download = progress
        BY DEF SlotData
      <4> QED BY <2>1, <2>2, <3>1, <4>1, <4>3, <4>4
    <3> QED BY <2>3, <3>1, <3>2, <3>3
  <2>8. ASSUME NEW c \in Clients,
               JoinRejected(c) \/ JoinSendFails(c) \/ Join(c) \/ Disconnect(c) \/ Read(c)
        PROVE  Frozen
    BY <1>3, <2>3, <2>8 DEF JoinRejected, JoinSendFails, Join, Disconnect, Read, tableVars
  <2>9. CASE Start
    BY <2>3, <2>9 DEF Start, tableVars
  <2> QED BY <1>3, <2>5, <2>6, <2>7, <2>8, <2>9 DEF Next, Connection
<1>4. BaseInv /\ ShufflesUnlocked /\ [Next]_vars => [locked /\ locked' => Frozen]_vars
  BY <1>3
<1> QED BY <1>1, <1>2, <1>4, PTL DEF Spec, LockFreezesSlots

-----------------------------------------------------------------------------
(* No slot is, or can be moved to, the observers' team.                    *)
NoObservers == ObsTeam = ObsDisabled /\ \A s \in Slots : BaseSlots[s].team # ObsTeam

(* Players may choose their colours, and there is one for every slot.      *)
EnoughColors == ~FixedSettings /\ Cardinality(ColorSet) >= NumSlots

(* The inductive invariant.  Unlike PlayersWithinLimit it also bounds the  *)
(* players in the middle of a shuffle.                                     *)
TableInv ==
  /\ \A s \in Slots : slots[s].team # ObsTeam
  /\ ~CustomForces => countPlayers(slots) <= NumPlayers
  /\ EnoughColors => UniqueColors
-----------------------------------------------------------------------------
(* The players are a finite set, and so are the colours.                   *)
LEMMA PlayingFinite ==
  ASSUME NEW tab
  PROVE  /\ IsFiniteSet(Playing(tab))
         /\ Cardinality(Playing(tab)) \in Nat
         /\ IsFiniteSet(Slots)
         /\ Cardinality(Slots) = NumSlots
<1>1. IsFiniteSet(Slots) /\ Cardinality(Slots) = NumSlots
  <2>1. NumSlots \in Int /\ 1 \in Int /\ NumSlots >= 1
    BY LobbyAssumption
  <2>2. /\ IsFiniteSet(1..NumSlots)
        /\ Cardinality(1..NumSlots) = IF 1 > NumSlots THEN 0 ELSE NumSlots - 1 + 1
    BY <2>1, FS_Interval, ZenonT(30)
  <2> QED BY <2>1, <2>2 DEF Slots
<1>2. Playing(tab) \subseteq Slots
  BY DEF Playing
<1>3. IsFiniteSet(Playing(tab))
  BY <1>1, <1>2, FS_Subset
<1> QED BY <1>1, <1>3, FS_CardinalityType

(* While a slot is free, not every colour is in use.                       *)
LEMMA ColorAvailable ==
  ASSUME EnoughColors, NEW s \in Slots, slots[s].status # Occupied
  PROVE  availableColors # {}
<1>1. SUFFICES ASSUME availableColors = {} PROVE FALSE
  OBVIOUS
<1> DEFINE P == Playing(slots)
           g == [x \in ColorSet |-> CHOOSE t \in P : slots[t].color = x]
<1>2. \A x \in ColorSet : \E t \in P : slots[t].color = x
  BY <1>1 DEF availableColors
<1>3. \A x \in ColorSet : g[x] \in P /\ slots[g[x]].color = x
  BY <1>2
<1>4. g \in [ColorSet -> P]
  BY <1>3
<1>5. IsFiniteSet(ColorSet)
  <2>1. 0 \in Int /\ 31 \in Int
    OBVIOUS
  <2>2. IsFiniteSet(0..31)
    BY <2>1, FS_Interval, ZenonT(30)
  <2>3. ColorSet \subseteq 0..31
    BY LobbyAssumption
  <2> QED BY <2>2, <2>3, FS_Subset, ZenonT(30)
<1>6. IsFiniteSet(P) /\ Cardinality(P) < Cardinality(ColorSet)
  <2>1. P \subseteq Slots \ {s}
    BY DEF Playing
  <2>2. IsFiniteSet(Slots) /\ Cardinality(Slots) = NumSlots /\ IsFiniteSet(P)
    BY PlayingFinite
  <2>3. IsFiniteSet(Slots \ {s}) /\ Cardinality(Slots \ {s}) = NumSlots - 1
    BY <2>2, FS_RemoveElement
  <2> HIDE DEF P
  <2>4. Cardinality(P) <= NumSlots - 1
    BY <2>1, <2>3, FS_Subset
  <2>5. Cardinality(P) \in Nat /\ Cardinality(ColorSet) \in Nat
    BY <1>5, <2>2, FS_CardinalityType
  <2> QED BY <2>2, <2>4, <2>5, LobbyAssumption DEF EnoughColors
<1>7. PICK x, y \in ColorSet : x # y /\ g[x] = g[y]
  <2> HIDE DEF g, P
  <2> QED BY <1>4, <1>5, <1>6, FS_PigeonHole
<1> QED BY <1>3, <1>7
-----------------------------------------------------------------------------
(* The ways a step changes the table.                                      *)

(* Nobody joins, leaves or changes colour.                                 *)
Still ==
  \A x \in Slots : /\ slots'[x].status = Occupied <=> slots[x].status = Occupied
                   /\ slots'[x].color = slots[x].color
                   /\ slots'[x].team # ObsTeam

(* Only slot s changes, and not to the observers' team.                    *)
Only(s) == /\ \A x \in Slots \ {s} : slots'[x] = slots[x]
           /\ slots'[s].team # ObsTeam

(* Slot s is empty afterwards.                                             *)
Freed(s) == Only(s) /\ slots'[s].status # Occupied

(* The holder of slot s gets a colour that nobody has.                     *)
Recolored(s) ==
  /\ Only(s)
  /\ slots'[s].status = slots[s].status
  /\ EnoughColors => slots'[s].color \in availableColors

(* Somebody takes the empty slot s, with a colour that nobody has, and the *)
(* limit on the players leaves room.                                       *)
Taken(s) ==
  /\ Only(s)
  /\ slots[s].status # Occupied /\ slots'[s].status = Occupied
  /\ EnoughColors => slots'[s].color \in availableColors
  /\ ~CustomForces => countPlayers(slots) < NumPlayers

(* The holders of slots a and b change places and take their colours along. *)
Swapped(a, b) ==
  \A x \in Slots : /\ slots'[x].status = slots[Other(a, b, x)].status
                   /\ EnoughColors => slots'[x].color = slots[Other(a, b, x)].color
                   /\ slots'[x].team # ObsTeam

(* A step that neither seats, unseats nor recolours anybody.               *)
LEMMA StillKeeps ==
  ASSUME TableInv, Still
  PROVE  TableInv'
<1>1. Playing(slots') = Playing(slots)
  BY DEF Still, TableInv, Playing
<1>2. UniqueColors => UniqueColors'
  BY <1>1 DEF UniqueColors, Still, Playing
<1>3. countPlayers(slots)' = countPlayers(slots)
  BY <1>1 DEF countPlayers
<1>4. EnoughColors' = EnoughColors
  BY DEF EnoughColors
<1> QED BY <1>2, <1>3, <1>4 DEF TableInv, Still

(* Giving a slot back cannot break the limit or a colour.                  *)
LEMMA FreedKeeps ==
  ASSUME TableInv, NEW s \in Slots, Freed(s)
  PROVE  TableInv'
<1>1. Playing(slots') \subseteq Playing(slots) \ {s}
  BY DEF Freed, Only, Playing
<1>2. \A x \in Playing(slots') : x \in Playing(slots) /\ slots'[x].color = slots[x].color
  BY <1>1 DEF Freed, Only, Playing
<1>3. UniqueColors => UniqueColors'
  BY <1>2 DEF UniqueColors
<1>4. countPlayers(slots') <= countPlayers(slots)
  <2>1. Playing(slots') \subseteq Playing(slots)
    BY <1>1
  <2> QED BY <2>1, PlayingFinite, FS_Subset DEF countPlayers
<1>5. countPlayers(slots) \in Nat /\ countPlayers(slots') \in Nat /\ NumPlayers \in Nat
  BY PlayingFinite, LobbyAssumption DEF countPlayers
<1>6. ~CustomForces => countPlayers(slots') <= NumPlayers
  BY <1>4, <1>5 DEF TableInv
<1>7. \A x \in Slots : slots'[x].team # ObsTeam
  BY DEF Freed, Only, TableInv
<1> QED BY <1>3, <1>6, <1>7 DEF TableInv, EnoughColors

(* A colour that nobody has stays unique.                                  *)
LEMMA RecoloredKeeps ==
  ASSUME TableInv, NEW s \in Slots, Recolored(s)
  PROVE  TableInv'
<1>1. Playing(slots') = Playing(slots)
  BY DEF Recolored, Only, TableInv, Playing
<1>2. \A x \in Playing(slots) \ {s} : slots'[x].color = slots[x].color
  BY DEF Recolored, Only, Playing
<1>3. EnoughColors => \A x \in Playing(slots) \ {s} : slots'[s].color # slots'[x].color
  BY <1>2 DEF Recolored, availableColors
<1>4. EnoughColors => UniqueColors'
  BY <1>1, <1>2, <1>3 DEF UniqueColors, TableInv
<1>5. \A x \in Slots : slots'[x].team # ObsTeam
  BY DEF Recolored, Only, TableInv
<1> QED BY <1>1, <1>4, <1>5 DEF TableInv, EnoughColors, countPlayers

(* One more player fits under a limit that is not reached.                 *)
LEMMA TakenKeeps ==
  ASSUME TableInv, NEW s \in Slots, Taken(s)
  PROVE  TableInv'
<1>1. Playing(slots') = Playing(slots) \cup {s} /\ s \notin Playing(slots)
  BY DEF Taken, Only, TableInv, Playing
<1>2. \A x \in Playing(slots) : slots'[x].color = slots[x].color
  BY <1>1 DEF Taken, Only, Playing
<1>3. EnoughColors => \A x \in Playing(slots) : slots'[s].color # slots'[x].color
  BY <1>2 DEF Taken, availableColors
<1>4. EnoughColors => UniqueColors'
  BY <1>1, <1>2, <1>3 DEF UniqueColors, TableInv
<1>5. Cardinality(Playing(slots')) = Cardinality(Playing(slots)) + 1
  BY <1>1, PlayingFinite, FS_AddElement, ZenonT(30)
<1>6. Cardinality(Playing(slots)) \in Nat /\ NumPlayers \in Nat
  BY PlayingFinite, LobbyAssumption
<1>7. ~CustomForces => countPlayers(slots') <= NumPlayers
  BY <1>5, <1>6 DEF Taken, countPlayers
<1>8. \A x \in Slots : slots'[x].team # ObsTeam
  BY DEF Taken, Only, TableInv
<1> QED BY <1>4, <1>7, <1>8 DEF TableInv, EnoughColors

(* An exchange moves the players, and their number stays.                  *)
LEMMA SwappedKeeps ==
  ASSUME TableInv, NEW a \in Slots, NEW b \in Slots, Swapped(a, b)
  PROVE  TableInv'
<1> DEFINE P == Playing(slots)
           Q == Playing(slots')
<1>1. \A x \in Slots : Other(a, b, x) \in Slots /\ Other(a, b, Other(a, b, x)) = x
  BY DEF Other
<1>2. \A x \in Slots : x \in Q <=> Other(a, b, x) \in P
  BY <1>1 DEF Swapped, TableInv, Playing
<1>3. P \subseteq Slots /\ Q \subseteq Slots
  BY DEF Playing
<1>4. IsFiniteSet(P) /\ IsFiniteSet(Q) /\ Cardinality(P) \in Nat /\ Cardinality(Q) \in Nat
  BY PlayingFinite
<1>5. EnoughColors => UniqueColors'
  <2>1. ASSUME EnoughColors, NEW x \in Q, NEW y \in Q, slots'[x].color = slots'[y].color
        PROVE  x = y
    <3>1. Other(a, b, x) \in P /\ Other(a, b, y) \in P
      BY <1>2, <1>3
    <3>2. slots[Other(a, b, x)].color = slots[Other(a, b, y)].color
      BY <1>3, <2>1 DEF Swapped
    <3>3. Other(a, b, x) = Other(a, b, y)
      BY <2>1, <3>1, <3>2 DEF TableInv, UniqueColors
    <3> QED BY <1>1, <1>3, <3>3
  <2> QED BY <2>1 DEF UniqueColors
<1> HIDE DEF P, Q
<1>6. Cardinality(Q) = Cardinality(P)
  <2>1. ASSUME NEW u \in Slots, NEW v \in Slots, {u, v} = {a, b}, u \in P, v \notin P
        PROVE  Cardinality(Q) = Cardinality(P)
    <3>1. Q = (P \ {u}) \cup {v}
      BY <1>2, <1>3, <2>1 DEF Other
    <3>2. IsFiniteSet(P \ {u}) /\ Cardinality(P \ {u}) = Cardinality(P) - 1
      BY <1>4, <2>1, FS_RemoveElement
    <3>3. v \notin P \ {u}
      BY <2>1
    <3>4. Cardinality(Q) = Cardinality(P) - 1 + 1
      BY <3>1, <3>2, <3>3, FS_AddElement
    <3> QED BY <1>4, <3>4
  <2>2. CASE a \in P <=> b \in P
    <3>1. Q = P
      BY <1>2, <1>3, <2>2 DEF Other
    <3> QED BY <3>1
  <2> QED BY <2>1, <2>2
<1>7. ~CustomForces => countPlayers(slots') <= NumPlayers
  BY <1>6 DEF TableInv, countPlayers, P, Q
<1>8. \A x \in Slots : slots'[x].team # ObsTeam
  BY DEF Swapped
<1> QED BY <1>5, <1>7, <1>8 DEF TableInv, EnoughColors
-----------------------------------------------------------------------------
(* The tables the operations write.                                        *)

(* A slot whose holder and colour stay.                                    *)
LEMMA EditKeeps ==
  ASSUME TypeOK, TableInv, NEW s \in Slots, NEW d \in SlotData,
         slots' = [slots EXCEPT ![s] = d],
         d.status = Occupied <=> slots[s].status = Occupied,
         d.color = slots[s].color, d.team # ObsTeam
  PROVE  TableInv'
<1>1. \A x \in Slots : slots'[x] = IF x = s THEN d ELSE slots[x]
  BY DEF TypeOK
<1>2. Still
  BY <1>1 DEF Still, TableInv
<1> QED BY <1>2, StillKeeps

(* Changing the race, handicap, strength or download of a slot leaves who  *)
(* holds it, and its colour and team.                                      *)
LEMMA FieldSame ==
  ASSUME NEW o \in SlotData, NEW d \in SlotData,
         \/ \E x \in SUBSET RaceFlags : d = [o EXCEPT !.race = x]
         \/ \E x \in 0..100 : d = [o EXCEPT !.handicap = x]
         \/ \E x \in AIs : d = [o EXCEPT !.ai = x]
         \/ \E x \in {0, 100} : d = [o EXCEPT !.download = x]
  PROVE  d.status = o.status /\ d.color = o.color /\ d.team = o.team
BY DEF SlotData

(* So it says nothing of who plays.                                        *)
LEMMA FieldKeeps ==
  ASSUME TypeOK, TableInv, NEW s \in Slots
  PROVE  /\ \A x \in SUBSET RaceFlags : slots' = [slots EXCEPT ![s].race = x] => TableInv'
         /\ \A x \in 0..100 : slots' = [slots EXCEPT ![s].handicap = x] => TableInv'
         /\ \A x \in AIs : slots' = [slots EXCEPT ![s].ai = x] => TableInv'
         /\ \A x \in {0, 100} : slots' = [slots EXCEPT ![s].download = x] => TableInv'
<1> DEFINE o == slots[s]
           Edit(d) == \/ \E x \in SUBSET RaceFlags : d = [o EXCEPT !.race = x]
                      \/ \E x \in 0..100 : d = [o EXCEPT !.handicap = x]
                      \/ \E x \in AIs : d = [o EXCEPT !.ai = x]
                      \/ \E x \in {0, 100} : d = [o EXCEPT !.download = x]
<1>1. o \in SlotData /\ o.team # ObsTeam
  BY DEF TypeOK, TableInv
<1>2. ASSUME NEW d \in SlotData, Edit(d), slots' = [slots EXCEPT ![s] = d]
      PROVE  TableInv'
  <2>1. d.status = o.status /\ d.color = o.color /\ d.team = o.team
    <3> HIDE DEF o
    <3> QED BY <1>1, <1>2, FieldSame
  <2>2. /\ d.status = Occupied <=> slots[s].status = Occupied
        /\ d.color = slots[s].color
        /\ d.team # ObsTeam
    BY <1>1, <2>1, ZenonT(30)
  <2> HIDE DEF o, Edit
  <2> QED BY <1>2, <2>2, EditKeeps, ZenonT(30)
<1>3. ASSUME NEW x \in SUBSET RaceFlags, slots' = [slots EXCEPT ![s].race = x]
      PROVE  TableInv'
  <2>1. [o EXCEPT !.race = x] \in SlotData
    BY <1>1, EditType, ZenonT(30)
  <2> QED BY <1>2, <1>3, <2>1, ZenonT(30)
<1>4. ASSUME NEW x \in 0..100, slots' = [slots EXCEPT ![s].handicap = x]
      PROVE  TableInv'
  <2>1. [o EXCEPT !.handicap = x] \in SlotData
    BY <1>1, EditType, ZenonT(30)
  <2> QED BY <1>2, <1>4, <2>1, ZenonT(30)
<1>5. ASSUME NEW x \in AIs, slots' = [slots EXCEPT ![s].ai = x]
      PROVE  TableInv'
  <2>1. [o EXCEPT !.ai = x] \in SlotData
    BY <1>1, EditType, ZenonT(30)
  <2> QED BY <1>2, <1>5, <2>1, ZenonT(30)
<1>6. ASSUME NEW x \in {0, 100}, slots' = [slots EXCEPT ![s].download = x]
      PROVE  TableInv'
  <2>1. [o EXCEPT !.download = x] \in SlotData
    <3> HIDE DEF o
    <3> QED BY <1>1 DEF SlotData
  <2> QED BY <1>2, <1>6, <2>1, ZenonT(30)
<1> QED BY <1>3, <1>4, <1>5, <1>6, ZenonT(30)

(* changeTeam: a team that is not invalid is below NumPlayers here.        *)
LEMMA withTeamKeepsColors ==
  ASSUME NoObservers, TypeOK, TableInv, NEW s \in Slots, NEW t \in 0..255, ~teamInvalid(t),
         slots' = withTeam(s, t)
  PROVE  TableInv'
<1> DEFINE d == [slots[s] EXCEPT !.team = t]
<1>1. slots[s] \in SlotData
  BY DEF TypeOK
<1>2. slots' = [slots EXCEPT ![s] = d]
  BY DEF withTeam
<1>3. d \in SlotData /\ d.status = slots[s].status /\ d.color = slots[s].color /\ d.team = t
  <2>1. \A o \in SlotData : LET e == [o EXCEPT !.team = t] IN
          e \in SlotData /\ e.status = o.status /\ e.color = o.color /\ e.team = t
    BY DEF SlotData
  <2> QED BY <1>1, <2>1, ZenonT(30)
<1>4. t # ObsTeam
  BY LobbyAssumption DEF NoObservers, teamInvalid
<1> HIDE DEF d
<1> QED BY <1>2, <1>3, <1>4, EditKeeps, ZenonT(30)

(* changeColor to an available colour.                                     *)
LEMMA withColorKeepsColors ==
  ASSUME TypeOK, TableInv, NEW s \in Slots, NEW col \in availableColors,
         slots' = withColor(s, col)
  PROVE  TableInv'
<1> DEFINE d == [slots[s] EXCEPT !.color = col]
<1>1. slots[s] \in SlotData /\ slots[s].team # ObsTeam
  BY DEF TypeOK, TableInv
<1>2. slots' = [slots EXCEPT ![s] = d]
  BY DEF withColor
<1>3. d.status = slots[s].status /\ d.color = col /\ d.team = slots[s].team
  BY <1>1 DEF SlotData
<1> HIDE DEF d
<1>4. \A x \in Slots : slots'[x] = IF x = s THEN d ELSE slots[x]
  BY <1>2 DEF TypeOK
<1>5. Recolored(s)
  BY <1>1, <1>3, <1>4 DEF Recolored, Only
<1> QED BY <1>5, RecoloredKeeps

(* A slot that is given back to the base table.                            *)
LEMMA ResetKeepsColors ==
  ASSUME NoObservers, TypeOK, TableInv, NEW s \in Slots, NEW st \in {Open, Closed},
         slots' = [slots EXCEPT ![s] = [BaseSlots[s] EXCEPT !.status = st]]
  PROVE  TableInv'
<1> DEFINE d == [BaseSlots[s] EXCEPT !.status = st]
<1>1. BaseSlots[s] \in SlotData /\ BaseSlots[s].team # ObsTeam
  BY LobbyAssumption DEF NoObservers
<1>2. d.status = st /\ d.team = BaseSlots[s].team /\ st # Occupied
  BY <1>1 DEF SlotData, Open, Closed, Occupied
<1> HIDE DEF d
<1>3. \A x \in Slots : slots'[x] = IF x = s THEN d ELSE slots[x]
  BY DEF TypeOK, d
<1>4. Freed(s)
  BY <1>1, <1>2, <1>3 DEF Freed, Only
<1> QED BY <1>4, FreedKeeps
(* An exchange leaves the colours with the players unless they are fixed,  *)
(* and moves at most the teams of the two slots.                           *)
LEMMA swapSlotsSettings ==
  ASSUME slots \in [Slots -> SlotData],
         NEW a \in Slots, NEW b \in Slots, NEW st \in BOOLEAN
  PROVE  \A x \in Slots :
           /\ ~FixedSettings => swapSlots(a, b, st)[x].color = slots[Other(a, b, x)].color
           /\ \E y \in Slots : swapSlots(a, b, st)[x].team = slots[y].team
<1> DEFINE fixedRace == \E s \in {a, b} : Selectable \notin slots[s].race
           moved(from, to) ==
             [slots[from] EXCEPT
                !.team     = IF st THEN @ ELSE slots[to].team,
                !.color    = IF FixedSettings THEN slots[to].color ELSE @,
                !.handicap = IF FixedSettings THEN slots[to].handicap ELSE @,
                !.race     = IF fixedRace THEN slots[to].race ELSE @]
<1>1. ASSUME NEW from \in Slots, NEW to \in Slots
      PROVE  /\ ~FixedSettings => moved(from, to).color = slots[from].color
             /\ moved(from, to).team = IF st THEN slots[from].team ELSE slots[to].team
  <2> HIDE DEF fixedRace
  <2>1. slots[from] \in SlotData
    OBVIOUS
  <2> QED BY <2>1 DEF SlotData
<1>2. swapSlots(a, b, st) = [slots EXCEPT ![a] = moved(b, a), ![b] = moved(a, b)]
  BY DEF swapSlots
<1> HIDE DEF moved
<1>3. \A x \in Slots : swapSlots(a, b, st)[x] =
        IF x = b THEN moved(a, b) ELSE IF x = a THEN moved(b, a) ELSE slots[x]
  BY <1>2
<1> QED BY <1>1, <1>3 DEF Other

(* swapSlots.                                                              *)
LEMMA swapSlotsKeepsColors ==
  ASSUME TypeOK, TableInv, NEW a \in Slots, NEW b \in Slots, NEW st \in BOOLEAN,
         slots' = swapSlots(a, b, st)
  PROVE  TableInv'
<1>1. slots \in [Slots -> SlotData]
  BY DEF TypeOK
<1>2. \A x \in Slots : slots'[x].status = slots[Other(a, b, x)].status
  BY <1>1, swapSlotsType
<1>3. \A x \in Slots : /\ EnoughColors => slots'[x].color = slots[Other(a, b, x)].color
                       /\ slots'[x].team # ObsTeam
  BY <1>1, swapSlotsSettings DEF EnoughColors, TableInv
<1>4. Swapped(a, b)
  BY <1>2, <1>3 DEF Swapped
<1> QED BY <1>4, SwappedKeeps

(* initSlot finds a free colour for a free slot, and a team below the      *)
(* limit that is not reached, unless it fails.                             *)
LEMMA initSlotSettings ==
  ASSUME NoObservers, NEW s \in Slots, slots[s].status # Occupied, ~initSlotFull
  PROVE  /\ EnoughColors => initSlot(s).color \in availableColors
         /\ ~CustomForces => countPlayers(slots) < NumPlayers
         /\ initSlot(s).team # ObsTeam
<1>1. EnoughColors => findEmptyColor \in availableColors
  BY ColorAvailable, findEmptyColorType
<1>2. EnoughColors => initSlot(s).color \in availableColors
  BY <1>1 DEF initSlot, EnoughColors
<1>3. ~CustomForces => ~(initTeam >= NumPlayers)
  BY DEF initSlotFull, NoObservers
<1>4. initTeam \in 0..255 /\ NumPlayers \in Nat /\ ObsTeam \in 0..255 /\ ObsTeam >= NumPlayers
  BY findEmptyTeamType, LobbyAssumption DEF initTeam
<1>5. ~CustomForces => initTeam < NumPlayers /\ initTeam # ObsTeam
  BY <1>3, <1>4
<1>6. ~CustomForces => countPlayers(slots) < NumPlayers
  BY <1>5 DEF initTeam
<1>7. initSlot(s).team # ObsTeam
  BY <1>5 DEF initSlot, NoObservers
<1> QED BY <1>2, <1>6, <1>7

(* A slot that initSlot fills, for a player or a computer.                 *)
LEMMA initSlotKeeps ==
  ASSUME NoObservers, TypeOK, TableInv, NEW s \in Slots, slots[s].status # Occupied,
         ~initSlotFull, NEW d, d.status = Occupied, d.color = initSlot(s).color,
         d.team = initSlot(s).team, slots' = [slots EXCEPT ![s] = d]
  PROVE  TableInv'
<1>1. \A x \in Slots : slots'[x] = IF x = s THEN d ELSE slots[x]
  BY DEF TypeOK
<1>2. Taken(s)
  BY <1>1, initSlotSettings DEF Taken, Only
<1> QED BY <1>2, TakenKeeps
-----------------------------------------------------------------------------
(* The packets' handlers keep the invariant.                               *)
LEMMA PacketTable ==
  ASSUME NoObservers, BaseInv, TableInv, NEW c \in Clients, Packet(c)
  PROVE  TableInv'
<1> DEFINE s == pidToSID(pid[c])
<1>1. TypeOK
  BY DEF BaseInv
<1>2. HasSlot(pid[c]) => s \in Slots
  BY pidToSIDFinds
<1> HIDE DEF s
<1>3. CASE slots' = slots
  BY <1>3, StillKeeps DEF Still, TableInv
<1>4. CASE onInvalidMessage(c) \/ onPlayerChat(c)
  BY <1>3, <1>4, ZenonT(30) DEF onInvalidMessage, onPlayerChat, Ignored, Kicked
<1>5. ASSUME NEW ready \in BOOLEAN, NEW progress \in Progress, onMapState(c, ready, progress), slots' # slots
      PROVE  TableInv'
  <2>1. HasSlot(pid[c]) /\ slots' = [slots EXCEPT ![s].download = progress] /\ progress \in {0, 100}
    BY <1>5, LobbyAssumption, ZenonT(30) DEF onMapState, Panics, refreshSlots, s
  <2>2. s \in Slots
    BY <1>2, <2>1
  <2>3. \A x \in {0, 100} : slots' = [slots EXCEPT ![s].download = x] => TableInv'
    BY <1>1, <2>2, FieldKeeps, ZenonT(30)
  <2> QED BY <2>1, <2>3, ZenonT(30)
<1>6. ASSUME NEW t \in Teams, onTeamChange(c, t), slots' # slots
      PROVE  TableInv'
  <2>1. /\ HasSlot(pid[c])
        /\ \/ ~teamInvalid(t) /\ slots' = withTeam(s, t)
           \/ /\ \E x \in OpenSlots : slots[x].team = t
              /\ slots' = swapSlots(s, findEmptyTeamSlot(t), FALSE)
    BY <1>6, ZenonT(30) DEF onTeamChange, Request, refreshSlots, Ignored, Kicked, Panics, s
  <2>2. t \in 0..255 /\ s \in Slots
    BY <1>2, <2>1, LobbyAssumption
  <2>3. CASE ~teamInvalid(t) /\ slots' = withTeam(s, t)
    BY <1>1, <2>2, <2>3, withTeamKeepsColors
  <2>4. CASE /\ \E x \in OpenSlots : slots[x].team = t
             /\ slots' = swapSlots(s, findEmptyTeamSlot(t), FALSE)
    <3>1. findEmptyTeamSlot(t) \in Slots
      BY <2>4, findEmptyTeamSlotOpen
    <3> QED BY <1>1, <2>2, <2>4, <3>1, swapSlotsKeepsColors, ZenonT(30)
  <2> QED BY <2>1, <2>3, <2>4, ZenonT(30)
<1>7. ASSUME NEW col \in Colors, onColorChange(c, col), slots' # slots
      PROVE  TableInv'
  <2>1. HasSlot(pid[c]) /\ slots' = withColor(s, col) /\ col \in availableColors
    BY <1>7, ZenonT(30) DEF onColorChange, onInvalidMessage, Request, refreshSlots, Ignored, Kicked,
       Panics, s
  <2> QED BY <1>1, <1>2, <2>1, withColorKeepsColors
<1>8. ASSUME NEW r \in Races, onRaceChange(c, r), slots' # slots
      PROVE  TableInv'
  <2>1. HasSlot(pid[c]) /\ slots' = [slots EXCEPT ![s].race = r \cup {Selectable}]
    BY <1>8, ZenonT(30) DEF onRaceChange, Request, refreshSlots, Ignored, Kicked, Panics, withRace, s
  <2>2. r \cup {Selectable} \in SUBSET RaceFlags
    BY LobbyAssumption, ZenonT(30) DEF RaceFlags
  <2>3. s \in Slots
    BY <1>2, <2>1
  <2>4. \A x \in SUBSET RaceFlags : slots' = [slots EXCEPT ![s].race = x] => TableInv'
    BY <1>1, <2>3, FieldKeeps, ZenonT(30)
  <2> QED BY <2>1, <2>2, <2>4, ZenonT(30)
<1>9. ASSUME NEW h \in Handicaps, onHandicapChange(c, h), slots' # slots
      PROVE  TableInv'
  <2>1. HasSlot(pid[c]) /\ slots' = [slots EXCEPT ![s].handicap = h] /\ ~(h > 100)
    BY <1>9, ZenonT(30) DEF onHandicapChange, onInvalidMessage, Request, refreshSlots, Ignored, Kicked,
       Panics,
                       withHandicap, s
  <2>2. h \in 0..100
    BY <2>1, LobbyAssumption
  <2>3. s \in Slots
    BY <1>2, <2>1
  <2>4. \A x \in 0..100 : slots' = [slots EXCEPT ![s].handicap = x] => TableInv'
    BY <1>1, <2>3, FieldKeeps, ZenonT(30)
  <2> QED BY <2>1, <2>2, <2>4, ZenonT(30)
<1> QED BY <1>3, <1>4, <1>5, <1>6, <1>7, <1>8, <1>9 DEF Packet

(* So do the host's operations.                                            *)
LEMMA HostTable ==
  ASSUME NoObservers, BaseInv, TableInv, Host
  PROVE  TableInv'
<1>1. TypeOK /\ slots \in [Slots -> SlotData]
  BY DEF BaseInv, TypeOK
<1>2. CASE slots' = slots
  BY <1>2, StillKeeps DEF Still, TableInv
<1>3. CASE Lock \/ Unlock \/ Close \/ (\E teams \in BOOLEAN : ShuffleBegin(teams)) \/ ShuffleEnd
  BY <1>2, <1>3 DEF Lock, Unlock, Close, ShuffleBegin, ShuffleEnd, refreshSlots, tableVars
<1>4. ASSUME NEW from \in {Open, Closed}, NEW to \in {Open, Closed}, SetAll(from, to)
      PROVE  TableInv'
  <2>1. \A x \in Slots : slots'[x] = IF slots[x].status = from
                                    THEN [slots[x] EXCEPT !.status = to] ELSE slots[x]
    BY <1>4 DEF SetAll, refreshSlots
  <2>3. from # Occupied /\ to # Occupied
    BY DEF Open, Closed, Occupied
  <2>4. \A x \in Slots : slots[x] \in SlotData /\ slots[x].team # ObsTeam
    BY <1>1 DEF TableInv
  <2>5. ASSUME NEW x \in Slots
        PROVE  /\ slots'[x].status = Occupied <=> slots[x].status = Occupied
               /\ slots'[x].color = slots[x].color
               /\ slots'[x].team # ObsTeam
    <3>1. CASE slots[x].status = from
      <4>1. slots'[x] = [slots[x] EXCEPT !.status = to]
        BY <2>1, <3>1
      <4>2. slots[x] \in SlotData
        BY <2>4
      <4>3. slots'[x].status = to /\ slots'[x].team = slots[x].team /\ slots'[x].color = slots[x].color
        BY <4>1, <4>2 DEF SlotData
      <4> QED BY <2>3, <2>4, <3>1, <4>3
    <3>2. CASE slots[x].status # from
      BY <2>1, <2>4, <3>2, ZenonT(30)
    <3> QED BY <3>1, <3>2
  <2>6. Still
    BY <2>5 DEF Still
  <2> QED BY <2>6, StillKeeps
<1>5. ASSUME NEW s \in Slots, NEW kick \in BOOLEAN, NEW status \in {Open, Closed},
             changeSlotStatus(s, status, kick)
      PROVE  TableInv'
  <2>1. \/ slots' = slots
        \/ slots[s].status # Occupied /\ slots' = [slots EXCEPT ![s].status = status]
        \/ slots' = [slots EXCEPT ![s] = [BaseSlots[s] EXCEPT !.status = status]]
    BY <1>5 DEF changeSlotStatus, refreshSlots
  <2>2. CASE slots[s].status # Occupied /\ slots' = [slots EXCEPT ![s].status = status]
    <3> DEFINE d == [slots[s] EXCEPT !.status = status]
    <3>1. d \in SlotData /\ d.status = status /\ d.color = slots[s].color /\ d.team = slots[s].team
      BY <1>1 DEF SlotData
    <3>2. status # Occupied /\ slots[s].team # ObsTeam
      BY DEF Open, Closed, Occupied, TableInv
    <3>3. slots' = [slots EXCEPT ![s] = d]
      BY <2>2
    <3> HIDE DEF d
    <3> QED BY <1>1, <2>2, <3>1, <3>2, <3>3, EditKeeps, ZenonT(30)
  <2> QED BY <1>1, <1>2, <2>1, <2>2, ResetKeepsColors
<1>6. ASSUME NEW a \in Slots, NEW b \in Slots, SwapSlots(a, b)
      PROVE  TableInv'
  <2>1. slots' = swapSlots(a, b, ~CustomForces) /\ (~CustomForces) \in BOOLEAN
    BY <1>6, LobbyAssumption DEF SwapSlots, Replace, refreshSlots
  <2> QED BY <1>1, <2>1, swapSlotsKeepsColors, ZenonT(30)
<1>7. ASSUME NEW j \in Slots, ShuffleStep(j)
      PROVE  TableInv'
  <2> DEFINE occupied == slots[shuffle.left].status = Occupied /\ slots[j].status = Occupied
             st == ~CustomForces /\ occupied /\ ~shuffle.teams
  <2>1. shuffle.left \in 0..NumSlots /\ shuffle.left > 1 /\ slots' = swapSlots(shuffle.left, j, st)
    BY <1>1, <1>7 DEF ShuffleStep, TypeOK
  <2>2. shuffle.left \in Slots
    BY <2>1, LobbyAssumption DEF Slots
  <2>3. st \in BOOLEAN
    OBVIOUS
  <2> HIDE DEF st
  <2> QED BY <1>1, <2>1, <2>2, <2>3, swapSlotsKeepsColors
<1>8. ASSUME NEW s \in Slots, NEW r \in Races, ChangeRace(s, r)
      PROVE  TableInv'
  <2>1. slots' = [slots EXCEPT ![s].race = r \cup {Selectable}] /\ r \cup {Selectable} \in SUBSET RaceFlags
    BY <1>8, LobbyAssumption DEF ChangeRace, Replace, refreshSlots, withRace, RaceFlags
  <2> QED BY <1>1, <2>1, FieldKeeps, ZenonT(30)
<1>9. ASSUME NEW s \in Slots, NEW t \in Teams, ChangeTeam(s, t)
      PROVE  TableInv'
  <2>1. slots' = withTeam(s, t) /\ ~teamInvalid(t) /\ t \in 0..255
    BY <1>9, LobbyAssumption DEF ChangeTeam, Replace, refreshSlots
  <2> QED BY <1>1, <2>1, withTeamKeepsColors, ZenonT(30)
<1>10. ASSUME NEW s \in Slots, NEW col \in Colors, ChangeColor(s, col)
       PROVE  TableInv'
  <2>1. slots' = withColor(s, col) /\ col \in availableColors
    BY <1>10 DEF ChangeColor, Replace, refreshSlots
  <2> QED BY <1>1, <2>1, withColorKeepsColors
<1>11. ASSUME NEW s \in Slots, NEW h \in Handicaps, ChangeHandicap(s, h)
       PROVE  TableInv'
  <2>1. slots' = [slots EXCEPT ![s].handicap = h] /\ h \in 0..100
    BY <1>11, LobbyAssumption DEF ChangeHandicap, Replace, refreshSlots, withHandicap
  <2> QED BY <1>1, <2>1, FieldKeeps, ZenonT(30)
<1>12. ASSUME NEW s \in Slots, NEW ai \in AIs, ChangeComputer(s, ai)
       PROVE  TableInv'
  <2> DEFINE i == initSlot(s)
             d == [i EXCEPT !.ai = ai, !.download = 100]
  <2>1. \/ slots' = [slots EXCEPT ![s].ai = ai]
        \/ slots[s].status # Occupied /\ ~initSlotFull /\ slots' = [slots EXCEPT ![s] = d]
        \/ slots' = [slots EXCEPT ![s] = slotBase(s)]
    BY <1>12 DEF ChangeComputer, Replace, refreshSlots
  <2>2. d.status = Occupied /\ d.color = i.color /\ d.team = i.team
    BY DEF initSlot
  <2>3. baseStatus[s] \in {Open, Closed} /\ slotBase(s) = [BaseSlots[s] EXCEPT !.status = baseStatus[s]]
    BY <1>1 DEF TypeOK, slotBase
  <2> HIDE DEF d
  <2>4. CASE slots[s].status # Occupied /\ ~initSlotFull /\ slots' = [slots EXCEPT ![s] = d]
    BY <1>1, <2>2, <2>4, initSlotKeeps, ZenonT(30)
  <2>5. CASE slots' = [slots EXCEPT ![s] = slotBase(s)]
    BY <1>1, <2>3, <2>5, ResetKeepsColors, ZenonT(30)
  <2> QED BY <1>1, <2>1, <2>4, <2>5, FieldKeeps, ZenonT(30)
<1>13. CASE OpenAllSlots \/ CloseAllSlots
  BY <1>4, <1>13 DEF OpenAllSlots, CloseAllSlots
<1> QED BY <1>3, <1>5, <1>6, <1>7, <1>8, <1>9, <1>10, <1>11, <1>12, <1>13 DEF Host
(* And so does every step.                                                 *)
LEMMA TableStep ==
  ASSUME NoObservers, BaseInv, TableInv, [Next]_vars
  PROVE  TableInv'
<1>1. TypeOK
  BY DEF BaseInv
<1>2. CASE slots' = slots
  BY <1>2, StillKeeps DEF Still, TableInv
<1>3. ASSUME NEW c \in Clients, JoinRejected(c) \/ Disconnect(c) \/ Read(c)
      PROVE  TableInv'
  BY <1>2, <1>3 DEF JoinRejected, Disconnect, Read, tableVars
<1>4. ASSUME NEW c \in Clients, Join(c) \/ JoinSendFails(c)
      PROVE  TableInv'
  <2> DEFINE s == findEmptySlot
             d == [initSlot(s) EXCEPT !.pid = findEmptyPID]
  <2>1. OpenSlots # {} /\ ~initSlotFull /\ slots' = [slots EXCEPT ![s] = d]
    BY <1>4 DEF Join, JoinSendFails, TakeSlot
  <2>2. s \in Slots /\ slots[s].status # Occupied
    BY <2>1, findEmptySlotOpen DEF Open, Occupied
  <2>3. d.status = Occupied /\ d.color = initSlot(s).color /\ d.team = initSlot(s).team
    BY DEF initSlot
  <2> HIDE DEF s, d
  <2> QED BY <1>1, <2>1, <2>2, <2>3, initSlotKeeps, ZenonT(30)
<1>5. ASSUME NEW c \in Clients, onLeave(c)
      PROVE  TableInv'
  <2>1. CASE HasSlot(pid[c])
    <3> DEFINE s == pidToSID(pid[c])
    <3>1. s \in Slots
      BY <2>1, pidToSIDFinds
    <3>2. slots' = [slots EXCEPT ![s] = slotBase(s)]
      BY <1>5, <2>1 DEF onLeave, refreshSlots
    <3> HIDE DEF s
    <3>3. baseStatus[s] \in {Open, Closed} /\ slotBase(s) = [BaseSlots[s] EXCEPT !.status = baseStatus[s]]
      BY <1>1, <3>1 DEF TypeOK, slotBase
    <3> QED BY <1>1, <3>1, <3>2, <3>3, ResetKeepsColors, ZenonT(30)
  <2> QED BY <1>2, <1>5, <2>1 DEF onLeave
<1>6. CASE Start
  BY <1>2, <1>6 DEF Start, tableVars
<1> QED BY <1>2, <1>3, <1>4, <1>5, <1>6, HostTable, PacketTable DEF Next, Connection, vars

(* The base table is empty.                                                *)
LEMMA TableInit ==
  ASSUME NoObservers, Init
  PROVE  TableInv
<1>1. \A s \in Slots : slots[s].status # Occupied /\ slots[s].team # ObsTeam
  BY LobbyAssumption DEF Init, NoObservers, Open, Closed, Occupied
<1>2. Playing(slots) = {}
  BY <1>1 DEF Playing
<1>3. countPlayers(slots) = 0
  BY <1>2, FS_EmptySet DEF countPlayers
<1> QED BY <1>1, <1>2, <1>3, LobbyAssumption DEF TableInv, UniqueColors

(* In every lobby without observers, at most NumPlayers slots hold a       *)
(* player or computer, whatever the order of joins, leaves, computers,     *)
(* team requests, swaps and shuffles, and also if a join fails halfway.    *)
THEOREM PlayersAreLimited ==
  ASSUME NoObservers
  PROVE  Spec => []PlayersWithinLimit
<1>1. Init => BaseInv /\ TableInv
  BY BaseInit, TableInit
<1>2. BaseInv /\ TableInv /\ [Next]_vars => BaseInv' /\ TableInv'
  BY BaseStep, TableStep
<1>3. TableInv => PlayersWithinLimit
  BY DEF TableInv, PlayersWithinLimit
<1> QED BY <1>1, <1>2, <1>3, PTL DEF Spec

(* If moreover the settings are not fixed and there is a colour for every  *)
(* slot, no two players ever share a colour.                               *)
THEOREM ColorsAreUnique ==
  ASSUME NoObservers, EnoughColors
  PROVE  Spec => []UniqueColors
<1>1. Init => BaseInv /\ TableInv
  BY BaseInit, TableInit
<1>2. BaseInv /\ TableInv /\ [Next]_vars => BaseInv' /\ TableInv'
  BY BaseStep, TableStep
<1>3. TableInv => UniqueColors
  BY DEF TableInv
<1> QED BY <1>1, <1>2, <1>3, PTL DEF Spec
=============================================================================

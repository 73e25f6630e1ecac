---------------------------- MODULE LobbyProofs ----------------------------
(***************************************************************************)
(* Proofs about the slot table of the lobby.                               *)
(***************************************************************************)
EXTENDS Lobby, FiniteSetTheorems, TLAPS

(* A step that names no prover is tried with SMT, Zenon and SMT again.     *)
USE SMTT(30), ZenonT(30), SMTT(60)

(* A set of natural numbers has a least element.                           *)
LEMMA HasMin ==
  ASSUME NEW S, S \subseteq Nat, S # {}
  PROVE  \E x \in S : \A y \in S : x <= y
<1>1. PICK x \in S : \A y \in S : ~ (<<y, x>> \in OpToRel(<, Nat))
  BY NatLessThanWellFounded, WFMin, ZenonT(30)
<1>2. \A y \in S : x <= y
  <2>1. SUFFICES ASSUME NEW y \in S, ~ (x <= y) PROVE FALSE
    OBVIOUS
  <2>2. y < x
    BY <2>1
  <2>3. <<y, x>> \in OpToRel(<, Nat)
    BY <2>2 DEF OpToRel
  <2> QED BY <1>1, <2>3, ZenonT(30)
<1> QED BY <1>2

(* The minimum of a set of natural numbers belongs to the set.             *)
LEMMA MinIn ==
  ASSUME NEW S, S \subseteq Nat, S # {}
  PROVE  Min(S) \in S
BY HasMin, ZenonT(30) DEF Min

(* A slot with the id of a player is held by a human.                      *)
PIDsAreHumans == \A s \in Slots : slots[s].pid \in PIDs => Human(s)

(* Every registered player has a slot.                                     *)
RegisteredHaveSlots == \A p \in PIDs : players[p] # NoPlayer => HasSlot(p)

BaseInv == TypeOK /\ PIDsAreHumans /\ RegisteredHaveSlots

-----------------------------------------------------------------------------
(* The first free slot, id, team and colour are minima.                    *)

(* A function on the slots, of which there are at most 24, misses one of   *)
(* any 25 consecutive numbers.                                             *)
LEMMA SlotsMissOne ==
  ASSUME NEW f, NEW a \in Nat, NEW b \in Nat, b >= a + 24, NumSlots \in 1..24
  PROVE  \E x \in a..b : \A s \in Slots : f[s] # x
<1>1. SUFFICES ASSUME \A x \in a..b : \E s \in Slots : f[s] = x
               PROVE  FALSE
  OBVIOUS
<1> DEFINE g == [x \in a..b |-> CHOOSE s \in Slots : f[s] = x]
<1>2. \A x \in a..b : g[x] \in Slots /\ f[g[x]] = x
  BY <1>1
<1>3. g \in [a..b -> Slots]
  BY <1>2
<1>4. IsFiniteSet(a..b) /\ Cardinality(a..b) = b - a + 1
  BY FS_Interval
<1>5. IsFiniteSet(Slots) /\ Cardinality(Slots) = NumSlots
  <2>1. NumSlots \in Int /\ 1 \in Int /\ NumSlots >= 1
    OBVIOUS
  <2>2. /\ IsFiniteSet(1..NumSlots)
        /\ Cardinality(1..NumSlots) = IF 1 > NumSlots THEN 0 ELSE NumSlots - 1 + 1
    BY <2>1, FS_Interval, ZenonT(30)
  <2> QED BY <2>1, <2>2 DEF Slots
<1>6. PICK x, y \in a..b : x # y /\ g[x] = g[y]
  <2> HIDE DEF g
  <2> QED BY <1>3, <1>4, <1>5, FS_PigeonHole
<1> QED BY <1>2, <1>6
-----------------------------------------------------------------------------
(* What the helpers of lobby.go return.                                    *)

(* findEmptySlot returns an open slot when there is one.                   *)
LEMMA findEmptySlotOpen ==
  ASSUME OpenSlots # {}
  PROVE  findEmptySlot \in Slots /\ slots[findEmptySlot].status = Open
<1>1. OpenSlots \subseteq Nat
  BY LobbyAssumption DEF OpenSlots, Slots
<1>2. findEmptySlot \in OpenSlots
  BY <1>1, MinIn, ZenonT(30) DEF findEmptySlot
<1> QED BY <1>2 DEF OpenSlots

(* findEmptyTeamSlot returns an open slot of the team when there is one.   *)
LEMMA findEmptyTeamSlotOpen ==
  ASSUME NEW t, \E s \in OpenSlots : slots[s].team = t
  PROVE  /\ findEmptyTeamSlot(t) \in Slots
         /\ slots[findEmptyTeamSlot(t)].status = Open
<1> DEFINE S == {s \in OpenSlots : slots[s].team = t}
<1>1. S \subseteq Nat /\ S # {}
  BY LobbyAssumption DEF OpenSlots, Slots
<1>2. Min(S) \in S
  BY <1>1, MinIn
<1> QED BY <1>2 DEF findEmptyTeamSlot, OpenSlots

(* pidToSID returns a slot with the id when there is one.                  *)
LEMMA pidToSIDFinds ==
  ASSUME NEW p, HasSlot(p)
  PROVE  pidToSID(p) \in Slots /\ slots[pidToSID(p)].pid = p
<1> DEFINE S == {s \in Slots : slots[s].pid = p}
<1>1. S \subseteq Nat /\ S # {}
  BY LobbyAssumption DEF HasSlot, Slots
<1>2. Min(S) \in S
  BY <1>1, MinIn
<1> QED BY <1>2 DEF pidToSID

(* findEmptyPID returns an id nobody is registered with: there are fewer   *)
(* slots than ids, so the search over the BitSet32 never runs out.         *)
LEMMA findEmptyPIDFree ==
  ASSUME BaseInv
  PROVE  findEmptyPID \in PIDs /\ players[findEmptyPID] = NoPlayer
<1> DEFINE f == [s \in Slots |-> slots[s].pid]
           S == {p \in PIDs : players[p] = NoPlayer}
<1>1. PICK x \in 1..32 : \A s \in Slots : f[s] # x
  <2>1. 1 \in Nat /\ 32 \in Nat /\ 32 >= 1 + 24 /\ NumSlots \in 1..24
    BY LobbyAssumption
  <2> HIDE DEF f
  <2> QED BY <2>1, SlotsMissOne, ZenonT(30)
<1>2. x \in PIDs /\ ~HasSlot(x)
  BY <1>1 DEF HasSlot, PIDs
<1>3. x \in S
  BY <1>2 DEF BaseInv, RegisteredHaveSlots
<1>4. S \subseteq Nat /\ S # {}
  BY <1>3 DEF PIDs
<1>5. Min(S) \in S
  BY <1>4, MinIn
<1> QED BY <1>5 DEF findEmptyPID

(* findEmptyTeam returns a team number.                                    *)
LEMMA findEmptyTeamType ==
  findEmptyTeam \in 0..32
<1> DEFINE f == [s \in Slots |-> slots[s].team]
           S == 0..32 \ {slots[s].team : s \in Playing(slots)}
<1>1. PICK x \in 0..32 : \A s \in Slots : f[s] # x
  <2>1. 0 \in Nat /\ 32 \in Nat /\ 32 >= 0 + 24 /\ NumSlots \in 1..24
    BY LobbyAssumption
  <2> HIDE DEF f
  <2> QED BY <2>1, SlotsMissOne, ZenonT(30)
<1>2. x \in S
  <2>1. \A s \in Playing(slots) : slots[s].team # x
    BY <1>1 DEF Playing
  <2> QED BY <2>1
<1>3. S \subseteq 0..32
  OBVIOUS
<1>4. Min(S) \in S
  <2> HIDE DEF S
  <2>1. S \subseteq Nat /\ S # {}
    BY <1>2, <1>3
  <2> QED BY <2>1, MinIn, ZenonT(30)
<1> QED BY <1>3, <1>4 DEF findEmptyTeam

(* findEmptyColor returns an available colour, or 32 when there is none.   *)
LEMMA findEmptyColorType ==
  /\ findEmptyColor \in 0..NoColor
  /\ availableColors # {} => findEmptyColor \in availableColors
<1>1. availableColors \subseteq 0..31
  <2>1. ColorSet \subseteq 0..31
    BY LobbyAssumption
  <2>2. availableColors \subseteq ColorSet
    BY DEF availableColors
  <2> QED BY <2>1, <2>2
<1>2. CASE availableColors = {}
  BY <1>2 DEF findEmptyColor, NoColor
<1>3. CASE availableColors # {}
  <2>1. availableColors \subseteq Nat
    BY <1>1
  <2>2. Min(availableColors) \in availableColors
    BY <1>3, <2>1, MinIn, ZenonT(30)
  <2>3. findEmptyColor \in availableColors
    BY <1>3, <2>2 DEF findEmptyColor
  <2> QED BY <1>1, <2>3 DEF NoColor
<1> QED BY <1>2, <1>3
-----------------------------------------------------------------------------
(* The tables the operations write.                                        *)

(* Changing one field of a slot keeps it a slot.                           *)
LEMMA EditType ==
  ASSUME NEW d \in SlotData
  PROVE  /\ \A x \in PIDs \cup {NoPID, ComputerPID} : [d EXCEPT !.pid = x] \in SlotData
         /\ \A x \in {Open, Closed, Occupied} : [d EXCEPT !.status = x] \in SlotData
         /\ \A x \in 0..NoColor : [d EXCEPT !.color = x] \in SlotData
         /\ \A x \in 0..255 : [d EXCEPT !.team = x] \in SlotData
         /\ \A x \in SUBSET RaceFlags : [d EXCEPT !.race = x] \in SlotData
         /\ \A x \in 0..100 : [d EXCEPT !.handicap = x] \in SlotData
         /\ \A x \in AIs \cup {NoAI} : [d EXCEPT !.ai = x] \in SlotData
         /\ \A x \in {0, 100, 255} : [d EXCEPT !.download = x] \in SlotData
<1>1. \A x \in PIDs \cup {NoPID, ComputerPID} : [d EXCEPT !.pid = x] \in SlotData
  BY DEF SlotData
<1>2. \A x \in {Open, Closed, Occupied} : [d EXCEPT !.status = x] \in SlotData
  BY DEF SlotData
<1>3. \A x \in 0..NoColor : [d EXCEPT !.color = x] \in SlotData
  BY DEF SlotData
<1>4. \A x \in 0..255 : [d EXCEPT !.team = x] \in SlotData
  BY DEF SlotData
<1>5. \A x \in SUBSET RaceFlags : [d EXCEPT !.race = x] \in SlotData
  BY DEF SlotData
<1>6. \A x \in 0..100 : [d EXCEPT !.handicap = x] \in SlotData
  BY DEF SlotData
<1>7. \A x \in AIs \cup {NoAI} : [d EXCEPT !.ai = x] \in SlotData
  BY DEF SlotData
<1>8. \A x \in {0, 100, 255} : [d EXCEPT !.download = x] \in SlotData
  BY DEF SlotData
<1> QED BY <1>1, <1>2, <1>3, <1>4, <1>5, <1>6, <1>7, <1>8, ZenonT(30)

(* initSlot gives a slot to a computer whose race, and with custom forces  *)
(* whose team, are those of the slot.                                      *)
LEMMA initSlotType ==
  ASSUME NEW s \in Slots
  PROVE  /\ initSlot(s) \in SlotData
         /\ initSlot(s).pid = ComputerPID
         /\ initSlot(s).status = Occupied
         /\ initSlot(s).ai = NoAI
         /\ initSlot(s).race = BaseSlots[s].race
         /\ CustomForces => initSlot(s).team = BaseSlots[s].team
<1>1. BaseSlots[s] \in SlotData
  BY LobbyAssumption
<1>2. initTeam \in 0..255
  BY findEmptyTeamType, LobbyAssumption DEF initTeam
<1>3. findEmptyColor \in 0..NoColor
  BY findEmptyColorType
<1>4. BaseSlots[s].color \in 0..NoColor /\ BaseSlots[s].team \in 0..255
  <2>1. \A d \in SlotData : d.color \in 0..NoColor /\ d.team \in 0..255
    BY DEF SlotData
  <2> QED BY <1>1, <2>1, ZenonT(30)
<1>5. (IF FixedSettings THEN BaseSlots[s].color ELSE findEmptyColor) \in 0..NoColor
  BY <1>3, <1>4, ZenonT(30)
<1>6. (IF CustomForces THEN BaseSlots[s].team
       ELSE IF initTeam < NumPlayers THEN initTeam ELSE ObsTeam) \in 0..255
  <2>1. ObsTeam \in 0..255
    BY LobbyAssumption, ZenonT(30)
  <2> QED BY <1>2, <1>4, <2>1, ZenonT(30)
<1> QED BY <1>1, <1>5, <1>6, ZenonT(30) DEF initSlot, SlotData, ComputerPID, Occupied, NoAI

(* Where the holder of slot s was before slots a and b were swapped.       *)
Other(a, b, s) == IF s = a THEN b ELSE IF s = b THEN a ELSE s

(* swapSlots exchanges who holds two slots and keeps a table; teams stay   *)
(* unless they are swapped, races that are not selectable stay.            *)
LEMMA swapSlotsType ==
  ASSUME slots \in [Slots -> SlotData],
         NEW a \in Slots, NEW b \in Slots, NEW swapTeams \in BOOLEAN
  PROVE  /\ swapSlots(a, b, swapTeams) \in [Slots -> SlotData]
         /\ \A s \in Slots :
              /\ swapSlots(a, b, swapTeams)[s].pid = slots[Other(a, b, s)].pid
              /\ swapSlots(a, b, swapTeams)[s].status = slots[Other(a, b, s)].status
              /\ swapSlots(a, b, swapTeams)[s].ai = slots[Other(a, b, s)].ai
              /\ ~swapTeams => swapSlots(a, b, swapTeams)[s].team = slots[s].team
              /\ \/ swapSlots(a, b, swapTeams)[s].race = slots[s].race
                 \/ Selectable \in slots[s].race
<1> DEFINE fixedRace == \E s \in {a, b} : Selectable \notin slots[s].race
           moved(from, to) ==
             [slots[from] EXCEPT
                !.team     = IF swapTeams THEN @ ELSE slots[to].team,
                !.color    = IF FixedSettings THEN slots[to].color ELSE @,
                !.handicap = IF FixedSettings THEN slots[to].handicap ELSE @,
                !.race     = IF fixedRace THEN slots[to].race ELSE @]
<1>1. ASSUME NEW from \in Slots, NEW to \in Slots
      PROVE  /\ moved(from, to) \in SlotData
             /\ moved(from, to).pid = slots[from].pid
             /\ moved(from, to).status = slots[from].status
             /\ moved(from, to).ai = slots[from].ai
             /\ moved(from, to).team = IF swapTeams THEN slots[from].team ELSE slots[to].team
             /\ moved(from, to).race = IF fixedRace THEN slots[to].race ELSE slots[from].race
  <2> HIDE DEF fixedRace
  <2> DEFINE te == IF swapTeams THEN slots[from].team ELSE slots[to].team
             co == IF FixedSettings THEN slots[to].color ELSE slots[from].color
             ha == IF FixedSettings THEN slots[to].handicap ELSE slots[from].handicap
             ra == IF fixedRace THEN slots[to].race ELSE slots[from].race
  <2>1. slots[from] \in SlotData /\ slots[to] \in SlotData
    OBVIOUS
  <2>2. te \in 0..255 /\ co \in 0..NoColor /\ ha \in 0..100 /\ ra \in SUBSET RaceFlags
    BY <2>1 DEF SlotData
  <2>3. moved(from, to) = [slots[from] EXCEPT !.team = te, !.color = co,
                                              !.handicap = ha, !.race = ra]
    OBVIOUS
  <2> HIDE DEF te, co, ha, ra
  <2> DEFINE d1 == [slots[from] EXCEPT !.team = te]
             d2 == [d1 EXCEPT !.color = co]
             d3 == [d2 EXCEPT !.handicap = ha]
  <2>4. moved(from, to) = [d3 EXCEPT !.race = ra]
    BY <2>3
  <2>5. d1 \in SlotData
    BY <2>1, <2>2, EditType, ZenonT(30)
  <2>6. d2 \in SlotData
    <3> HIDE DEF d1
    <3> QED BY <2>2, <2>5, EditType, ZenonT(30)
  <2>7. d3 \in SlotData
    <3> HIDE DEF d2
    <3> QED BY <2>2, <2>6, EditType, ZenonT(30)
  <2>8. moved(from, to) \in SlotData
    <3> HIDE DEF d3, moved
    <3> QED BY <2>2, <2>4, <2>7 DEF SlotData
  <2> HIDE DEF moved
  <2>9. /\ moved(from, to).pid = slots[from].pid
        /\ moved(from, to).status = slots[from].status
        /\ moved(from, to).ai = slots[from].ai
        /\ moved(from, to).team = te
        /\ moved(from, to).race = ra
    BY <2>1, <2>3 DEF SlotData
  <2> QED BY <2>8, <2>9 DEF te, ra
<1>2. swapSlots(a, b, swapTeams) = [slots EXCEPT ![a] = moved(b, a), ![b] = moved(a, b)]
  BY DEF swapSlots
<1>3. ~fixedRace => Selectable \in slots[a].race /\ Selectable \in slots[b].race
  OBVIOUS
<1> HIDE DEF moved, fixedRace
<1> QED BY <1>1, <1>2, <1>3 DEF Other
-----------------------------------------------------------------------------
(* A step that only moves the players and computers around, or changes     *)
(* something that is not who holds a slot.                                 *)
SameHolder(s, t) ==
  /\ Human(s)' <=> Human(t)
  /\ \/ slots'[s].pid = slots[t].pid
     \/ slots'[s].pid \notin PIDs /\ slots[t].pid \notin PIDs

Permuted ==
  \E f \in [Slots -> Slots] : \A s \in Slots : f[f[s]] = s /\ SameHolder(s, f[s])

Rearranged ==
  /\ slots' \in [Slots -> SlotData]
  /\ Permuted
  /\ UNCHANGED <<players, pid>>
  /\ Live' = Live

(* Every slot keeps its holder.                                            *)
LEMMA KeptPermutes ==
  ASSUME \A s \in Slots : SameHolder(s, s)
  PROVE  Permuted
<1> DEFINE f == [s \in Slots |-> s]
<1>1. f \in [Slots -> Slots] /\ \A s \in Slots : f[f[s]] = s /\ f[s] = s
  OBVIOUS
<1> HIDE DEF f
<1> QED BY <1>1 DEF Permuted

(* A step that leaves the table alone rearranges nothing.                  *)
LEMMA UnchangedPermutes ==
  ASSUME slots' = slots
  PROVE  Permuted
<1>1. \A s \in Slots : SameHolder(s, s)
  BY DEF SameHolder, Human
<1> QED BY <1>1, KeptPermutes

(* One slot is written and its holder stays the same.                      *)
LEMMA OneSlotPermutes ==
  ASSUME slots \in [Slots -> SlotData],
         NEW s \in Slots, NEW d \in SlotData,
         slots' = [slots EXCEPT ![s] = d],
         d.status = Occupied /\ d.ai = NoAI <=> Human(s),
         d.pid = slots[s].pid \/ (d.pid \notin PIDs /\ slots[s].pid \notin PIDs)
  PROVE  slots' \in [Slots -> SlotData] /\ Permuted
<1>1. \A t \in Slots : slots'[t] = IF t = s THEN d ELSE slots[t]
  OBVIOUS
<1>2. \A t \in Slots : SameHolder(t, t)
  BY <1>1 DEF SameHolder, Human
<1> QED BY <1>2, KeptPermutes

(* swapSlots moves holders.                                                *)
LEMMA SwapPermutes ==
  ASSUME slots \in [Slots -> SlotData],
         NEW a \in Slots, NEW b \in Slots, NEW swapTeams \in BOOLEAN,
         slots' = swapSlots(a, b, swapTeams)
  PROVE  slots' \in [Slots -> SlotData] /\ Permuted
<1> DEFINE f == [s \in Slots |-> Other(a, b, s)]
<1>1. f \in [Slots -> Slots] /\ \A s \in Slots : f[f[s]] = s
  BY DEF Other
<1>2. /\ slots' \in [Slots -> SlotData]
      /\ \A s \in Slots : /\ slots'[s].pid = slots[f[s]].pid
                           /\ slots'[s].status = slots[f[s]].status
                           /\ slots'[s].ai = slots[f[s]].ai
  BY swapSlotsType
<1> HIDE DEF f
<1>3. \A s \in Slots : SameHolder(s, f[s])
  BY <1>2 DEF SameHolder, Human
<1> QED BY <1>1, <1>2, <1>3 DEF Permuted

(* The change requests and the host's changes edit one field of a slot.    *)
LEMMA SettingPermutes ==
  ASSUME slots \in [Slots -> SlotData], NEW s \in Slots, NEW d \in SlotData,
         slots' = [slots EXCEPT ![s] = d],
         d.pid = slots[s].pid, d.status = slots[s].status, d.ai = slots[s].ai
  PROVE  slots' \in [Slots -> SlotData] /\ Permuted
<1>1. d.status = Occupied /\ d.ai = NoAI <=> Human(s)
  BY DEF Human
<1> QED BY <1>1, OneSlotPermutes, ZenonT(30)

(* changeTeam edits the team.                                              *)
LEMMA TeamPermutes ==
  ASSUME slots \in [Slots -> SlotData], NEW s \in Slots, NEW t \in 0..255,
         slots' = withTeam(s, t)
  PROVE  slots' \in [Slots -> SlotData] /\ Permuted
<1> DEFINE d == [slots[s] EXCEPT !.team = t]
<1>1. slots[s] \in SlotData
  OBVIOUS
<1>2. d \in SlotData /\ d.pid = slots[s].pid /\ d.status = slots[s].status /\ d.ai = slots[s].ai
  BY <1>1 DEF SlotData
<1>3. slots' = [slots EXCEPT ![s] = d]
  BY DEF withTeam
<1> HIDE DEF d
<1> QED BY <1>2, <1>3, SettingPermutes, ZenonT(30)

(* changeColor edits the colour.                                           *)
LEMMA ColorPermutes ==
  ASSUME slots \in [Slots -> SlotData], NEW s \in Slots, NEW col \in 0..31,
         slots' = withColor(s, col)
  PROVE  slots' \in [Slots -> SlotData] /\ Permuted
<1> DEFINE d == [slots[s] EXCEPT !.color = col]
<1>1. slots[s] \in SlotData
  OBVIOUS
<1>2. col \in 0..NoColor
  BY DEF NoColor
<1>3. d \in SlotData /\ d.pid = slots[s].pid /\ d.status = slots[s].status /\ d.ai = slots[s].ai
  BY <1>1, <1>2 DEF SlotData
<1>4. slots' = [slots EXCEPT ![s] = d]
  BY DEF withColor
<1> HIDE DEF d
<1> QED BY <1>3, <1>4, SettingPermutes, ZenonT(30)

(* changeRace edits the race.                                              *)
LEMMA RacePermutes ==
  ASSUME slots \in [Slots -> SlotData], NEW s \in Slots, NEW r \in SUBSET RaceFlags,
         slots' = withRace(s, r)
  PROVE  slots' \in [Slots -> SlotData] /\ Permuted
<1> DEFINE d == [slots[s] EXCEPT !.race = r \cup {Selectable}]
<1>1. slots[s] \in SlotData
  OBVIOUS
<1>2. r \cup {Selectable} \in SUBSET RaceFlags
  BY ZenonT(30) DEF RaceFlags
<1>3. d \in SlotData /\ d.pid = slots[s].pid /\ d.status = slots[s].status /\ d.ai = slots[s].ai
  BY <1>1, <1>2 DEF SlotData
<1>4. slots' = [slots EXCEPT ![s] = d]
  BY DEF withRace
<1> HIDE DEF d
<1> QED BY <1>3, <1>4, SettingPermutes, ZenonT(30)

(* changeHandicap edits the handicap.                                      *)
LEMMA HandicapPermutes ==
  ASSUME slots \in [Slots -> SlotData], NEW s \in Slots, NEW h \in 0..100,
         slots' = withHandicap(s, h)
  PROVE  slots' \in [Slots -> SlotData] /\ Permuted
<1> DEFINE d == [slots[s] EXCEPT !.handicap = h]
<1>1. slots[s] \in SlotData
  OBVIOUS
<1>2. d \in SlotData /\ d.pid = slots[s].pid /\ d.status = slots[s].status /\ d.ai = slots[s].ai
  BY <1>1 DEF SlotData
<1>3. slots' = [slots EXCEPT ![s] = d]
  BY DEF withHandicap
<1> HIDE DEF d
<1> QED BY <1>2, <1>3, SettingPermutes, ZenonT(30)

(* onMapState edits the download progress.                                 *)
LEMMA DownloadPermutes ==
  ASSUME slots \in [Slots -> SlotData], NEW s \in Slots, NEW progress \in {0, 100},
         slots' = [slots EXCEPT ![s].download = progress]
  PROVE  slots' \in [Slots -> SlotData] /\ Permuted
<1> DEFINE d == [slots[s] EXCEPT !.download = progress]
<1>1. slots[s] \in SlotData
  OBVIOUS
<1>2. d \in SlotData /\ d.pid = slots[s].pid /\ d.status = slots[s].status /\ d.ai = slots[s].ai
  BY <1>1 DEF SlotData
<1>3. slots' = [slots EXCEPT ![s] = d]
  OBVIOUS
<1> HIDE DEF d
<1> QED BY <1>2, <1>3, SettingPermutes, ZenonT(30)

(* changeSlotStatus opens or closes a slot nobody holds.                   *)
LEMMA StatusPermutes ==
  ASSUME slots \in [Slots -> SlotData], NEW s \in Slots, NEW st \in {Open, Closed},
         slots' = [slots EXCEPT ![s].status = st], slots[s].status # Occupied
  PROVE  slots' \in [Slots -> SlotData] /\ Permuted
<1> DEFINE d == [slots[s] EXCEPT !.status = st]
<1>1. slots[s] \in SlotData
  OBVIOUS
<1>2. d \in SlotData /\ d.pid = slots[s].pid /\ d.status = st
  BY <1>1 DEF SlotData
<1>3. slots' = [slots EXCEPT ![s] = d] /\ st # Occupied
  BY DEF Open, Closed, Occupied
<1> HIDE DEF d
<1>4. d.status = Occupied /\ d.ai = NoAI <=> Human(s)
  BY <1>2, <1>3 DEF Human
<1> QED BY <1>2, <1>3, <1>4, OneSlotPermutes, ZenonT(30)

(* changeComputer edits the strength of a computer.                        *)
LEMMA AIPermutes ==
  ASSUME slots \in [Slots -> SlotData], NEW s \in Slots, NEW ai \in AIs,
         slots' = [slots EXCEPT ![s].ai = ai], slots[s].ai # NoAI
  PROVE  slots' \in [Slots -> SlotData] /\ Permuted
<1> DEFINE d == [slots[s] EXCEPT !.ai = ai]
<1>1. slots[s] \in SlotData
  OBVIOUS
<1>2. d \in SlotData /\ d.pid = slots[s].pid /\ d.ai = ai
  BY <1>1 DEF SlotData
<1>3. slots' = [slots EXCEPT ![s] = d] /\ ai # NoAI
  BY LobbyAssumption
<1> HIDE DEF d
<1>4. d.status = Occupied /\ d.ai = NoAI <=> Human(s)
  BY <1>2, <1>3 DEF Human
<1> QED BY <1>2, <1>3, <1>4, OneSlotPermutes, ZenonT(30)
-----------------------------------------------------------------------------
(* What one step does to the table: it rearranges the holders, or it is    *)
(* one of the five steps that give or take slots and registrations.        *)

(* changeSlotStatus resets an occupied slot nobody is registered for.      *)
ResetsComputer ==
  \E s \in Slots, status \in {Open, Closed} :
    /\ slots[s].status = Occupied /\ ~Registered(s)
    /\ slots' = [slots EXCEPT ![s] = [BaseSlots[s] EXCEPT !.status = status]]
    /\ UNCHANGED <<players, pid, pc>>

Effect ==
  \/ Rearranged
  \/ ResetsComputer
  \/ Close
  \/ \E c \in Clients : Join(c) \/ JoinSendFails(c) \/ onLeave(c)

(* A slot put back to its base with another status is free and nobody's.   *)
LEMMA BaseSlotType ==
  ASSUME NEW s \in Slots, NEW st \in {Open, Closed}
  PROVE  /\ [BaseSlots[s] EXCEPT !.status = st] \in SlotData
         /\ [BaseSlots[s] EXCEPT !.status = st].pid = NoPID
         /\ [BaseSlots[s] EXCEPT !.status = st].status = st
         /\ [BaseSlots[s] EXCEPT !.status = st].team = BaseSlots[s].team
         /\ [BaseSlots[s] EXCEPT !.status = st].race = BaseSlots[s].race
         /\ st # Occupied
<1>1. BaseSlots[s] \in SlotData /\ BaseSlots[s].pid = NoPID
  BY LobbyAssumption
<1> QED BY <1>1 DEF SlotData, Open, Closed, Occupied

(* So is the slot that slotBase describes.                                 *)
LEMMA slotBaseType ==
  ASSUME TypeOK, NEW s \in Slots
  PROVE  /\ slotBase(s) \in SlotData
         /\ slotBase(s).pid = NoPID
         /\ slotBase(s).status # Occupied
         /\ slotBase(s).team = BaseSlots[s].team
         /\ slotBase(s).race = BaseSlots[s].race
<1>1. baseStatus[s] \in {Open, Closed}
  BY DEF TypeOK
<1> QED BY <1>1, BaseSlotType, ZenonT(30) DEF slotBase

(* The two PlayerIDs that are no player's are no BitSet32 bits.            *)
LEMMA NoPIDIsNone == NoPID \notin PIDs /\ ComputerPID \notin PIDs
BY DEF NoPID, ComputerPID, PIDs

(* join fills the first open slot with a new player and no other slot.     *)
LEMMA TakeSlotType ==
  ASSUME BaseInv, OpenSlots # {}
  PROVE  /\ TakeSlot \in [Slots -> SlotData]
         /\ \A s \in Slots \ {findEmptySlot} : TakeSlot[s] = slots[s]
         /\ TakeSlot[findEmptySlot].pid = findEmptyPID
         /\ TakeSlot[findEmptySlot].status = Occupied
         /\ TakeSlot[findEmptySlot].ai = NoAI
         /\ TakeSlot[findEmptySlot].race = BaseSlots[findEmptySlot].race
         /\ CustomForces => TakeSlot[findEmptySlot].team = BaseSlots[findEmptySlot].team
<1> DEFINE d == [initSlot(findEmptySlot) EXCEPT !.pid = findEmptyPID]
<1>1. findEmptySlot \in Slots
  BY findEmptySlotOpen
<1>2. findEmptyPID \in PIDs
  BY findEmptyPIDFree
<1>3. /\ d \in SlotData /\ d.pid = findEmptyPID /\ d.status = Occupied /\ d.ai = NoAI
      /\ d.race = BaseSlots[findEmptySlot].race
      /\ CustomForces => d.team = BaseSlots[findEmptySlot].team
  <2> DEFINE i == initSlot(findEmptySlot)
  <2>1. /\ i \in SlotData /\ i.status = Occupied /\ i.ai = NoAI
        /\ i.race = BaseSlots[findEmptySlot].race
        /\ CustomForces => i.team = BaseSlots[findEmptySlot].team
    BY <1>1, initSlotType
  <2> HIDE DEF i
  <2>2. LET e == [i EXCEPT !.pid = findEmptyPID]
        IN  /\ e \in SlotData /\ e.pid = findEmptyPID /\ e.status = i.status
            /\ e.ai = i.ai /\ e.race = i.race /\ e.team = i.team
    BY <1>2, <2>1 DEF SlotData
  <2> QED BY <2>1, <2>2 DEF i
<1>4. TakeSlot = [slots EXCEPT ![findEmptySlot] = d]
  BY DEF TakeSlot
<1>5. slots \in [Slots -> SlotData]
  BY DEF BaseInv, TypeOK
<1> HIDE DEF d
<1> QED BY <1>1, <1>3, <1>4, <1>5

(* A handler returns to reading; the holders are as its table says.        *)
LEMMA HandledEffect ==
  ASSUME TypeOK, UNCHANGED started, NEW c \in Clients, NEW kick \in BOOLEAN,
         pc[c] = "handling", Handled(c, kick),
         slots' \in [Slots -> SlotData], Permuted,
         fresh' \in BOOLEAN, panicked' \in BOOLEAN
  PROVE  TypeOK' /\ Rearranged
<1>1. pc' \in [Clients -> {"idle", "rejected", "reading", "handling", "left"}] /\ Live' = Live
  BY DEF TypeOK, Handled, Live
<1>2. closed' \in [Clients -> BOOLEAN]
  BY DEF TypeOK, Handled
<1>3. UNCHANGED <<baseStatus, players, locked, pid, shuffle>>
  BY DEF Handled
<1> QED BY <1>1, <1>2, <1>3 DEF TypeOK, Rearranged

(* A handler that ignores, kicks or panics leaves the table alone.         *)
LEMMA UntouchedEffect ==
  ASSUME TypeOK, UNCHANGED started, NEW c \in Clients, pc[c] = "handling",
         Ignored(c) \/ Kicked(c) \/ Panics(c)
  PROVE  TypeOK' /\ Rearranged
<1>1. slots' = slots /\ fresh' = fresh /\ panicked' \in BOOLEAN
  BY ZenonT(30) DEF Ignored, Kicked, Panics, TypeOK
<1>2. slots' \in [Slots -> SlotData] /\ fresh' \in BOOLEAN
  BY <1>1 DEF TypeOK
<1>3. Permuted
  BY <1>1, UnchangedPermutes
<1>4. Handled(c, TRUE) \/ Handled(c, FALSE)
  BY ZenonT(30) DEF Ignored, Kicked, Panics
<1> QED BY <1>1, <1>2, <1>3, <1>4, HandledEffect, ZenonT(30)

(* The handlers of the players' packets rearrange at most.                 *)
LEMMA PacketEffect ==
  ASSUME BaseInv, UNCHANGED started, NEW c \in Clients, Packet(c)
  PROVE  TypeOK' /\ Rearranged
<1> DEFINE s == pidToSID(pid[c])
<1>1. TypeOK /\ slots \in [Slots -> SlotData] /\ pc[c] = "handling"
  BY ZenonT(30) DEF BaseInv, TypeOK, Packet, onInvalidMessage, onPlayerChat, onMapState,
         onTeamChange, onColorChange, onRaceChange, onHandicapChange, Request
<1>2. HasSlot(pid[c]) => s \in Slots
  BY pidToSIDFinds
<1> HIDE DEF s
<1>3. ASSUME Ignored(c) \/ Kicked(c) \/ Panics(c)
      PROVE  TypeOK' /\ Rearranged
  BY <1>1, <1>3, UntouchedEffect
<1>4. ASSUME NEW kick \in BOOLEAN, Handled(c, kick), fresh' \in BOOLEAN, panicked' = panicked,
             slots' \in [Slots -> SlotData], Permuted
      PROVE  TypeOK' /\ Rearranged
  BY <1>1, <1>4, HandledEffect DEF TypeOK
<1>5. CASE onInvalidMessage(c) \/ onPlayerChat(c)
  BY <1>3, <1>5 DEF onInvalidMessage, onPlayerChat
<1>6. ASSUME NEW ready \in BOOLEAN, NEW progress \in Progress, onMapState(c, ready, progress)
      PROVE  TypeOK' /\ Rearranged
  <2>1. CASE ~HasSlot(pid[c])
    BY <1>3, <1>6, <2>1 DEF onMapState
  <2>2. CASE HasSlot(pid[c])
    <3>1. /\ Handled(c, ~ready) /\ panicked' = panicked
          /\ \/ slots' = [slots EXCEPT ![s].download = progress] /\ fresh' \in BOOLEAN
             \/ slots' = slots /\ fresh' = fresh
      BY <1>6, <2>2 DEF onMapState, refreshSlots, s
    <3>2. progress \in {0, 100} /\ s \in Slots /\ fresh' \in BOOLEAN
      BY <1>1, <1>2, <2>2, <3>1, LobbyAssumption, ZenonT(30) DEF TypeOK
    <3>3. slots' \in [Slots -> SlotData] /\ Permuted
      BY <1>1, <3>1, <3>2, DownloadPermutes, UnchangedPermutes
    <3> QED BY <1>4, <3>1, <3>2, <3>3, ZenonT(30)
  <2> QED BY <2>1, <2>2
<1>7. ASSUME NEW t \in Teams, onTeamChange(c, t)
      PROVE  TypeOK' /\ Rearranged
  <2>1. CASE Ignored(c) \/ Kicked(c) \/ Panics(c)
    BY <1>3, <2>1
  <2>2. CASE ~(Ignored(c) \/ Kicked(c) \/ Panics(c))
    <3>1. /\ HasSlot(pid[c]) /\ Handled(c, FALSE) /\ panicked' = panicked /\ fresh' \in BOOLEAN
          /\ \/ slots' = withTeam(s, t)
             \/ /\ \E x \in OpenSlots : slots[x].team = t
                /\ slots' = swapSlots(s, findEmptyTeamSlot(t), FALSE)
      BY <1>7, <2>2, ZenonT(30) DEF onTeamChange, Request, refreshSlots, s
    <3>2. t \in 0..255 /\ s \in Slots
      BY <1>2, <3>1, LobbyAssumption
    <3>3. slots' \in [Slots -> SlotData] /\ Permuted
      BY <1>1, <3>1, <3>2, TeamPermutes, SwapPermutes, findEmptyTeamSlotOpen, ZenonT(30)
    <3> QED BY <1>4, <3>1, <3>3, ZenonT(30)
  <2> QED BY <2>1, <2>2
<1>8. ASSUME NEW col \in Colors, onColorChange(c, col)
      PROVE  TypeOK' /\ Rearranged
  <2>1. CASE Ignored(c) \/ Kicked(c) \/ Panics(c)
    BY <1>3, <2>1
  <2>2. CASE ~(Ignored(c) \/ Kicked(c) \/ Panics(c))
    <3>1. /\ HasSlot(pid[c]) /\ Handled(c, FALSE) /\ panicked' = panicked /\ fresh' \in BOOLEAN
          /\ slots' = withColor(s, col) /\ ~(col >= 32)
      BY <1>8, <2>2, ZenonT(30) DEF onColorChange, onInvalidMessage, Request, refreshSlots, s
    <3>2. col \in 0..31 /\ s \in Slots
      BY <1>2, <3>1, LobbyAssumption
    <3>3. slots' \in [Slots -> SlotData] /\ Permuted
      BY <1>1, <3>1, <3>2, ColorPermutes
    <3> QED BY <1>4, <3>1, <3>3, ZenonT(30)
  <2> QED BY <2>1, <2>2
<1>9. ASSUME NEW r \in Races, onRaceChange(c, r)
      PROVE  TypeOK' /\ Rearranged
  <2>1. CASE Ignored(c) \/ Kicked(c) \/ Panics(c)
    BY <1>3, <2>1
  <2>2. CASE ~(Ignored(c) \/ Kicked(c) \/ Panics(c))
    <3>1. /\ HasSlot(pid[c]) /\ Handled(c, FALSE) /\ panicked' = panicked /\ fresh' \in BOOLEAN
          /\ slots' = withRace(s, r)
      BY <1>9, <2>2, ZenonT(30) DEF onRaceChange, Request, refreshSlots, s
    <3>2. r \in SUBSET RaceFlags /\ s \in Slots
      BY <1>2, <3>1, LobbyAssumption
    <3>3. slots' \in [Slots -> SlotData] /\ Permuted
      BY <1>1, <3>1, <3>2, RacePermutes
    <3> QED BY <1>4, <3>1, <3>3, ZenonT(30)
  <2> QED BY <2>1, <2>2
<1>10. ASSUME NEW h \in Handicaps, onHandicapChange(c, h)
       PROVE  TypeOK' /\ Rearranged
  <2>1. CASE Ignored(c) \/ Kicked(c) \/ Panics(c)
    BY <1>3, <2>1
  <2>2. CASE ~(Ignored(c) \/ Kicked(c) \/ Panics(c))
    <3>1. /\ HasSlot(pid[c]) /\ Handled(c, FALSE) /\ panicked' = panicked /\ fresh' \in BOOLEAN
          /\ slots' = withHandicap(s, h) /\ ~(h > 100)
      BY <1>10, <2>2, ZenonT(30) DEF onHandicapChange, onInvalidMessage, Request, refreshSlots, s
    <3>2. h \in 0..100 /\ s \in Slots
      BY <1>2, <3>1, LobbyAssumption
    <3>3. slots' \in [Slots -> SlotData] /\ Permuted
      BY <1>1, <3>1, <3>2, HandicapPermutes
    <3> QED BY <1>4, <3>1, <3>3, ZenonT(30)
  <2> QED BY <2>1, <2>2
<1> QED BY <1>5, <1>6, <1>7, <1>8, <1>9, <1>10 DEF Packet

(* The host's operations rearrange, reset a computer's slot, or close.     *)
LEMMA HostEffect ==
  ASSUME BaseInv, UNCHANGED started, Host
  PROVE  TypeOK' /\ (Rearranged \/ ResetsComputer \/ Close)
<1>1. TypeOK /\ slots \in [Slots -> SlotData] /\ baseStatus \in [Slots -> {Open, Closed}]
  BY DEF BaseInv, TypeOK
<1>2. ASSUME UNCHANGED <<players, pid, pc>>, slots' \in [Slots -> SlotData], Permuted
      PROVE  Rearranged
  BY <1>2 DEF Rearranged, Live
<1>3. ASSUME UNCHANGED <<baseStatus, players, locked, pid, pc, closed, shuffle, panicked>>,
             fresh' \in BOOLEAN, slots' \in [Slots -> SlotData], Permuted
      PROVE  TypeOK' /\ Rearranged
  BY <1>1, <1>2, <1>3 DEF TypeOK
<1>4. CASE Lock \/ Unlock
  BY <1>1, <1>2, <1>4, UnchangedPermutes, ZenonT(30) DEF Lock, Unlock, tableVars, connVars, TypeOK
<1>5. CASE Close
  BY <1>1, <1>5 DEF Close, tableVars, connVars, TypeOK
<1>6. ASSUME NEW from \in {Open, Closed}, NEW to \in {Open, Closed}, SetAll(from, to)
      PROVE  TypeOK' /\ Rearranged
  <2> DEFINE tab == [x \in Slots |-> IF slots[x].status = from
                                     THEN [slots[x] EXCEPT !.status = to] ELSE slots[x]]
  <2>1. slots' = tab /\ fresh' \in BOOLEAN
    BY <1>6 DEF SetAll, refreshSlots
  <2>2. \A x \in Slots : slots'[x] = IF slots[x].status = from
                                    THEN [slots[x] EXCEPT !.status = to] ELSE slots[x]
    BY <2>1
  <2>3. ASSUME NEW d \in SlotData
        PROVE  [d EXCEPT !.status = to] \in SlotData /\ [d EXCEPT !.status = to].pid = d.pid
               /\ [d EXCEPT !.status = to].status # Occupied /\ from # Occupied
    BY DEF SlotData, Open, Closed, Occupied
  <2>4. \A x \in Slots : slots'[x] \in SlotData /\ SameHolder(x, x)
    BY <1>1, <2>2, <2>3, ZenonT(30) DEF SameHolder, Human
  <2>5. slots' \in [Slots -> SlotData] /\ Permuted
    BY <2>1, <2>4, KeptPermutes, ZenonT(30)
  <2> QED BY <1>3, <1>6, <2>1, <2>5 DEF SetAll, connVars
<1>7. ASSUME NEW s \in Slots, NEW kick \in BOOLEAN, NEW status \in {Open, Closed},
             changeSlotStatus(s, status, kick)
      PROVE  TypeOK' /\ (Rearranged \/ ResetsComputer)
  <2>1. /\ baseStatus' \in [Slots -> {Open, Closed}]
        /\ UNCHANGED <<players, locked, pid, pc, shuffle, panicked>>
    BY <1>1, <1>7 DEF changeSlotStatus, connVars
  <2>2. CASE slots[s].status # Occupied
    <3>1. slots' = [slots EXCEPT ![s].status = status] /\ fresh' \in BOOLEAN /\ closed' = closed
      BY <1>7, <2>2 DEF changeSlotStatus, refreshSlots
    <3>2. slots' \in [Slots -> SlotData] /\ Permuted
      BY <1>1, <2>2, <3>1, StatusPermutes, ZenonT(30)
    <3> QED BY <1>1, <1>2, <2>1, <3>1, <3>2 DEF TypeOK
  <2>3. CASE slots[s].status = Occupied /\ Registered(s)
    <3>1. /\ slots' = slots /\ fresh' \in BOOLEAN
          /\ closed' = [closed EXCEPT ![players[slots[s].pid]] = @ \/ kick]
      BY <1>1, <1>7, <2>3, ZenonT(30) DEF changeSlotStatus, refreshSlots, TypeOK
    <3>2. closed' \in [Clients -> BOOLEAN]
      BY <1>1, <3>1, ZenonT(30) DEF TypeOK
    <3>3. slots' \in [Slots -> SlotData] /\ Permuted
      BY <1>1, <3>1, UnchangedPermutes
    <3> QED BY <1>1, <1>2, <2>1, <3>1, <3>2, <3>3 DEF TypeOK
  <2>4. CASE slots[s].status = Occupied /\ ~Registered(s)
    <3>1. /\ slots' = [slots EXCEPT ![s] = [BaseSlots[s] EXCEPT !.status = status]]
          /\ fresh' \in BOOLEAN /\ closed' = closed
      BY <1>7, <2>4 DEF changeSlotStatus, refreshSlots
    <3>2. [BaseSlots[s] EXCEPT !.status = status] \in SlotData
      BY BaseSlotType, ZenonT(30)
    <3>3. ResetsComputer
      BY <2>1, <2>4, <3>1, ZenonT(30) DEF ResetsComputer
    <3>4. slots' \in [Slots -> SlotData]
      BY <1>1, <3>1, <3>2
    <3> QED BY <1>1, <2>1, <3>1, <3>3, <3>4 DEF TypeOK
  <2> QED BY <2>2, <2>3, <2>4
<1>8. ASSUME NEW a \in Slots, NEW b \in Slots, SwapSlots(a, b)
      PROVE  TypeOK' /\ Rearranged
  <2>1. slots' = swapSlots(a, b, ~CustomForces) /\ fresh' \in BOOLEAN
    BY <1>8 DEF SwapSlots, Replace, refreshSlots
  <2>2. slots' \in [Slots -> SlotData] /\ Permuted
    BY <1>1, <2>1, SwapPermutes, LobbyAssumption, ZenonT(30)
  <2> QED BY <1>3, <1>8, <2>1, <2>2 DEF SwapSlots, Replace, connVars
<1>9. CASE \/ \E teams \in BOOLEAN : ShuffleBegin(teams)
           \/ ShuffleEnd
  <2>1. /\ UNCHANGED <<slots, baseStatus, players, locked, pid, pc, closed, panicked>>
        /\ fresh' \in BOOLEAN /\ shuffle' \in [left : 0..NumSlots, teams : BOOLEAN]
    <3>1. NumSlots \in 0..NumSlots /\ 0 \in 0..NumSlots
      BY LobbyAssumption
    <3>2. shuffle' \in [left : 0..NumSlots, teams : BOOLEAN]
      <4>1. \/ \E teams \in BOOLEAN : shuffle' = [left |-> NumSlots, teams |-> teams]
            \/ shuffle' = [left |-> 0, teams |-> FALSE]
        BY <1>9 DEF ShuffleBegin, ShuffleEnd
      <4>2. ASSUME NEW teams \in BOOLEAN, NEW l \in 0..NumSlots
            PROVE  [left |-> l, teams |-> teams] \in [left : 0..NumSlots, teams : BOOLEAN]
        OBVIOUS
      <4> QED BY <3>1, <4>1, <4>2, ZenonT(30)
    <3> QED BY <1>1, <1>9, <3>2, ZenonT(30)
            DEF ShuffleBegin, ShuffleEnd, refreshSlots, tableVars, connVars, TypeOK
  <2> QED BY <1>1, <1>2, <2>1, UnchangedPermutes DEF TypeOK
<1>10. ASSUME NEW j \in Slots, ShuffleStep(j)
       PROVE  TypeOK' /\ Rearranged
  <2> DEFINE occupied == slots[shuffle.left].status = Occupied /\ slots[j].status = Occupied
             st == ~CustomForces /\ occupied /\ ~shuffle.teams
  <2>1. /\ shuffle.left \in Slots /\ shuffle.left > 1
        /\ shuffle' = [shuffle EXCEPT !.left = shuffle.left - 1]
        /\ slots' = swapSlots(shuffle.left, j, st) /\ fresh' = FALSE
    <3>1. shuffle.left \in 0..NumSlots /\ shuffle.left > 1
      BY <1>1, <1>10 DEF ShuffleStep, TypeOK
    <3>2. shuffle.left \in Slots
      BY <3>1, LobbyAssumption DEF Slots
    <3> QED BY <1>10, <3>1, <3>2 DEF ShuffleStep
  <2>2. st \in BOOLEAN
    OBVIOUS
  <2> HIDE DEF st
  <2>3. slots' \in [Slots -> SlotData] /\ Permuted
    BY <1>1, <2>1, <2>2, SwapPermutes
  <2>4. shuffle' \in [left : 0..NumSlots, teams : BOOLEAN]
    <3> DEFINE l == shuffle.left - 1
    <3>1. l \in 0..NumSlots
      <4>1. NumSlots \in 1..24 /\ shuffle.left \in 1..NumSlots
        BY <2>1, LobbyAssumption DEF Slots
      <4> QED BY <4>1
    <3>2. shuffle \in [left : 0..NumSlots, teams : BOOLEAN]
      BY <1>1 DEF TypeOK
    <3>3. shuffle' = [shuffle EXCEPT !.left = l]
      BY <2>1
    <3> HIDE DEF l
    <3> QED BY <3>1, <3>2, <3>3
  <2> QED BY <1>1, <1>2, <1>10, <2>1, <2>3, <2>4, ZenonT(30) DEF ShuffleStep, connVars, TypeOK
<1>11. ASSUME NEW s \in Slots,
              \/ \E r \in Races : ChangeRace(s, r)
              \/ \E t \in Teams : ChangeTeam(s, t)
              \/ \E col \in Colors : ChangeColor(s, col)
              \/ \E h \in Handicaps : ChangeHandicap(s, h)
       PROVE  TypeOK' /\ Rearranged
  <2>1. /\ UNCHANGED <<baseStatus, players, locked, pid, pc, closed, shuffle, panicked>>
        /\ fresh' \in BOOLEAN
        /\ \/ \E r \in SUBSET RaceFlags : slots' = withRace(s, r)
           \/ \E t \in 0..255 : slots' = withTeam(s, t)
           \/ \E col \in 0..31 : slots' = withColor(s, col)
           \/ \E h \in 0..100 : slots' = withHandicap(s, h)
    <3>1. CASE \E r \in Races : ChangeRace(s, r)
      BY <3>1, LobbyAssumption DEF ChangeRace, Replace, refreshSlots, connVars
    <3>2. CASE \E t \in Teams : ChangeTeam(s, t)
      <4>1. \A t \in Teams : t \in 0..255
        BY LobbyAssumption, ZenonT(30)
      <4> QED BY <3>2, <4>1 DEF ChangeTeam, Replace, refreshSlots, connVars
    <3>3. CASE \E col \in Colors : ChangeColor(s, col)
      <4>1. \A col \in Colors : col < 32 => col \in 0..31
        BY LobbyAssumption
      <4> QED BY <3>3, <4>1 DEF ChangeColor, Replace, refreshSlots, connVars
    <3>4. CASE \E h \in Handicaps : ChangeHandicap(s, h)
      <4>1. \A h \in Handicaps : h <= 100 => h \in 0..100
        BY LobbyAssumption
      <4> QED BY <3>4, <4>1 DEF ChangeHandicap, Replace, refreshSlots, connVars
    <3> QED BY <1>11, <3>1, <3>2, <3>3, <3>4, ZenonT(30)
  <2>2. slots' \in [Slots -> SlotData] /\ Permuted
    BY <1>1, <2>1, TeamPermutes, ColorPermutes, RacePermutes,
       HandicapPermutes, ZenonT(30)
  <2> QED BY <1>3, <2>1, <2>2
<1>12. ASSUME NEW s \in Slots, NEW ai \in AIs, ChangeComputer(s, ai)
       PROVE  TypeOK' /\ Rearranged
  <2>1. /\ UNCHANGED <<baseStatus, players, locked, pid, pc, closed, shuffle, panicked>>
        /\ fresh' \in BOOLEAN
    BY <1>1, <1>12, ZenonT(30) DEF ChangeComputer, Replace, refreshSlots, connVars, TypeOK
  <2>2. CASE slots[s].status = Occupied
    <3>1. slots' = [slots EXCEPT ![s].ai = ai] /\ slots[s].ai # NoAI
      BY <1>12, <2>2 DEF ChangeComputer, Replace, refreshSlots
    <3>2. slots' \in [Slots -> SlotData] /\ Permuted
      BY <1>1, <3>1, AIPermutes, ZenonT(30)
    <3> QED BY <1>3, <2>1, <3>2
  <2>3. CASE slots[s].status # Occupied
    <3> DEFINE i == initSlot(s)
               d == [i EXCEPT !.ai = ai, !.download = 100]
    <3>1. slots' = [slots EXCEPT ![s] = d] \/ slots' = [slots EXCEPT ![s] = slotBase(s)]
      BY <1>12, <2>3 DEF ChangeComputer, Replace, refreshSlots
    <3>2. ~Human(s) /\ slots[s].pid \notin PIDs
      BY <2>3 DEF Human, BaseInv, PIDsAreHumans
    <3>3. d \in SlotData /\ d.pid \notin PIDs /\ d.ai # NoAI
      <4>1. i \in SlotData /\ i.pid = ComputerPID
        BY initSlotType
      <4> HIDE DEF i
      <4> DEFINE e == [i EXCEPT !.ai = ai]
      <4>2. e \in SlotData /\ e.pid = ComputerPID /\ e.ai = ai
        BY <4>1 DEF SlotData
      <4>3. d = [e EXCEPT !.download = 100]
        OBVIOUS
      <4> HIDE DEF e, d
      <4>4. d \in SlotData /\ d.pid = ComputerPID /\ d.ai = ai
        BY <4>2, <4>3 DEF SlotData
      <4> QED BY <4>4, LobbyAssumption DEF ComputerPID, PIDs
    <3>4. slotBase(s) \in SlotData /\ slotBase(s).pid \notin PIDs /\ slotBase(s).status # Occupied
      BY <1>1, slotBaseType, NoPIDIsNone
    <3> HIDE DEF i, d
    <3>5. slots' \in [Slots -> SlotData] /\ Permuted
      BY <1>1, <3>1, <3>2, <3>3, <3>4, OneSlotPermutes
    <3> QED BY <1>3, <2>1, <3>5
  <2> QED BY <2>2, <2>3
<1>13. CASE OpenAllSlots \/ CloseAllSlots
  BY <1>6, <1>13 DEF OpenAllSlots, CloseAllSlots
<1> QED BY <1>4, <1>5, <1>7, <1>8, <1>9, <1>10, <1>11, <1>12, <1>13 DEF Host

(* Every step has one of the effects and keeps the types.                  *)
LEMMA StepEffect ==
  ASSUME BaseInv, Next
  PROVE  TypeOK' /\ Effect
<1>1. TypeOK /\ slots \in [Slots -> SlotData]
  BY DEF BaseInv, TypeOK
<1>8. CASE Start
  <2>1. /\ UNCHANGED <<slots, baseStatus, players, pid, pc, closed, shuffle, fresh, panicked>>
        /\ locked' = TRUE /\ started' = TRUE
    BY <1>8 DEF Start, tableVars, connVars
  <2> QED BY <1>1, <2>1, UnchangedPermutes DEF TypeOK, Effect, Rearranged, Live
<1> SUFFICES ASSUME UNCHANGED started, Host \/ \E c \in Clients : Connection(c)
             PROVE  TypeOK' /\ Effect
  BY <1>8 DEF Next
<1>2. CASE Host
  BY <1>2, HostEffect DEF Effect
<1>3. ASSUME NEW c \in Clients, Packet(c)
      PROVE  TypeOK' /\ Effect
  BY <1>3, PacketEffect DEF Effect
<1>4. ASSUME NEW c \in Clients, JoinRejected(c) \/ Disconnect(c) \/ Read(c)
      PROVE  TypeOK' /\ Effect
  <2>1. /\ UNCHANGED <<slots, baseStatus, players, locked, pid, shuffle, fresh, panicked>>
        /\ pc' \in [Clients -> {"idle", "rejected", "reading", "handling", "left"}]
        /\ Live' = Live
    BY <1>1, <1>4 DEF JoinRejected, Disconnect, Read, tableVars, connVars, TypeOK, Live
  <2>2. closed' \in [Clients -> BOOLEAN]
    BY <1>1, <1>4, ZenonT(30) DEF JoinRejected, Disconnect, Read, TypeOK
  <2>3. Permuted
    BY <2>1, UnchangedPermutes
  <2> QED BY <1>1, <2>1, <2>2, <2>3 DEF TypeOK, Effect, Rearranged
<1>5. ASSUME NEW c \in Clients, JoinSendFails(c)
      PROVE  TypeOK' /\ Effect
  <2>1. TakeSlot \in [Slots -> SlotData]
    BY <1>5, TakeSlotType DEF JoinSendFails
  <2> QED BY <1>1, <1>5, <2>1, ZenonT(30) DEF JoinSendFails, TypeOK, Effect
<1>6. ASSUME NEW c \in Clients, Join(c)
      PROVE  TypeOK' /\ Effect
  <2>1. TakeSlot \in [Slots -> SlotData] /\ findEmptyPID \in PIDs
    BY <1>6, TakeSlotType, findEmptyPIDFree DEF Join
  <2>2. /\ players' \in [PIDs -> Clients \cup {NoPlayer}]
        /\ pid' \in [Clients -> PIDs \cup {NoPID}]
        /\ pc' \in [Clients -> {"idle", "rejected", "reading", "handling", "left"}]
        /\ slots' \in [Slots -> SlotData] /\ fresh' \in BOOLEAN
    BY <1>1, <1>6, <2>1 DEF Join, TypeOK
  <2>3. UNCHANGED <<baseStatus, locked, closed, shuffle, panicked>>
    BY <1>6 DEF Join
  <2> QED BY <1>1, <1>6, <2>2, <2>3 DEF TypeOK, Effect
<1>7. ASSUME NEW c \in Clients, onLeave(c)
      PROVE  TypeOK' /\ Effect
  <2>1. /\ players' \in [PIDs -> Clients \cup {NoPlayer}]
        /\ pc' \in [Clients -> {"idle", "rejected", "reading", "handling", "left"}]
        /\ panicked' \in BOOLEAN
    BY <1>1, <1>7, ZenonT(30) DEF onLeave, TypeOK
  <2>2. UNCHANGED <<baseStatus, locked, pid, closed, shuffle>>
    BY <1>7 DEF onLeave
  <2>3. slots' \in [Slots -> SlotData] /\ fresh' \in BOOLEAN
    <3>1. CASE ~HasSlot(pid[c])
      BY <1>1, <1>7, <3>1 DEF onLeave, TypeOK
    <3>2. CASE HasSlot(pid[c])
      <4> DEFINE s == pidToSID(pid[c])
      <4>1. s \in Slots
        BY <3>2, pidToSIDFinds
      <4>2. slotBase(s) \in SlotData
        BY <1>1, <4>1, slotBaseType
      <4>3. slots' = [slots EXCEPT ![s] = slotBase(s)] /\ fresh' \in BOOLEAN
        BY <1>7, <3>2 DEF onLeave, refreshSlots
      <4> HIDE DEF s
      <4> QED BY <1>1, <4>1, <4>2, <4>3
    <3> QED BY <3>1, <3>2
  <2> QED BY <1>1, <1>7, <2>1, <2>2, <2>3 DEF TypeOK, Effect
<1> QED BY <1>2, <1>3, <1>4, <1>5, <1>6, <1>7 DEF Connection

(* The base invariant is inductive.                                        *)
LEMMA BaseStep ==
  ASSUME BaseInv, [Next]_vars
  PROVE  BaseInv'
<1>1. CASE UNCHANGED vars
  BY <1>1 DEF vars, BaseInv, TypeOK, PIDsAreHumans, RegisteredHaveSlots, Human, HasSlot
<1>2. CASE Next
  <2>1. TypeOK' /\ Effect /\ slots \in [Slots -> SlotData]
    BY <1>2, StepEffect DEF BaseInv, TypeOK
  <2>2. CASE Rearranged
    <3>1. PICK f \in [Slots -> Slots] : \A s \in Slots : f[f[s]] = s /\ SameHolder(s, f[s])
      BY <2>2 DEF Rearranged, Permuted
    <3>2. PIDsAreHumans'
      BY <3>1 DEF BaseInv, PIDsAreHumans, SameHolder
    <3>3. RegisteredHaveSlots'
      BY <2>2, <3>1 DEF Rearranged, BaseInv, RegisteredHaveSlots, HasSlot, SameHolder
    <3> QED BY <2>1, <3>2, <3>3 DEF BaseInv
  <2>3. CASE ResetsComputer
    <3>1. PICK s \in Slots, status \in {Open, Closed} :
            /\ ~Registered(s)
            /\ slots' = [slots EXCEPT ![s] = [BaseSlots[s] EXCEPT !.status = status]]
            /\ players' = players
      BY <2>3, ZenonT(30) DEF ResetsComputer
    <3>2. slots'[s].pid \notin PIDs /\ \A t \in Slots \ {s} : slots'[t] = slots[t]
      <4> DEFINE d == [BaseSlots[s] EXCEPT !.status = status]
      <4>1. d.pid = NoPID /\ slots' = [slots EXCEPT ![s] = d]
        BY <3>1, BaseSlotType, ZenonT(30)
      <4> HIDE DEF d
      <4> QED BY <2>1, <4>1, NoPIDIsNone
    <3>3. PIDsAreHumans'
      BY <3>2 DEF BaseInv, PIDsAreHumans, Human
    <3>4. RegisteredHaveSlots'
      BY <3>1, <3>2 DEF BaseInv, RegisteredHaveSlots, HasSlot, Registered
    <3> QED BY <2>1, <3>3, <3>4 DEF BaseInv
  <2>4. CASE Close
    <3>1. slots' = slots /\ players' = [p \in PIDs |-> NoPlayer]
      BY <2>4 DEF Close, tableVars
    <3> QED BY <2>1, <3>1 DEF BaseInv, PIDsAreHumans, RegisteredHaveSlots, Human, HasSlot
  <2>5. ASSUME NEW c \in Clients, Join(c) \/ JoinSendFails(c)
        PROVE  BaseInv'
    <3>1. /\ OpenSlots # {} /\ slots' = TakeSlot
          /\ players' = [players EXCEPT ![findEmptyPID] = c] \/ players' = players
      BY <2>5 DEF Join, JoinSendFails
    <3>2. /\ findEmptySlot \in Slots /\ slots[findEmptySlot].pid \notin PIDs
          /\ findEmptyPID \in PIDs
      BY <3>1, findEmptySlotOpen, findEmptyPIDFree
         DEF BaseInv, PIDsAreHumans, Human, Open, Occupied
    <3>3. /\ \A t \in Slots \ {findEmptySlot} : slots'[t] = slots[t]
          /\ slots'[findEmptySlot].pid = findEmptyPID
          /\ slots'[findEmptySlot].status = Occupied
          /\ slots'[findEmptySlot].ai = NoAI
      BY <3>1, TakeSlotType
    <3>4. PIDsAreHumans'
      BY <3>3 DEF BaseInv, PIDsAreHumans, Human
    <3>5. players \in [PIDs -> Clients \cup {NoPlayer}]
      BY DEF BaseInv, TypeOK
    <3>6. RegisteredHaveSlots'
      BY <3>1, <3>2, <3>3, <3>5 DEF BaseInv, RegisteredHaveSlots, HasSlot
    <3> QED BY <2>1, <3>4, <3>6 DEF BaseInv
  <2>6. ASSUME NEW c \in Clients, onLeave(c)
        PROVE  BaseInv'
    <3>1. players' = [players EXCEPT ![pid[c]] = NoPlayer]
      BY <2>6 DEF onLeave
    <3>2. players \in [PIDs -> Clients \cup {NoPlayer}]
      BY DEF BaseInv, TypeOK
    <3>3. CASE ~HasSlot(pid[c])
      <4>1. slots' = slots
        BY <2>6, <3>3 DEF onLeave
      <4> QED BY <2>1, <3>1, <3>2, <4>1
              DEF BaseInv, PIDsAreHumans, RegisteredHaveSlots, Human, HasSlot
    <3>4. CASE HasSlot(pid[c])
      <4> DEFINE s == pidToSID(pid[c])
      <4>1. s \in Slots /\ slots[s].pid = pid[c]
        BY <3>4, pidToSIDFinds
      <4>2. slotBase(s).pid \notin PIDs
        BY <4>1, slotBaseType, NoPIDIsNone DEF BaseInv
      <4>3. slots' = [slots EXCEPT ![s] = slotBase(s)]
        BY <2>6, <3>4 DEF onLeave, refreshSlots
      <4> HIDE DEF s
      <4>4. slots'[s].pid \notin PIDs /\ \A t \in Slots \ {s} : slots'[t] = slots[t]
        BY <2>1, <4>1, <4>2, <4>3
      <4>5. PIDsAreHumans'
        BY <4>4 DEF BaseInv, PIDsAreHumans, Human
      <4>6. RegisteredHaveSlots'
        BY <3>1, <3>2, <4>1, <4>4 DEF BaseInv, RegisteredHaveSlots, HasSlot
      <4> QED BY <2>1, <4>5, <4>6 DEF BaseInv
    <3> QED BY <3>3, <3>4
  <2> QED BY <2>1, <2>2, <2>3, <2>4, <2>5, <2>6 DEF Effect
<1> QED BY <1>1, <1>2

(* The inductive invariant holds of the table handed to NewLobby.          *)
LEMMA BaseInit ==
  ASSUME Init
  PROVE  BaseInv
<1>1. /\ slots = BaseSlots /\ \A s \in Slots : slots[s].pid = NoPID
      /\ slots \in [Slots -> SlotData]
  BY LobbyAssumption DEF Init
<1>2. baseStatus \in [Slots -> {Open, Closed}]
  BY LobbyAssumption DEF Init
<1>3. shuffle \in [left : 0..NumSlots, teams : BOOLEAN]
  <2>1. 0 \in 0..NumSlots
    BY LobbyAssumption
  <2> QED BY <2>1 DEF Init
<1>4. TypeOK
  BY <1>1, <1>2, <1>3, ZenonT(30) DEF Init, TypeOK
<1> QED BY <1>1, <1>4, NoPIDIsNone DEF Init, BaseInv, PIDsAreHumans, RegisteredHaveSlots

(* The inductive invariant holds always.                                   *)
LEMMA BaseInvariant == Spec => []BaseInv
<1>1. Init => BaseInv
  BY BaseInit
<1>2. BaseInv /\ [Next]_vars => BaseInv'
  BY BaseStep
<1> QED BY <1>1, <1>2, PTL DEF Spec

(* The slot table, the registrations and the connections always have the   *)
(* values the code declares, for lobbies of every size and layout, every   *)
(* number of connections and every fault: join in particular always finds  *)
(* a player id, since an id is only taken while its player has a slot.     *)
THEOREM TypeCorrect == Spec => []TypeOK
<1>1. BaseInv => TypeOK
  BY DEF BaseInv
<1> QED BY <1>1, BaseInvariant, PTL
-----------------------------------------------------------------------------
(* Who sits where.                                                         *)

(* The live connections and the registrations correspond.                  *)
LiveRegistered ==
  /\ \A c \in Live : pid[c] \in PIDs /\ players[pid[c]] = c
  /\ \A p \in PIDs : players[p] # NoPlayer => players[p] \in Live /\ pid[players[p]] = p

SeatInv == BaseInv /\ LiveRegistered /\ NoPanic

(* Only a live connection without a slot makes pidToSID panic.             *)
LEMMA PanicNeedsLostSlot ==
  ASSUME BaseInv, Next, NoPanic, NoPanic' = FALSE
  PROVE  \E c \in Live : ~HasSlot(pid[c])
<1>1. panicked' # panicked
  BY ZenonT(30) DEF NoPanic
<1>2. ASSUME Start \/ Host
      PROVE  FALSE
  BY <1>1, <1>2, ZenonT(30)
     DEF Start, Host, Lock, Unlock, Close, OpenAllSlots, CloseAllSlots, SetAll, changeSlotStatus,
         SwapSlots, Replace, ShuffleBegin, ShuffleStep, ShuffleEnd, ChangeRace, ChangeTeam,
         ChangeColor, ChangeHandicap, ChangeComputer
<1>3. ASSUME NEW c \in Clients,
             JoinRejected(c) \/ JoinSendFails(c) \/ Join(c) \/ Disconnect(c) \/ Read(c)
      PROVE  FALSE
  BY <1>1, <1>3 DEF JoinRejected, JoinSendFails, Join, Disconnect, Read
<1>4. ASSUME NEW c \in Clients, onLeave(c)
      PROVE  c \in Live /\ ~HasSlot(pid[c])
  BY <1>4, ZenonT(30) DEF onLeave, NoPanic, Live
<1>5. ASSUME NEW c \in Clients, Packet(c)
      PROVE  c \in Live /\ ~HasSlot(pid[c])
  BY <1>1, <1>5, ZenonT(30) DEF Packet, onInvalidMessage, onPlayerChat, onMapState, onTeamChange,
     onColorChange, onRaceChange, onHandicapChange, Request, Ignored, Kicked, Live
<1> QED BY <1>2, <1>3, <1>4, <1>5 DEF Next, Connection

(* Without Close, no step takes the slot of a live connection away.        *)
LEMMA SeatStep ==
  ASSUME "close" \notin Faults, SeatInv, [Next]_vars
  PROVE  SeatInv'
<1>1. BaseInv /\ LiveRegistered /\ NoPanic /\ BaseInv'
  BY BaseStep DEF SeatInv
<1>2. CASE UNCHANGED vars
  BY <1>1, <1>2 DEF vars, SeatInv, LiveRegistered, Live, NoPanic
<1>3. CASE Next
  <2>1. NoPanic'
    <3>1. \A c \in Live : HasSlot(pid[c])
      BY <1>1, LobbyAssumption DEF LiveRegistered, BaseInv, RegisteredHaveSlots, Live
    <3> QED BY <1>1, <1>3, <3>1, PanicNeedsLostSlot, ZenonT(30) DEF NoPanic
  <2>2. Effect /\ TypeOK
    BY <1>1, <1>3, StepEffect DEF BaseInv
  <2>3. CASE UNCHANGED <<players, pid>> /\ Live' = Live
    BY <1>1, <2>1, <2>3 DEF SeatInv, LiveRegistered
  <2>4. CASE Rearranged
    BY <2>3, <2>4 DEF Rearranged
  <2>5. CASE ResetsComputer
    BY <2>3, <2>5 DEF ResetsComputer, Live
  <2>6. CASE Close
    BY <2>6 DEF Close
  <2>7. ASSUME NEW c \in Clients, JoinSendFails(c)
        PROVE  SeatInv'
    <3>1. Live' = Live
      BY <2>2, <2>7 DEF JoinSendFails, Live, TypeOK
    <3> QED BY <2>3, <2>7, <3>1 DEF JoinSendFails
  <2>8. ASSUME NEW c \in Clients, Join(c)
        PROVE  SeatInv'
    <3>1. /\ players' = [players EXCEPT ![findEmptyPID] = c]
          /\ pid' = [pid EXCEPT ![c] = findEmptyPID]
      BY <2>8 DEF Join
    <3>2. findEmptyPID \in PIDs /\ players[findEmptyPID] = NoPlayer
      BY <1>1, findEmptyPIDFree
    <3>3. Live' = Live \cup {c} /\ c \notin Live
      BY <2>2, <2>8 DEF Join, Live, TypeOK
    <3>4. Live \subseteq Clients /\ NoPlayer \notin Clients
      BY LobbyAssumption DEF Live
    <3>5. /\ players \in [PIDs -> Clients \cup {NoPlayer}]
          /\ pid \in [Clients -> PIDs \cup {NoPID}]
      BY <2>2 DEF TypeOK
    <3>6. LiveRegistered'
      BY <1>1, <3>1, <3>2, <3>3, <3>4, <3>5 DEF LiveRegistered
    <3> QED BY <1>1, <2>1, <3>6 DEF SeatInv
  <2>9. ASSUME NEW c \in Clients, onLeave(c)
        PROVE  SeatInv'
    <3>1. players' = [players EXCEPT ![pid[c]] = NoPlayer] /\ pid' = pid
      BY <2>9 DEF onLeave
    <3>2. Live' = Live \ {c} /\ c \in Live
      BY <2>2, <2>9 DEF onLeave, Live, TypeOK
    <3>3. players \in [PIDs -> Clients \cup {NoPlayer}]
      BY <2>2 DEF TypeOK
    <3>4. LiveRegistered'
      BY <1>1, <3>1, <3>2, <3>3 DEF LiveRegistered
    <3> QED BY <1>1, <2>1, <3>4 DEF SeatInv
  <2> QED BY <2>2, <2>4, <2>5, <2>6, <2>7, <2>8, <2>9 DEF Effect
<1> QED BY <1>2, <1>3

(* At first there is no live connection.                                   *)
LEMMA SeatInit ==
  ASSUME Init
  PROVE  SeatInv
BY BaseInit, ZenonT(30) DEF Init, SeatInv, LiveRegistered, Live, NoPanic

(* Unless Lobby.Close is called, pidToSID never panics: whatever the host  *)
(* does to the slots, in lobbies of every size and layout and also when    *)
(* joins fail halfway, a connected player has a slot until it leaves.      *)
THEOREM PlayersKeepSlots ==
  ASSUME "close" \notin Faults
  PROVE  Spec => []NoPanic
<1>1. Init => SeatInv
  BY SeatInit
<1>2. SeatInv /\ [Next]_vars => SeatInv'
  BY SeatStep
<1>3. SeatInv => NoPanic
  BY DEF SeatInv
<1> QED BY <1>1, <1>2, <1>3, PTL DEF Spec

(* Nobody but a registered player sits in a human's slot, and in one only. *)
HumansRegistered ==
  /\ \A s \in Slots : Human(s) => slots[s].pid \in PIDs /\ players[slots[s].pid] # NoPlayer
  /\ \A s, t \in Slots : slots[s].pid \in PIDs /\ slots[s].pid = slots[t].pid => s = t

MatchInv == SeatInv /\ HumansRegistered

(* Without faults, no step leaves a human's slot without a player.         *)
LEMMA MatchStep ==
  ASSUME Faults = {}, MatchInv, [Next]_vars
  PROVE  MatchInv'
<1>1. SeatInv /\ BaseInv /\ HumansRegistered /\ TypeOK /\ SeatInv'
  BY SeatStep DEF MatchInv, SeatInv, BaseInv
<1>2. CASE UNCHANGED vars
  BY <1>1, <1>2 DEF vars, MatchInv, HumansRegistered, Human
<1>3. CASE Next
  <2>1. Effect /\ slots \in [Slots -> SlotData] /\ players \in [PIDs -> Clients \cup {NoPlayer}]
    BY <1>1, <1>3, StepEffect DEF TypeOK
  <2>2. CASE Rearranged
    <3>1. PICK f \in [Slots -> Slots] : \A s \in Slots : f[f[s]] = s /\ SameHolder(s, f[s])
      BY <2>2 DEF Rearranged, Permuted
    <3>2. players' = players
      BY <2>2 DEF Rearranged
    <3>3. ASSUME NEW s \in Slots, Human(s)'
          PROVE  slots'[s].pid \in PIDs /\ players'[slots'[s].pid] # NoPlayer
      <4>1. f[s] \in Slots /\ SameHolder(s, f[s])
        BY <3>1
      <4>2. Human(f[s])
        BY <3>3, <4>1 DEF SameHolder
      <4>3. slots[f[s]].pid \in PIDs /\ players[slots[f[s]].pid] # NoPlayer
        BY <1>1, <4>1, <4>2 DEF HumansRegistered
      <4> QED BY <3>2, <4>1, <4>3 DEF SameHolder
    <3>4. \A s \in Slots : slots'[s].pid \in PIDs => slots'[s].pid = slots[f[s]].pid
      BY <3>1 DEF SameHolder
    <3>5. ASSUME NEW s \in Slots, NEW t \in Slots, slots'[s].pid \in PIDs, slots'[s].pid = slots'[t].pid
          PROVE  s = t
      <4>1. slots[f[s]].pid \in PIDs /\ slots[f[s]].pid = slots[f[t]].pid
        BY <3>4, <3>5
      <4>2. f[s] = f[t]
        BY <1>1, <3>1, <4>1 DEF HumansRegistered
      <4> QED BY <3>1, <4>2
    <3> QED BY <1>1, <3>3, <3>5 DEF MatchInv, HumansRegistered
  <2>3. CASE ResetsComputer
    <3>1. PICK s \in Slots, status \in {Open, Closed} :
            /\ slots' = [slots EXCEPT ![s] = [BaseSlots[s] EXCEPT !.status = status]]
            /\ players' = players
      BY <2>3, ZenonT(30) DEF ResetsComputer
    <3>2. /\ slots'[s].pid \notin PIDs /\ slots'[s].status # Occupied
          /\ \A t \in Slots \ {s} : slots'[t] = slots[t]
      <4> DEFINE d == [BaseSlots[s] EXCEPT !.status = status]
      <4>1. d.pid = NoPID /\ d.status # Occupied /\ slots' = [slots EXCEPT ![s] = d]
        BY <3>1, BaseSlotType, ZenonT(30)
      <4> HIDE DEF d
      <4> QED BY <2>1, <4>1, NoPIDIsNone
    <3> QED BY <1>1, <3>1, <3>2 DEF MatchInv, HumansRegistered, Human
  <2>4. CASE Close
    BY <2>4 DEF Close
  <2>5. ASSUME NEW c \in Clients, JoinSendFails(c)
        PROVE  MatchInv'
    BY <2>5 DEF JoinSendFails
  <2>6. ASSUME NEW c \in Clients, Join(c)
        PROVE  MatchInv'
    <3>1. OpenSlots # {} /\ slots' = TakeSlot /\ players' = [players EXCEPT ![findEmptyPID] = c]
      BY <2>6 DEF Join
    <3>2. /\ findEmptySlot \in Slots
          /\ findEmptyPID \in PIDs /\ players[findEmptyPID] = NoPlayer /\ c # NoPlayer
      BY <1>1, <3>1, findEmptySlotOpen, findEmptyPIDFree, LobbyAssumption
    <3>3. /\ \A t \in Slots \ {findEmptySlot} : slots'[t] = slots[t]
          /\ slots'[findEmptySlot].pid = findEmptyPID
      BY <1>1, <3>1, TakeSlotType
    <3>4. \A t \in Slots : slots[t].pid # findEmptyPID
      BY <1>1, <3>2 DEF HumansRegistered, BaseInv, PIDsAreHumans
    <3>5. \A t \in Slots : Human(t)' => slots'[t].pid \in PIDs /\ players'[slots'[t].pid] # NoPlayer
      BY <1>1, <2>1, <3>1, <3>2, <3>3 DEF HumansRegistered, Human
    <3>6. \A x, y \in Slots : slots'[x].pid \in PIDs /\ slots'[x].pid = slots'[y].pid => x = y
      BY <1>1, <3>2, <3>3, <3>4 DEF HumansRegistered
    <3> QED BY <1>1, <3>5, <3>6 DEF MatchInv, HumansRegistered
  <2>7. ASSUME NEW c \in Clients, onLeave(c)
        PROVE  MatchInv'
    <3> DEFINE s == pidToSID(pid[c])
    <3>1. c \in Live /\ pid[c] \in PIDs /\ HasSlot(pid[c])
      <4>1. c \in Live /\ c # NoPlayer
        BY <2>7, LobbyAssumption DEF onLeave, Live
      <4>2. pid[c] \in PIDs /\ players[pid[c]] = c
        BY <1>1, <4>1 DEF SeatInv, LiveRegistered
      <4> QED BY <1>1, <4>1, <4>2 DEF BaseInv, RegisteredHaveSlots
    <3>2. s \in Slots /\ slots[s].pid = pid[c]
      BY <3>1, pidToSIDFinds
    <3>3. slotBase(s).pid \notin PIDs /\ slotBase(s).status # Occupied
      BY <1>1, <3>2, slotBaseType, NoPIDIsNone
    <3>4. slots' = [slots EXCEPT ![s] = slotBase(s)] /\ players' = [players EXCEPT ![pid[c]] = NoPlayer]
      BY <2>7, <3>1 DEF onLeave, refreshSlots
    <3> HIDE DEF s
    <3>5. /\ \A t \in Slots \ {s} : slots'[t] = slots[t]
          /\ slots'[s].pid \notin PIDs /\ slots'[s].status # Occupied
      BY <2>1, <3>2, <3>3, <3>4
    <3>6. \A t \in Slots \ {s} : slots[t].pid # pid[c]
      BY <1>1, <3>1, <3>2 DEF HumansRegistered
    <3>7. \A t \in Slots : Human(t)' => slots'[t].pid \in PIDs /\ players'[slots'[t].pid] # NoPlayer
      BY <1>1, <2>1, <3>4, <3>5, <3>6 DEF HumansRegistered, Human
    <3>8. \A x, y \in Slots : slots'[x].pid \in PIDs /\ slots'[x].pid = slots'[y].pid => x = y
      BY <1>1, <3>5 DEF HumansRegistered
    <3> QED BY <1>1, <3>7, <3>8 DEF MatchInv, HumansRegistered
  <2> QED BY <2>1, <2>2, <2>3, <2>4, <2>5, <2>6, <2>7 DEF Effect
<1> QED BY <1>2, <1>3

(* While no write to a joining client fails and the lobby is not closed,   *)
(* the slots held by humans and the connected players are in one-to-one    *)
(* correspondence, in lobbies of every size and layout.                    *)
THEOREM SlotsMatch ==
  ASSUME Faults = {}
  PROVE  Spec => []SlotsMatchPlayers
<1>1. Init => MatchInv
  <2>1. Init => \A s \in Slots : slots[s].pid \notin PIDs /\ ~Human(s)
    BY LobbyAssumption, NoPIDIsNone DEF Init, Human, Open, Closed, Occupied
  <2> QED BY <2>1, SeatInit DEF MatchInv, HumansRegistered
<1>2. MatchInv /\ [Next]_vars => MatchInv'
  BY MatchStep
<1>3. MatchInv => SlotsMatchPlayers
  <2> SUFFICES ASSUME MatchInv PROVE SlotsMatchPlayers
    OBVIOUS
  <2>1. \A c \in Live : \E s \in Slots : slots[s].pid = pid[c] /\ Human(s)
    <3> SUFFICES ASSUME NEW c \in Live
                 PROVE  \E s \in Slots : slots[s].pid = pid[c] /\ Human(s)
      OBVIOUS
    <3>1. c # NoPlayer
      BY LobbyAssumption DEF Live
    <3>2. pid[c] \in PIDs /\ players[pid[c]] = c
      BY DEF MatchInv, SeatInv, LiveRegistered
    <3>3. PICK s \in Slots : slots[s].pid = pid[c]
      BY <3>1, <3>2 DEF MatchInv, SeatInv, BaseInv, RegisteredHaveSlots, HasSlot
    <3> QED BY <3>2, <3>3 DEF MatchInv, SeatInv, BaseInv, PIDsAreHumans
  <2>2. LiveRegistered /\ HumansRegistered
    BY ZenonT(30) DEF MatchInv, SeatInv
  <2>3. \A s \in Slots : Human(s) => \E c \in Live : pid[c] = slots[s].pid
    BY <2>2, ZenonT(30) DEF LiveRegistered, HumansRegistered
  <2>4. \A s, t \in Slots : Human(s) /\ Human(t) /\ slots[s].pid = slots[t].pid => s = t
    BY <2>2, ZenonT(30) DEF HumansRegistered
  <2>5. \A c, d \in Live : pid[c] = pid[d] => c = d
    BY <2>2, ZenonT(30) DEF LiveRegistered
  <2> QED BY <2>1, <2>3, <2>4, <2>5, ZenonT(30) DEF SlotsMatchPlayers
<1> QED BY <1>1, <1>2, <1>3, PTL DEF Spec
=============================================================================

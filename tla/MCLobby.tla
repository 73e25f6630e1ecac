------------------------------ MODULE MCLobby ------------------------------
(* Small lobbies for TLC.                                                  *)
EXTENDS Lobby, TLC

Slot(team, color, race) ==
  [pid |-> NoPID, status |-> Open, color |-> color, team |-> team,
   race |-> race, handicap |-> 100, ai |-> NoAI, download |-> 0]

Random == {"random", Selectable}

(* Two slots as makeSlots builds them, the second one closed.              *)
TwoSlots == <<Slot(0, 0, Random), [Slot(0, 0, Random) EXCEPT !.status = Closed]>>

(* Two slots of a map with forces, the second one closed and with a race   *)
(* of its own.                                                             *)
ForceSlots == <<Slot(0, 0, Random), [Slot(1, 1, {"orc"}) EXCEPT !.status = Closed]>>

(* Three equal slots of a melee map.                                       *)
MeleeSlots == [s \in 1..3 |-> Slot(0, 0, Random)]

Symmetry == Permutations(Clients)
=============================================================================

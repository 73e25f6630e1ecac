SPECIFICATION Spec
CONSTANTS
  Clients = {c1, c2, c3}
  NoPlayer = NoPlayer
  NumSlots = 2
  BaseSlots <- ForceSlots
  NumPlayers = 2
  ObsTeam = 24
  ColorSet = {0, 1}
  CustomForces = TRUE
  FixedSettings = TRUE
  Teams = {1, 2}
  Colors = {1}
  Races = {{"human"}, {"demon"}}
  Handicaps = {50}
  AIs = {"normal"}
  Progress = {0, 100}
  Calls = {"Start", "Lock", "AllSlots", "SlotStatus", "SwapSlots", "ShuffleSlots", "ChangeRace", "ChangeComputer"}
  Faults = {}
SYMMETRY Symmetry
INVARIANTS TypeOK SlotsMatchPlayers PlayersSeeSlots TeamsStayWithSlots
PROPERTY LockFreezesSlots

SPECIFICATION Spec
CONSTANTS
  Clients = {c1, c2}
  NoPlayer = NoPlayer
  NumSlots = 2
  BaseSlots <- TwoSlots
  NumPlayers = 2
  ObsTeam = 24
  ColorSet = {0, 1}
  CustomForces = FALSE
  FixedSettings = FALSE
  Teams = {}
  Colors = {}
  Races = {}
  Handicaps = {}
  AIs = {"normal"}
  Progress = {}
  Calls = {}
  Faults = {"send"}
SYMMETRY Symmetry
INVARIANT SlotsReleased

SPECIFICATION Spec
CONSTANTS
  Clients = {c1, c2}
  NoPlayer = NoPlayer
  NumSlots = 3
  BaseSlots <- MeleeSlots
  NumPlayers = 2
  ObsTeam = 255
  ColorSet = {0, 1, 2}
  CustomForces = FALSE
  FixedSettings = FALSE
  Teams = {1, 24}
  Colors = {0, 1, 40}
  Races = {}
  Handicaps = {}
  AIs = {"normal"}
  Progress = {}
  Calls = {"SwapSlots", "ShuffleSlots", "SlotStatus", "ChangeTeam", "ChangeColor", "ChangeComputer"}
  Faults = {"send"}
SYMMETRY Symmetry
INVARIANTS NoPanic UniqueColors PlayersWithinLimit

SPECIFICATION MCSpec
CONSTANTS
  c1 = c1
  c2 = c2
  Clients = {c1, c2}
  Nobody = Nobody
  IDs = {1, 2}
  Setups <- Games
  Checksums = {k1, k2}
  QueueCap = 2
  MaxTick = 2
  NoPlayer = NoPlayer
  NumSlots = 2
  NumPlayers = 2
  ObsTeam = 24
  ColorSet = {0, 1}
  CustomForces = FALSE
  FixedSettings = FALSE
  Teams = {}
  Colors = {}
  Races = {}
  Handicaps = {100}
  AIs = {"normal"}
  Progress = {}
  Calls = {"Lock", "SlotStatus", "ShuffleSlots", "ChangeHandicap", "ChangeComputer"}
  Faults = {"close"}
CHECK_DEADLOCK FALSE
INVARIANTS ComparesSameTurn WaitsForSomeone WaitsForTheLiving
PROPERTIES ObserversDoNotDecide AcksAreCompared ClosedPlayersLeave

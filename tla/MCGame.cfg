SPECIFICATION MCSpec
CONSTANTS
  c1 = c1
  c2 = c2
  c3 = c3
  Clients = {c1, c2, c3}
  Setups <- SmallGames
  TurnRate = 40
  LagObservers = FALSE
  Shown = 1
  DropAfter = 2
  LagTimeout = 3
  mtu = 1200
  DataSizes = {1, 593, 594, 1190, 1191}
  MaxActions = 4
  MaxTurns = 2
CHECK_DEADLOCK FALSE
INVARIANTS ScreenMatches ActionsInOrder
PROPERTIES HandlersHold DroppedByVote LoadingEnds LaggersAreResolved

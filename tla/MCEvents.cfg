SPECIFICATION Spec
CONSTANTS
  None = None
  Goroutines = {g1, g2}
  PoolSize = 2
  MaxHandlers = 2
SYMMETRY Symmetry
CHECK_DEADLOCK FALSE
INVARIANT ArgsIntact
PROPERTY OnceNotLost

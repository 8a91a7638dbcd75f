SPECIFICATION Spec
CONSTANTS
  q1 = q1
  q2 = q2
  w1 = w1
  k1 = k1
  Queries <- MCQueries
  Warmers <- MCWarmers
  Kicks <- MCKicks
  MaxRetry = 1
  MaxProcs = 3
  MaxClients = 2
  MaxDeaths = 1
SYMMETRY Symmetry
CONSTRAINT OneMishap
CHECK_DEADLOCK FALSE
INVARIANTS
  WaitsEnd
  StreamHasReader
  NoOrphan
  IdleStateIsTrue

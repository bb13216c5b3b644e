SPECIFICATION Spec
CONSTANTS
  MaxThreads = 2
  MaxConns = 2
CHECK_DEADLOCK FALSE
INVARIANTS UsedAlive KeptWhileRegistered OneEnd
PROPERTIES PoolComesUp PoolGoesDown ConnectionsProceed

SPECIFICATION FairSpec
CONSTANTS
  N = 4
  KeyOf <- FourItems
  Configured = 2
  RestoreTurns = 4
  Faults <- AllFaults
INVARIANT TypeOK
PROPERTY BriefedOnPredecessors
PROPERTY ImplementsItemPool
PROPERTY PoolEnds
CHECK_DEADLOCK FALSE

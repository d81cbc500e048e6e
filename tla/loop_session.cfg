SPECIFICATION FairSpec
CONSTANTS
  Turns = 2
  MaxResumes = 1
  Repairs = 1
  DraftAfter = 2
  Tries = 2
  Clock = TRUE
  Faults <- AllFaults
INVARIANT TypeOK
INVARIANT HardLimit
INVARIANT CompletedIsEarned
INVARIANT CutAfterDemand
PROPERTY StopIsFinal
PROPERTY SessionEnds
CHECK_DEADLOCK FALSE

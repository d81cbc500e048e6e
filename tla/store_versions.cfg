SPECIFICATION FairSpec
CONSTANTS
  Actors = {a1}
  Commits = {1}
  GuardBodies = {g1}
  Evidence = {e1}
  Keep = 1
  KeepFor = 0
  Grace = 0
  Stall = 0
  Work <- AllWork
  MaxTime = 2
  MaxRows = 4
  MaxRestarts = 1
INVARIANT TypeOK
INVARIANT LostOnlyInTheGap
PROPERTY NewestKept
PROPERTY OrphanGoes
CHECK_DEADLOCK FALSE

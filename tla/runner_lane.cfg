SPECIFICATION FairSpec
CONSTANTS
  j1 = j1  j2 = j2  j3 = j3
  o1 = o1  o2 = o2  k1 = k1  k2 = k2
  p1 = p1  p2 = p2  w1 = w1  w2 = w2  e1 = e1  e2 = e2  c1 = c1
  None = None  Abandoned = Abandoned
  JobIds = {j1, j2}
  Orgs = {o1}  Keys = {k1, k2}  HeavyKeys = {k1, k2}
  OrgOf <- TwoKeysOrg  KeyOf <- TwoKeysKey
  Procs = {p1}  Workers = {w1, w2}  Enqueuers = {e1}  Cancellers = {c1}
  HomeOf <- OneHome
  MaxRestarts = 2  MaxResumes = 1
INVARIANT LaneExclusive
PROPERTIES OutcomeFinalUnlessCancelled QueuedMovesOn RunningMovesOn
CHECK_DEADLOCK FALSE

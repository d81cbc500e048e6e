SPECIFICATION Spec
CONSTANTS
  j1 = j1  j2 = j2  j3 = j3
  o1 = o1  o2 = o2  k1 = k1  k2 = k2
  p1 = p1  p2 = p2  w1 = w1  w2 = w2  e1 = e1  e2 = e2  c1 = c1
  None = None  Abandoned = Abandoned
  JobIds = {j1, j2, j3}
  Orgs = {o1}  Keys = {k1}  HeavyKeys = {}
  OrgOf <- OneKeyOrg  KeyOf <- OneKeyKey
  Procs = {p1}  Workers = {w1, w2}  Enqueuers = {e1, e2}  Cancellers = {}
  HomeOf <- OneHome
  MaxRestarts = 1  MaxResumes = 1
INVARIANTS TypeOK SingleFlight QueuedHasTicket RunningHasBody
PROPERTIES OutcomeFinal ImplementsLifecycle
SYMMETRY Symmetry
CHECK_DEADLOCK FALSE

SPECIFICATION FairSpec
CONSTANTS
  Jobs = {a, b}
  Costs = {6}
  Work = 2
  Width = 1
  Grants = {2}
  Adjustments = {1}
  LowDivisor = 2
  Faults = {"charge", "resume"}
  MaxMoves = 1
INVARIANT LedgerAgrees
INVARIANT ChargedOnce
INVARIANT WarnedOnce
INVARIANT PausedOnlyWhenEmpty
PROPERTY GrantResumes
CHECK_DEADLOCK FALSE

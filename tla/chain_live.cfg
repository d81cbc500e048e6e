SPECIFICATION FairSpec
CONSTANTS
  Hooks = {h1, h2}
  Lane = lane
  MaxPushes = 2
  MaxRestarts = 0
  Faults = {"link_fails"}
  Prompt = TRUE
PROPERTY NotStartedAgain
PROPERTY OwedIsServed
CHECK_DEADLOCK FALSE

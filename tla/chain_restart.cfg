SPECIFICATION FairSpec
CONSTANTS
  Hooks = {h1, h2}
  Lane = lane
  MaxPushes = 1
  MaxRestarts = 2
  Faults <- ServedFaults
  Prompt = TRUE
PROPERTY NotStartedAgain
PROPERTY KilledIsServed
CHECK_DEADLOCK FALSE

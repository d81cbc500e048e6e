SPECIFICATION Spec
CONSTANTS
  Hooks = {h1, h2}
  Lane = lane
  MaxPushes = 2
  MaxRestarts = 0
  Faults = {}
  Prompt = TRUE
INVARIANT NewestHasChain
CHECK_DEADLOCK FALSE

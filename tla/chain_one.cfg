SPECIFICATION Spec
CONSTANTS
  Hooks = {h1, h2, h3}
  Lane = lane
  MaxPushes = 1
  MaxRestarts = 0
  Faults <- AllFaults
  Prompt = FALSE
INVARIANT TypeOK
INVARIANT NewestHasChain
CHECK_DEADLOCK FALSE

SPECIFICATION FairSpec
CONSTANTS
  Calls = {c1}
  MaxEvents = 3
  MaxRefusals = 1
INVARIANT TypeOK
INVARIANT HeadIsChecked
INVARIANT OneCheckOpen
INVARIANT GitHubFollows
PROPERTY EveryCheckSettles
CHECK_DEADLOCK FALSE

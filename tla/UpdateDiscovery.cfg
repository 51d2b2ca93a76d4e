CONSTANTS
  MaxVersion = 2
  Image = 1
  Interval = 2
  Jitter = 1
  MaxTime = 2
  MaxPublish = 1
  MaxChecks = 1
  MaxInstalls = 2
  MaxCuts = 1
SPECIFICATION Spec
INVARIANT ReleaseMatchesName
PROPERTY UpgradesOnly
CHECK_DEADLOCK FALSE

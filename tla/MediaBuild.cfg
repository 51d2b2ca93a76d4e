SPECIFICATION FairSpec
CONSTANTS
  Sessions = {s1}
  MaxRetries = 2
  MaxCrashes = 1
  WebTargets = {s1, "root"}
  DirectBuilds = TRUE
  LockAgesLive = TRUE
INVARIANTS LockProtectsBuild
PROPERTY SettledUnlessSpent

SPECIFICATION Spec
CONSTANTS
  MaxVersion = 2
  MaxCuts = 0
  Overlap = TRUE
  DiskFaults = FALSE
INVARIANTS
  InstalledIsServing

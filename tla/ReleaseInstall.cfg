SPECIFICATION FairSpec
CONSTANTS
  MaxVersion = 3
  MaxCuts = 2
  Overlap = FALSE
  DiskFaults = TRUE
INVARIANTS
  LinkedReleasesIntact
  InstalledIsServing
  
PROPERTIES
  
  RefinesActiveRelease
  
  OrphanReclaimed

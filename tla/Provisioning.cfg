SPECIFICATION FairSpec
CONSTANTS
  MaxCuts = 2
  MaxResets = 1
  MaxErrors = 2
  SetupResets = FALSE
  ResetBreaks = FALSE
INVARIANT NotStranded
PROPERTY CameraNeedsClaim
PROPERTY FinishEnds

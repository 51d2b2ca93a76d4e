CONSTANTS
  Handlers = {h1, h2}
  Triggers <- TriggersUsed
  MaxTriggers = 3
  MaxFaults = 3
  MaxHangs = 1
  MaxBackoff = 3
  MaxRetries = 2
  Countdown = 2
  MaxChanges = 3
SPECIFICATION Spec
INVARIANT InfoMatches
PROPERTY SessionReturns InfoSettles
CHECK_DEADLOCK FALSE

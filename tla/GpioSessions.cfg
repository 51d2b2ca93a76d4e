SPECIFICATION FairSpec
CONSTANTS
  MaxPrints = 2
  MaxSessions = 3
  MaxEvents = 2
  MaxShots = 1
  MaxRestarts = 1
  MaxChanges = 1

  
PROPERTIES
  
  ReleasedIsClosed
CHECK_DEADLOCK FALSE

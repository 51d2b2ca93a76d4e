SPECIFICATION FairSpec
CONSTANTS
  Nets = {home, other}
  Home = home
  home = home
  other = other
  None = None
  Threshold = 2
  RetryAfter = 2
  Stale = 1
  UnitMinutes = 2
  MaxFlips = 3
  MaxRequests = 2
  MaxFails = 1
PROPERTY RevertedKeepsProfile
PROPERTY StaysReachable
PROPERTY ReturnsHome

SPECIFICATION Spec
CONSTANTS
  Peers = {p1, p2}
  MaxLogins = 3
  MaxClock = 3
  MaxFailures = 2
  max_sessions = 2
  max_keys = 1
  idle_ttl = 2
  absolute_ttl = 3
  REAUTH_WINDOW = 2
  max_attempts = 2
  window = 2
  lockout = 1
  max_lockout = 2
SYMMETRY PeerSymmetry
CHECK_DEADLOCK FALSE
INVARIANT PrivilegedNeedsOwnProof

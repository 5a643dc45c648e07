SPECIFICATION Spec
CONSTANTS
  a = a
  b = b
  Nobody = Nobody
  Stale = Stale
  Locks <- TwoUsers
  N = 3
  TTL = 3
  Drift = 1
  Fallible <- Swallowed
  MaxFaults = 2
INVARIANTS TypeOK NothingLeftBehind
PROPERTIES ImplementsLock OnlyOwnerReleases

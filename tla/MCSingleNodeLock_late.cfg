SPECIFICATION Spec
CONSTANTS
  a = a
  b = b
  Locks <- TwoUsers
  Nobody = Nobody
  Stale = Stale
  TTL = 3
  RenewAfter = 1
  AutoRenewal = TRUE
  Delay = 4
  Fallible <- AnyCommand
  MaxFaults = 2
INVARIANT NoOrphanWatchdog
PROPERTY OnlyOwnerReleases

SPECIFICATION FairSpec
CONSTANTS
  a = a
  b = b
  Locks <- TwoUsers
  Nobody = Nobody
  Stale = Stale
  TTL = 6
  RenewAfter = 1
  AutoRenewal = TRUE
  Delay = 1
  Fallible = {"set"}
  MaxFaults = 2
INVARIANTS TypeOK HeldWhileInside
PROPERTIES ImplementsLock DeadUsersKeyExpires

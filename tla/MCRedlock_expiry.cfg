SPECIFICATION FairSpec
CONSTANTS
  a = a
  b = b
  Nobody = Nobody
  Stale = Stale
  Locks <- TwoUsers
  N = 2
  TTL = 2
  Drift = 1
  Fallible <- Everything
  MaxFaults = 2
PROPERTIES AbandonedKeysExpire

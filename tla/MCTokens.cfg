SPECIFICATION Spec
CONSTANTS
  k1 = k1
  k2 = k2
  s1 = s1
  s2 = s2
  Users = {u1}
  Scopes = {read}
  Keys <- MCKeys
  NoKey = NoKey
  Slots <- MCSlots
  NoPair = NoPair
  NoVisit = NoVisit
  Services = {base}
  AccessLife = 1
  RefreshLife = 2
  TTL = 2
  Travel = 1
  Lag = 1
SYMMETRY Symmetric
INVARIANTS GrantBacksPair ServicesAgree NewPairsWork AdmittedHasContext
PROPERTY ServicesCacheKeySet

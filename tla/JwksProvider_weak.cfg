SPECIFICATION FairSpec
CONSTANTS
  Calls = {c1, c2, c3}
  Kids = {k1}
  TTL = 3
  Travel = 2
  KeptAlive = FALSE
  Nobody = Nobody
INVARIANTS OneFetch WaitersAreInLine
PROPERTIES ImplementsKeySetCache AcceptedKeyIsRecent UnknownKeyIsNew EveryCallAnswered

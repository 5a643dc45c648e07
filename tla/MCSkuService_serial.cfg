SPECIFICATION FairSpec
CONSTANTS
  r1 = r1
  s1 = s1
  low = low
  second = second
  bad = bad
  A = A
  B = B
  n1 = n1
  n2 = n2
  Requests = {r1, r2}
  Seeds = {s1}
  RawCodes <- MCRawCodes
  Normalized <- MCNormalized
  Codes = {A, B}
  BadCode = BadCode
  Names = {n1, n2}
  BadName = BadName
  Absent = Absent
  NoCall = NoCall
  NoRow = NoRow
  Startup = Startup
  Untouched = Untouched
  None = None
  Workload <- EveryKind
  MaxRpcs = 1
  MaxFaults = 1
INVARIANT TypeOK
PROPERTIES ImplementsStore EveryRpcAnswered
CHECK_DEADLOCK FALSE

SPECIFICATION FairSpec
CONSTANTS
  r1 = r1
  s1 = s1
  low = low
  second = second
  bad = bad
  A = A
  B = B
  n1 = n1
  n2 = n2
  Requests = {r1, r2}
  Seeds = {s1}
  RawCodes <- MCRawCodes
  Normalized <- MCNormalized
  Codes = {A, B}
  BadCode = BadCode
  Names = {n1, n2}
  BadName = BadName
  Absent = Absent
  NoCall = NoCall
  NoRow = NoRow
  Startup = Startup
  Untouched = Untouched
  None = None
  Workload <- Writers
  MaxRpcs = 2
  MaxFaults = 1
PROPERTIES SoloDurability NoResurrection AnsweredWhenIsolated
CHECK_DEADLOCK FALSE

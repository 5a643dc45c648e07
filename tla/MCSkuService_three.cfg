SPECIFICATION Spec
CONSTANTS
  r1 = r1
  s1 = s1
  low = low
  second = second
  bad = bad
  A = A
  B = B
  n1 = n1
  n2 = n2
  Requests = {r1, r2, r3}
  Seeds = {s1}
  RawCodes <- MCRawCodes
  Normalized <- MCNormalized
  Codes = {A, B}
  BadCode = BadCode
  Names = {n1, n2}
  BadName = BadName
  Absent = Absent
  NoCall = NoCall
  NoRow = NoRow
  Startup = Startup
  Untouched = Untouched
  None = None
  Workload <- CodeWriters
  MaxRpcs = 3
  MaxFaults = 0
INVARIANTS UniqueCodes SoloIsolation
SYMMETRY Interchangeable
CHECK_DEADLOCK FALSE

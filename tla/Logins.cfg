CONSTANTS
  r1 = r1
  r2 = r2
  u = u
  a = a
  Reqs = {r1, r2}
  NoReq = NoReq
  Rows <- MCRows
  MaxFlags = 1
  MaxTime = 1
  MaxRetries = 1
  MaxWrites = 1
  MaxRuns = 1
SPECIFICATION Spec
SYMMETRY Symmetry
INVARIANTS
  IInv
  MeaningKept
PROPERTIES
  LoginsInOrder
  VerdictFollowsFlags
CHECK_DEADLOCK FALSE

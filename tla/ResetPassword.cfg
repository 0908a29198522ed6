\* Two resets race two updates over one account: safety.
CONSTANTS
  ResetReqs = {a1, a2}
  UpdateReqs = {u1, u2}
  NoReq = NoReq
  Throttle = 1
  Lifetime = 1
  MaxTime = 2
  MaxHash = 2
  MaxAttempts = 2
SPECIFICATION Spec
SYMMETRY Symmetry
CHECK_DEADLOCK FALSE
INVARIANTS
  IInv
  HashSpentOnce
  ConfirmedMeansChanged
  UnstoredMailNeedsRetry
PROPERTIES
  NoChangeWhileBlocked
  OnlyTheStoredHashWorks
  StoredAtMostEveryThrottle

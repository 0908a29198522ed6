\* Progress: one reset and two updates, every hash the retries may draw.
CONSTANTS
  ResetReqs = {a1}
  UpdateReqs = {u1, u2}
  NoReq = NoReq
  Throttle = 1
  Lifetime = 1
  MaxTime = 2
  MaxHash = 2
  MaxAttempts = 2
SPECIFICATION FairSpec
CHECK_DEADLOCK FALSE
PROPERTIES
  EveryRequestSettles

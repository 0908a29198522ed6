\* The pending registration of the comment against a guard that decided on a copy.
CONSTANTS
  Emails = {e1}
  SignUps = {s1}
  Links = {l1, l2}
  Changes = {}
  Modes = {"delete"}
  Strikes = 3
  Window = 0
  MaxTime = 1
  MaxHash = 1
  MaxAttempts = 1
SPECIFICATION Spec
SYMMETRY Symmetry
CHECK_DEADLOCK FALSE
PROPERTIES
  OnlyPendingDisposed

\* Two sign-ups, two visits of links and one change of address, two dispositions.
CONSTANTS
  Emails = {e1, e2}
  SignUps = {s1, s2}
  Links = {l1, l2}
  Changes = {c1}
  Modes = {"delete", "soft-delete"}
  Strikes = 2
  Window = 0
  MaxTime = 1
  MaxHash = 2
  MaxAttempts = 2
SPECIFICATION Spec
SYMMETRY Symmetry
CHECK_DEADLOCK FALSE
INVARIANTS
  IInv
  NoStrikeLost
PROPERTIES
  VerifiedByItsMail
  ChangedByItsMail

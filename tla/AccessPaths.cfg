CONSTANTS
  Path <- MCPath
  Hashes = {h1, h2, h3}
  Flag = Flag
  Absent = Absent
  Inner = Inner
  resetOverrides <- MCResetOverrides
  verifyOverrides <- MCVerifyOverrides
SPECIFICATION PathsSpec
INVARIANTS LayoutIsSound PathsIInv OneTime FlowsApart

CONSTANTS
  Char <- MCChar
  Strings <- MCStrings
SPECIFICATION StripSpec
INVARIANTS StripIInv LikeTheRegex NoTagLeft Linear
CHECK_DEADLOCK FALSE

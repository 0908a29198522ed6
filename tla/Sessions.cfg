\* Three requests of one account that draw three pairs; one of them may die.
CONSTANTS
  Reqs = {r1, r2, r3}
  NoPair = NoPair
  MaxRounds = 2
  MaxPairs = 3
  Kills = 1
  MaxEnded = 2
SPECIFICATION Spec
SYMMETRY Symmetry
CHECK_DEADLOCK FALSE
INVARIANTS
  IInv
  SpentTokenIsDead
  AnswerMatchesStore
  QuietBlockHolds

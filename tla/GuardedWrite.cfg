\* Two handlers of one row, six instants, three zones.
CONSTANTS
  Calls = {c1, c2}
  NoCall = NoCall
  NoName = NoName
  Stamps <- MCStamps
  Offsets <- MCOffsets
  Columns <- MCColumns
  Arrays <- MCArrays
  Constraints <- MCConstraints
  table <- MCTable
  Details = {}
  MaxVersion = 3
SPECIFICATION GuardSpec
CHECK_DEADLOCK FALSE
INVARIANTS
  GuardIInv
  NoLostUpdate
  RefusalIsTrue
  StampIsExact

\* Two transactions over an account row, an order row and a queue row.
CONSTANTS
  t1 = t1
  t2 = t2
  account = account
  order = order
  NoName = NoName
  Txs = {t1, t2}
  Modes = {"standard", "cleanup"}
  DefaultMode = "standard"
  Orders <- MCOrders
  Helpers <- MCHelpers
  Places <- MCPlaces
  Rows <- MCRows
  HelperOf <- MCHelperOf
  CheckDefault = "on"
  Clocked = {t1}
  Careless = {t2}
  Unchecked = {}
  MaxTime = 1
SPECIFICATION LockSpec
CHECK_DEADLOCK FALSE
INVARIANTS
  LockIInv
  WaitsNeverDescend
  InstantAfterFirstLock
PROPERTIES
  OneInstant

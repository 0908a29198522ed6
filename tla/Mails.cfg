CONSTANTS
  Keys <- MCKeys
  windowMs = 2
  maxKeys = 2
  Never = Never
  MaxTime = 2
  MaxSends = 4
  Addresses <- MCAddresses
  Hash = "hash"
  Bases <- MCBases
  Paths <- MCPaths
  MaxTimes = 6
  NoMail = NoMail
SPECIFICATION MailsSpec
INVARIANTS ThrottleInv LinksLeadBack
PROPERTY KeepsItsPromise
CHECK_DEADLOCK FALSE

\* Two calls that share a pool of one client, two retries each.
CONSTANTS
  Calls = {c1, c2}
  Clients = {k1}
  NoClient = NoClient
  RetryMax = 2
SPECIFICATION FairSpec
CHECK_DEADLOCK FALSE
INVARIANTS
  IInv
PROPERTIES
  AtomicSpec
  EveryCallAnswered

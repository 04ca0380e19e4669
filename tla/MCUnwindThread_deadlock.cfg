CONSTANTS
  a = a
  b = b
  g = g
  e1 = e1
  e2 = e2
  None = None
  Threads <- MCThreads
  Entries <- MCEntries
  CanUnwind <- Chain
  MayExit <- Nobody
  UserAction = TRUE
  Slow = TRUE
  MaxCalls = 1
SPECIFICATION Spec
PROPERTY EveryoneReturns
CHECK_DEADLOCK FALSE

CONSTANTS
  a = a
  b = b
  g = g
  e1 = e1
  e2 = e2
  None = None
  Threads <- MCThreads
  Entries <- MCEntries
  CanUnwind <- TwoOnOne
  MayExit <- Nobody
  UserAction = FALSE
  Slow = TRUE
  MaxCalls = 2
SPECIFICATION Spec
INVARIANT NotKilled

CONSTANTS
  a = a
  b = b
  g = g
  e1 = e1
  e2 = e2
  None = None
  Threads <- MCThreads
  Entries <- MCEntries
  CanUnwind <- TwoOnOne
  MayExit <- OnlyTarget
  UserAction = FALSE
  Slow = FALSE
  MaxCalls = 2
SPECIFICATION Spec
INVARIANTS ReceivedBeforeContinuing PausedWhileUnwound NotKilled
PROPERTY EveryoneReturns

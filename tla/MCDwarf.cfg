CONSTANTS
  Off = Off
  Total = 3
  Size = 3
  PcReg = 2
  SpReg = 1
  CfaReg = 99
  Unreadable = 100
  Rows <- MCRows
  Expressions <- MCExpressions
  Memories <- MCMemory
SPECIFICATION MCSpec
INVARIANTS AssignedAtOnce EvalOutcomeInAnyOrder OpSound EncodedReads CfaStepFollowsTable
  MemReads MemCacheTransparent
CHECK_DEADLOCK FALSE

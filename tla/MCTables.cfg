CONSTANTS
  Off = Off
  Count = 3
  Tables <- MCTable
  LoadBias = 1
  Ends = {0, 3}
  Headers <- MCHeaders
  Pcs <- MCPcs
SPECIFICATION MCSpec
INVARIANTS SearchFindsGreatest FdeLookups EntriesAsWritten ArmExecutesProgram ArmLogRight
PROPERTIES SearchShrinks DecodingEnds
CHECK_DEADLOCK FALSE

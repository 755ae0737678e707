SPECIFICATION FairSpec
CONSTANTS
  PE_start = 0
  Stride = 1
  PE_size = 2
  MaxCalls = 3
  Arrays = {"A"}
  ArrayOf <- MCOneArray
  Routine = "sync_all"
  Rounds <- MCRounds
  Pow2 <- MCPow2
PROPERTIES EveryCallReturns
CHECK_DEADLOCK FALSE

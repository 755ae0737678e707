SPECIFICATION FairSpec
CONSTANTS
  PE_start = 0
  Stride = 1
  PE_size = 5
  nreduce = 1
  MIN_WRKDATA = 1
  MaxCalls = 1
PROPERTIES EveryCallReturns
CHECK_DEADLOCK FALSE

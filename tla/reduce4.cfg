SPECIFICATION Spec
CONSTANTS
  PE_start = 0
  Stride = 1
  PE_size = 4
  nreduce = 1
  MIN_WRKDATA = 1
  MaxCalls = 1
INVARIANTS SumIsComplete

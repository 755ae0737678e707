SPECIFICATION Spec
CONSTANTS
  PE_start = 0
  Stride = 1
  PE_size = 5
  MaxCalls = 2
  PE_root <- MCFirstIsRoot
INVARIANTS DestIsSource

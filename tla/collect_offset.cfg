SPECIFICATION Spec
CONSTANTS
  PE_start = 0
  Stride = 1
  PE_size = 2
  MaxCalls = 2
  nelems <- MCOnes
INVARIANTS DestIsConcatenation

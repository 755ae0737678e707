SPECIFICATION Spec
CONSTANTS
  PE = {0, 1}
  Sizes = {8, 1024}
  Threshold = 1024
  MaxCalls = 1
INVARIANTS DestHasData

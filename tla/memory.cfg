SPECIFICATION MCSpec
CONSTANTS
  Base = 24
  HEAP_START = 0
  Limit = 64
  Sizes = {5, 8, 16}
  ZeroedSizes = {8, 16}
  Alignments = {16, 32}
  MaxLive = 3
INVARIANTS IInv BlocksAreDisjoint BlocksAreAligned MemoryIsGivenBack CallocIsZeroed
  CopyIsExact OperationsAreRight GetIsServed NbodySeesAll GupsIsRight

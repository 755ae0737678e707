SPECIFICATION MCFairSpec
CONSTANTS
  PE = {p1, p2, p3}
  Cell = {"x"}
  Lock = {"uint"}
  Op <- MCUintOps
  MaxCalls = 1
  Width = 2
  Value <- Word
  Start = 1
  NoStore = NoStore
  CellOf <- MCCellOf
  LockOf <- MCLockOf
  Kind <- MCKind
  Effect <- MCEffect
  Stores <- MCStores
  DestPE = {0, 1}
  my_pe = 0
  Copies <- MCCopies
  MaxCopies = 3
INVARIANTS IInv Serializable NbiInv FenceOrders QuietCompletesGets NoMarkIsLeft
PROPERTIES ImplementsAtomicCell CallsReturn

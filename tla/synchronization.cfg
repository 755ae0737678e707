SPECIFICATION MCSyncSpec
CONSTANTS
  PE_start = 3
  Stride = 2
  PE_size = 5
  MaxCalls = 3
  Arrays = {"A","B"}
  ArrayOf <- MCTwoArrays
  Routine = "sync"
  Rounds <- MCRounds
  Pow2 <- MCPow2
  PE = {0, 1, 2}
  Lock = {"all", "pe"}
  HomeOf <- MCHome
  DataOn <- MCHome
  Taken = 1
  MaxTries = 2
  Width = 2
  NoStore = NoStore
INVARIANTS IInv NoLostSignal FlagsRestored MutualExclusion NoLostUpdate SectionsSerialize
PROPERTIES ImplementsBarrier EveryBarrierReturns LockIsGranted LocksAreReleased

SPECIFICATION Spec
CONSTANTS
  n_pes = 3
  MaxCalls = 1
  Rounds = 2
  Pow2 <- MCPow2
  Routine = "sync_all"
  Arrays = {"barrier_sync"}
  ArrayOf <- MCAll
INVARIANTS InitIsBarrier

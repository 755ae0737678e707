----------------------------- MODULE MCShmemInit -----------------------------
(* Instances of ShmemInit for TLC: three PEs, which have two rounds.          *)
EXTENDS ShmemInit

MCPow2 == [k \in 0..2 |-> CASE k = 0 -> 1 [] k = 1 -> 2 [] OTHER -> 4]
MCAll == [n \in 1..MaxCalls |-> "barrier_sync"]

==============================================================================

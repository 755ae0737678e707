---------------------------- MODULE MCShmemSync ----------------------------
(* Instances of ShmemSync for TLC: the round count and the powers of two are  *)
(* computed from PE_size the way the loop of shmem_sync computes them.        *)
EXTENDS ShmemSync

\* 2^k as a sum of ones doubled k times: the r <<= 1 of the loop.
MCPow[k \in 0..4] == IF k = 0 THEN 1 ELSE 2 * MCPow[k - 1]
MCRounds == CHOOSE k \in 0..4 : /\ MCPow[k] >= PE_size
                                /\ \A j \in 0..4 : MCPow[j] >= PE_size => k <= j
MCPow2 == [k \in 0..MCRounds |-> MCPow[k]]

\* One pSync array for all calls, or two that take turns (test/barrier.c).
MCOneArray == [n \in 1..MaxCalls |-> "A"]
MCTwoArrays == [n \in 1..MaxCalls |-> IF n % 2 = 1 THEN "A" ELSE "B"]

\* In the instances here nobody takes the testset form, so that the next-state
\* relation is that of ShmemSync; a shmem_sync of two PEs is in MCCollectives.
ASSUME TestsetAssumption == ~Testset

MCStep(p) == Enter(p) \/ Signal(p) \/ Wait(p) \/ Clear(p) \/ Leave(p)
MCNext == \/ \E p \in Member : MCStep(p)
          \/ \E p \in Member, k \in Round : Land(p, k)
          \/ Finished

MCFairSpec == Init /\ [][MCNext]_vars /\ Fairness

=============================================================================

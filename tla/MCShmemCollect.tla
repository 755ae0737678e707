---------------------------- MODULE MCShmemCollect ----------------------------
(* Instances of ShmemCollect for TLC: the lengths of the blocks.              *)
EXTENDS ShmemCollect

\* The same length for all (test/collect32.c:87).
MCOnes == [n \in 1..MaxCalls |-> [p \in Member |-> 1]]

===============================================================================

-------------------------- MODULE MCShmemBroadcast --------------------------
(* Instances of ShmemBroadcast for TLC: which PE is the root of each call.    *)
EXTENDS ShmemBroadcast

MCFirstIsRoot == [n \in 1..MaxCalls |-> 0]

=============================================================================

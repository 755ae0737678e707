----------------------------- MODULE MCShmemLock -----------------------------
(* Instances of ShmemLock for TLC: where the locks are.                       *)
EXTENDS ShmemLock

\* A lock of shmem_set_lock on PE 0, a lock of shmemx_set_lock_pe on PE 1.
MCHome == [l \in Lock |-> IF l = "all" THEN 0 ELSE 1]

==============================================================================

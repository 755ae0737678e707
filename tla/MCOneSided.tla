------------------------------ MODULE MCOneSided ------------------------------
(* Operations on another PE's memory that nobody there takes part in, for     *)
(* TLC: the non-blocking copies (ShmemNbi), and the atomic operations of      *)
(* AtomicOps on a word of Width bits, by the names of AtomicTypes             *)
(* (ShmemAtomic).  A behaviour is one job; the other's variables stay as they *)
(* are.                                                                       *)
EXTENDS ShmemNbi, ShmemAtomic, AtomicOps, AtomicTypes

VARIABLE job      \* "copies" or "atomics"

\* PE 0 copies: puts of two bytes to PE 1 that overlap, in either order or twice the
\* same, and a get of one byte, which is its own mark.
MCCopy(q, dst, nbytes) == [pe |-> q, dst |-> dst, nbytes |-> nbytes]
MCCopies == { MCCopy(1, 0, 2), MCCopy(1, 1, 2), MCCopy(0, 0, 1) }

MCLockOf == [o \in Op |-> o.type]
MCCellOf == [o \in Op |-> o.cell]
MCKind == [o \in Op |-> OpKind(o)]
MCEffect == [o \in Op |-> [v \in Word |-> OpEffect(o, v)]]
MCStores == [o \in Op |-> OpStores(o)]

MCArgs(cond, value) == [dest |-> "x", cond |-> cond, value |-> value]

\* One word of type unsigned int, operations that do not commute: sums wrap,
\* bits clash, a compare-and-swap may fail, a fetch comes in between.
MCUintOps ==
  { shmem_deprecated("fadd", "unsigned int", MCArgs(0, 3)),
    shmem_atomic("inc", "unsigned int", MCArgs(0, 0)),
    shmem_uint_atomic_and(MCArgs(0, 1)), shmem_uint_atomic_fetch_or(MCArgs(0, 2)),
    shmem_uint_atomic_xor(MCArgs(0, 3)), shmem_uint_atomic_swap(MCArgs(0, 2)),
    shmem_uint_atomic_compare_swap(MCArgs(1, 3)), shmem_uint_atomic_fetch(MCArgs(0, 0)) }

\* None of them is a set, so that the next-state relation is that of ShmemAtomic;
\* sets are called in MCSynchronization.
ASSUME NoSetAssumption == \A o \in Op : Kind[o] # "set"

Copying(action) == job = "copies" /\ action /\ UNCHANGED <<job, vars>>
Atomics(action) == job = "atomics" /\ action /\ UNCHANGED <<job, nbiVars>>
MCVars == <<job, nbiVars, vars>>

MCInit == job \in {"copies", "atomics"} /\ NbiInit /\ Init

MCNext == \/ Copying(NbiNext)
          \/ \E p \in PE : \/ \E o \in Op : Atomics(Begin(p, o) \/ Fetch(p, o))
                           \/ Atomics(Step(p) \/ Land(p))
          \/ Atomics(Finished)

\* Core and engine run on, the mesh delivers; nothing has to be called.
MCFairSpec == /\ MCInit /\ [][MCNext]_MCVars
              /\ WF_MCVars(Copying(Core)) /\ WF_MCVars(Copying(Move))
              /\ \A q \in DestPE : WF_MCVars(Copying(LandOldest(q)))

==============================================================================

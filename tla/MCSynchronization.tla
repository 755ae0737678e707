-------------------------- MODULE MCSynchronization --------------------------
(* What PEs do to wait for each other, for TLC: the barrier (ShmemSync), the  *)
(* program's own locks (ShmemLock), and the locks lock_atomic_N in the atomic *)
(* operations of each type N, by their routines in the library (AtomicTypes). *)
(* A behaviour is one job; the others' variables stay as they are.            *)
EXTENDS MCShmemSync, MCShmemLock, AtomicTypes, AtomicOps

CONSTANT NoStore

VARIABLES
  job,            \* "barrier", "locks" or "atomics"
  types,          \* the types of the words of the atomic operations
  mem, type_lock, at, op, got, store, release, called, serial   \* ShmemAtomic's

\* A word of each type, all calls with it: sums wrap around, and the second of
\* two compare-and-swaps fails.
MCArgs(N) == [dest |-> N, cond |-> 1, value |-> 3]
MCCalls == UNION {CallsOf(N, MCArgs(N)) : N \in DECL_EXTENDED_AMO}

\* There is a routine for each operation that shmem.h declares.
ASSUME RoutinesAssumption ==
  \A N \in DECL_EXTENDED_AMO : {o.name : o \in CallsOf(N, MCArgs(N))} = Declared(N)

MCCellOf == [o \in MCCalls |-> o.cell]
MCLockOf == [o \in MCCalls |-> o.type]
MCKind == [o \in MCCalls |-> OpKind(o)]
MCEffect == [o \in MCCalls |-> [v \in Word |-> OpEffect(o, v)]]
MCStores == [o \in MCCalls |-> OpStores(o)]

A == INSTANCE ShmemAtomic WITH
       PE <- {0, 1}, Cell <- DECL_EXTENDED_AMO, Lock <- DECL_EXTENDED_AMO,
       Value <- Word, Start <- 1, Op <- MCCalls,
       CellOf <- MCCellOf, LockOf <- MCLockOf, Kind <- MCKind,
       Effect <- MCEffect, Stores <- MCStores,
       NoStore <- NoStore, MaxCalls <- 1,
       lock <- type_lock, pc <- at, r <- got, calls <- called

atomicVars == <<mem, type_lock, at, op, got, store, release, called, serial>>
MCVars == <<job, types, vars, lockVars, atomicVars>>

\* The atomic operations' variables in the other jobs.
NoAtomics == /\ mem = NoStore /\ type_lock = NoStore /\ at = NoStore /\ op = NoStore
             /\ got = NoStore /\ store = NoStore /\ release = NoStore
             /\ called = NoStore /\ serial = NoStore

MCInit == /\ Init /\ LockInit
          /\ \/ job \in {"barrier", "locks"} /\ types = {} /\ NoAtomics
             \/ /\ job = "atomics" /\ A!Init
                /\ types \in {{"int", "long"}} \cup {{N} : N \in DECL_EXTENDED_AMO}

Barriers(action) ==
  job = "barrier" /\ action /\ UNCHANGED <<job, types, lockVars, atomicVars>>
Locks(action) ==
  job = "locks" /\ action /\ UNCHANGED <<job, types, vars, atomicVars>>
Atomics(action) ==
  job = "atomics" /\ action /\ UNCHANGED <<job, types, vars, lockVars>>

Call(p, o) == A!Begin(p, o) \/ A!Set(p, o) \/ A!Fetch(p, o)

MCSyncNext ==
  \/ Barriers(MCNext)
  \/ Locks(LockNext)
  \/ \E p \in {0, 1} : \/ \E o \in MCCalls : o.type \in types /\ Atomics(Call(p, o))
                       \/ Atomics(A!Step(p))
                       \/ Atomics(A!Land(p))
  \/ Atomics(A!Finished)

\* A PE of a barrier, and a PE that has called, goes on; posted stores land.
\* Calls are bounded, and no core spins in the model: it is enough that some such
\* step is taken.
Goes ==
  \/ Barriers(\E p \in Member : MCStep(p) \/ \E k \in Round : Land(p, k))
  \/ Locks(\E p \in PE : Section(p) \/ \E q \in PE : LandStore(p, q))
  \/ Atomics(\E p \in {0, 1} : A!Step(p) \/ A!Land(p))

MCSyncSpec == MCInit /\ [][MCSyncNext]_MCVars /\ WF_MCVars(Goes)

------------------------------------------------------------------------------
\* Every call of a barrier returns when all PEs make it (shmem_sync.c:68 stops
\* spinning), so that each PE comes to the end of the program.
EveryBarrierReturns == job = "barrier" => EveryCallReturns

\* Operations of a type, and of two types side by side, take effect in some
\* order; shmem_<N>_atomic_set writes past the lock and is no part of this. Under
\* the program's locks the order is that of ShmemLock's inductive invariant: an
\* update in flight is its owner's and lands ahead of the release.
SectionsSerialize ==
  /\ job = "locks" => SectionInv
  /\ job = "atomics" /\ (\A p \in {0, 1} : op[p].name # "set") => A!Serializable

\* Every call of an atomic operation gives its type's lock back, whether it
\* stores or not (__shmem_clear_lock.c:41); calls being bounded, there comes a
\* time when no lock is held.
LocksAreReleased ==
  LET Held(N) == job = "atomics" /\ type_lock[N] = 1
  IN  (\E N \in DECL_EXTENDED_AMO : Held(N)) ~> (\A N \in DECL_EXTENDED_AMO : ~Held(N))

==============================================================================

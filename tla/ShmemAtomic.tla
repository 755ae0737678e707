----------------------------- MODULE ShmemAtomic -----------------------------
(* The atomic memory operations of all PEs on the words of one target PE.     *)
(*                                                                            *)
(* Every operation but set and fetch runs under the target PE's lock for the  *)
(* operation's type: __shmem_set_lock spins on a testset, the word is read,   *)
(* the new value stored, and __shmem_clear_lock stores 0 in the lock.  Stores *)
(* to the target are posted: they land later, in the order they were issued.  *)
(* Set and fetch are a plain store and a plain load.                          *)
EXTENDS Integers, FiniteSets

CONSTANTS
  PE,             \* the PEs that call the operations
  Cell,           \* words of the target PE
  Lock,           \* the target's locks, one for each type name
  Value,          \* what a word can hold
  Start,          \* the words' initial value
  Op,             \* the calls a program can make: an operation with arguments
  CellOf,         \* CellOf[o]: the word that o is applied to
  LockOf,         \* LockOf[o]: the lock of o's type (for set and fetch too)
  Kind,           \* Kind[o]: "rmw" (under the lock), "set" or "fetch"
  Effect,         \* Effect[o][v]: the value that o makes of v
  Stores,         \* Stores[o]: the values for which o stores a new one
  NoStore,        \* no store in flight
  MaxCalls        \* bound: how many operations each PE calls

ASSUME OpAssumption ==
  /\ Op # {}
  /\ CellOf \in [Op -> Cell] /\ LockOf \in [Op -> Lock]
  /\ Kind \in [Op -> {"rmw", "set", "fetch"}]
  /\ Effect \in [Op -> [Value -> Value]] /\ Stores \in [Op -> SUBSET Value]
  /\ \A o \in Op, v \in Value : v \notin Stores[o] => Effect[o][v] = v
  /\ \A o \in Op : Kind[o] = "fetch" => Stores[o] = {}
  /\ Start \in Value /\ MaxCalls \in Nat
  /\ NoStore \notin Cell \X Value /\ NoStore \notin Lock

\* A program uses a word with operations of one type.
ASSUME OneTypeAssumption ==
  \A o1, o2 \in Op : CellOf[o1] = CellOf[o2] => LockOf[o1] = LockOf[o2]

VARIABLES
  mem,            \* mem[x]: word x in the target's memory
  lock,           \* lock[l]: the lock word in the target's memory
  pc,             \* pc[p]: where p is in the operation it called
  op,             \* op[p]: that operation
  r,              \* r[p]: the value it read
  store,          \* store[p]: p's store to a word, in flight
  release,        \* release[p]: p's store of 0 to a lock, in flight
  calls,          \* calls[p]: operations p has called
  serial          \* auxiliary: the words after the operations that have read

vars == <<mem, lock, pc, op, r, store, release, calls, serial>>

Init == /\ mem = [x \in Cell |-> Start]
        /\ lock = [l \in Lock |-> 0]
        /\ pc = [p \in PE |-> "idle"]
        /\ op = [p \in PE |-> CHOOSE o \in Op : TRUE]
        /\ r = [p \in PE |-> Start]
        /\ store = [p \in PE |-> NoStore]
        /\ release = [p \in PE |-> NoStore]
        /\ calls = [p \in PE |-> 0]
        /\ serial = [x \in Cell |-> Start]

\* A core's next store to the target waits until the ones before it landed.
CanStore(p) == store[p] = NoStore /\ release[p] = NoStore

------------------------------------------------------------------------------
Call(p, o) == /\ pc[p] = "idle" /\ calls[p] < MaxCalls
              /\ calls' = [calls EXCEPT ![p] = @ + 1]
              /\ op' = [op EXCEPT ![p] = o]

\* A read-modify-write operation is called and goes for the lock.
Begin(p, o) == /\ Kind[o] = "rmw"
               /\ Call(p, o)
               /\ pc' = [pc EXCEPT ![p] = "lock"]
               /\ UNCHANGED <<mem, lock, r, store, release, serial>>

\* atomic_set: *ptr = value, without the lock.
Set(p, o) == /\ Kind[o] = "set" /\ CanStore(p)
             /\ Call(p, o)
             /\ store' = [store EXCEPT ![p] = <<CellOf[o], Effect[o][Start]>>]
             /\ serial' = [serial EXCEPT ![CellOf[o]] = Effect[o][@]]
             /\ UNCHANGED <<mem, lock, pc, r, release>>

\* atomic_fetch: return *ptr, without the lock.
Fetch(p, o) == /\ Kind[o] = "fetch"
               /\ Call(p, o)
               /\ r' = [r EXCEPT ![p] = mem[CellOf[o]]]
               /\ UNCHANGED <<mem, lock, pc, store, release, serial>>

\* (faulty variant) What the testset returns is not looked at.
AcquireBlind(p) == LET l == LockOf[op[p]] IN
                     /\ pc[p] = "lock"
                     /\ lock' = [lock EXCEPT ![l] = 1]
                     /\ pc' = [pc EXCEPT ![p] = "read"]
                     /\ UNCHANGED <<mem, op, r, store, release, calls, serial>>

\* __shmem_set_lock: the testset that finds the lock 0 and makes it 1.
Acquire(p) == LET l == LockOf[op[p]] IN
                /\ pc[p] = "lock" /\ lock[l] = 0
                /\ lock' = [lock EXCEPT ![l] = 1]
                /\ pc' = [pc EXCEPT ![p] = "read"]
                /\ UNCHANGED <<mem, op, r, store, release, calls, serial>>

\* (faulty variant) A compare-and-swap that fails returns with the lock held.
ReadReturn(p) == LET x == CellOf[op[p]]
                     v == mem[x]
                 IN  /\ pc[p] = "read"
                     /\ r' = [r EXCEPT ![p] = v]
                     /\ pc' = [pc EXCEPT ![p] = IF v \in Stores[op[p]] THEN "write" ELSE "idle"]
                     /\ serial' = [serial EXCEPT ![x] = Effect[op[p]][@]]
                     /\ UNCHANGED <<mem, lock, op, store, release, calls>>

\* T r = *ptr
Read(p) == LET x == CellOf[op[p]]
               v == mem[x]
           IN  /\ pc[p] = "read"
               /\ r' = [r EXCEPT ![p] = v]
               /\ pc' = [pc EXCEPT ![p] = IF v \in Stores[op[p]] THEN "write" ELSE "clear"]
               /\ serial' = [serial EXCEPT ![x] = Effect[op[p]][@]]
               /\ UNCHANGED <<mem, lock, op, store, release, calls>>

\* *ptr = ...
Write(p) == /\ pc[p] = "write" /\ CanStore(p)
            /\ store' = [store EXCEPT ![p] = <<CellOf[op[p]], Effect[op[p]][r[p]]>>]
            /\ pc' = [pc EXCEPT ![p] = "clear"]
            /\ UNCHANGED <<mem, lock, op, r, release, calls, serial>>

\* (faulty variant) The release overtakes the store before it.
ClearAhead(p) == /\ pc[p] = "clear"
                 /\ lock' = [lock EXCEPT ![LockOf[op[p]]] = 0]
                 /\ pc' = [pc EXCEPT ![p] = "idle"]
                 /\ UNCHANGED <<mem, op, r, store, release, calls, serial>>

\* __shmem_clear_lock: *x = 0, and the operation returns r.
Clear(p) == /\ pc[p] = "clear" /\ release[p] = NoStore
            /\ release' = [release EXCEPT ![p] = LockOf[op[p]]]
            /\ pc' = [pc EXCEPT ![p] = "idle"]
            /\ UNCHANGED <<mem, lock, op, r, store, calls, serial>>

\* A posted store lands.
LandStore(p) == /\ store[p] # NoStore
                /\ mem' = [mem EXCEPT ![store[p][1]] = store[p][2]]
                /\ store' = [store EXCEPT ![p] = NoStore]
                /\ UNCHANGED <<lock, pc, op, r, release, calls, serial>>

\* The release lands, behind the store before it.
LandRelease(p) == /\ release[p] # NoStore /\ store[p] = NoStore
                  /\ lock' = [lock EXCEPT ![release[p]] = 0]
                  /\ release' = [release EXCEPT ![p] = NoStore]
                  /\ UNCHANGED <<mem, pc, op, r, store, calls, serial>>

Step(p) == Acquire(p) \/ Read(p) \/ Write(p) \/ Clear(p)
Land(p) == LandStore(p) \/ LandRelease(p)

Finished == /\ \A p \in PE : pc[p] = "idle" /\ calls[p] = MaxCalls /\ CanStore(p)
            /\ UNCHANGED vars

Next == \/ \E p \in PE, o \in Op : Begin(p, o) \/ Set(p, o) \/ Fetch(p, o)
        \/ \E p \in PE : Step(p) \/ Land(p)
        \/ Finished

Spec == Init /\ [][Next]_vars

\* Every core runs on, the mesh delivers; no PE is obliged to call anything.
FairSpec == Spec /\ \A p \in PE : WF_vars(Step(p)) /\ WF_vars(Land(p))

------------------------------------------------------------------------------
(* Properties *)

TypeOK ==
  /\ mem \in [Cell -> Value] /\ serial \in [Cell -> Value]
  /\ lock \in [Lock -> {0, 1}]
  /\ pc \in [PE -> {"idle", "lock", "read", "write", "clear"}]
  /\ op \in [PE -> Op] /\ r \in [PE -> Value]
  /\ store \in [PE -> (Cell \X Value) \cup {NoStore}]
  /\ release \in [PE -> Lock \cup {NoStore}]
  /\ calls \in [PE -> 0..MaxCalls]

\* p is between its testset and the landing of its release.
Critical(p) == pc[p] \in {"read", "write", "clear"}
Holds(p, l) == (Critical(p) /\ LockOf[op[p]] = l) \/ release[p] = l

\* A lock is held by at most one PE, and is 1 exactly while it is held
\* (__shmem_set_lock.c:43-46, __shmem_clear_lock.c:41). A PE that has
\* released a lock does not hold it again before the release has landed.
MutualExclusion ==
  /\ \A p, q \in PE, l \in Lock : Holds(p, l) /\ Holds(q, l) => p = q
  /\ \A l \in Lock : lock[l] = 1 <=> \E p \in PE : Holds(p, l)
  /\ \A p \in PE : Critical(p) => release[p] # LockOf[op[p]]

\* A word is stored to only under its lock: its store lands before the release.
StoreUnderLock ==
  \A p \in PE : store[p] # NoStore =>
    \E o \in Op : /\ CellOf[o] = store[p][1]
                  /\ (pc[p] = "clear" /\ op[p] = o) \/ release[p] = LockOf[o]

\* The word in memory is the result of all operations that have read it, but
\* for the one that has not stored its result yet or whose store is in flight.
Pending(p, x) == \/ pc[p] = "write" /\ CellOf[op[p]] = x
                 \/ store[p] # NoStore /\ store[p][1] = x
MemoryIsSerial ==
  /\ \A p \in PE : pc[p] = "write" => serial[CellOf[op[p]]] = Effect[op[p]][r[p]]
  /\ \A p \in PE : store[p] # NoStore => serial[store[p][1]] = store[p][2]
  /\ \A x \in Cell : (\A p \in PE : ~Pending(p, x)) => mem[x] = serial[x]

\* Only operations under the lock have a program counter.
OnlyRmwRuns == \A p \in PE : pc[p] # "idle" => Kind[op[p]] = "rmw"

\* The inductive invariant, when no operation is a set.
IInv == TypeOK /\ OnlyRmwRuns /\ MutualExclusion /\ StoreUnderLock /\ MemoryIsSerial

\* When everything has landed, the operations took effect in some order
\* (test/report.tex:96-98, "atomicity guarantees"): one at a time, each reading
\* what the one before left. For one operation of each PE.
Order == {s \in [1..Cardinality(PE) -> PE] : \A p \in PE : \E i \in DOMAIN s : s[i] = p}
After(s) ==
  LET after[i \in 0..Cardinality(PE)] ==
        IF i = 0 THEN [x \in Cell |-> Start]
        ELSE [after[i - 1] EXCEPT ![CellOf[op[s[i]]]] = Effect[op[s[i]]][@]]
  IN  after
Serializable ==
  (\A p \in PE : pc[p] = "idle" /\ calls[p] = 1 /\ CanStore(p)) =>
    \E s \in Order :
      /\ mem = After(s)[Cardinality(PE)]
      /\ \A i \in DOMAIN s : Kind[op[s[i]]] # "set" =>
           r[s[i]] = After(s)[i - 1][CellOf[op[s[i]]]]

\* A lock that is set is released (__shmem_clear_lock.c:41).
LocksAreReleased == \A l \in Lock : (lock[l] = 1) ~> (lock[l] = 0)

\* Read-modify-write operations take effect one at a time, and a fetch misses
\* at most the last one.
Atomic == INSTANCE AtomicCell WITH visible <- mem, result <- r
ImplementsAtomicCell == Atomic!Spec

==============================================================================

-------------------------- MODULE ShmemAtomicProof --------------------------
(* Proofs about ShmemAtomic, for every set of PEs, words, locks and           *)
(* operations, as long as the program does not use atomic_set.                *)
EXTENDS ShmemAtomic, FiniteSetTheorems, TLAPS

NoSet == \A o \in Op : Kind[o] # "set"

LEMMA InitIInv == Init => IInv
<1> SUFFICES ASSUME Init PROVE IInv
  OBVIOUS
<1> USE OpAssumption DEF Init
<1>1. TypeOK
  <2>1. (CHOOSE o \in Op : TRUE) \in Op
    OBVIOUS
  <2> QED BY <2>1 DEF TypeOK
<1>2. \A p \in PE, l \in Lock : ~Holds(p, l)
  BY DEF Holds, Critical
<1>3. MutualExclusion
  BY <1>2 DEF MutualExclusion, Critical
<1> QED BY <1>1, <1>3 DEF IInv, OnlyRmwRuns, StoreUnderLock, MemoryIsSerial, Pending

\* A call changes neither who holds a lock nor what is pending.
LEMMA BeginIInv ==
  ASSUME IInv, NEW p \in PE, NEW o \in Op, Begin(p, o)
  PROVE  IInv'
<1>1. /\ pc[p] = "idle" /\ Kind[o] = "rmw"
      /\ pc' = [pc EXCEPT ![p] = "lock"] /\ op' = [op EXCEPT ![p] = o]
      /\ UNCHANGED <<mem, lock, r, store, release, serial>>
      /\ TypeOK
  BY DEF Begin, Call, IInv
<1>2. TypeOK'
  BY <1>1, OpAssumption DEF TypeOK, Begin, Call
<1>3. \A q \in PE : q # p => pc'[q] = pc[q] /\ op'[q] = op[q]
  BY <1>1 DEF TypeOK
<1>4. pc'[p] = "lock" /\ op'[p] = o
  BY <1>1 DEF TypeOK
<1>5. \A q \in PE : Critical(q)' = Critical(q)
  BY <1>1, <1>3, <1>4 DEF Critical
<1>6. \A q \in PE, l \in Lock : Holds(q, l)' = Holds(q, l)
  BY <1>1, <1>3, <1>4, <1>5 DEF Holds, Critical
<1>7. \A q \in PE, x \in Cell : Pending(q, x)' = Pending(q, x)
  BY <1>1, <1>3, <1>4 DEF Pending
<1>8. OnlyRmwRuns'
  BY <1>1, <1>3, <1>4 DEF OnlyRmwRuns, IInv
<1>9. MutualExclusion'
  BY <1>1, <1>3, <1>4, <1>5, <1>6 DEF MutualExclusion, IInv, Critical
<1>10. StoreUnderLock'
  BY <1>1, <1>6, OpAssumption DEF StoreUnderLock, IInv, TypeOK
<1>11. MemoryIsSerial'
  BY <1>1, <1>3, <1>4, <1>7 DEF MemoryIsSerial, IInv
<1> QED BY <1>2, <1>8, <1>9, <1>10, <1>11 DEF IInv

LEMMA FetchIInv ==
  ASSUME IInv, NEW p \in PE, NEW o \in Op, Fetch(p, o)
  PROVE  IInv'
<1>1. /\ pc[p] = "idle"
      /\ op' = [op EXCEPT ![p] = o]
      /\ r' = [r EXCEPT ![p] = mem[CellOf[o]]]
      /\ UNCHANGED <<mem, lock, pc, store, release, serial>>
      /\ TypeOK
  BY DEF Fetch, Call, IInv
<1>2. TypeOK'
  BY <1>1, OpAssumption DEF TypeOK, Fetch, Call
<1>3. \A q \in PE : q # p => op'[q] = op[q] /\ r'[q] = r[q]
  BY <1>1 DEF TypeOK
<1>5. \A q \in PE : Critical(q)' = Critical(q)
  BY <1>1 DEF Critical
<1>6. \A q \in PE, l \in Lock : Holds(q, l)' = Holds(q, l)
  BY <1>1, <1>3, <1>5 DEF Holds, Critical
<1>7. \A q \in PE, x \in Cell : Pending(q, x)' = Pending(q, x)
  BY <1>1, <1>3 DEF Pending
<1>8. OnlyRmwRuns'
  BY <1>1, <1>3 DEF OnlyRmwRuns, IInv
<1>9. MutualExclusion'
  BY <1>1, <1>3, <1>5, <1>6 DEF MutualExclusion, IInv, Critical
<1>10. StoreUnderLock'
  BY <1>1, <1>6, OpAssumption DEF StoreUnderLock, IInv, TypeOK
<1>11. MemoryIsSerial'
  BY <1>1, <1>3, <1>7 DEF MemoryIsSerial, IInv
<1> QED BY <1>2, <1>8, <1>9, <1>10, <1>11 DEF IInv

\* The testset finds the lock 0, so nobody holds it.
LEMMA AcquireIInv ==
  ASSUME IInv, NEW p \in PE, Acquire(p)
  PROVE  IInv'
<1> DEFINE l0 == LockOf[op[p]]
<1>1. /\ pc[p] = "lock" /\ lock[l0] = 0
      /\ lock' = [lock EXCEPT ![l0] = 1] /\ pc' = [pc EXCEPT ![p] = "read"]
      /\ UNCHANGED <<mem, op, r, store, release, calls, serial>>
      /\ TypeOK
  BY DEF Acquire, IInv
<1>2. l0 \in Lock /\ op[p] \in Op
  BY <1>1, OpAssumption DEF TypeOK
<1>3. TypeOK'
  BY <1>1 DEF TypeOK
<1>4. /\ \A q \in PE : q # p => pc'[q] = pc[q]
      /\ pc'[p] = "read"
      /\ \A l \in Lock : lock'[l] = IF l = l0 THEN 1 ELSE lock[l]
  BY <1>1 DEF TypeOK
<1>5. \A q \in PE : ~Holds(q, l0)
  BY <1>1, <1>2 DEF MutualExclusion, IInv
<1>6. \A q \in PE, l \in Lock : Holds(q, l)' = (Holds(q, l) \/ (q = p /\ l = l0))
  BY <1>1, <1>2, <1>4 DEF Holds, Critical
<1>7. \A q \in PE, x \in Cell : Pending(q, x)' = Pending(q, x)
  BY <1>1, <1>4 DEF Pending
<1>8. OnlyRmwRuns'
  BY <1>1, <1>4 DEF OnlyRmwRuns, IInv
<1>9. MutualExclusion'
  <2>1. \A q, s \in PE, l \in Lock : Holds(q, l)' /\ Holds(s, l)' => q = s
    <3> SUFFICES ASSUME NEW q \in PE, NEW s \in PE, NEW l \in Lock,
                        Holds(q, l)', Holds(s, l)'
                 PROVE  q = s
      OBVIOUS
    <3>1. CASE l = l0
      BY <3>1, <1>5, <1>6
    <3>2. CASE l # l0
      BY <3>2, <1>6 DEF MutualExclusion, IInv
    <3> QED BY <3>1, <3>2
  <2>2. \A l \in Lock : lock'[l] = 1 <=> \E q \in PE : Holds(q, l)'
    BY ZenonT(30), <1>2, <1>4, <1>6 DEF MutualExclusion, IInv
  <2>3. \A q \in PE : Critical(q)' => release'[q] # LockOf[op'[q]]
    BY <1>1, <1>2, <1>4, <1>5 DEF MutualExclusion, IInv, Critical, Holds
  <2> QED BY <2>1, <2>2, <2>3 DEF MutualExclusion
<1>10. StoreUnderLock'
  BY <1>1, <1>6, OpAssumption DEF StoreUnderLock, IInv, TypeOK
<1>11. MemoryIsSerial'
  BY <1>1, <1>4, <1>7 DEF MemoryIsSerial, IInv
<1> QED BY <1>3, <1>8, <1>9, <1>10, <1>11 DEF IInv

\* Whoever holds the lock of a word, and has not stored yet, reads it settled.
LEMMA HolderReadsSerial ==
  ASSUME IInv, NEW p \in PE, pc[p] = "read"
  PROVE  /\ mem[CellOf[op[p]]] = serial[CellOf[op[p]]]
         /\ \A q \in PE : ~Pending(q, CellOf[op[p]])
<1> DEFINE x == CellOf[op[p]]
           l == LockOf[op[p]]
<1>1. op[p] \in Op /\ x \in Cell /\ l \in Lock /\ Holds(p, l)
  BY OpAssumption DEF IInv, TypeOK, Holds, Critical
<1>2. ASSUME NEW q \in PE, Pending(q, x) PROVE FALSE
  <2>1. CASE pc[q] = "write" /\ CellOf[op[q]] = x
    <3>1. op[q] \in Op /\ LockOf[op[q]] = l
      BY <1>1, <2>1, OneTypeAssumption DEF IInv, TypeOK
    <3>2. Holds(q, l)
      BY <2>1, <3>1 DEF Holds, Critical
    <3>3. q = p
      BY <1>1, <3>2 DEF IInv, MutualExclusion
    <3> QED BY <2>1, <3>3
  <2>2. CASE store[q] # NoStore /\ store[q][1] = x
    <3>1. PICK o \in Op : /\ CellOf[o] = x
                          /\ (pc[q] = "clear" /\ op[q] = o) \/ release[q] = LockOf[o]
      BY <2>2 DEF IInv, StoreUnderLock
    <3>2. LockOf[o] = l /\ Holds(q, l)
      BY <1>1, <3>1, OneTypeAssumption DEF Holds, Critical
    <3>3. q = p
      BY <1>1, <3>2 DEF IInv, MutualExclusion
    <3>4. release[p] # l
      BY DEF IInv, MutualExclusion, Critical
    <3> QED BY <3>1, <3>2, <3>3, <3>4
  <2> QED BY <1>2, <2>1, <2>2 DEF Pending
<1> QED BY <1>1, <1>2 DEF IInv, MemoryIsSerial

\* The read takes place under the lock, hence on a settled word.
LEMMA ReadIInv ==
  ASSUME IInv, NEW p \in PE, Read(p)
  PROVE  IInv'
<1> DEFINE o == op[p]
           x == CellOf[o]
           v == mem[x]
<1>1. /\ pc[p] = "read"
      /\ r' = [r EXCEPT ![p] = v]
      /\ pc' = [pc EXCEPT ![p] = IF v \in Stores[o] THEN "write" ELSE "clear"]
      /\ serial' = [serial EXCEPT ![x] = Effect[o][@]]
      /\ UNCHANGED <<mem, lock, op, store, release, calls>>
      /\ TypeOK
  BY DEF Read, IInv
<1>2. o \in Op /\ x \in Cell /\ v \in Value /\ serial[x] = v
  BY <1>1, HolderReadsSerial, OpAssumption DEF TypeOK
<1>3. Effect[o][v] \in Value
  BY <1>2, OpAssumption
<1>4. TypeOK'
  BY <1>1, <1>2, <1>3 DEF TypeOK
<1>5. /\ \A q \in PE : q # p => pc'[q] = pc[q] /\ r'[q] = r[q]
      /\ r'[p] = v
      /\ pc'[p] \in {"write", "clear"} /\ (pc'[p] = "write" <=> v \in Stores[o])
      /\ \A y \in Cell : serial'[y] = IF y = x THEN Effect[o][v] ELSE serial[y]
  BY <1>1, <1>2 DEF TypeOK
<1>6. \A q \in PE : Critical(q)' = Critical(q)
  BY <1>1, <1>5 DEF Critical
<1>7. \A q \in PE, l \in Lock : Holds(q, l)' = Holds(q, l)
  BY <1>1, <1>6 DEF Holds
<1>8. OnlyRmwRuns'
  BY <1>1, <1>5 DEF OnlyRmwRuns, IInv
<1>9. MutualExclusion'
  BY <1>1, <1>6, <1>7 DEF MutualExclusion, IInv
<1>10. StoreUnderLock'
  BY <1>1, <1>5 DEF StoreUnderLock, IInv
<1>11. MemoryIsSerial'
  <2>1. ASSUME NEW q \in PE, pc'[q] = "write"
        PROVE  serial'[CellOf[op[q]]] = Effect[op[q]][r'[q]]
    <3>1. CASE q = p
      BY <3>1, <1>2, <1>5
    <3>2. CASE q # p
      <4>1. pc[q] = "write" /\ op[q] \in Op /\ CellOf[op[q]] \in Cell
        BY <2>1, <3>2, <1>1, <1>5, OpAssumption DEF TypeOK
      <4>2. CellOf[op[q]] # x
        BY <4>1, <1>1, HolderReadsSerial DEF Pending
      <4> QED BY <4>1, <4>2, <3>2, <1>5 DEF IInv, MemoryIsSerial
    <3> QED BY <3>1, <3>2
  <2>2. ASSUME NEW q \in PE, store[q] # NoStore
        PROVE  serial'[store[q][1]] = store[q][2]
    <3>1. store[q][1] \in Cell
      BY <2>2, <1>1 DEF TypeOK
    <3>2. store[q][1] # x
      BY <2>2, <1>1, HolderReadsSerial DEF Pending
    <3> QED BY <3>1, <3>2, <2>2, <1>5 DEF IInv, MemoryIsSerial
  <2>3. ASSUME NEW y \in Cell, \A q \in PE : ~Pending(q, y)'
        PROVE  mem[y] = serial'[y]
    <3>1. CASE y = x
      <4>1. pc'[p] # "write"
        BY <2>3, <3>1, <1>1 DEF Pending
      <4>2. Effect[o][v] = v
        BY <4>1, <1>2, <1>5, OpAssumption
      <4> QED BY <3>1, <4>2, <1>2, <1>5
    <3>2. CASE y # x
      <4>1. \A q \in PE : ~Pending(q, y)
        BY <2>3, <3>2, <1>1, <1>5 DEF Pending
      <4> QED BY <3>2, <4>1, <1>5 DEF IInv, MemoryIsSerial
    <3> QED BY <3>1, <3>2
  <2> QED BY <2>1, <2>2, <2>3, <1>1 DEF MemoryIsSerial
<1> QED BY <1>4, <1>8, <1>9, <1>10, <1>11 DEF IInv

\* The store carries what the operation made of the value it read.
LEMMA WriteIInv ==
  ASSUME IInv, NEW p \in PE, Write(p)
  PROVE  IInv'
<1> DEFINE o == op[p]
           x == CellOf[o]
           n == Effect[o][r[p]]
<1>1. /\ pc[p] = "write" /\ store[p] = NoStore
      /\ store' = [store EXCEPT ![p] = <<x, n>>]
      /\ pc' = [pc EXCEPT ![p] = "clear"]
      /\ UNCHANGED <<mem, lock, op, r, release, calls, serial>>
      /\ TypeOK
  BY DEF Write, CanStore, IInv
<1>2. o \in Op /\ x \in Cell /\ n \in Value
  BY <1>1, OpAssumption DEF TypeOK
<1>3. <<x, n>> # NoStore /\ <<x, n>>[1] = x /\ <<x, n>>[2] = n
  BY <1>2, OpAssumption
<1>4. TypeOK'
  BY <1>1, <1>2 DEF TypeOK
<1>5. /\ \A q \in PE : q # p => pc'[q] = pc[q] /\ store'[q] = store[q]
      /\ pc'[p] = "clear" /\ store'[p] = <<x, n>>
  BY <1>1 DEF TypeOK
<1>6. \A q \in PE : Critical(q)' = Critical(q)
  BY <1>1, <1>5 DEF Critical
<1>7. \A q \in PE, l \in Lock : Holds(q, l)' = Holds(q, l)
  BY <1>1, <1>6 DEF Holds
<1>8. OnlyRmwRuns'
  BY <1>1, <1>5 DEF OnlyRmwRuns, IInv
<1>9. MutualExclusion'
  BY <1>1, <1>6, <1>7 DEF MutualExclusion, IInv
<1>10. StoreUnderLock'
  BY <1>1, <1>2, <1>3, <1>5 DEF StoreUnderLock, IInv
<1>11. \A q \in PE, y \in Cell : Pending(q, y)' = Pending(q, y)
  <2> SUFFICES ASSUME NEW q \in PE, NEW y \in Cell PROVE Pending(q, y)' = Pending(q, y)
    OBVIOUS
  <2>1. CASE q = p
    BY <2>1, <1>1, <1>3, <1>5 DEF Pending
  <2>2. CASE q # p
    BY <2>2, <1>1, <1>5 DEF Pending
  <2> QED BY <2>1, <2>2
<1>12. serial[x] = n
  BY <1>1 DEF IInv, MemoryIsSerial
<1>13. MemoryIsSerial'
  <2>1. \A q \in PE : pc'[q] = "write" => serial[CellOf[op[q]]] = Effect[op[q]][r[q]]
    BY <1>5 DEF IInv, MemoryIsSerial
  <2>2. \A q \in PE : store'[q] # NoStore => serial[store'[q][1]] = store'[q][2]
    BY <1>3, <1>5, <1>12 DEF IInv, MemoryIsSerial
  <2>3. \A y \in Cell : (\A q \in PE : ~Pending(q, y)') => mem[y] = serial[y]
    BY <1>11 DEF IInv, MemoryIsSerial
  <2> QED BY <2>1, <2>2, <2>3, <1>1 DEF MemoryIsSerial
<1> QED BY <1>4, <1>8, <1>9, <1>10, <1>13 DEF IInv

\* The release is posted after the store; until it lands the lock is held.
LEMMA ClearIInv ==
  ASSUME IInv, NEW p \in PE, Clear(p)
  PROVE  IInv'
<1> DEFINE o == op[p]
           l0 == LockOf[o]
<1>1. /\ pc[p] = "clear" /\ release[p] = NoStore
      /\ release' = [release EXCEPT ![p] = l0]
      /\ pc' = [pc EXCEPT ![p] = "idle"]
      /\ UNCHANGED <<mem, lock, op, r, store, calls, serial>>
      /\ TypeOK
  BY DEF Clear, IInv
<1>2. o \in Op /\ l0 \in Lock /\ l0 # NoStore
  BY <1>1, OpAssumption DEF TypeOK
<1>3. TypeOK'
  BY <1>1, <1>2 DEF TypeOK
<1>4. /\ \A q \in PE : q # p => pc'[q] = pc[q] /\ release'[q] = release[q]
      /\ pc'[p] = "idle" /\ release'[p] = l0
  BY <1>1 DEF TypeOK
<1>5. \A q \in PE, l \in Lock : Holds(q, l)' = Holds(q, l)
  <2> SUFFICES ASSUME NEW q \in PE, NEW l \in Lock PROVE Holds(q, l)' = Holds(q, l)
    OBVIOUS
  <2>1. CASE q = p
    <3>1. Holds(p, l)' = (l0 = l)
      BY <1>1, <1>4 DEF Holds, Critical
    <3>2. NoStore # l
      BY OpAssumption
    <3>3. Holds(p, l) = (l0 = l)
      BY <1>1, <3>2 DEF Holds, Critical
    <3> QED BY <2>1, <3>1, <3>3
  <2>2. CASE q # p
    BY <2>2, <1>1, <1>4 DEF Holds, Critical
  <2> QED BY <2>1, <2>2
<1>6. OnlyRmwRuns'
  BY <1>1, <1>4 DEF OnlyRmwRuns, IInv
<1>7. MutualExclusion'
  <2>1. \A q \in PE : Critical(q)' => release'[q] # LockOf[op'[q]]
    BY <1>1, <1>4 DEF MutualExclusion, IInv, Critical
  <2> QED BY <2>1, <1>1, <1>5 DEF MutualExclusion, IInv
<1>8. StoreUnderLock'
  <2> SUFFICES ASSUME NEW q \in PE, store[q] # NoStore
               PROVE  \E s \in Op : /\ CellOf[s] = store[q][1]
                                    /\ (pc'[q] = "clear" /\ op[q] = s) \/ release'[q] = LockOf[s]
    BY <1>1 DEF StoreUnderLock
  <2>1. PICK s \in Op : /\ CellOf[s] = store[q][1]
                        /\ (pc[q] = "clear" /\ op[q] = s) \/ release[q] = LockOf[s]
    BY DEF IInv, StoreUnderLock
  <2>2. LockOf[s] # NoStore
    BY OpAssumption
  <2> QED BY <2>1, <2>2, <1>1, <1>4
<1>9. MemoryIsSerial'
  <2>1. \A q \in PE, y \in Cell : Pending(q, y)' = Pending(q, y)
    BY <1>1, <1>4 DEF Pending
  <2> QED BY <2>1, <1>1, <1>4 DEF IInv, MemoryIsSerial
<1> QED BY <1>3, <1>6, <1>7, <1>8, <1>9 DEF IInv


\* A store that lands is the one pending result of its word.
LEMMA LandStoreIInv ==
  ASSUME IInv, NEW p \in PE, LandStore(p)
  PROVE  IInv'
<1> DEFINE x == store[p][1]
           n == store[p][2]
<1>1. /\ store[p] # NoStore
      /\ mem' = [mem EXCEPT ![x] = n]
      /\ store' = [store EXCEPT ![p] = NoStore]
      /\ UNCHANGED <<lock, pc, op, r, release, calls, serial>>
      /\ TypeOK
  BY DEF LandStore, IInv
<1>2. x \in Cell /\ n \in Value /\ serial[x] = n
  BY <1>1 DEF TypeOK, IInv, MemoryIsSerial
<1>3. TypeOK'
  BY <1>1, <1>2 DEF TypeOK
<1>4. /\ \A q \in PE : q # p => store'[q] = store[q]
      /\ store'[p] = NoStore
      /\ \A y \in Cell : mem'[y] = IF y = x THEN n ELSE mem[y]
  BY <1>1, <1>2 DEF TypeOK
<1>5. \A q \in PE : Critical(q)' = Critical(q)
  BY <1>1 DEF Critical
<1>6. \A q \in PE, l \in Lock : Holds(q, l)' = Holds(q, l)
  BY <1>1, <1>5 DEF Holds
<1>7. OnlyRmwRuns' /\ MutualExclusion'
  BY <1>1, <1>5, <1>6 DEF OnlyRmwRuns, MutualExclusion, IInv
<1>8. StoreUnderLock'
  BY <1>1, <1>4 DEF StoreUnderLock, IInv
<1>9. MemoryIsSerial'
  <2>1. ASSUME NEW y \in Cell, \A q \in PE : ~Pending(q, y)'
        PROVE  mem'[y] = serial[y]
    <3>1. CASE y = x
      BY <3>1, <1>2, <1>4
    <3>2. CASE y # x
      <4>1. \A q \in PE : ~Pending(q, y)
        BY <2>1, <3>2, <1>1, <1>4 DEF Pending
      <4> QED BY <3>2, <4>1, <1>4 DEF IInv, MemoryIsSerial
    <3> QED BY <3>1, <3>2
  <2> QED BY <2>1, <1>1, <1>4 DEF IInv, MemoryIsSerial
<1> QED BY <1>3, <1>7, <1>8, <1>9 DEF IInv

\* A release that lands was the only claim on its lock.
LEMMA LandReleaseIInv ==
  ASSUME IInv, NEW p \in PE, LandRelease(p)
  PROVE  IInv'
<1> DEFINE l0 == release[p]
<1>1. /\ l0 # NoStore /\ store[p] = NoStore
      /\ lock' = [lock EXCEPT ![l0] = 0]
      /\ release' = [release EXCEPT ![p] = NoStore]
      /\ UNCHANGED <<mem, pc, op, r, store, calls, serial>>
      /\ TypeOK
  BY DEF LandRelease, IInv
<1>2. l0 \in Lock
  BY <1>1 DEF TypeOK
<1>3. TypeOK'
  BY <1>1, <1>2 DEF TypeOK
<1>4. /\ \A q \in PE : q # p => release'[q] = release[q]
      /\ release'[p] = NoStore
      /\ \A l \in Lock : lock'[l] = IF l = l0 THEN 0 ELSE lock[l]
  BY <1>1, <1>2 DEF TypeOK
<1>5. \A q \in PE : Critical(q)' = Critical(q)
  BY <1>1 DEF Critical
<1>6. Holds(p, l0)
  BY DEF Holds
<1>7. ~(Critical(p) /\ LockOf[op[p]] = l0)
  BY DEF IInv, MutualExclusion
<1>8. \A q \in PE, l \in Lock : Holds(q, l)' <=> (Holds(q, l) /\ l # l0)
  <2> SUFFICES ASSUME NEW q \in PE, NEW l \in Lock
               PROVE  Holds(q, l)' <=> (Holds(q, l) /\ l # l0)
    OBVIOUS
  <2>0. l # NoStore
    BY OpAssumption
  <2>1. CASE q = p
    <3>1. release'[p] # l
      BY <2>0, <1>4
    <3>2. Holds(p, l)' <=> (Critical(p) /\ LockOf[op[p]] = l)
      BY <3>1, <1>1 DEF Holds, Critical
    <3>3. CASE l = l0
      <4>1. ~Holds(p, l)'
        BY <3>2, <3>3, <1>7
      <4> QED BY <4>1, <3>3, <2>1
    <3>4. CASE l # l0
      <4>1. Holds(p, l) <=> (Critical(p) /\ LockOf[op[p]] = l)
        BY <3>4 DEF Holds
      <4> QED BY <4>1, <3>2, <3>4, <2>1
    <3> QED BY <3>3, <3>4
  <2>2. CASE q # p /\ l = l0
    <3>1. ~Holds(q, l)
      BY <2>2, <1>2, <1>6 DEF IInv, MutualExclusion
    <3>2. Holds(q, l)' <=> Holds(q, l)
      BY <2>2, <1>1, <1>4, <1>5 DEF Holds
    <3> QED BY <2>2, <3>1, <3>2
  <2>3. CASE q # p /\ l # l0
    BY <2>3, <1>1, <1>4, <1>5 DEF Holds
  <2> QED BY <2>1, <2>2, <2>3
<1>9. OnlyRmwRuns'
  BY <1>1 DEF OnlyRmwRuns, IInv
<1>10. MutualExclusion'
  <2>1. \A q, s \in PE, l \in Lock : Holds(q, l)' /\ Holds(s, l)' => q = s
    BY <1>8 DEF IInv, MutualExclusion
  <2>2. ASSUME NEW l \in Lock
        PROVE  lock'[l] = 1 <=> \E q \in PE : Holds(q, l)'
    <3>1. CASE l = l0
      BY <3>1, <1>4, <1>8
    <3>2. CASE l # l0
      <4>1. lock'[l] = lock[l]
        BY <3>2, <1>4
      <4>2. lock[l] = 1 <=> \E q \in PE : Holds(q, l)
        BY DEF IInv, MutualExclusion
      <4>3. \A q \in PE : Holds(q, l)' <=> Holds(q, l)
        BY <3>2, <1>8
      <4> QED BY <4>1, <4>2, <4>3
    <3> QED BY <3>1, <3>2
  <2>3. \A q \in PE : Critical(q)' => release'[q] # LockOf[op'[q]]
    <3> SUFFICES ASSUME NEW q \in PE, Critical(q)
                 PROVE  release'[q] # LockOf[op[q]]
      BY <1>1, <1>5
    <3>1. LockOf[op[q]] # NoStore
      BY <1>1, OpAssumption DEF TypeOK
    <3> QED BY <3>1, <1>4 DEF IInv, MutualExclusion
  <2> QED BY <2>1, <2>2, <2>3 DEF MutualExclusion
<1>11. StoreUnderLock'
  BY <1>1, <1>4 DEF StoreUnderLock, IInv
<1>12. MemoryIsSerial'
  BY <1>1 DEF IInv, MemoryIsSerial, Pending
<1> QED BY <1>3, <1>9, <1>10, <1>11, <1>12 DEF IInv

LEMMA NextIInv == ASSUME NoSet, IInv, [Next]_vars PROVE IInv'
<1>1. ASSUME NEW p \in PE, NEW o \in Op, Set(p, o) PROVE FALSE
  BY <1>1 DEF Set, NoSet
<1>2. CASE UNCHANGED vars
  BY <1>2 DEF vars, IInv, TypeOK, OnlyRmwRuns, MutualExclusion, StoreUnderLock,
              MemoryIsSerial, Pending, Holds, Critical
<1> QED BY <1>1, <1>2, BeginIInv, FetchIInv, AcquireIInv, ReadIInv, WriteIInv,
           ClearIInv, LandStoreIInv, LandReleaseIInv DEF Next, Step, Land, Finished

\* Without atomic_set, every lock is held by at most one PE and is set exactly
\* while it is held, words are stored to under their lock only, and memory is
\* what the operations so far make of it, but for the one in progress.
THEOREM LocksProtectWords ==
  ASSUME NoSet PROVE Spec => []IInv
<1>1. NoSet
  OBVIOUS
<1> QED BY <1>1, InitIInv, NextIInv, PTL DEF Spec

\* Without atomic_set, the read-modify-write operations take effect one at a
\* time, and a fetch misses at most the operation in progress.
THEOREM RmwIsAtomic ==
  ASSUME NoSet PROVE Spec => ImplementsAtomicCell
<1>1. Init => Atomic!Init
  BY DEF Init, Atomic!Init
<1>2. ASSUME IInv, [Next]_vars PROVE [Atomic!Next]_Atomic!vars
  <2>1. ASSUME NEW p \in PE, Read(p) PROVE Atomic!Apply(p, op[p]) /\ op[p] \in Op
    <3>1. op[p] \in Op
      BY <1>2 DEF IInv, TypeOK
    <3>2. mem[CellOf[op[p]]] = serial[CellOf[op[p]]]
      BY <1>2, <2>1, HolderReadsSerial DEF Read
    <3> QED BY <2>1, <3>1, <3>2 DEF Read, Atomic!Apply
  <2>2. ASSUME NEW p \in PE, NEW o \in Op, Fetch(p, o) PROVE Atomic!Fetch(p, o)
    BY <2>2 DEF Fetch, Call, Atomic!Fetch
  <2>3. ASSUME NEW p \in PE, LandStore(p) PROVE \E x \in Cell : Atomic!Settle(x)
    <3>1. store[p][1] \in Cell /\ serial[store[p][1]] = store[p][2]
      BY <1>2, <2>3 DEF LandStore, IInv, TypeOK, MemoryIsSerial
    <3>2. Atomic!Settle(store[p][1])
      BY <2>3, <3>1 DEF LandStore, Atomic!Settle
    <3> QED BY <3>1, <3>2
  <2>4. ASSUME NEW p \in PE, NEW o \in Op, Set(p, o) PROVE FALSE
    BY <2>4 DEF Set, NoSet
  <2>5. ASSUME NEW p \in PE, NEW o \in Op, Begin(p, o) PROVE UNCHANGED Atomic!vars
    BY <2>5 DEF Begin, Atomic!vars
  <2>6. ASSUME NEW p \in PE, Acquire(p) \/ Write(p) \/ Clear(p) \/ LandRelease(p)
        PROVE  UNCHANGED Atomic!vars
    BY <2>6 DEF Acquire, Write, Clear, LandRelease, Atomic!vars
  <2>7. CASE UNCHANGED vars
    BY <2>7 DEF vars, Atomic!vars
  <2> QED BY <1>2, <2>1, <2>2, <2>3, <2>4, <2>5, <2>6, <2>7
          DEF Next, Step, Land, Finished, Atomic!Next
<1> QED BY <1>1, <1>2, LocksProtectWords, PTL DEF Spec, ImplementsAtomicCell, Atomic!Spec

------------------------------------------------------------------------------
(* The order of the operations, when each PE calls one *)

\* A set of numbers that is not empty has a least one.
LEMMA LeastNat ==
  ASSUME NEW T \in SUBSET Nat, T # {}
  PROVE  \E n \in T : \A m \in T : n <= m
<1> DEFINE R == OpToRel(<, Nat)
<1>1. IsWellFoundedOn(R, Nat)
  BY NatLessThanWellFounded
<1>2. \A x, y \in Nat : x < y => <<x, y>> \in R
  BY DEF OpToRel
<1> HIDE DEF R
<1>3. \E x \in T : \A y \in T : ~(<<y, x>> \in R)
  BY <1>1, WFMin
<1>4. PICK n \in T : \A y \in T : ~(<<y, n>> \in R)
  BY <1>3
<1>5. \A m \in T : ~(m < n) /\ m \in Nat /\ n \in Nat
  BY <1>2, <1>4
<1>6. \A m \in T : n <= m
  BY <1>5
<1> QED BY <1>6

\* p's operation has read its word.
Done(p) == calls[p] = 1 /\ pc[p] \notin {"lock", "read"}

\* s is an order of the operations that have read: h[i] are the words after the
\* i-th of them, and each has read what the one before it left.
Explains(n, s, h) ==
  /\ s \in [1..n -> PE] /\ h \in [0..n -> [Cell -> Value]]
  /\ \A i, j \in 1..n : s[i] = s[j] => i = j
  /\ \A p \in PE : Done(p) <=> \E i \in 1..n : s[i] = p
  /\ h[0] = [x \in Cell |-> Start] /\ h[n] = serial
  /\ \A i \in 1..n :
       /\ h[i] = [h[i - 1] EXCEPT ![CellOf[op[s[i]]]] = Effect[op[s[i]]][@]]
       /\ r[s[i]] = h[i - 1][CellOf[op[s[i]]]]

Explained == \E n \in Nat : \E s, h : Explains(n, s, h)

OneCall == \A p \in PE : calls[p] <= 1

\* A pending store is of the PE's one operation, and the word is what it read.
OneCallInv ==
  /\ \A p \in PE : calls[p] = 0 => pc[p] = "idle" /\ store[p] = NoStore
  /\ \A p \in PE : store[p] # NoStore => Done(p) /\ store[p][1] = CellOf[op[p]]
  /\ \A p \in PE, x \in Cell : Pending(p, x) => r[p] = mem[x]
  /\ Explained

LEMMA InitOneCall == Init => OneCallInv
<1> SUFFICES ASSUME Init PROVE OneCallInv
  OBVIOUS
<1>1. /\ \A p \in PE : ~Done(p) /\ pc[p] = "idle" /\ store[p] = NoStore
      /\ serial = [x \in Cell |-> Start] /\ serial \in [Cell -> Value]
  BY OpAssumption DEF Init, Done
<1>2. Explains(0, [i \in 1..0 |-> i], [i \in 0..0 |-> serial])
  <2>1. 1..0 = {} /\ 0..0 = {0}
    OBVIOUS
  <2> QED BY <1>1, <2>1 DEF Explains
<1>3. Explained
  BY <1>2 DEF Explained
<1> QED BY <1>1, <1>3 DEF OneCallInv, Pending

\* An order stays one as long as no operation reads.
LEMMA SameOrder ==
  ASSUME Explained, serial' = serial,
         \A p \in PE : Done(p)' <=> Done(p),
         \A p \in PE : Done(p) => op'[p] = op[p] /\ r'[p] = r[p]
  PROVE  Explained'
<1>1. PICK n \in Nat : \E s, h : Explains(n, s, h)
  BY DEF Explained
<1>2. PICK s, h : Explains(n, s, h)
  BY <1>1
<1>3. \A i \in 1..n : s[i] \in PE /\ Done(s[i])
  BY <1>2 DEF Explains
<1>4. \A i \in 1..n : op'[s[i]] = op[s[i]] /\ r'[s[i]] = r[s[i]]
  BY <1>3
<1>5. Explains(n, s, h)'
  BY <1>2, <1>4 DEF Explains
<1> QED BY <1>5 DEF Explained

\* An operation that reads the words as all before it left them is the last.
LEMMA LastInOrder ==
  ASSUME Explained, NEW p \in PE, ~Done(p), op[p] \in Op, op' = op, TypeOK, TypeOK',
         r' = [r EXCEPT ![p] = serial[CellOf[op[p]]]],
         serial' = [serial EXCEPT ![CellOf[op[p]]] = Effect[op[p]][@]],
         \A q \in PE : Done(q)' <=> Done(q) \/ q = p
  PROVE  Explained'
<1>1. PICK n \in Nat : \E s, h : Explains(n, s, h)
  BY DEF Explained
<1>2. PICK s, h : Explains(n, s, h)
  BY <1>1
<1> DEFINE N == n + 1
           S == [i \in 1..N |-> IF i = N THEN p ELSE s[i]]
<1>0. PICK H : H = [i \in 0..N |-> IF i = N THEN serial' ELSE h[i]]
  OBVIOUS
<1>3. /\ \A i \in 1..n : s[i] \in PE /\ Done(s[i]) /\ s[i] # p
      /\ \A i \in 0..n : h[i] \in [Cell -> Value]
      /\ h[0] = [x \in Cell |-> Start] /\ h[n] = serial
  BY <1>2 DEF Explains
<1>4. /\ N \in Nat /\ N - 1 = n
      /\ \A i \in 1..N : i \in 1..n \/ i = N
      /\ \A i \in 0..N : i \in 0..n \/ i = N
      /\ \A i \in 1..n : i \in 1..N /\ i # N /\ i - 1 \in 0..n /\ i - 1 # N
      /\ \A i \in 0..n : i \in 0..N /\ i # N
      /\ N \in 1..N /\ N \in 0..N /\ 0 \in 0..n /\ n \in 0..n
      /\ \A i \in 1..n : i \in 0..n
  OBVIOUS
<1> HIDE DEF N
<1>5. /\ S[N] = p /\ \A i \in 1..n : S[i] = s[i]
      /\ H[N] = serial' /\ \A i \in 0..n : H[i] = h[i]
  BY <1>0, <1>4
<1>6. S \in [1..N -> PE] /\ H \in [0..N -> [Cell -> Value]]
  BY <1>0, <1>3, <1>4 DEF TypeOK
<1>7. \A q \in PE : q # p => r'[q] = r[q]
  BY DEF TypeOK
<1>8. r'[p] = serial[CellOf[op[p]]]
  BY DEF TypeOK
<1> HIDE DEF S
<1>9. \A i, j \in 1..N : S[i] = S[j] => i = j
  BY <1>2, <1>3, <1>4, <1>5 DEF Explains
<1>10. \A q \in PE : Done(q)' <=> \E i \in 1..N : S[i] = q
  <2> SUFFICES ASSUME NEW q \in PE PROVE Done(q)' <=> \E i \in 1..N : S[i] = q
    OBVIOUS
  <2>1. Done(q) <=> \E i \in 1..n : s[i] = q
    BY <1>2 DEF Explains
  <2>2. (\E i \in 1..N : S[i] = q) <=> (\E i \in 1..n : s[i] = q) \/ q = p
    BY <1>4, <1>5
  <2> QED BY <2>1, <2>2
<1>11. H[0] = [x \in Cell |-> Start]
  BY <1>3, <1>4, <1>5
<1>12. ASSUME NEW i \in 1..N
       PROVE  /\ H[i] = [H[i - 1] EXCEPT ![CellOf[op[S[i]]]] = Effect[op[S[i]]][@]]
              /\ r'[S[i]] = H[i - 1][CellOf[op[S[i]]]]
  <2>1. CASE i = N
    BY <2>1, <1>3, <1>4, <1>5, <1>8
  <2>2. CASE i \in 1..n
    <3>1. H[i] = h[i] /\ H[i - 1] = h[i - 1] /\ S[i] = s[i] /\ r'[s[i]] = r[s[i]]
      BY <2>2, <1>3, <1>4, <1>5, <1>7
    <3>2. /\ h[i] = [h[i - 1] EXCEPT ![CellOf[op[s[i]]]] = Effect[op[s[i]]][@]]
          /\ r[s[i]] = h[i - 1][CellOf[op[s[i]]]]
      BY <2>2, <1>2 DEF Explains
    <3> QED BY <3>1, <3>2
  <2> QED BY <2>1, <2>2, <1>4
<1>13. Explains(N, S, H)'
  BY <1>5, <1>6, <1>9, <1>10, <1>11, <1>12 DEF Explains
<1> QED BY <1>4, <1>13 DEF Explained

\* A fetch that misses the operation in progress comes before it in the order, one
\* that misses nothing comes last.
LEMMA InsertInOrder ==
  ASSUME Explained, NEW p \in PE, NEW o \in Op, ~Done(p), TypeOK,
         Kind[o] = "fetch", op' = [op EXCEPT ![p] = o], serial' = serial,
         r' = [r EXCEPT ![p] = mem[CellOf[o]]],
         \A q \in PE : Done(q)' <=> Done(q) \/ q = p,
         \/ mem[CellOf[o]] = serial[CellOf[o]]
         \/ \E q \in PE : Done(q) /\ CellOf[op[q]] = CellOf[o] /\ r[q] = mem[CellOf[o]]
  PROVE  Explained'
<1>1. PICK n \in Nat : \E s, h : Explains(n, s, h)
  BY DEF Explained
<1>2. PICK s, h : Explains(n, s, h)
  BY <1>1
<1> DEFINE N == n + 1
           x == CellOf[o]
<1>3. /\ \A i \in 1..n : s[i] \in PE /\ Done(s[i]) /\ s[i] # p
      /\ \A i \in 0..n : h[i] \in [Cell -> Value]
      /\ h[0] = [y \in Cell |-> Start] /\ h[n] = serial
  BY <1>2 DEF Explains
<1>4. PICK m \in 1..N : mem[x] = h[m - 1][x]
  <2>1. CASE mem[x] = serial[x]
    <3>1. N \in 1..N /\ N - 1 = n
      OBVIOUS
    <3> QED BY <2>1, <3>1, <1>3
  <2>2. CASE \E q \in PE : Done(q) /\ CellOf[op[q]] = x /\ r[q] = mem[x]
    <3>1. PICK q \in PE : Done(q) /\ CellOf[op[q]] = x /\ r[q] = mem[x]
      BY <2>2
    <3>2. PICK j \in 1..n : s[j] = q
      BY <3>1, <1>2 DEF Explains
    <3>3. r[s[j]] = h[j - 1][CellOf[op[s[j]]]]
      BY <3>2, <1>2 DEF Explains
    <3>4. j \in 1..N
      OBVIOUS
    <3> QED BY <3>1, <3>2, <3>3, <3>4
  <2> QED BY <2>1, <2>2
<1> DEFINE S == [i \in 1..N |-> IF i < m THEN s[i] ELSE IF i = m THEN p ELSE s[i - 1]]
           H == [i \in 0..N |-> IF i < m THEN h[i] ELSE h[i - 1]]
<1>5. /\ \A i \in 1..N : i < m => S[i] = s[i] /\ i \in 1..n
      /\ \A i \in 1..N : i > m => S[i] = s[i - 1] /\ i - 1 \in 1..n
      /\ S[m] = p
  OBVIOUS
<1>6. /\ \A i \in 0..N : i < m => H[i] = h[i] /\ i \in 0..n
      /\ \A i \in 0..N : i >= m => H[i] = h[i - 1] /\ i - 1 \in 0..n
      /\ H[0] = h[0] /\ H[N] = h[n]
  OBVIOUS
<1>7. S \in [1..N -> PE] /\ H \in [0..N -> [Cell -> Value]]
  <2>1. \A i \in 1..N : S[i] \in PE
    BY <1>3, <1>5
  <2>2. \A i \in 0..N : H[i] \in [Cell -> Value]
    BY <1>3, <1>6
  <2> QED BY <2>1, <2>2
<1>8. /\ \A q \in PE : q # p => r'[q] = r[q] /\ op'[q] = op[q]
      /\ r'[p] = mem[x] /\ op'[p] = o
  BY DEF TypeOK
<1>9. x \in Cell /\ \A v \in Value : Effect[o][v] = v
  BY OpAssumption
<1> HIDE DEF S, H
<1>10. \A i, j \in 1..N : S[i] = S[j] => i = j
  <2>1. \A i, j \in 1..n : s[i] = s[j] => i = j
    BY <1>2 DEF Explains
  <2>2. \A i \in 1..N : S[i] = p => i = m
    BY <1>3, <1>5
  <2> SUFFICES ASSUME NEW i \in 1..N, NEW j \in 1..N, S[i] = S[j] PROVE i = j
    OBVIOUS
  <2>3. CASE i = m \/ j = m
    BY <2>2, <2>3, <1>5
  <2>4. CASE i < m /\ j < m
    BY <2>1, <2>4, <1>5
  <2>5. CASE i < m /\ j > m
    <3>1. i = j - 1
      BY <2>1, <2>5, <1>5
    <3> QED BY <3>1, <2>5
  <2>6. CASE i > m /\ j < m
    <3>1. j = i - 1
      BY <2>1, <2>6, <1>5
    <3> QED BY <3>1, <2>6
  <2>7. CASE i > m /\ j > m
    <3>1. i - 1 = j - 1
      BY <2>1, <2>7, <1>5
    <3> QED BY <3>1
  <2> QED BY <2>3, <2>4, <2>5, <2>6, <2>7
<1>11. \A q \in PE : Done(q)' <=> \E i \in 1..N : S[i] = q
  <2> SUFFICES ASSUME NEW q \in PE PROVE Done(q)' <=> \E i \in 1..N : S[i] = q
    OBVIOUS
  <2>1. Done(q) <=> \E i \in 1..n : s[i] = q
    BY <1>2 DEF Explains
  <2>2. ASSUME NEW j \in 1..n PROVE \E i \in 1..N : S[i] = s[j]
    <3>1. CASE j < m
      BY <3>1, <1>5
    <3>2. CASE j >= m
      <4>1. j + 1 \in 1..N /\ j + 1 > m /\ (j + 1) - 1 = j
        BY <3>2
      <4> QED BY <4>1, <1>5
    <3> QED BY <3>1, <3>2
  <2>3. ASSUME NEW i \in 1..N PROVE S[i] = p \/ \E j \in 1..n : S[i] = s[j]
    <3>1. i < m \/ i = m \/ i > m
      OBVIOUS
    <3> QED BY <3>1, <1>5
  <2> QED BY <2>1, <2>2, <2>3, <1>5
<1>12. ASSUME NEW i \in 1..N
       PROVE  /\ H[i] = [H[i - 1] EXCEPT ![CellOf[op'[S[i]]]] = Effect[op'[S[i]]][@]]
              /\ r'[S[i]] = H[i - 1][CellOf[op'[S[i]]]]
  <2>1. CASE i = m
    <3>1. H[i] = h[m - 1] /\ H[i - 1] = h[m - 1] /\ S[i] = p /\ h[m - 1] \in [Cell -> Value]
      BY <2>1, <1>3, <1>5, <1>6
    <3>2. [h[m - 1] EXCEPT ![x] = Effect[o][@]] = h[m - 1]
      BY <3>1, <1>9
    <3> QED BY <3>1, <3>2, <1>4, <1>8
  <2>2. CASE i # m
    <3>1. PICK j \in 1..n : S[i] = s[j] /\ H[i] = h[j] /\ H[i - 1] = h[j - 1]
      <4>1. CASE i < m
        BY <4>1, <1>5, <1>6
      <4>2. CASE i > m
        <5>1. i - 1 \in 0..N /\ i - 1 >= m
          BY <4>2
        <5> QED BY <4>2, <5>1, <1>5, <1>6
      <4> QED BY <2>2, <4>1, <4>2
    <3>2. r'[s[j]] = r[s[j]] /\ op'[s[j]] = op[s[j]]
      BY <1>3, <1>8
    <3>3. /\ h[j] = [h[j - 1] EXCEPT ![CellOf[op[s[j]]]] = Effect[op[s[j]]][@]]
          /\ r[s[j]] = h[j - 1][CellOf[op[s[j]]]]
      BY <1>2 DEF Explains
    <3> QED BY <3>1, <3>2, <3>3
  <2> QED BY <2>1, <2>2
<1>13. Explains(N, S, H)'
  BY <1>3, <1>6, <1>7, <1>10, <1>11, <1>12 DEF Explains
<1>14. N \in Nat
  OBVIOUS
<1> QED BY <1>13, <1>14 DEF Explained

\* A pending result is its PE's only one, and the only one for its word.
LEMMA PendingHolds ==
  ASSUME IInv, NEW p \in PE, NEW x \in Cell, Pending(p, x)
  PROVE  \E o \in Op : CellOf[o] = x /\ Holds(p, LockOf[o])
<1>1. CASE pc[p] = "write" /\ CellOf[op[p]] = x
  BY <1>1 DEF IInv, TypeOK, Holds, Critical
<1>2. CASE store[p] # NoStore /\ store[p][1] = x
  BY <1>2 DEF IInv, StoreUnderLock, Holds, Critical
<1> QED BY <1>1, <1>2 DEF Pending

LEMMA PendingAlone ==
  ASSUME IInv, NEW p \in PE, NEW q \in PE, NEW x \in Cell, Pending(p, x), Pending(q, x)
  PROVE  p = q
<1>1. PICK o1 \in Op : CellOf[o1] = x /\ Holds(p, LockOf[o1])
  BY PendingHolds
<1>2. PICK o2 \in Op : CellOf[o2] = x /\ Holds(q, LockOf[o2])
  BY PendingHolds
<1>3. LockOf[o1] = LockOf[o2] /\ LockOf[o1] \in Lock
  BY <1>1, <1>2, OneTypeAssumption, OpAssumption
<1> QED BY <1>1, <1>2, <1>3 DEF IInv, MutualExclusion

LEMMA PendingDone ==
  ASSUME IInv, OneCall, OneCallInv, NEW p \in PE, NEW x \in Cell, Pending(p, x)
  PROVE  Done(p) /\ CellOf[op[p]] = x
<1>1. calls[p] \in 0..1
  <2>1. calls[p] \in 0..MaxCalls /\ calls[p] <= 1
    BY DEF OneCall, IInv, TypeOK
  <2>2. MaxCalls \in Nat
    BY OpAssumption
  <2> QED BY <2>1, <2>2
<1>2. CASE pc[p] = "write" /\ CellOf[op[p]] = x
  BY <1>1, <1>2 DEF OneCallInv, Done
<1>3. CASE store[p] # NoStore /\ store[p][1] = x
  BY <1>3 DEF OneCallInv
<1> QED BY <1>2, <1>3 DEF Pending

\* A call is the PE's first.
LEMMA FirstCall ==
  ASSUME IInv, OneCallInv, OneCall', NEW p \in PE, NEW o \in Op, Call(p, o)
  PROVE  /\ calls[p] = 0 /\ ~Done(p) /\ store[p] = NoStore /\ pc[p] = "idle"
         /\ calls'[p] = 1 /\ op'[p] = o
         /\ \A q \in PE : q # p => calls'[q] = calls[q] /\ op'[q] = op[q]
<1>1. calls \in [PE -> 0..MaxCalls] /\ op \in [PE -> Op] /\ calls[p] \in Nat
  BY OpAssumption DEF IInv, TypeOK
<1>2. /\ calls'[p] = calls[p] + 1 /\ op'[p] = o
      /\ \A q \in PE : q # p => calls'[q] = calls[q] /\ op'[q] = op[q]
  BY <1>1 DEF Call
<1>3. calls'[p] <= 1
  BY DEF OneCall
<1>4. calls[p] = 0
  BY <1>1, <1>2, <1>3
<1> QED BY <1>2, <1>4 DEF OneCallInv, Done

LEMMA BeginOneCall ==
  ASSUME IInv, OneCall, OneCallInv, OneCall', NEW p \in PE, NEW o \in Op, Begin(p, o)
  PROVE  OneCallInv'
<1>1. Call(p, o) /\ UNCHANGED <<mem, lock, r, store, release, serial>>
      /\ pc' = [pc EXCEPT ![p] = "lock"]
  BY DEF Begin
<1>2. pc'[p] = "lock" /\ \A q \in PE : q # p => pc'[q] = pc[q]
  BY <1>1 DEF IInv, TypeOK
<1>3. /\ calls[p] = 0 /\ ~Done(p) /\ store[p] = NoStore /\ calls'[p] = 1
      /\ \A q \in PE : q # p => calls'[q] = calls[q] /\ op'[q] = op[q]
  BY <1>1, FirstCall
<1>4. ~Done(p)' /\ \A q \in PE : Done(q)' <=> Done(q)
  BY <1>2, <1>3 DEF Done
<1>5. ASSUME NEW q \in PE, NEW x \in Cell, Pending(q, x)' PROVE q # p /\ Pending(q, x)
  BY <1>1, <1>2, <1>3, <1>5 DEF Pending
<1>6. Explained'
  BY <1>1, <1>3, <1>4, SameOrder DEF OneCallInv
<1>7. \A q \in PE : calls'[q] = 0 => pc'[q] = "idle" /\ store'[q] = NoStore
  BY <1>1, <1>2, <1>3 DEF OneCallInv
<1>8. \A q \in PE : store'[q] # NoStore => Done(q)' /\ store'[q][1] = CellOf[op'[q]]
  BY <1>1, <1>3, <1>4 DEF OneCallInv
<1>9. \A q \in PE, x \in Cell : Pending(q, x)' => r'[q] = mem'[x]
  BY <1>1, <1>5 DEF OneCallInv
<1> QED BY <1>6, <1>7, <1>8, <1>9 DEF OneCallInv

LEMMA FetchOneCall ==
  ASSUME IInv, OneCall, OneCallInv, OneCall', NEW p \in PE, NEW o \in Op, Fetch(p, o)
  PROVE  OneCallInv'
<1>1. /\ Call(p, o) /\ Kind[o] = "fetch" /\ UNCHANGED <<mem, lock, pc, store, release, serial>>
      /\ r' = [r EXCEPT ![p] = mem[CellOf[o]]] /\ op' = [op EXCEPT ![p] = o]
  BY DEF Fetch, Call
<1>2. \A q \in PE : q # p => r'[q] = r[q]
  BY <1>1 DEF IInv, TypeOK
<1>3. /\ calls[p] = 0 /\ ~Done(p) /\ store[p] = NoStore /\ calls'[p] = 1 /\ pc[p] = "idle"
      /\ \A q \in PE : q # p => calls'[q] = calls[q] /\ op'[q] = op[q]
  BY <1>1, FirstCall
<1>4. \A q \in PE : Done(q)' <=> Done(q) \/ q = p
  BY <1>1, <1>3 DEF Done
<1>5. ASSUME NEW q \in PE, NEW x \in Cell, Pending(q, x)' PROVE q # p /\ Pending(q, x)
  BY <1>1, <1>3, <1>5 DEF Pending
<1>6. CellOf[o] \in Cell
  BY OpAssumption
<1>7. \/ mem[CellOf[o]] = serial[CellOf[o]]
      \/ \E q \in PE : Done(q) /\ CellOf[op[q]] = CellOf[o] /\ r[q] = mem[CellOf[o]]
  <2>1. CASE \A q \in PE : ~Pending(q, CellOf[o])
    BY <2>1, <1>6 DEF IInv, MemoryIsSerial
  <2>2. ASSUME NEW q \in PE, Pending(q, CellOf[o])
        PROVE  Done(q) /\ CellOf[op[q]] = CellOf[o] /\ r[q] = mem[CellOf[o]]
    BY <2>2, <1>6, PendingDone DEF OneCallInv
  <2> QED BY <2>1, <2>2
<1>8. Explained'
  BY <1>1, <1>3, <1>4, <1>7, InsertInOrder DEF OneCallInv, IInv
<1>9. \A q \in PE : calls'[q] = 0 => pc'[q] = "idle" /\ store'[q] = NoStore
  BY <1>1, <1>3 DEF OneCallInv
<1>10. \A q \in PE : store'[q] # NoStore => Done(q)' /\ store'[q][1] = CellOf[op'[q]]
  BY <1>1, <1>3, <1>4 DEF OneCallInv
<1>11. \A q \in PE, x \in Cell : Pending(q, x)' => r'[q] = mem'[x]
  BY <1>1, <1>2, <1>5 DEF OneCallInv
<1> QED BY <1>8, <1>9, <1>10, <1>11 DEF OneCallInv

LEMMA ReadOneCall ==
  ASSUME IInv, IInv', OneCall, OneCallInv, NEW p \in PE, Read(p)
  PROVE  OneCallInv'
<1> DEFINE x == CellOf[op[p]]
<1>1. /\ pc[p] = "read" /\ UNCHANGED <<mem, lock, op, store, release, calls>>
      /\ r' = [r EXCEPT ![p] = mem[x]]
      /\ pc' = [pc EXCEPT ![p] = IF mem[x] \in Stores[op[p]] THEN "write" ELSE "clear"]
      /\ serial' = [serial EXCEPT ![x] = Effect[op[p]][@]]
  BY DEF Read
<1>2. /\ pc'[p] \in {"write", "clear"} /\ r'[p] = mem[x]
      /\ \A q \in PE : q # p => pc'[q] = pc[q] /\ r'[q] = r[q]
  BY <1>1 DEF IInv, TypeOK
<1>3. op[p] \in Op /\ calls[p] \in 0..1
  <2>1. calls[p] \in 0..MaxCalls /\ calls[p] <= 1 /\ op[p] \in Op
    BY DEF OneCall, IInv, TypeOK
  <2>2. MaxCalls \in Nat
    BY OpAssumption
  <2> QED BY <2>1, <2>2
<1>4. calls[p] = 1 /\ ~Done(p) /\ store[p] = NoStore
  BY <1>1, <1>3 DEF OneCallInv, Done
<1>5. \A q \in PE : Done(q)' <=> Done(q) \/ q = p
  BY <1>1, <1>2, <1>4 DEF Done
<1>6. mem[x] = serial[x]
  BY <1>1, HolderReadsSerial
<1>7. Explained'
  BY <1>1, <1>3, <1>4, <1>5, <1>6, LastInOrder DEF OneCallInv, IInv
<1>8. \A q \in PE : calls'[q] = 0 => pc'[q] = "idle" /\ store'[q] = NoStore
  BY <1>1, <1>2, <1>4 DEF OneCallInv
<1>9. \A q \in PE : store'[q] # NoStore => Done(q)' /\ store'[q][1] = CellOf[op'[q]]
  BY <1>1, <1>5 DEF OneCallInv
<1>10. ASSUME NEW q \in PE, NEW y \in Cell, Pending(q, y)' PROVE r'[q] = mem'[y]
  <2>1. CASE q = p
    <3>1. y = x
      BY <1>10, <2>1, <1>1, <1>4 DEF Pending
    <3> QED BY <3>1, <2>1, <1>1, <1>2
  <2>2. CASE q # p
    <3>1. Pending(q, y)
      BY <1>10, <2>2, <1>1, <1>2 DEF Pending
    <3> QED BY <3>1, <2>2, <1>1, <1>2 DEF OneCallInv
  <2> QED BY <2>1, <2>2
<1> QED BY <1>7, <1>8, <1>9, <1>10 DEF OneCallInv

LEMMA WriteOneCall ==
  ASSUME IInv, OneCall, OneCallInv, NEW p \in PE, Write(p)
  PROVE  OneCallInv'
<1> DEFINE x == CellOf[op[p]]
           n == Effect[op[p]][r[p]]
<1>1. /\ pc[p] = "write" /\ UNCHANGED <<mem, lock, op, r, release, calls, serial>>
      /\ store' = [store EXCEPT ![p] = <<x, n>>]
      /\ pc' = [pc EXCEPT ![p] = "clear"]
  BY DEF Write
<1>2. /\ pc'[p] = "clear" /\ store'[p] = <<x, n>> /\ store'[p][1] = x
      /\ \A q \in PE : q # p => pc'[q] = pc[q] /\ store'[q] = store[q]
  BY <1>1 DEF IInv, TypeOK
<1>3. x \in Cell /\ Pending(p, x)
  BY <1>1, OpAssumption DEF IInv, TypeOK, Pending
<1>4. Done(p) /\ calls[p] = 1
  BY <1>3, PendingDone DEF Done
<1>5. \A q \in PE : Done(q)' <=> Done(q)
  BY <1>1, <1>2, <1>4 DEF Done
<1>6. ASSUME NEW q \in PE, NEW y \in Cell, Pending(q, y)' PROVE Pending(q, y)
  <2>1. CASE q = p
    BY <1>6, <2>1, <1>1, <1>2, <1>3 DEF Pending
  <2>2. CASE q # p
    BY <1>6, <2>2, <1>1, <1>2 DEF Pending
  <2> QED BY <2>1, <2>2
<1>7. Explained'
  BY <1>1, <1>5, SameOrder DEF OneCallInv
<1>8. \A q \in PE : calls'[q] = 0 => pc'[q] = "idle" /\ store'[q] = NoStore
  BY <1>1, <1>2, <1>4 DEF OneCallInv
<1>9. \A q \in PE : store'[q] # NoStore => Done(q)' /\ store'[q][1] = CellOf[op'[q]]
  BY <1>1, <1>2, <1>4, <1>5 DEF OneCallInv
<1>10. \A q \in PE, y \in Cell : Pending(q, y)' => r'[q] = mem'[y]
  BY <1>1, <1>6 DEF OneCallInv
<1> QED BY <1>7, <1>8, <1>9, <1>10 DEF OneCallInv

\* The store that lands was the only one pending for its word.
LEMMA LandOneCall ==
  ASSUME IInv, OneCall, OneCallInv, NEW p \in PE, LandStore(p)
  PROVE  OneCallInv'
<1> DEFINE x == store[p][1]
<1>1. /\ store[p] # NoStore /\ UNCHANGED <<lock, pc, op, r, release, calls, serial>>
      /\ mem' = [mem EXCEPT ![x] = store[p][2]]
      /\ store' = [store EXCEPT ![p] = NoStore]
  BY DEF LandStore
<1>2. /\ x \in Cell /\ store'[p] = NoStore
      /\ \A q \in PE : q # p => store'[q] = store[q]
      /\ \A y \in Cell : y # x => mem'[y] = mem[y]
  BY <1>1 DEF IInv, TypeOK
<1>3. x = CellOf[op[p]]
  BY <1>1 DEF OneCallInv
<1>4. pc[p] # "write"
  <2>1. PICK o \in Op : /\ CellOf[o] = x
                        /\ (pc[p] = "clear" /\ op[p] = o) \/ release[p] = LockOf[o]
    BY <1>1 DEF IInv, StoreUnderLock
  <2>2. LockOf[o] = LockOf[op[p]]
    BY <2>1, <1>3, OneTypeAssumption DEF IInv, TypeOK
  <2> QED BY <2>1, <2>2 DEF IInv, MutualExclusion, Critical
<1>5. \A q \in PE : Done(q)' <=> Done(q)
  BY <1>1 DEF Done
<1>6. ASSUME NEW q \in PE, NEW y \in Cell, Pending(q, y)' PROVE r'[q] = mem'[y]
  <2>1. q # p /\ Pending(q, y)
    BY <1>6, <1>1, <1>2, <1>4 DEF Pending
  <2>2. Pending(p, x)
    BY <1>1 DEF Pending
  <2>3. y # x
    BY <2>1, <2>2, PendingAlone
  <2> QED BY <2>1, <2>3, <1>1, <1>2 DEF OneCallInv
<1>7. Explained'
  BY <1>1, <1>5, SameOrder DEF OneCallInv
<1>8. \A q \in PE : calls'[q] = 0 => pc'[q] = "idle" /\ store'[q] = NoStore
  BY <1>1, <1>2 DEF OneCallInv
<1>9. \A q \in PE : store'[q] # NoStore => Done(q)' /\ store'[q][1] = CellOf[op'[q]]
  BY <1>1, <1>2, <1>5 DEF OneCallInv
<1> QED BY <1>6, <1>7, <1>8, <1>9 DEF OneCallInv

\* The lock changes nothing that is read or pending.
LEMMA LockOneCall ==
  ASSUME IInv, OneCallInv, NEW p \in PE, Acquire(p) \/ Clear(p) \/ LandRelease(p)
  PROVE  OneCallInv'
<1>1. UNCHANGED <<mem, op, r, store, calls, serial>>
  BY DEF Acquire, Clear, LandRelease
<1>2. \A q \in PE : \/ pc'[q] = pc[q]
                    \/ pc[q] = "lock" /\ pc'[q] = "read"
                    \/ pc[q] = "clear" /\ pc'[q] = "idle"
  BY DEF Acquire, Clear, LandRelease, IInv, TypeOK
<1>3. \A q \in PE : Done(q)' <=> Done(q)
  BY <1>1, <1>2 DEF Done
<1>4. \A q \in PE, x \in Cell : Pending(q, x)' <=> Pending(q, x)
  BY <1>1, <1>2 DEF Pending
<1>5. Explained'
  BY <1>1, <1>3, SameOrder DEF OneCallInv
<1>6. \A q \in PE : calls'[q] = 0 => pc'[q] = "idle" /\ store'[q] = NoStore
  BY <1>1, <1>2 DEF OneCallInv
<1>7. \A q \in PE : store'[q] # NoStore => Done(q)' /\ store'[q][1] = CellOf[op'[q]]
  BY <1>1, <1>3 DEF OneCallInv
<1>8. \A q \in PE, x \in Cell : Pending(q, x)' => r'[q] = mem'[x]
  BY <1>1, <1>4 DEF OneCallInv
<1> QED BY <1>5, <1>6, <1>7, <1>8 DEF OneCallInv

LEMMA NextOneCall ==
  ASSUME NoSet, IInv, IInv', OneCall => OneCallInv, [Next]_vars
  PROVE  (OneCall => OneCallInv)'
<1> SUFFICES ASSUME OneCall' PROVE OneCallInv'
  OBVIOUS
<1>1. calls \in [PE -> Nat] /\ calls' \in [PE -> Nat]
  BY OpAssumption DEF IInv, TypeOK
<1>2. \A p \in PE : calls[p] <= calls'[p]
  <2>1. ASSUME NEW p \in PE, NEW o \in Op, Call(p, o) PROVE \A q \in PE : calls[q] <= calls'[q]
    BY <2>1, <1>1 DEF Call
  <2>2. CASE calls' = calls
    BY <2>2, <1>1
  <2> QED BY <2>1, <2>2 DEF Next, Begin, Set, Fetch, Step, Acquire, Read, Write, Clear,
             Land, LandStore, LandRelease, Finished, vars
<1>3. OneCall /\ OneCallInv
  BY <1>1, <1>2 DEF OneCall
<1>4. CASE UNCHANGED vars
  <2>1. \A q \in PE : Done(q)' <=> Done(q)
    BY <1>4 DEF vars, Done
  <2>2. Explained'
    BY <2>1, <1>3, <1>4, SameOrder DEF vars, OneCallInv
  <2> QED BY <2>1, <2>2, <1>3, <1>4 DEF vars, OneCallInv, Pending
<1>5. ASSUME NEW p \in PE, NEW o \in Op, Set(p, o) PROVE FALSE
  BY <1>5 DEF Set, NoSet
<1> QED BY <1>3, <1>4, <1>5, BeginOneCall, FetchOneCall, ReadOneCall, WriteOneCall,
           LandOneCall, LockOneCall DEF Next, Step, Land, Finished

\* After(s), which is defined by recursion, is what an order goes through.
Follows(s, f) ==
  f = [i \in 0..Cardinality(PE) |->
         IF i = 0 THEN [x \in Cell |-> Start]
         ELSE [f[i - 1] EXCEPT ![CellOf[op[s[i]]]] = Effect[op[s[i]]][@]]]

LEMMA AfterFollows == ASSUME NEW s, NEW h, Follows(s, h) PROVE Follows(s, After(s))
<1> DEFINE g == CHOOSE f : Follows(s, f)
<1>1. Follows(s, g)
  OBVIOUS
<1>2. After(s) = g
  BY DEF After, Follows
<1> QED BY <1>1, <1>2

LEMMA AfterIsOrder ==
  ASSUME NEW s, NEW h, Cardinality(PE) \in Nat, Explains(Cardinality(PE), s, h)
  PROVE  \A i \in 0..Cardinality(PE) : After(s)[i] = h[i]
<1> DEFINE N == Cardinality(PE)
           f == After(s)
<1>1. Follows(s, h)
  <2> DEFINE g == [i \in 0..N |->
                     IF i = 0 THEN [x \in Cell |-> Start]
                     ELSE [h[i - 1] EXCEPT ![CellOf[op[s[i]]]] = Effect[op[s[i]]][@]]]
  <2>1. h \in [0..N -> [Cell -> Value]]
    BY DEF Explains
  <2>2. ASSUME NEW i \in 0..N PROVE h[i] = g[i]
    <3>1. CASE i = 0
      BY <3>1 DEF Explains
    <3>2. CASE i # 0
      <4>1. i \in 1..N
        BY <3>2
      <4> QED BY <3>2, <4>1 DEF Explains
    <3> QED BY <3>1, <3>2
  <2>3. h = g
    BY <2>1, <2>2
  <2> QED BY <2>3 DEF Follows
<1>2. Follows(s, f)
  BY <1>1, AfterFollows
<1>3. f[0] = h[0]
  <2>1. 0 \in 0..N
    OBVIOUS
  <2>2. f[0] = [x \in Cell |-> Start]
    BY <2>1, <1>2 DEF Follows
  <2>3. h[0] = [x \in Cell |-> Start]
    BY DEF Explains
  <2> QED BY <2>2, <2>3
<1>4. ASSUME NEW i \in 1..N, f[i - 1] = h[i - 1] PROVE f[i] = h[i]
  <2>1. i \in 0..N /\ i # 0
    OBVIOUS
  <2>2. f[i] = [f[i - 1] EXCEPT ![CellOf[op[s[i]]]] = Effect[op[s[i]]][@]]
    BY <2>1, <1>2 DEF Follows
  <2>3. h[i] = [h[i - 1] EXCEPT ![CellOf[op[s[i]]]] = Effect[op[s[i]]][@]]
    BY <2>1, <1>1 DEF Follows
  <2> QED BY <2>2, <2>3, <1>4
<1> DEFINE T == {i \in 0..N : f[i] # h[i]}
<1> HIDE DEF f
<1>5. T = {}
  <2> SUFFICES ASSUME T # {} PROVE FALSE
    OBVIOUS
  <2>1. T \in SUBSET Nat
    OBVIOUS
  <2>2. PICK n \in T : \A m \in T : n <= m
    BY <2>1, LeastNat
  <2>3. n \in 1..N /\ n - 1 \in 0..N /\ ~(n <= n - 1)
    BY <2>2, <1>3
  <2>4. f[n - 1] = h[n - 1]
    BY <2>2, <2>3
  <2> QED BY <2>2, <2>3, <2>4, <1>4
<1> QED BY <1>5 DEF f

\* Without atomic_set, when everything has landed the operations, one of each PE, took
\* effect one at a time in some order, each reading what the one before it left
\* (report.tex:96-98), a fetch too, although it takes no lock: one that missed an operation in
\* progress is ordered before it.
THEOREM OperationsSerialize ==
  ASSUME NoSet, IsFiniteSet(PE) PROVE Spec => []Serializable
<1>1. NoSet /\ IsFiniteSet(PE)
  OBVIOUS
<1>2. IInv /\ (OneCall => OneCallInv) => Serializable
  <2> SUFFICES ASSUME IInv, OneCall => OneCallInv,
                      \A p \in PE : pc[p] = "idle" /\ calls[p] = 1 /\ CanStore(p)
               PROVE  \E s \in Order :
                        /\ mem = After(s)[Cardinality(PE)]
                        /\ \A i \in DOMAIN s : Kind[op[s[i]]] # "set" =>
                             r[s[i]] = After(s)[i - 1][CellOf[op[s[i]]]]
    BY DEF Serializable
  <2>1. \A p \in PE : Done(p)
    BY DEF Done
  <2>2. Explained
    BY DEF OneCall, OneCallInv
  <2>3. PICK n \in Nat : \E s, h : Explains(n, s, h)
    BY <2>2 DEF Explained
  <2>4. PICK s, h : Explains(n, s, h)
    BY <2>3
  <2>5. n = Cardinality(PE)
    <3>1. s \in Bijection(1..n, PE)
      <4>1. s \in [1..n -> PE] /\ \A i, j \in 1..n : s[i] = s[j] => i = j
        BY <2>4 DEF Explains
      <4>2. \A p \in PE : \E i \in 1..n : s[i] = p
        BY <2>1, <2>4 DEF Explains
      <4>3. s \in Injection(1..n, PE)
        BY <4>1 DEF Injection, IsInjective
      <4>4. s \in Surjection(1..n, PE)
        BY <4>1, <4>2 DEF Surjection
      <4> QED BY <4>3, <4>4 DEF Bijection
    <3>2. ExistsBijection(1..n, PE)
      BY <3>1 DEF ExistsBijection
    <3>3. IsFiniteSet(1..n) /\ Cardinality(1..n) = n
      BY FS_Interval
    <3> QED BY <3>2, <3>3, FS_Bijection
  <2>6. s \in Order /\ DOMAIN s = 1..n
    BY <2>1, <2>4, <2>5 DEF Explains, Order
  <2>7. \A i \in 0..n : After(s)[i] = h[i]
    BY <2>4, <2>5, AfterIsOrder
  <2>8. mem = serial
    <3>1. \A x \in Cell : mem[x] = serial[x]
      BY DEF IInv, MemoryIsSerial, Pending, CanStore
    <3> QED BY <3>1 DEF IInv, TypeOK
  <2>9. mem = After(s)[n]
    BY <2>4, <2>7, <2>8 DEF Explains
  <2>10. ASSUME NEW i \in 1..n PROVE r[s[i]] = After(s)[i - 1][CellOf[op[s[i]]]]
    <3>1. i - 1 \in 0..n
      OBVIOUS
    <3> QED BY <3>1, <2>4, <2>7 DEF Explains
  <2> QED BY <2>5, <2>6, <2>9, <2>10
<1>3. Init => IInv /\ (OneCall => OneCallInv)
  BY InitIInv, InitOneCall
<1>4. IInv /\ (OneCall => OneCallInv) /\ [Next]_vars => (IInv /\ (OneCall => OneCallInv))'
  BY <1>1, NextIInv, NextOneCall
<1> QED BY <1>2, <1>3, <1>4, PTL DEF Spec

==============================================================================

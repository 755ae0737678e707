---------------------------- MODULE ShmemNbiProof ----------------------------
(* Proofs about copies that go on without the core that asked for them:       *)
(* ShmemNbi, for every set of PEs and copies and any number of calls, and     *)
(* ShmemIpiGet, for every set of PEs.                                         *)
EXTENDS ShmemNbi, FiniteSetTheorems, TLAPS

LEMMA BytesAreAddresses ==
  ASSUME NEW x \in Copies
  PROVE  /\ x.dst \in Nat /\ x.nbytes \in Nat \ {0} /\ x.pe \in DestPE
         /\ Last(x) \in Bytes(x) /\ Last(x) \in Nat
         /\ \A j \in 0..(x.nbytes - 1) : x.dst + j \in Addr /\ x.dst + j \in Nat
         /\ \A a \in Bytes(x) : a \in Addr /\ a \in Nat
<1>1. x.dst \in Nat /\ x.nbytes \in Nat \ {0} /\ x.pe \in DestPE
  BY CopiesAssumption
<1>2. \A a \in Bytes(x) : a \in Addr /\ a \in Nat
  <2>1. Bytes(x) \subseteq Addr
    BY DEF Addr
  <2> QED BY <1>1, <2>1 DEF Bytes
<1>3. \A j \in 0..(x.nbytes - 1) : x.dst + j \in Bytes(x)
  BY <1>1 DEF Bytes
<1>4. Last(x) \in Bytes(x) /\ Last(x) \in Nat
  BY <1>1 DEF Bytes, Last
<1> QED BY <1>1, <1>2, <1>3, <1>4

LEMMA FlagIsAddress == Flag \in Addr
BY DEF Addr

LEMMA StoresHaveTypes ==
  ASSUME NbiTypeOK, NEW q \in DestPE, NEW i \in 1..Len(sent[q])
  PROVE  /\ sent[q][i] \in TStore
         /\ sent[q][i].a \in Addr /\ sent[q][i].v \in Nat
<1>1. sent[q] \in Seq(TStore)
  BY DEF NbiTypeOK
<1>2. sent[q][i] \in TStore
  BY <1>1
<1> QED BY <1>2 DEF TStore

LEMMA AskedHaveTypes ==
  ASSUME NbiTypeOK, NEW n \in 1..Len(asked)
  PROVE  asked[n] \in Copies /\ asked[n].pe \in DestPE
<1>1. asked \in Seq(Copies)
  BY DEF NbiTypeOK
<1>2. asked[n] \in Copies
  BY <1>1
<1> QED BY <1>2, CopiesAssumption

\* The stores to a PE are a log: a store adds one and leaves the others alone.
Appended(q, a, v) ==
  /\ \A u \in DestPE : u # q => sent'[u] = sent[u]
  /\ Len(sent'[q]) = Len(sent[q]) + 1 /\ Len(sent[q]) \in Nat
  /\ \A i \in 1..Len(sent[q]) : sent'[q][i] = sent[q][i]
  /\ sent'[q][Len(sent[q]) + 1] = [a |-> a, v |-> v]

LEMMA StoreAppends ==
  ASSUME NbiTypeOK, NEW q \in DestPE, NEW a \in Addr, NEW v \in Nat, Store(q, a, v)
  PROVE  /\ Appended(q, a, v)
         /\ sent' \in [DestPE -> Seq(TStore)]
         /\ landed' \in [DestPE -> Nat] /\ memory' \in [DestPE -> [Addr -> Nat]]
         /\ \A u \in DestPE : u # q => landed'[u] = landed[u] /\ memory'[u] = memory[u]
         /\ q = my_pe => /\ landed'[q] = landed[q] + 1
                         /\ memory'[q] = [memory[q] EXCEPT ![a] = v]
         /\ q # my_pe => landed'[q] = landed[q] /\ memory'[q] = memory[q]
<1> DEFINE e == [a |-> a, v |-> v]
<1>1. /\ sent[q] \in Seq(TStore) /\ e \in TStore
      /\ landed[q] \in Nat /\ memory[q] \in [Addr -> Nat]
  BY DEF NbiTypeOK, TStore
<1>2. sent' = [sent EXCEPT ![q] = Append(@, e)]
  BY DEF Store
<1>3. sent'[q] = Append(sent[q], e) /\ \A u \in DestPE : u # q => sent'[u] = sent[u]
  BY <1>2 DEF NbiTypeOK
<1>4. /\ Append(sent[q], e) \in Seq(TStore)
      /\ Len(Append(sent[q], e)) = Len(sent[q]) + 1 /\ Len(sent[q]) \in Nat
      /\ \A i \in 1..Len(sent[q]) : Append(sent[q], e)[i] = sent[q][i]
      /\ Append(sent[q], e)[Len(sent[q]) + 1] = e
  BY <1>1
<1>5. sent' \in [DestPE -> Seq(TStore)]
  <2>1. sent \in [DestPE -> Seq(TStore)] /\ Append(sent[q], e) \in Seq(TStore)
    BY <1>4 DEF NbiTypeOK
  <2> HIDE DEF e
  <2> QED BY <1>2, <2>1
<1>6. /\ landed \in [DestPE -> Nat] /\ memory \in [DestPE -> [Addr -> Nat]]
  BY DEF NbiTypeOK
<1>7. /\ landed' \in [DestPE -> Nat] /\ memory' \in [DestPE -> [Addr -> Nat]]
      /\ \A u \in DestPE : u # q => landed'[u] = landed[u] /\ memory'[u] = memory[u]
      /\ q = my_pe => /\ landed'[q] = landed[q] + 1
                      /\ memory'[q] = [memory[q] EXCEPT ![a] = v]
      /\ q # my_pe => landed'[q] = landed[q] /\ memory'[q] = memory[q]
  <2>1. CASE q = my_pe
    <3>1. /\ memory' = [memory EXCEPT ![q][a] = v]
          /\ landed' = [landed EXCEPT ![q] = @ + 1]
      BY <2>1 DEF Store
    <3> QED BY <2>1, <3>1, <1>6
  <2>2. CASE q # my_pe
    BY <2>2, <1>6 DEF Store
  <2> QED BY <2>1, <2>2
<1>8. Len(sent'[q]) = Len(sent[q]) + 1 /\ Len(sent[q]) \in Nat
  BY <1>3, <1>4
<1>9. \A i \in 1..Len(sent[q]) : sent'[q][i] = sent[q][i]
  BY <1>3, <1>4
<1>10. sent'[q][Len(sent[q]) + 1] = [a |-> a, v |-> v]
  BY <1>3, <1>4
<1>11. Appended(q, a, v)
  BY <1>3, <1>8, <1>9, <1>10 DEF Appended
<1> QED BY <1>5, <1>7, <1>11

LEMMA LogGrows ==
  ASSUME NbiTypeOK, NEW q \in DestPE, NEW a \in Addr, NEW v \in Nat, Store(q, a, v),
         NEW u \in DestPE
  PROVE  /\ Len(sent[u]) \in Nat /\ Len(sent'[u]) >= Len(sent[u]) /\ Len(sent'[u]) \in Nat
         /\ \A i \in 1..Len(sent[u]) : sent'[u][i] = sent[u][i]
<1>0. Appended(q, a, v)
  BY StoreAppends
<1>1. CASE u = q
  BY <1>0, <1>1 DEF Appended
<1>2. CASE u # q
  <2>1. sent'[u] = sent[u]
    BY <1>2, <1>0 DEF Appended
  <2>2. sent[u] \in Seq(TStore)
    BY DEF NbiTypeOK
  <2> QED BY <2>1, <2>2
<1> QED BY <1>1, <1>2

\* A store that is not older than those to its address keeps them in order,
\* and memory what has landed.
LEMMA StoreInOrder ==
  ASSUME NbiTypeOK, LaterIsGreater, MemoryIsWhatLanded,
         NEW q \in DestPE, NEW a \in Addr, NEW v \in Nat, Store(q, a, v),
         \A k \in 1..Len(sent[q]) : sent[q][k].a = a => sent[q][k].v <= v
  PROVE  LaterIsGreater' /\ MemoryIsWhatLanded'
<1> DEFINE n == Len(sent[q])
<1>0. /\ Appended(q, a, v)
      /\ \A u \in DestPE : u # q => landed'[u] = landed[u] /\ memory'[u] = memory[u]
      /\ q = my_pe => /\ landed'[q] = landed[q] + 1
                      /\ memory'[q] = [memory[q] EXCEPT ![a] = v]
      /\ q # my_pe => landed'[q] = landed[q] /\ memory'[q] = memory[q]
  BY StoreAppends
<1>1. /\ \A u \in DestPE : u # q => /\ sent'[u] = sent[u] /\ landed'[u] = landed[u]
                                      /\ memory'[u] = memory[u]
      /\ Len(sent'[q]) = n + 1 /\ n \in Nat
      /\ \A i \in 1..n : sent'[q][i] = sent[q][i]
      /\ sent'[q][n + 1] = [a |-> a, v |-> v]
      /\ q = my_pe => /\ landed'[q] = landed[q] + 1
                      /\ memory'[q] = [memory[q] EXCEPT ![a] = v]
      /\ q # my_pe => landed'[q] = landed[q] /\ memory'[q] = memory[q]
  BY <1>0 DEF Appended
<1>2. \A i \in 1..n : sent[q][i].v \in Nat /\ sent[q][i].a \in Addr
  BY StoresHaveTypes
<1>3. LaterIsGreater'
  <2> SUFFICES ASSUME NEW u \in DestPE, NEW i \in 1..Len(sent'[u]), NEW k \in 1..Len(sent'[u]),
                      k <= i, sent'[u][k].a = sent'[u][i].a
               PROVE  sent'[u][k].v <= sent'[u][i].v
    BY DEF LaterIsGreater
  <2>1. CASE u # q
    BY <2>1, <1>1 DEF LaterIsGreater
  <2>2. CASE u = q /\ i = n + 1 /\ k = n + 1
    BY <2>2, <1>1
  <2>3. CASE u = q /\ i = n + 1 /\ k # n + 1
    BY <2>3, <1>1
  <2>4. CASE u = q /\ i # n + 1
    <3>1. i \in 1..n /\ k \in 1..n
      BY <2>4, <1>1
    <3>2. sent'[q][i] = sent[q][i] /\ sent'[q][k] = sent[q][k]
      BY <3>1, <1>1
    <3> QED BY <2>4, <3>1, <3>2 DEF LaterIsGreater
  <2> QED BY <2>1, <2>2, <2>3, <2>4
<1>4. MemoryIsWhatLanded'
  <2>1. landed'[my_pe] = Len(sent'[my_pe])
    BY <1>1, CopiesAssumption DEF MemoryIsWhatLanded
  <2>2. ASSUME NEW u \in DestPE, u # q \/ q # my_pe
        PROVE  MemoryOf(u)'
    <3>1. /\ landed'[u] = landed[u] /\ memory'[u] = memory[u] /\ landed[u] <= Len(sent[u])
          /\ landed[u] \in Nat
          /\ Len(sent[u]) <= Len(sent'[u])
      BY <2>2, <1>1 DEF MemoryIsWhatLanded, MemoryOf, NbiTypeOK
    <3>2. \A i \in 1..landed[u] : sent'[u][i] = sent[u][i]
      BY <2>2, <3>1, <1>1
    <3>3. landed'[u] <= Len(sent'[u])
      BY <3>1, <2>2, <1>1
    <3>4. \A i \in 1..landed'[u] : memory'[u][sent'[u][i].a] >= sent'[u][i].v
      BY <3>1, <3>2 DEF MemoryIsWhatLanded, MemoryOf
    <3>5. ASSUME NEW b \in Addr
          PROVE  memory'[u][b] = 0 \/
                   \E i \in 1..landed'[u] : sent'[u][i] = [a |-> b, v |-> memory'[u][b]]
      <4>1. memory[u][b] = 0 \/ \E i \in 1..landed[u] : sent[u][i] = [a |-> b, v |-> memory[u][b]]
        BY DEF MemoryIsWhatLanded, MemoryOf
      <4> QED BY <4>1, <3>1, <3>2
    <3> QED BY <3>3, <3>4, <3>5 DEF MemoryOf
  <2>3. ASSUME q = my_pe
        PROVE  MemoryOf(q)'
    <3>1. /\ landed'[q] = n + 1 /\ landed[q] = n /\ memory[q] \in [Addr -> Nat]
          /\ memory'[q] = [memory[q] EXCEPT ![a] = v]
      BY <2>3, <1>1 DEF MemoryIsWhatLanded, NbiTypeOK
    <3>2. ASSUME NEW i \in 1..(n + 1) PROVE memory'[q][sent'[q][i].a] >= sent'[q][i].v
      <4>1. CASE i = n + 1
        BY <4>1, <3>1, <1>1
      <4>2. CASE i # n + 1 /\ sent[q][i].a = a
        BY <4>2, <3>1, <1>1
      <4>3. CASE i # n + 1 /\ sent[q][i].a # a
        <5>1. i \in 1..n /\ sent'[q][i] = sent[q][i]
          BY <4>3, <3>2, <1>1
        <5>2. memory[q][sent[q][i].a] >= sent[q][i].v
          BY <5>1, <3>1, <1>2 DEF MemoryIsWhatLanded, MemoryOf
        <5>3. sent[q][i].a \in Addr
          BY <5>1, <1>2
        <5>4. memory'[q][sent[q][i].a] = memory[q][sent[q][i].a]
          BY <5>3, <4>3, <3>1
        <5> QED BY <5>1, <5>2, <5>4
      <4> QED BY <4>1, <4>2, <4>3
    <3>3. ASSUME NEW b \in Addr, b # a
          PROVE  memory'[q][b] = 0 \/
                   \E i \in 1..(n + 1) : sent'[q][i] = [a |-> b, v |-> memory'[q][b]]
      <4>1. memory'[q][b] = memory[q][b]
        BY <3>1, <3>3
      <4>2. CASE memory[q][b] = 0
        BY <4>1, <4>2
      <4>3. CASE memory[q][b] # 0
        <5>1. PICK i \in 1..n : sent[q][i] = [a |-> b, v |-> memory[q][b]]
          BY <4>3, <3>1 DEF MemoryIsWhatLanded, MemoryOf
        <5> QED BY <5>1, <4>1, <1>1
      <4> QED BY <4>2, <4>3
    <3>4. sent'[q][n + 1] = [a |-> a, v |-> memory'[q][a]]
      BY <3>1, <1>1
    <3>5. \A i \in 1..landed'[q] : memory'[q][sent'[q][i].a] >= sent'[q][i].v
      BY <3>1, <3>2
    <3>6. ASSUME NEW b \in Addr
          PROVE  memory'[q][b] = 0 \/
                   \E i \in 1..landed'[q] : sent'[q][i] = [a |-> b, v |-> memory'[q][b]]
      BY <3>1, <3>3, <3>4, <1>1
    <3> QED BY <3>1, <3>5, <3>6, <1>1 DEF MemoryOf
  <2> QED BY <2>1, <2>2, <2>3 DEF MemoryIsWhatLanded
<1> QED BY <1>3, <1>4

\* What has been stored stays stored, in its place.
LEMMA StoredStays ==
  ASSUME NbiTypeOK, NEW q \in DestPE, NEW a \in Addr, NEW v \in Nat, Store(q, a, v), asked' = asked,
         NEW n \in 1..Len(asked), NEW j \in Int
  PROVE  /\ \A i \in 1..(Len(sent[asked[n].pe]) + 1) :
              StoredBefore(n, j, i) => StoredBefore(n, j, i)'
         /\ Stored(n, j) => Stored(n, j)'
<1> DEFINE u == asked[n].pe
<1>1. u \in DestPE
  BY AskedHaveTypes
<1>2. /\ Len(sent[u]) \in Nat /\ Len(sent'[u]) >= Len(sent[u]) /\ Len(sent'[u]) \in Nat
      /\ \A i \in 1..Len(sent[u]) : sent'[u][i] = sent[u][i]
  BY <1>1, LogGrows
<1>3. \A i \in 1..(Len(sent[u]) + 1) : StoredBefore(n, j, i) => StoredBefore(n, j, i)'
  <2> SUFFICES ASSUME NEW i \in 1..(Len(sent[u]) + 1), StoredBefore(n, j, i)
               PROVE  StoredBefore(n, j, i)'
    OBVIOUS
  <2>1. PICK k \in 1..(i - 1) : sent[u][k] = [a |-> asked[n].dst + j, v |-> 2 * n]
    BY DEF StoredBefore
  <2>2. k \in 1..Len(sent[u])
    BY <1>2
  <2> QED BY <2>1, <2>2, <1>2 DEF StoredBefore
<1>4. Stored(n, j) => Stored(n, j)'
  <2> SUFFICES ASSUME Stored(n, j)
               PROVE  Stored(n, j)'
    OBVIOUS
  <2>1. PICK k \in 1..Len(sent[u]) : sent[u][k] = [a |-> asked[n].dst + j, v |-> 2 * n]
    BY <1>2 DEF Stored, StoredBefore
  <2>2. k \in 1..Len(sent'[u]) /\ sent'[u][k] = sent[u][k]
    BY <1>2
  <2> QED BY <2>1, <2>2, <1>2 DEF Stored, StoredBefore
<1> QED BY <1>3, <1>4

\* A store of a byte comes after the flags before it, and undoes nothing.
LEMMA StoreKeepsFlags ==
  ASSUME NbiTypeOK, FlagIsLast, StoresAreOfThePast,
         NEW q \in DestPE, NEW a \in Addr, NEW v \in Nat, Store(q, a, v), a # Flag,
         asked' = asked, fenced' = fenced
  PROVE  FlagIsLast'
<1>0. Appended(q, a, v)
  BY StoreAppends
<1>1. fenced \in 0..Len(asked) /\ Len(asked) \in Nat /\ asked \in Seq(Copies)
  BY DEF NbiTypeOK
<1>2. ASSUME NEW n \in 1..fenced', NEW j \in 0..(asked'[n].nbytes - 1)
      PROVE  Stored(n, j)'
  <2>1. n \in 1..Len(asked) /\ j \in Int /\ j \in 0..(asked[n].nbytes - 1) /\ n \in 1..fenced
    BY <1>1
  <2>2. Stored(n, j)
    BY <2>1 DEF FlagIsLast
  <2> QED BY <2>1, <2>2, StoredStays
<1>3. ASSUME NEW u \in DestPE, NEW i \in 1..Len(sent'[u]), sent'[u][i].a = Flag,
             NEW n \in 1..sent'[u][i].v, asked'[n].pe = u,
             NEW j \in 0..(asked'[n].nbytes - 1)
      PROVE  StoredBefore(n, j, i)'
  <2>1. i \in 1..Len(sent[u]) /\ sent'[u][i] = sent[u][i] /\ Len(sent[u]) \in Nat
    <3>1. CASE u = q
      <4>1. i # Len(sent[q]) + 1
        BY <1>0, <3>1, <1>3 DEF Appended
      <4> QED BY <4>1, <1>0, <3>1 DEF Appended
    <3>2. CASE u # q
      BY <3>2, <1>0, LogGrows DEF Appended
    <3> QED BY <3>1, <3>2
  <2>2. sent[u][i].v \in Nat /\ sent[u][i].v <= fenced
    BY <1>3, <2>1, StoresHaveTypes DEF StoresAreOfThePast
  <2>3. n \in 1..Len(asked) /\ n \in 1..sent[u][i].v
    BY <2>1, <2>2, <1>1
  <2>4. StoredBefore(n, j, i)
    BY <1>3, <2>1, <2>3 DEF FlagIsLast
  <2>5. i \in 1..(Len(sent[asked[n].pe]) + 1) /\ j \in Int
    BY <1>3, <2>1, <2>3, AskedHaveTypes
  <2> QED BY <2>3, <2>4, <2>5, StoredStays
<1> QED BY <1>2, <1>3 DEF FlagIsLast

------------------------------------------------------------------------------
LEMMA InitIInv == NbiInit => OrderInv
<1> SUFFICES ASSUME NbiInit PROVE OrderInv
  OBVIOUS
<1> USE DEF NbiInit
<1>1. NoCopy \in [copy : Copies, n : Nat] /\ Idle \in [copy : Copies, n : Nat, moved : Nat]
  BY CopiesAssumption DEF NoCopy, Idle
<1>2. << >> \in Seq(TStore) /\ << >> \in Seq(Copies)
  OBVIOUS
<1>3. NbiTypeOK
  <2>1. /\ sent \in [DestPE -> Seq(TStore)] /\ landed \in [DestPE -> Nat]
        /\ memory \in [DestPE -> [Addr -> Nat]]
    BY <1>2
  <2>2. asked \in Seq(Copies) /\ fenced \in 0..Len(asked)
    BY <1>2
  <2> QED BY <1>1, <2>1, <2>2 DEF NbiTypeOK
<1>4. ~Busy
  BY <1>1 DEF Busy, Idle
<1>5. \A q \in DestPE : Len(sent[q]) = 0
  OBVIOUS
<1>6. Len(asked) = 0
  OBVIOUS
<1>7. EngineIsKnown /\ NothingIsLost
  BY <1>4, <1>6 DEF EngineIsKnown, NothingIsLost, InCopy
<1>8. LaterIsGreater /\ StoresAreOfThePast
  BY <1>5 DEF LaterIsGreater, StoresAreOfThePast
<1>9. MemoryIsWhatLanded
  BY <1>5, CopiesAssumption DEF MemoryIsWhatLanded, MemoryOf
<1>10. FlagIsLast
  BY <1>5 DEF FlagIsLast
<1> QED BY <1>3, <1>7, <1>8, <1>9, <1>10 DEF OrderInv

\* What the steps that store nothing leave alone.
LEMMA NoStoreKeeps ==
  ASSUME OrderInv, NoStores, asked' = asked
  PROVE  /\ LaterIsGreater' /\ MemoryIsWhatLanded'
         /\ \A n, j, i : StoredBefore(n, j, i)' <=> StoredBefore(n, j, i)
         /\ \A n, j : Stored(n, j)' <=> Stored(n, j)
         /\ fenced' = fenced => FlagIsLast'
<1>1. sent' = sent /\ landed' = landed /\ memory' = memory
  BY DEF NoStores
<1>2. LaterIsGreater'
  BY <1>1 DEF OrderInv, LaterIsGreater
<1>3. MemoryIsWhatLanded'
  BY <1>1 DEF OrderInv, MemoryIsWhatLanded, MemoryOf
<1>4. \A n, j, i : StoredBefore(n, j, i)' <=> StoredBefore(n, j, i)
  BY <1>1 DEF StoredBefore
<1>5. \A n, j : Stored(n, j)' <=> Stored(n, j)
  BY <1>1 DEF StoredBefore, Stored
<1>6. fenced' = fenced => FlagIsLast'
  BY <1>1 DEF OrderInv, FlagIsLast, StoredBefore, Stored
<1> QED BY <1>2, <1>3, <1>4, <1>5, <1>6

\* A copy is asked for: it is the latest, and nothing of it has been stored.
LEMMA MemcpyIInv ==
  ASSUME OrderInv, NEW x \in Copies, Memcpy_nbi(x)
  PROVE  OrderInv'
<1>1. /\ core = "run" /\ core' = "wait"
      /\ asked' = Append(asked, x)
      /\ dma_desc' = [copy |-> x, n |-> Len(asked) + 1]
      /\ UNCHANGED <<engine, cdst0, dma_used, fenced, sent, landed, memory>>
  BY DEF Memcpy_nbi, NoStores
<1>2. asked \in Seq(Copies) /\ NbiTypeOK
  BY DEF OrderInv, NbiTypeOK
<1>3. /\ asked' \in Seq(Copies) /\ Len(asked) \in Nat
      /\ Len(asked') = Len(asked) + 1
      /\ asked'[Len(asked) + 1] = x
      /\ \A n \in 1..Len(asked) : asked'[n] = asked[n]
  BY <1>1, <1>2
<1>4. NbiTypeOK'
  BY <1>1, <1>2, <1>3 DEF NbiTypeOK
<1>5. Busy' = Busy
  BY <1>1 DEF Busy
<1>6. EngineIsKnown'
  BY <1>1, <1>3, <1>5 DEF OrderInv, EngineIsKnown
<1>7. \A n \in 1..Len(asked) : \A j, i : StoredBefore(n, j, i)' <=> StoredBefore(n, j, i)
  BY <1>1, <1>3 DEF StoredBefore
<1>8. \A n \in 1..Len(asked) : \A j : Stored(n, j)' <=> Stored(n, j)
  BY <1>1, <1>3 DEF Stored, StoredBefore
<1>9. NothingIsLost'
  <2> SUFFICES ASSUME NEW n \in 1..(Len(asked) + 1), n # Len(asked) + 1,
                      NEW j \in 0..(asked'[n].nbytes - 1)
               PROVE  (engine'.n = n /\ j >= engine'.moved) \/ Stored(n, j)'
    BY <1>1, <1>3 DEF NothingIsLost, InCopy
  <2>1. n \in 1..Len(asked) /\ asked'[n] = asked[n]
    BY <1>3
  <2>2. (engine.n = n /\ j >= engine.moved) \/ Stored(n, j)
    BY <1>1, <2>1 DEF OrderInv, NothingIsLost, InCopy
  <2> QED BY <1>1, <1>8, <2>1, <2>2
<1>10. LaterIsGreater'
  BY <1>1 DEF OrderInv, LaterIsGreater
<1>11. StoresAreOfThePast'
  <2>1. \A q \in DestPE : \A i \in 1..Len(sent[q]) : sent[q][i].v \in Nat
    BY <1>2, StoresHaveTypes
  <2> QED BY <1>1, <1>3, <1>5, <2>1 DEF OrderInv, StoresAreOfThePast
<1>12. MemoryIsWhatLanded'
  BY <1>1 DEF OrderInv, MemoryIsWhatLanded, MemoryOf
<1>13. FlagIsLast'
  <2>1. fenced \in 0..Len(asked)
    BY <1>2 DEF NbiTypeOK
  <2>2. \A n \in 1..fenced' : \A j \in 0..(asked'[n].nbytes - 1) : Stored(n, j)'
    BY <1>1, <1>3, <1>8, <2>1 DEF OrderInv, FlagIsLast
  <2>3. ASSUME NEW q \in DestPE, NEW i \in 1..Len(sent[q]), sent[q][i].a = Flag,
               NEW n \in 1..sent[q][i].v, asked'[n].pe = q,
               NEW j \in 0..(asked'[n].nbytes - 1)
        PROVE  StoredBefore(n, j, i)'
    <3>1. sent[q][i].v \in Nat /\ sent[q][i].v <= fenced
      BY <1>2, <2>3, StoresHaveTypes DEF OrderInv, StoresAreOfThePast
    <3>2. n \in 1..Len(asked) /\ asked'[n] = asked[n]
      BY <1>3, <2>1, <3>1
    <3>3. StoredBefore(n, j, i)
      BY <2>3, <3>2 DEF OrderInv, FlagIsLast
    <3> QED BY <1>7, <3>2, <3>3
  <2> QED BY <1>1, <2>2, <2>3 DEF FlagIsLast
<1> QED BY <1>4, <1>6, <1>9, <1>10, <1>11, <1>12, <1>13 DEF OrderInv

\* The copy that waits finds the engine idle.
LEMMA WaitIInv == ASSUME OrderInv, Wait PROVE OrderInv'
<1>1. /\ core = "wait" /\ core' = "mark" /\ (cdst0 = None \/ ~Busy)
      /\ UNCHANGED <<dma_desc, engine, cdst0, dma_used, asked, fenced>> /\ NoStores
      /\ sent' = sent
  BY DEF Wait, NoStores
<1>2. ~Busy /\ ~Busy'
  BY <1>1 DEF OrderInv, EngineIsKnown, Busy
<1>3. NbiTypeOK'
  BY <1>1 DEF OrderInv, NbiTypeOK, NoStores
<1>4. EngineIsKnown'
  BY <1>1, <1>2 DEF OrderInv, EngineIsKnown, InCopy
<1>5. NothingIsLost'
  BY <1>1, NoStoreKeeps DEF OrderInv, NothingIsLost, InCopy
<1>6. StoresAreOfThePast'
  BY <1>1, <1>2 DEF OrderInv, StoresAreOfThePast
<1> QED BY <1>1, <1>3, <1>4, <1>5, <1>6, NoStoreKeeps DEF OrderInv

\* With the engine idle, the mark is later than all stores so far.
LEMMA MarkIInv == ASSUME OrderInv, Mark PROVE OrderInv'
<1> DEFINE x == dma_desc.copy
           v == 2 * dma_desc.n - 1
<1>1. /\ core = "mark" /\ core' = "start" /\ Store(x.pe, Last(x), v) /\ cdst0' = Last(x)
      /\ UNCHANGED <<dma_desc, engine, dma_used, asked, fenced>>
      /\ NbiTypeOK
  BY DEF Mark, OrderInv
<1>2. /\ Len(asked) > 0 /\ Len(asked) \in Nat /\ ~Busy /\ ~Busy'
      /\ dma_desc.n = Len(asked) /\ x = asked[Len(asked)]
  BY <1>1 DEF OrderInv, EngineIsKnown, InCopy, NbiTypeOK, Busy
<1>3. x \in Copies /\ v \in Nat /\ v = 2 * Len(asked) - 1
  BY <1>1, <1>2, AskedHaveTypes
<1>4. x.pe \in DestPE /\ Last(x) \in Addr /\ Last(x) \in Nat /\ Last(x) # None /\ Last(x) # Flag
  BY <1>3, BytesAreAddresses DEF None, Flag
<1> DEFINE n == Len(sent[x.pe])
<1>5. \A k \in 1..n : sent[x.pe][k].a = Last(x) => sent[x.pe][k].v <= v
  BY <1>1, <1>2, <1>3, <1>4, StoresHaveTypes DEF OrderInv, StoresAreOfThePast
<1> HIDE DEF x, v
<1>6. LaterIsGreater' /\ MemoryIsWhatLanded'
  BY <1>1, <1>3, <1>4, <1>5, StoreInOrder DEF OrderInv
<1>7. /\ sent' \in [DestPE -> Seq(TStore)]
      /\ landed' \in [DestPE -> Nat] /\ memory' \in [DestPE -> [Addr -> Nat]]
  BY <1>1, <1>3, <1>4, StoreAppends
<1>13. Appended(x.pe, Last(x), v)
  BY <1>1, <1>3, <1>4, StoreAppends
<1>8. NbiTypeOK'
  BY <1>1, <1>4, <1>7 DEF NbiTypeOK
<1>9. EngineIsKnown'
  BY <1>1, <1>2, <1>4 DEF OrderInv, EngineIsKnown, InCopy
<1>10. NothingIsLost'
  <2> SUFFICES ASSUME NEW m \in 1..Len(asked), m # Len(asked),
                      NEW j \in 0..(asked[m].nbytes - 1)
               PROVE  (engine.n = m /\ j >= engine.moved) \/ Stored(m, j)'
    BY <1>1 DEF NothingIsLost, InCopy
  <2>1. (engine.n = m /\ j >= engine.moved) \/ Stored(m, j)
    BY DEF OrderInv, NothingIsLost, InCopy
  <2> QED BY <2>1, <1>1, <1>3, <1>4, StoredStays
<1>11. StoresAreOfThePast'
  <2> SUFFICES ASSUME NEW u \in DestPE, NEW i \in 1..Len(sent'[u])
               PROVE  /\ sent'[u][i].a = Flag => sent'[u][i].v <= fenced
                      /\ sent'[u][i].a # Flag => sent'[u][i].v <= 2 * Len(asked)
    BY <1>1, <1>2 DEF StoresAreOfThePast
  <2>1. CASE u = x.pe /\ i = n + 1
    BY <2>1, <1>2, <1>3, <1>4, <1>13 DEF Appended
  <2>2. CASE ~(u = x.pe /\ i = n + 1)
    <3>1. i \in 1..Len(sent[u]) /\ sent'[u][i] = sent[u][i]
      BY <2>2, <1>13 DEF Appended
    <3> QED BY <3>1 DEF OrderInv, StoresAreOfThePast
  <2> QED BY <2>1, <2>2
<1>12. FlagIsLast'
  BY <1>1, <1>3, <1>4, StoreKeepsFlags DEF OrderInv
<1> QED BY <1>6, <1>8, <1>9, <1>10, <1>11, <1>12 DEF OrderInv

\* The engine starts the copy that was asked for last, and is known to run.
LEMMA StartIInv == ASSUME OrderInv, StartEngine PROVE OrderInv'
<1>1. /\ core = "start" /\ core' = "run" /\ dma_used' = TRUE
      /\ engine' = [copy |-> dma_desc.copy, n |-> dma_desc.n, moved |-> 0]
      /\ UNCHANGED <<dma_desc, cdst0, asked, fenced>> /\ NoStores
      /\ sent' = sent /\ NbiTypeOK
  BY DEF StartEngine, NoStores, OrderInv
<1>2. /\ Len(asked) > 0 /\ Len(asked) \in Nat /\ ~Busy /\ cdst0 # None
      /\ dma_desc.n = Len(asked) /\ dma_desc.copy = asked[Len(asked)]
  BY <1>1 DEF OrderInv, EngineIsKnown, InCopy, NbiTypeOK, Busy
<1>3. dma_desc.copy \in Copies /\ dma_desc.copy.nbytes \in Nat \ {0}
  BY <1>2, <1>1, AskedHaveTypes, BytesAreAddresses
<1>4. NbiTypeOK'
  BY <1>1, <1>2, <1>3 DEF NbiTypeOK, NoStores
<1>5. EngineIsKnown'
  BY <1>1, <1>2, <1>3 DEF EngineIsKnown, InCopy, Busy
<1>6. NothingIsLost'
  <2> SUFFICES ASSUME NEW n \in 1..Len(asked), NEW j \in 0..(asked[n].nbytes - 1)
               PROVE  (engine'.n = n /\ j >= engine'.moved) \/ Stored(n, j)'
    BY <1>1 DEF NothingIsLost, InCopy
  <2>1. CASE n = Len(asked)
    BY <2>1, <1>1, <1>2
  <2>2. CASE n # Len(asked)
    <3>1. engine.n # n
      BY <1>2 DEF Busy
    <3>2. Stored(n, j)
      BY <2>2, <3>1, <1>1, <1>2 DEF OrderInv, NothingIsLost, InCopy
    <3> QED BY <3>2, <1>1, NoStoreKeeps
  <2> QED BY <2>1, <2>2
<1>7. StoresAreOfThePast'
  BY <1>1, <1>2 DEF OrderInv, StoresAreOfThePast
<1> QED BY <1>1, <1>4, <1>5, <1>6, <1>7, NoStoreKeeps DEF OrderInv

LEMMA CallQuietIInv == ASSUME OrderInv, CallQuiet PROVE OrderInv'
<1>1. /\ core = "run" /\ core' = "quiet"
      /\ UNCHANGED <<dma_desc, engine, cdst0, dma_used, asked, fenced>> /\ NoStores
      /\ sent' = sent
  BY DEF CallQuiet, NoStores
<1>2. NbiTypeOK'
  BY <1>1 DEF OrderInv, NbiTypeOK, NoStores
<1>3. EngineIsKnown'
  BY <1>1 DEF OrderInv, EngineIsKnown, InCopy, Busy
<1>4. NothingIsLost'
  BY <1>1, NoStoreKeeps DEF OrderInv, NothingIsLost, InCopy
<1>5. StoresAreOfThePast'
  BY <1>1 DEF OrderInv, StoresAreOfThePast, Busy
<1> QED BY <1>1, <1>2, <1>3, <1>4, <1>5, NoStoreKeeps DEF OrderInv

\* When quiet returns the engine is idle, so that all copies have been stored.
LEMMA QuietIInv == ASSUME OrderInv, QuietNothing \/ Quiet PROVE OrderInv'
<1>1. /\ core = "quiet" /\ core' = "run" /\ fenced' = Len(asked)
      /\ UNCHANGED <<dma_desc, engine, asked>> /\ NoStores
      /\ sent' = sent /\ NbiTypeOK
      /\ cdst0' \in {cdst0, None} /\ dma_used' = FALSE
  BY DEF QuietNothing, Quiet, NoStores, OrderInv, NbiTypeOK
<1>2. ~Busy /\ ~Busy'
  <2>1. ~Busy
    BY DEF QuietNothing, Quiet, OrderInv, EngineIsKnown
  <2> QED BY <2>1, <1>1 DEF Busy
<1>3. asked \in Seq(Copies) /\ Len(asked) \in Nat /\ fenced \in 0..Len(asked)
  BY <1>1 DEF NbiTypeOK
<1>4. NbiTypeOK'
  <2>1. cdst0' \in Nat \cup {None} /\ dma_used' \in BOOLEAN /\ fenced' \in 0..Len(asked)
    <3>1. cdst0 \in Nat \cup {None}
      BY <1>1 DEF NbiTypeOK
    <3>2. Len(asked) \in 0..Len(asked)
      BY <1>3
    <3> QED BY <1>1, <3>1, <3>2
  <2> QED BY <2>1, <1>1 DEF NbiTypeOK, NoStores
<1>5. EngineIsKnown'
  BY <1>1, <1>2 DEF EngineIsKnown, InCopy
<1>6. ASSUME NEW n \in 1..Len(asked), NEW j \in 0..(asked[n].nbytes - 1)
      PROVE  Stored(n, j)
  <2>1. engine.n # n
    BY <1>2 DEF Busy
  <2> QED BY <1>1, <2>1 DEF OrderInv, NothingIsLost, InCopy
<1>7. NothingIsLost'
  BY <1>1, <1>6, NoStoreKeeps DEF NothingIsLost
<1>8. StoresAreOfThePast'
  <2> SUFFICES ASSUME NEW q \in DestPE, NEW i \in 1..Len(sent[q])
               PROVE  /\ sent[q][i].a = Flag => sent[q][i].v <= Len(asked)
                      /\ sent[q][i].a # Flag => sent[q][i].v <= 2 * Len(asked)
    BY <1>1, <1>2 DEF StoresAreOfThePast
  <2> QED BY <1>1, <1>3, StoresHaveTypes DEF OrderInv, StoresAreOfThePast
<1>9. FlagIsLast'
  <2>1. \A n \in 1..fenced' : \A j \in 0..(asked'[n].nbytes - 1) : Stored(n, j)'
    BY <1>1, <1>6, NoStoreKeeps
  <2>2. \A q \in DestPE : \A i \in 1..Len(sent[q]) : sent[q][i].a = Flag =>
          \A n \in 1..sent[q][i].v : asked[n].pe = q =>
            \A j \in 0..(asked[n].nbytes - 1) : StoredBefore(n, j, i)'
    BY <1>1, NoStoreKeeps DEF OrderInv, FlagIsLast
  <2> QED BY <1>1, <2>1, <2>2 DEF FlagIsLast
<1> QED BY <1>1, <1>4, <1>5, <1>7, <1>8, <1>9, NoStoreKeeps DEF OrderInv

\* The flag comes after all bytes of the copies that were quieted.
LEMMA SetFlagIInv == ASSUME OrderInv, NEW q \in DestPE, SetFlag(q) PROVE OrderInv'
<1> DEFINE n == Len(sent[q])
<1>1. /\ core = "run" /\ Store(q, Flag, fenced)
      /\ UNCHANGED <<core, dma_desc, engine, cdst0, dma_used, asked, fenced>>
      /\ NbiTypeOK
  BY DEF SetFlag, OrderInv
<1>2. /\ asked \in Seq(Copies) /\ Len(asked) \in Nat /\ fenced \in 0..Len(asked)
      /\ fenced \in Nat /\ Flag \in Addr
  BY <1>1, FlagIsAddress DEF NbiTypeOK
<1>3. \A k \in 1..n : sent[q][k].a = Flag => sent[q][k].v <= fenced
  BY DEF OrderInv, StoresAreOfThePast
<1>4. LaterIsGreater' /\ MemoryIsWhatLanded'
  BY <1>1, <1>2, <1>3, StoreInOrder DEF OrderInv
<1>5. /\ sent' \in [DestPE -> Seq(TStore)]
      /\ landed' \in [DestPE -> Nat] /\ memory' \in [DestPE -> [Addr -> Nat]]
      /\ Appended(q, Flag, fenced)
  BY <1>1, <1>2, StoreAppends
<1>6. NbiTypeOK'
  BY <1>1, <1>5 DEF NbiTypeOK
<1>7. EngineIsKnown'
  BY <1>1 DEF OrderInv, EngineIsKnown, InCopy, Busy
<1>8. NothingIsLost'
  <2> SUFFICES ASSUME NEW m \in 1..Len(asked), NEW j \in 0..(asked[m].nbytes - 1)
               PROVE  (engine.n = m /\ j >= engine.moved) \/ Stored(m, j)'
    BY <1>1 DEF NothingIsLost, InCopy
  <2>1. (engine.n = m /\ j >= engine.moved) \/ Stored(m, j)
    BY <1>1 DEF OrderInv, NothingIsLost, InCopy
  <2> QED BY <2>1, <1>1, <1>2, StoredStays
<1>9. \A u \in DestPE : \A i \in 1..Len(sent'[u]) :
        \/ u = q /\ i = n + 1 /\ sent'[u][i] = [a |-> Flag, v |-> fenced]
        \/ i \in 1..Len(sent[u]) /\ sent'[u][i] = sent[u][i]
  BY SMTT(20), <1>5 DEF Appended
<1>10. StoresAreOfThePast'
  <2> SUFFICES ASSUME NEW u \in DestPE, NEW i \in 1..Len(sent'[u])
               PROVE  /\ sent'[u][i].a = Flag => sent'[u][i].v <= fenced
                      /\ sent'[u][i].a # Flag =>
                           /\ sent'[u][i].v <= 2 * Len(asked)
                           /\ Busy => sent'[u][i].v <= 2 * engine.n
    BY <1>1 DEF StoresAreOfThePast, Busy
  <2> QED BY <1>9, <1>2 DEF OrderInv, StoresAreOfThePast
<1>11. FlagIsLast'
  <2>1. ASSUME NEW m \in 1..fenced, NEW j \in 0..(asked[m].nbytes - 1)
        PROVE  Stored(m, j) /\ Stored(m, j)' /\ m \in 1..Len(asked) /\ j \in Int
    <3>1. m \in 1..Len(asked) /\ j \in Int
      BY <1>2
    <3>2. Stored(m, j)
      BY DEF OrderInv, FlagIsLast
    <3> QED BY <3>1, <3>2, <1>1, <1>2, StoredStays
  <2>2. ASSUME NEW u \in DestPE, NEW i \in 1..Len(sent'[u]), sent'[u][i].a = Flag,
               NEW m \in 1..sent'[u][i].v, asked[m].pe = u,
               NEW j \in 0..(asked[m].nbytes - 1)
        PROVE  StoredBefore(m, j, i)'
    <3>1. CASE u = q /\ i = n + 1 /\ sent'[u][i] = [a |-> Flag, v |-> fenced]
      <4>1. m \in 1..fenced
        BY <3>1
      <4>2. Stored(m, j) /\ m \in 1..Len(asked) /\ j \in Int
        BY <2>1, <4>1
      <4>3. StoredBefore(m, j, i) /\ i \in 1..(Len(sent[asked[m].pe]) + 1)
        BY <4>2, <3>1, <2>2 DEF Stored
      <4> QED BY <4>2, <4>3, <1>1, <1>2, StoredStays
    <3>2. CASE i \in 1..Len(sent[u]) /\ sent'[u][i] = sent[u][i]
      <4>1. sent[u][i].v \in Nat /\ sent[u][i].v <= fenced
        BY <3>2, <2>2, <1>1, StoresHaveTypes DEF OrderInv, StoresAreOfThePast
      <4>2. m \in 1..Len(asked) /\ m \in 1..sent[u][i].v /\ j \in Int
        BY <4>1, <3>2, <1>2
      <4>3. StoredBefore(m, j, i)
        BY <2>2, <3>2, <4>2 DEF OrderInv, FlagIsLast
      <4>4. i \in 1..(Len(sent[asked[m].pe]) + 1)
        BY <2>2, <3>2, <1>5 DEF NbiTypeOK, Appended
      <4> QED BY <4>2, <4>3, <4>4, <1>1, <1>2, StoredStays
    <3> QED BY <3>1, <3>2, <1>9
  <2> QED BY <1>1, <2>1, <2>2 DEF FlagIsLast
<1> QED BY <1>4, <1>6, <1>7, <1>8, <1>10, <1>11 DEF OrderInv

\* The engine moves a byte of the latest copy that was started.
LEMMA MoveIInv == ASSUME OrderInv, Move PROVE OrderInv'
<1> DEFINE x == engine.copy
           a == x.dst + engine.moved
           v == 2 * engine.n
           n == Len(sent[x.pe])
<1>1. /\ Busy /\ Store(x.pe, a, v)
      /\ engine' = IF engine.moved + 1 = x.nbytes THEN Idle
                   ELSE [engine EXCEPT !.moved = @ + 1]
      /\ UNCHANGED <<core, dma_desc, cdst0, dma_used, asked, fenced>>
      /\ NbiTypeOK
  BY DEF Move, OrderInv
<1>2. /\ engine \in [copy : Copies, n : Nat, moved : Nat]
      /\ engine.n \in 1..Len(asked) /\ x = asked[engine.n] /\ engine.moved < x.nbytes
      /\ engine.n = IF core = "wait" THEN Len(asked) - 1 ELSE Len(asked)
      /\ core \notin {"mark", "start"} /\ Len(asked) \in Nat
  BY <1>1 DEF OrderInv, EngineIsKnown, NbiTypeOK
<1>3. x \in Copies /\ x.nbytes \in Nat /\ x.dst \in Nat /\ x.pe \in DestPE
  BY <1>2, BytesAreAddresses
<1>4. engine.moved \in 0..(x.nbytes - 1)
  BY <1>2, <1>3
<1>5. a \in Addr /\ a \in Nat /\ a # Flag /\ v \in Nat
  BY <1>2, <1>3, <1>4, BytesAreAddresses DEF Flag
<1>6. Idle \in [copy : Copies, n : Nat, moved : Nat] /\ Idle.n = 0
  BY CopiesAssumption DEF Idle, NoCopy
<1>7. \/ engine.moved + 1 = x.nbytes /\ ~Busy' /\ engine'.n = 0 /\ engine' = Idle
      \/ /\ engine.moved + 1 < x.nbytes /\ engine'.moved = engine.moved + 1
         /\ engine'.n = engine.n /\ engine'.copy = x /\ Busy'
         /\ engine' \in [copy : Copies, n : Nat, moved : Nat]
  BY <1>1, <1>2, <1>3, <1>6 DEF Busy
<1>8. \A k \in 1..n : sent[x.pe][k].a = a => sent[x.pe][k].v <= v
  BY <1>1, <1>3, <1>5 DEF OrderInv, StoresAreOfThePast
<1> HIDE DEF a, v, x
<1>9. LaterIsGreater' /\ MemoryIsWhatLanded'
  BY <1>1, <1>3, <1>5, <1>8, StoreInOrder DEF OrderInv
<1>10. /\ sent' \in [DestPE -> Seq(TStore)]
       /\ landed' \in [DestPE -> Nat] /\ memory' \in [DestPE -> [Addr -> Nat]]
       /\ Appended(x.pe, a, v)
  BY <1>1, <1>3, <1>5, StoreAppends
<1>11. NbiTypeOK'
  BY <1>1, <1>6, <1>7, <1>10 DEF NbiTypeOK
<1>12. EngineIsKnown'
  <2>1. x = engine.copy
    BY DEF x
  <2> QED BY <2>1, <1>1, <1>2, <1>7 DEF OrderInv, EngineIsKnown, InCopy, Busy
<1>13. NothingIsLost'
  <2> SUFFICES ASSUME NEW m \in 1..Len(asked), NEW j \in 0..(asked[m].nbytes - 1),
                      ~(InCopy /\ m = Len(asked))
               PROVE  (engine'.n = m /\ j >= engine'.moved) \/ Stored(m, j)'
    BY <1>1 DEF NothingIsLost, InCopy
  <2>1. (engine.n = m /\ j >= engine.moved) \/ Stored(m, j)
    BY DEF OrderInv, NothingIsLost
  <2>2. CASE Stored(m, j)
    BY <2>2, <1>1, <1>3, <1>5, StoredStays
  <2>3. CASE engine.n = m /\ j = engine.moved
    <3>1. /\ asked'[m] = x /\ x.dst + j = a /\ v = 2 * m
      BY <2>3, <1>1, <1>2 DEF a, v, x
    <3>2. n + 1 \in 1..Len(sent'[x.pe]) /\ Len(sent'[x.pe]) \in Nat
      BY <1>10 DEF Appended
    <3>3. sent'[x.pe][n + 1] = [a |-> x.dst + j, v |-> 2 * m]
      BY <3>1, <1>10 DEF Appended
    <3> QED BY <3>1, <3>2, <3>3 DEF Stored, StoredBefore
  <2>4. CASE engine.n = m /\ j > engine.moved
    <3>1. asked[m] = x
      BY <2>4, <1>2
    <3>2. engine.moved + 1 < x.nbytes
      BY <2>4, <3>1, <1>2, <1>3, <1>4
    <3> QED BY <2>4, <3>2, <1>2, <1>7
  <2> QED BY <2>1, <2>2, <2>3, <2>4, <1>2
<1>14. StoresAreOfThePast'
  <2> SUFFICES ASSUME NEW u \in DestPE, NEW i \in 1..Len(sent'[u])
               PROVE  /\ sent'[u][i].a = Flag => sent'[u][i].v <= fenced
                      /\ sent'[u][i].a # Flag =>
                           /\ sent'[u][i].v <= 2 * Len(asked)
                           /\ core \in {"wait", "mark"} =>
                                sent'[u][i].v <= 2 * Len(asked) - 2
                           /\ Busy' => sent'[u][i].v <= 2 * engine'.n
    BY <1>1 DEF StoresAreOfThePast
  <2>1. CASE u = x.pe /\ i = n + 1
    <3>1. sent'[u][i].a # Flag /\ sent'[u][i].v = 2 * engine.n
      BY <2>1, <1>5, <1>10 DEF Appended, v
    <3> QED BY <3>1, <1>2, <1>7, <1>6
  <2>2. CASE ~(u = x.pe /\ i = n + 1)
    <3>1. i \in 1..Len(sent[u]) /\ sent'[u][i] = sent[u][i]
      BY <2>2, <1>10 DEF Appended
    <3> QED BY <3>1, <1>1, <1>6, <1>7 DEF OrderInv, StoresAreOfThePast
  <2> QED BY <2>1, <2>2
<1>15. FlagIsLast'
  BY <1>1, <1>3, <1>5, StoreKeepsFlags DEF OrderInv
<1> QED BY <1>9, <1>11, <1>12, <1>13, <1>14, <1>15 DEF OrderInv

\* A store that lands is not older than what is there.
LEMMA LandIInv == ASSUME OrderInv, NEW q \in DestPE, LandOldest(q) PROVE OrderInv'
<1> DEFINE k == landed[q] + 1
           s == sent[q][k]
<1>1. /\ landed[q] < Len(sent[q])
      /\ landed' = [landed EXCEPT ![q] = @ + 1]
      /\ memory' = [memory EXCEPT ![q][s.a] = s.v]
      /\ UNCHANGED <<core, dma_desc, engine, cdst0, dma_used, sent, asked, fenced>>
      /\ NbiTypeOK
  BY DEF LandOldest, OrderInv
<1>2. /\ landed[q] \in Nat /\ Len(sent[q]) \in Nat /\ memory[q] \in [Addr -> Nat]
      /\ landed \in [DestPE -> Nat] /\ memory \in [DestPE -> [Addr -> Nat]]
  BY <1>1 DEF NbiTypeOK
<1>3. k \in 1..Len(sent[q])
  BY <1>1, <1>2
<1>4. s.a \in Addr /\ s.v \in Nat /\ s \in TStore
  BY <1>1, <1>3, StoresHaveTypes
<1>5. /\ landed'[q] = k /\ memory'[q] = [memory[q] EXCEPT ![s.a] = s.v]
      /\ \A u \in DestPE : u # q => landed'[u] = landed[u] /\ memory'[u] = memory[u]
  BY <1>1, <1>2
<1>6. NbiTypeOK'
  <2>1. landed' \in [DestPE -> Nat] /\ memory' \in [DestPE -> [Addr -> Nat]]
    BY <1>1, <1>2, <1>4
  <2> QED BY <2>1, <1>1 DEF NbiTypeOK
<1>7. /\ EngineIsKnown' /\ NothingIsLost' /\ LaterIsGreater' /\ StoresAreOfThePast'
      /\ FlagIsLast'
  <2>1. EngineIsKnown'
    BY <1>1 DEF OrderInv, EngineIsKnown, InCopy, Busy
  <2>2. NothingIsLost'
    BY <1>1 DEF OrderInv, NothingIsLost, InCopy, Stored, StoredBefore
  <2>3. LaterIsGreater' /\ StoresAreOfThePast'
    BY <1>1 DEF OrderInv, LaterIsGreater, StoresAreOfThePast, Busy
  <2>4. FlagIsLast'
    BY <1>1 DEF OrderInv, FlagIsLast, Stored, StoredBefore
  <2> QED BY <2>1, <2>2, <2>3, <2>4
<1>8. q # my_pe
  BY <1>1, <1>2 DEF OrderInv, MemoryIsWhatLanded
<1>9. MemoryIsWhatLanded'
  <2>1. landed'[my_pe] = Len(sent'[my_pe])
    BY <1>1, <1>5, <1>8, CopiesAssumption DEF OrderInv, MemoryIsWhatLanded
  <2>2. ASSUME NEW u \in DestPE, u # q PROVE MemoryOf(u)'
    BY <2>2, <1>1, <1>5 DEF OrderInv, MemoryIsWhatLanded, MemoryOf
  <2>3. MemoryOf(q)
    BY DEF OrderInv, MemoryIsWhatLanded
  <2>4. \A i \in 1..k : memory'[q][sent[q][i].a] >= sent[q][i].v
    <3> SUFFICES ASSUME NEW i \in 1..k PROVE memory'[q][sent[q][i].a] >= sent[q][i].v
      OBVIOUS
    <3>1. i \in 1..Len(sent[q]) /\ i <= k /\ (i # k => i \in 1..landed[q])
      BY <1>2, <1>3
    <3>2. sent[q][i].a \in Addr /\ sent[q][i].v \in Nat
      BY <3>1, <1>1, StoresHaveTypes
    <3>3. CASE sent[q][i].a = s.a
      <4>1. sent[q][i].v <= s.v
        BY <3>1, <3>3, <1>3 DEF OrderInv, LaterIsGreater
      <4>2. memory'[q][sent[q][i].a] = s.v
        BY <3>3, <1>2, <1>4, <1>5
      <4> QED BY <4>1, <4>2, <3>2, <1>4
    <3>4. CASE sent[q][i].a # s.a
      <4>1. memory'[q][sent[q][i].a] = memory[q][sent[q][i].a]
        BY <3>4, <3>2, <1>2, <1>5
      <4>2. i \in 1..landed[q]
        BY <3>1, <3>4
      <4> QED BY <4>1, <4>2, <2>3 DEF MemoryOf
    <3> QED BY <3>3, <3>4
  <2>5. ASSUME NEW b \in Addr
        PROVE  memory'[q][b] = 0 \/
                 \E i \in 1..k : sent[q][i] = [a |-> b, v |-> memory'[q][b]]
    <3>1. CASE b = s.a
      <4>1. memory'[q][b] = s.v
        BY <3>1, <1>2, <1>4, <1>5
      <4>2. s = [a |-> b, v |-> memory'[q][b]]
        BY <4>1, <3>1, <1>4 DEF TStore
      <4> QED BY <4>2, <1>3
    <3>2. CASE b # s.a
      <4>1. memory'[q][b] = memory[q][b]
        BY <3>2, <1>2, <1>5
      <4>2. memory[q][b] = 0 \/ \E i \in 1..landed[q] : sent[q][i] = [a |-> b, v |-> memory[q][b]]
        BY <2>3 DEF MemoryOf
      <4>3. \A i \in 1..landed[q] : i \in 1..k
        BY <1>2
      <4> QED BY <4>1, <4>2, <4>3
    <3> QED BY <3>1, <3>2
  <2>6. MemoryOf(q)'
    BY <2>4, <2>5, <1>1, <1>3, <1>5 DEF MemoryOf
  <2> QED BY <2>1, <2>2, <2>6 DEF MemoryIsWhatLanded
<1> QED BY <1>6, <1>7, <1>9 DEF OrderInv

LEMMA NextIInv == ASSUME OrderInv, [NbiNext]_nbiVars PROVE OrderInv'
<1>1. CASE UNCHANGED nbiVars
  <2>1. NbiTypeOK'
    BY <1>1 DEF nbiVars, OrderInv, NbiTypeOK
  <2>2. EngineIsKnown'
    BY <1>1 DEF nbiVars, OrderInv, EngineIsKnown, InCopy, Busy
  <2>3. NothingIsLost'
    BY <1>1 DEF nbiVars, OrderInv, NothingIsLost, InCopy, Stored, StoredBefore
  <2>4. LaterIsGreater' /\ StoresAreOfThePast'
    BY <1>1 DEF nbiVars, OrderInv, LaterIsGreater, StoresAreOfThePast, Busy
  <2>5. MemoryIsWhatLanded'
    BY <1>1 DEF nbiVars, OrderInv, MemoryIsWhatLanded, MemoryOf
  <2>6. FlagIsLast'
    BY <1>1 DEF nbiVars, OrderInv, FlagIsLast, Stored, StoredBefore
  <2> QED BY <2>1, <2>2, <2>3, <2>4, <2>5, <2>6 DEF OrderInv
<1> QED BY <1>1, MemcpyIInv, WaitIInv, MarkIInv, StartIInv, CallQuietIInv, QuietIInv,
           SetFlagIInv, MoveIInv, LandIInv DEF NbiNext, Core, AllAsked

------------------------------------------------------------------------------
\* No copy is lost, the engine is never started while it runs or forgotten by
\* quiet, stores are made and land in the order of the copies, and flags come
\* after the copies that were quieted before them.
THEOREM CopiesAreInOrder == NbiSpec => []OrderInv
<1> QED BY InitIInv, NextIInv, PTL DEF NbiSpec

\* A PE that sees the flag sees the bytes of the copies that were quieted.
THEOREM FencesOrder == NbiSpec => []FenceOrders
<1>1. ASSUME OrderInv PROVE FenceOrders
  <2> SUFFICES ASSUME NEW q \in DestPE, NEW n \in 1..Len(asked), n <= memory[q][Flag],
                      asked[n].pe = q, NEW a \in Bytes(asked[n])
               PROVE  memory[q][a] >= 2 * n
    BY DEF FenceOrders
  <2>1. NbiTypeOK /\ MemoryOf(q) /\ Flag \in Addr /\ n \in Nat /\ n > 0
    BY <1>1, FlagIsAddress DEF OrderInv, MemoryIsWhatLanded
  <2>2. memory[q] \in [Addr -> Nat] /\ landed[q] \in Nat /\ Len(sent[q]) \in Nat
    BY <2>1 DEF NbiTypeOK
  <2>3. PICK i \in 1..landed[q] : sent[q][i] = [a |-> Flag, v |-> memory[q][Flag]]
    BY <2>1, <2>2 DEF MemoryOf
  <2>4. asked[n] \in Copies
    BY <2>1, AskedHaveTypes
  <2>5. PICK j \in 0..(asked[n].nbytes - 1) : a = asked[n].dst + j
    <3>1. asked[n].dst \in Nat /\ asked[n].nbytes \in Nat
      BY <2>4, BytesAreAddresses
    <3>2. a - asked[n].dst \in 0..(asked[n].nbytes - 1) /\ a = asked[n].dst + (a - asked[n].dst)
      BY <3>1 DEF Bytes
    <3> QED BY <3>2
  <2>6. i \in 1..Len(sent[q]) /\ n \in 1..sent[q][i].v /\ sent[q][i].a = Flag
    BY <2>1, <2>2, <2>3 DEF MemoryOf
  <2>7. StoredBefore(n, j, i)
    BY <1>1, <2>5, <2>6 DEF OrderInv, FlagIsLast
  <2>8. PICK k \in 1..(i - 1) : sent[q][k] = [a |-> a, v |-> 2 * n]
    BY <2>5, <2>7 DEF StoredBefore
  <2>9. k \in 1..landed[q]
    BY <2>2, <2>3
  <2> QED BY <2>1, <2>8, <2>9 DEF MemoryOf
<1> QED BY <1>1, CopiesAreInOrder, PTL

\* After quiet the bytes of a get are in memory.
THEOREM QuietWaitsForGets == NbiSpec => []QuietCompletesGets
<1>1. ASSUME OrderInv PROVE QuietCompletesGets
  <2> SUFFICES ASSUME NEW n \in 1..fenced, asked[n].pe = my_pe, NEW a \in Bytes(asked[n])
               PROVE  memory[my_pe][a] >= 2 * n
    BY DEF QuietCompletesGets
  <2>1. NbiTypeOK /\ MemoryOf(my_pe) /\ landed[my_pe] = Len(sent[my_pe]) /\ my_pe \in DestPE
    BY <1>1, CopiesAssumption DEF OrderInv, MemoryIsWhatLanded
  <2>2. n \in 1..Len(asked) /\ landed[my_pe] \in Nat
    BY <2>1 DEF NbiTypeOK
  <2>3. asked[n] \in Copies
    BY <2>1, <2>2, AskedHaveTypes
  <2>4. PICK j \in 0..(asked[n].nbytes - 1) : a = asked[n].dst + j
    <3>1. asked[n].dst \in Nat /\ asked[n].nbytes \in Nat
      BY <2>3, BytesAreAddresses
    <3>2. a - asked[n].dst \in 0..(asked[n].nbytes - 1) /\ a = asked[n].dst + (a - asked[n].dst)
      BY <3>1 DEF Bytes
    <3> QED BY <3>2
  <2>5. Stored(n, j)
    BY <1>1, <2>4 DEF OrderInv, FlagIsLast
  <2>6. PICK k \in 1..landed[my_pe] : sent[my_pe][k] = [a |-> a, v |-> 2 * n]
    BY <2>1, <2>2, <2>4, <2>5 DEF Stored, StoredBefore
  <2> QED BY <2>1, <2>6 DEF MemoryOf
<1> QED BY <1>1, CopiesAreInOrder, PTL

------------------------------------------------------------------------------
(* After quiet no mark is left *)

\* A store of a copy, or of a flag, is added to those of copies.
LEMMA StoreIsOfCopy ==
  ASSUME NbiTypeOK, StoresAreOfCopies, asked' = asked,
         NEW q \in DestPE, NEW a \in Addr, NEW v \in Nat, Store(q, a, v),
         a # Flag => \E n \in 1..Len(asked) : IsOfCopy(q, [a |-> a, v |-> v], n)
  PROVE  StoresAreOfCopies'
<1>1. Appended(q, a, v)
  BY StoreAppends
<1>2. ASSUME NEW u \in DestPE, NEW i \in 1..Len(sent'[u]), sent'[u][i].a # Flag
      PROVE  \E n \in 1..Len(asked) : IsOfCopy(u, sent'[u][i], n)
  <2>1. CASE u = q /\ i = Len(sent[q]) + 1
    <3>1. sent'[u][i] = [a |-> a, v |-> v] /\ sent'[u][i].a = a
      BY <1>1, <2>1 DEF Appended
    <3> QED BY <1>2, <2>1, <3>1
  <2>2. CASE ~(u = q /\ i = Len(sent[q]) + 1)
    <3>1. i \in 1..Len(sent[u]) /\ sent'[u][i] = sent[u][i]
      BY <1>1, <2>2 DEF Appended
    <3> QED BY <1>2, <3>1 DEF StoresAreOfCopies
  <2> QED BY <2>1, <2>2
<1> QED BY <1>2 DEF StoresAreOfCopies, IsOfCopy

\* The mark is the last byte of the copy that the core is in.
LEMMA MarkIsOfCopy == ASSUME OrderInv, StoresAreOfCopies, Mark PROVE StoresAreOfCopies'
<1> DEFINE x == dma_desc.copy
           n == Len(asked)
<1>1. NbiTypeOK /\ core = "mark" /\ Store(x.pe, Last(x), 2 * dma_desc.n - 1) /\ asked' = asked
  BY DEF Mark, OrderInv
<1>2. n \in 1..n /\ n \in Nat /\ dma_desc.n = n /\ x = asked[n]
  BY <1>1 DEF OrderInv, EngineIsKnown, InCopy, NbiTypeOK
<1>3. x \in Copies /\ 2 * n - 1 \in Nat
  BY <1>1, <1>2, AskedHaveTypes
<1>4. x.pe \in DestPE /\ Last(x) \in Addr /\ Last(x) \in Bytes(x)
  BY <1>3, BytesAreAddresses
<1>5. IsOfCopy(x.pe, [a |-> Last(x), v |-> 2 * n - 1], n)
  BY <1>2, <1>4 DEF IsOfCopy
<1> HIDE DEF x, n
<1> QED BY <1>1, <1>2, <1>3, <1>4, <1>5, StoreIsOfCopy DEF n

\* The engine moves the bytes of a copy that was asked for.
LEMMA MoveIsOfCopy == ASSUME OrderInv, StoresAreOfCopies, Move PROVE StoresAreOfCopies'
<1> DEFINE x == engine.copy
           a == x.dst + engine.moved
           n == engine.n
<1>1. NbiTypeOK /\ Busy /\ Store(x.pe, a, 2 * n) /\ asked' = asked
  BY DEF Move, OrderInv
<1>2. /\ n \in 1..Len(asked) /\ x = asked[n] /\ engine.moved < x.nbytes
      /\ engine.moved \in Nat
  BY <1>1 DEF OrderInv, EngineIsKnown, NbiTypeOK
<1>3. x \in Copies
  BY <1>1, <1>2, AskedHaveTypes
<1>4. /\ x.pe \in DestPE /\ x.dst \in Nat /\ x.nbytes \in Nat
      /\ \A j \in 0..(x.nbytes - 1) : x.dst + j \in Addr
  BY <1>3, BytesAreAddresses
<1>5. engine.moved \in 0..(x.nbytes - 1)
  BY <1>2, <1>4
<1>6. a \in Addr /\ a \in Bytes(x) /\ 2 * n \in Nat
  BY <1>2, <1>4, <1>5 DEF Bytes
<1>7. IsOfCopy(x.pe, [a |-> a, v |-> 2 * n], n)
  BY <1>2, <1>6 DEF IsOfCopy
<1> HIDE DEF x, a, n
<1> QED BY <1>1, <1>2, <1>4, <1>6, <1>7, StoreIsOfCopy

LEMMA NextIsOfCopies ==
  ASSUME OrderInv, StoresAreOfCopies, [NbiNext]_nbiVars PROVE StoresAreOfCopies'
<1>1. ASSUME NEW x \in Copies, Memcpy_nbi(x) PROVE StoresAreOfCopies'
  <2>1. sent' = sent /\ asked' = Append(asked, x) /\ asked \in Seq(Copies)
    BY <1>1 DEF Memcpy_nbi, NoStores, OrderInv, NbiTypeOK
  <2>2. \A n \in 1..Len(asked) : n \in 1..Len(asked') /\ asked'[n] = asked[n]
    BY <2>1
  <2> SUFFICES ASSUME NEW q \in DestPE, NEW i \in 1..Len(sent[q]), sent[q][i].a # Flag
               PROVE  \E n \in 1..Len(asked') : IsOfCopy(q, sent[q][i], n)'
    BY <2>1 DEF StoresAreOfCopies, IsOfCopy
  <2>3. PICK n \in 1..Len(asked) : IsOfCopy(q, sent[q][i], n)
    BY DEF StoresAreOfCopies
  <2>4. n \in 1..Len(asked') /\ asked'[n] = asked[n]
    BY <2>2
  <2>5. IsOfCopy(q, sent[q][i], n)'
    BY <2>1, <2>3, <2>4 DEF IsOfCopy
  <2> QED BY <2>4, <2>5
<1>2. ASSUME NEW q \in DestPE, SetFlag(q) PROVE StoresAreOfCopies'
  <2>1. NbiTypeOK /\ Store(q, Flag, fenced) /\ asked' = asked /\ fenced \in Nat
    BY <1>2 DEF SetFlag, OrderInv, NbiTypeOK
  <2> QED BY <2>1, FlagIsAddress, StoreIsOfCopy
<1>3. ASSUME sent' = sent, asked' = asked PROVE StoresAreOfCopies'
  BY <1>3 DEF StoresAreOfCopies, IsOfCopy
<1> QED BY <1>1, <1>2, <1>3, MarkIsOfCopy, MoveIsOfCopy
        DEF NbiNext, Core, Wait, StartEngine, CallQuiet, QuietNothing, Quiet, LandOldest,
            AllAsked, NoStores, nbiVars

\* The stores of core and engine are those of the copies, no copy is lost, and
\* stores are made and land in the order of the copies.
THEOREM StoresAreKnown == NbiSpec => []NbiInv
<1>1. NbiInit => StoresAreOfCopies
  BY DEF NbiInit, StoresAreOfCopies
<1>2. OrderInv /\ StoresAreOfCopies /\ [NbiNext]_nbiVars => StoresAreOfCopies'
  BY NextIsOfCopies
<1>3. OrderInv /\ StoresAreOfCopies <=> NbiInv
  BY DEF NbiInv
<1> QED BY <1>1, <1>2, <1>3, CopiesAreInOrder, PTL DEF NbiSpec

\* After a quiet with nothing in flight, a byte is that of the latest copy to it:
\* the mark of a copy never outlives its last byte.
THEOREM MarksAreOverwritten == NbiSpec => []NoMarkIsLeft
<1>1. ASSUME NbiInv PROVE NoMarkIsLeft
  <2> SUFFICES ASSUME NEW q \in DestPE, fenced = Len(asked), landed[q] = Len(sent[q]),
                      NEW a \in Addr \ {Flag}
               PROVE  /\ memory[q][a] \in LatestCopy(q, a)
                      /\ \A v \in LatestCopy(q, a) : v <= memory[q][a]
    BY DEF NoMarkIsLeft
  <2>1. NbiTypeOK /\ MemoryOf(q) /\ Len(asked) \in Nat
    BY <1>1 DEF NbiInv, OrderInv, MemoryIsWhatLanded, NbiTypeOK
  <2>2. memory[q][a] \in Nat /\ landed[q] \in Nat
    BY <2>1 DEF NbiTypeOK
  <2>3. ASSUME NEW n \in 1..Len(asked), asked[n].pe = q, a \in Bytes(asked[n])
        PROVE  2 * n <= memory[q][a]
    <3>1. asked[n].dst \in Nat /\ asked[n].nbytes \in Nat
      BY <2>1, AskedHaveTypes, BytesAreAddresses
    <3>2. PICK j \in 0..(asked[n].nbytes - 1) : a = asked[n].dst + j
      <4>1. a - asked[n].dst \in 0..(asked[n].nbytes - 1) /\ a = asked[n].dst + (a - asked[n].dst)
        BY <2>3, <3>1 DEF Bytes
      <4> QED BY <4>1
    <3>3. Stored(n, j)
      BY <1>1, <3>2 DEF NbiInv, OrderInv, FlagIsLast
    <3>4. PICK k \in 1..landed[q] : sent[q][k] = [a |-> a, v |-> 2 * n]
      BY <2>2, <2>3, <3>2, <3>3 DEF Stored, StoredBefore
    <3> QED BY <2>1, <3>4 DEF MemoryOf
  <2>4. \A v \in LatestCopy(q, a) : v <= memory[q][a]
    BY <2>2, <2>3 DEF LatestCopy
  <2>5. memory[q][a] \in LatestCopy(q, a)
    <3>1. CASE memory[q][a] = 0
      BY <3>1 DEF LatestCopy
    <3>2. CASE memory[q][a] # 0
      <4>1. PICK i \in 1..landed[q] : sent[q][i] = [a |-> a, v |-> memory[q][a]]
        BY <2>1, <3>2 DEF MemoryOf
      <4>2. PICK n \in 1..Len(asked) : IsOfCopy(q, sent[q][i], n)
        BY <1>1, <4>1 DEF NbiInv, StoresAreOfCopies
      <4>3. asked[n].pe = q /\ a \in Bytes(asked[n]) /\ memory[q][a] \in {2 * n - 1, 2 * n}
        BY <4>1, <4>2 DEF IsOfCopy
      <4>4. memory[q][a] = 2 * n
        BY <2>1, <2>3, <4>3
      <4> QED BY <4>3, <4>4 DEF LatestCopy
    <3> QED BY <3>1, <3>2
  <2> QED BY <2>4, <2>5
<1> QED BY <1>1, StoresAreKnown, PTL
------------------------------------------------------------------------------
(* The interrupt get (ShmemIpiGet), for every set of PEs: a PE's arguments are *)
(* those of one request at a time, and a PE is told of the end of its own copy *)
(* only.                                                                       *)
(*                                                                             *)
(* A request is followed from the lock through the mesh and the interrupt      *)
(* latch to the interrupt routine (At).  The invariant says that one request   *)
(* is with a PE, in one of these places, while its lock is set (OneIsHere),    *)
(* and that a waiting PE has either a request out or its answer (OneAnswer).   *)

CONSTANTS PE, Sizes, Threshold, MaxCalls
VARIABLES pc, calls, remote, dest, args, requests, ilat, isr, completes, served

I == INSTANCE ShmemIpiGet

\* A step keeps the types.
LEMMA GetTypes == ASSUME I!TypeOK, [I!Next]_(I!vars) PROVE I!TypeOK'
<1>1. ASSUME NEW p \in PE, NEW q \in PE, NEW nelems \in Sizes, I!Get(p, q, nelems)
      PROVE  I!TypeOK'
  BY <1>1 DEF I!Get, I!TypeOK, I!Goto
<1>2. ASSUME NEW p \in PE, I!Lock(p) PROVE I!TypeOK'
  BY <1>2 DEF I!Lock, I!TypeOK, I!Args, I!Goto
<1>3. ASSUME NEW p \in PE, I!Ask(p) PROVE I!TypeOK'
  BY <1>3 DEF I!Ask, I!TypeOK, I!Goto
<1>4. ASSUME NEW p \in PE, I!Wait(p) PROVE I!TypeOK'
  BY <1>4 DEF I!Wait, I!TypeOK, I!Goto
<1>5. ASSUME NEW p \in PE, I!Reset(p) PROVE I!TypeOK'
  BY <1>5 DEF I!Reset, I!TypeOK, I!Args, I!Goto
<1>6. ASSUME NEW q \in PE, I!Interrupt(q) PROVE I!TypeOK'
  BY <1>6 DEF I!Interrupt, I!TypeOK
<1>7. ASSUME NEW q \in PE, I!IsrCopy(q) PROVE I!TypeOK'
  BY <1>7 DEF I!IsrCopy, I!TypeOK
<1>8. ASSUME NEW q \in PE, I!IsrComplete(q) PROVE I!TypeOK'
  BY <1>8 DEF I!IsrComplete, I!TypeOK
<1>9. ASSUME NEW q \in PE, I!IsrFree(q) PROVE I!TypeOK'
  BY <1>9 DEF I!IsrFree, I!TypeOK, I!Args
<1>10. ASSUME I!LandRequest PROVE I!TypeOK'
  BY <1>10 DEF I!LandRequest, I!TypeOK, I!Args
<1>11. ASSUME I!LandComplete PROVE I!TypeOK'
  BY <1>11 DEF I!LandComplete, I!TypeOK, I!Args
<1>12. ASSUME UNCHANGED I!vars PROVE I!TypeOK'
  BY <1>12 DEF I!vars, I!TypeOK
<1> QED BY <1>1, <1>2, <1>3, <1>4, <1>5, <1>6, <1>7, <1>8, <1>9, <1>10, <1>11, <1>12
        DEF I!Next, I!Step, I!Land, I!Calls, I!Finished

\* A step that changes what is with one PE q leaves OneIsHere if what is there
\* afterwards is one request in one place, or nothing.
LEMMA OneStaysHere ==
  ASSUME I!OneIsHere, NEW q \in PE, NEW s \in I!Stage, NEW p \in PE,
         \A u \in PE \ {q} :
           /\ args'[u].lock = args[u].lock /\ isr'[u] = isr[u]
           /\ \A t \in I!Stage, r \in PE : I!At(u, t, r)' => I!At(u, t, r),
         \A t \in I!Stage, r \in PE : I!At(q, t, r)' => t = s /\ r = p,
         args'[q].lock = 0 \/ isr'[q] = "free" =>
           \A t \in I!Stage, r \in PE : ~I!At(q, t, r)',
         args'[q].lock = 0 => isr'[q] = "none"
  PROVE  I!OneIsHere'
BY DEF I!OneIsHere

\* What a PE waits for is as it was if its request, its place in the call and
\* its counts are.
LEMMA OneAnswerStays ==
  ASSUME I!OneAnswer,
         pc' = pc, remote' = remote, calls' = calls, served' = served,
         completes' = completes, \A p \in PE : args'[p].complete = args[p].complete,
         \A q, p \in PE, s \in I!Stage \ {"ask"} : I!At(q, s, p)' =>
           \E t \in I!Stage \ {"ask"} : I!At(q, t, p) /\ (t = "complete" <=> s = "complete")
  PROVE  I!OneAnswer'
BY DEF I!OneAnswer

------------------------------------------------------------------------------
\* The caller.

LEMMA GetKeeps ==
  ASSUME I!IInv, NEW p \in PE, NEW q \in PE, NEW nelems \in Sizes, I!Get(p, q, nelems)
  PROVE  I!OneIsHere' /\ I!OneAnswer'
<1>1. I!TypeOK /\ I!OneIsHere /\ I!OneAnswer /\ pc[p] = "out"
  BY DEF I!IInv, I!Get
<1>2. /\ args' = args /\ requests' = requests /\ ilat' = ilat /\ isr' = isr
      /\ completes' = completes
      /\ calls' = [calls EXCEPT ![p] = @ + 1] /\ remote' = [remote EXCEPT ![p] = q]
      /\ \A r \in PE \ {p} : pc'[r] = pc[r] /\ served'[r] = served[r]
      /\ \/ pc'[p] = "out" /\ served'[p] = served[p] + 1
         \/ pc'[p] = "lock" /\ served'[p] = served[p]
  BY <1>1 DEF I!Get, I!Goto, I!TypeOK
<1>3. \A u, r \in PE, s \in I!Stage : I!At(u, s, r)' <=> I!At(u, s, r)
  BY <1>1, <1>2 DEF I!At, I!TypeOK
<1>4. I!OneIsHere'
  BY <1>1, <1>2, <1>3 DEF I!OneIsHere
<1>5. \A u \in PE, s \in I!Stage \ {"ask"} : ~I!At(u, s, p)
  BY <1>1 DEF I!OneAnswer
<1>6. p \notin completes /\ args[p].complete # 1
  BY <1>1 DEF I!OneAnswer
<1>7. I!OneAnswer'
  BY <1>1, <1>2, <1>3, <1>5, <1>6 DEF I!OneAnswer, I!TypeOK
<1> QED BY <1>4, <1>7

LEMMA LockKeeps ==
  ASSUME I!IInv, NEW p \in PE, I!Lock(p)
  PROVE I!OneIsHere' /\ I!OneAnswer'
<1> DEFINE q == remote[p]
<1>1. I!TypeOK /\ I!OneIsHere /\ I!OneAnswer /\ pc[p] = "lock" /\ q \in PE
  BY DEF I!IInv, I!Lock, I!TypeOK
<1>2. /\ pc' = [pc EXCEPT ![p] = "ask"] /\ args[q].lock = 0
      /\ \A u \in PE : /\ args'[u].pcomplete = args[u].pcomplete
                       /\ args'[u].complete = args[u].complete
                       /\ args'[u].lock = IF u = q THEN 1 ELSE args[u].lock
  BY <1>1 DEF I!Lock, I!Goto, I!TypeOK, I!Args
<1>3. UNCHANGED <<calls, remote, dest, requests, ilat, isr, completes, served>>
  BY DEF I!Lock
<1>4. \A u, r \in PE, s \in I!Stage :
        I!At(u, s, r)' <=> I!At(u, s, r) \/ (u = q /\ s = "ask" /\ r = p)
  BY <1>1, <1>2, <1>3 DEF I!At, I!TypeOK
<1>5. isr[q] = "none" /\ \A s \in I!Stage, r \in PE : ~I!At(q, s, r)
  BY <1>1, <1>2 DEF I!OneIsHere
<1>6. I!OneIsHere'
  BY <1>1, <1>2, <1>3, <1>4, <1>5 DEF I!OneIsHere, I!Stage
<1>7. I!OneAnswer'
  <2>1. /\ \A u, r \in PE, s \in I!Stage \ {"ask"} : I!At(u, s, r)' => I!At(u, s, r) /\ r # p
        /\ pc'[p] = "ask" /\ \A r \in PE \ {p} : pc'[r] = pc[r]
    BY <1>1, <1>2, <1>4 DEF I!OneAnswer, I!TypeOK
  <2> HIDE DEF q
  <2>2. \A u, r \in PE, s \in I!Stage \ {"ask"} : I!At(u, s, r)' =>
          /\ pc'[r] = "wait" /\ remote'[r] = u /\ r \notin completes' /\ args'[r].complete = 0
          /\ served'[r] = IF s = "complete" THEN calls'[r] ELSE calls'[r] - 1
    BY <2>1, <1>1, <1>2, <1>3 DEF I!OneAnswer
  <2>3. \A r \in PE :
          /\ r \in completes' =>
               pc'[r] = "wait" /\ args'[r].complete = 0 /\ served'[r] = calls'[r]
          /\ args'[r].complete = 1 => pc'[r] \in {"wait", "reset"} /\ served'[r] = calls'[r]
          /\ pc'[r] = "out" => served'[r] = calls'[r]
          /\ pc'[r] \in {"lock", "ask"} => served'[r] = calls'[r] - 1
          /\ pc'[r] = "reset" => args'[r].complete = 1
    BY <2>1, <1>1, <1>2, <1>3 DEF I!OneAnswer
  <2> QED BY <2>2, <2>3 DEF I!OneAnswer
<1> QED BY <1>6, <1>7

LEMMA AskKeeps ==
  ASSUME I!IInv, NEW p \in PE, I!Ask(p)
  PROVE I!OneIsHere' /\ I!OneAnswer'
<1> DEFINE q == remote[p]
<1>1. I!TypeOK /\ I!OneIsHere /\ I!OneAnswer /\ pc[p] = "ask" /\ q \in PE
  BY DEF I!IInv, I!Ask, I!TypeOK
<1>2. /\ pc' = [pc EXCEPT ![p] = "wait"]
      /\ requests' = requests \cup {[to |-> q, pcomplete |-> p]}
      /\ UNCHANGED <<calls, remote, dest, args, ilat, isr, completes, served>>
  BY DEF I!Ask, I!Goto
<1>3. I!At(q, "ask", p)
  BY <1>1 DEF I!At
<1>4. \A u, r \in PE, s \in I!Stage :
        I!At(u, s, r)' <=> \/ I!At(u, s, r) /\ ~(s = "ask" /\ r = p)
                           \/ u = q /\ s = "request" /\ r = p
  BY <1>1, <1>2 DEF I!At, I!TypeOK, I!Stage
<1>5. I!OneIsHere'
  BY <1>1, <1>2, <1>3, <1>4 DEF I!OneIsHere, I!Stage
<1>6. p \notin completes /\ args[p].complete # 1 /\ args[p].complete \in {0, 1}
  BY <1>1 DEF I!OneAnswer, I!TypeOK, I!Args
<1>7. \A u \in PE, s \in I!Stage \ {"ask"} : ~I!At(u, s, p)
  BY <1>1 DEF I!OneAnswer
<1>8. I!OneAnswer'
  BY <1>1, <1>2, <1>4, <1>6, <1>7 DEF I!OneAnswer, I!TypeOK
<1> QED BY <1>5, <1>8

\* The caller sees complete: there is no request of its call any more.
LEMMA WaitKeeps ==
  ASSUME I!IInv, NEW p \in PE, I!Wait(p)
  PROVE I!OneIsHere' /\ I!OneAnswer'
<1>1. I!TypeOK /\ I!OneIsHere /\ I!OneAnswer /\ pc[p] = "wait" /\ args[p].complete = 1
  BY DEF I!IInv, I!Wait, I!TypeOK, I!Args
<1>2. /\ pc' = [pc EXCEPT ![p] = "reset"]
      /\ UNCHANGED <<calls, remote, dest, args, requests, ilat, isr, completes, served>>
  BY DEF I!Wait, I!Goto
<1>3. \A u, r \in PE, s \in I!Stage : I!At(u, s, r)' <=> I!At(u, s, r)
  BY <1>1, <1>2 DEF I!At, I!TypeOK
<1>4. I!OneIsHere'
  BY <1>1, <1>2, <1>3 DEF I!OneIsHere
<1>5. p \notin completes /\ \A u \in PE, s \in I!Stage \ {"ask"} : ~I!At(u, s, p)
  BY <1>1 DEF I!OneAnswer
<1>6. I!OneAnswer'
  BY <1>1, <1>2, <1>3, <1>5 DEF I!OneAnswer, I!TypeOK
<1> QED BY <1>4, <1>6

LEMMA ResetKeeps ==
  ASSUME I!IInv, NEW p \in PE, I!Reset(p)
  PROVE I!OneIsHere' /\ I!OneAnswer'
<1>1. I!TypeOK /\ I!OneIsHere /\ I!OneAnswer /\ pc[p] = "reset" /\ args[p].complete = 1
  BY DEF I!IInv, I!Reset, I!OneAnswer
<1>2. /\ pc' = [pc EXCEPT ![p] = "out"]
      /\ \A u \in PE : /\ args'[u].pcomplete = args[u].pcomplete
                       /\ args'[u].lock = args[u].lock
                       /\ args'[u].complete = IF u = p THEN 0 ELSE args[u].complete
  BY <1>1 DEF I!Reset, I!Goto, I!TypeOK, I!Args
<1>3. UNCHANGED <<calls, remote, dest, requests, ilat, isr, completes, served>>
  BY DEF I!Reset
<1>4. \A u, r \in PE, s \in I!Stage : I!At(u, s, r)' <=> I!At(u, s, r)
  BY <1>1, <1>2, <1>3 DEF I!At, I!TypeOK
<1>5. I!OneIsHere'
  BY <1>1, <1>2, <1>3, <1>4 DEF I!OneIsHere
<1>6. /\ p \notin completes /\ served[p] = calls[p]
      /\ \A u \in PE, s \in I!Stage \ {"ask"} : ~I!At(u, s, p)
  BY <1>1 DEF I!OneAnswer
<1>7. I!OneAnswer'
  BY <1>1, <1>2, <1>3, <1>4, <1>6 DEF I!OneAnswer, I!TypeOK
<1> QED BY <1>5, <1>7

------------------------------------------------------------------------------
\* The mesh.

\* Arguments and interrupt arrive: nothing else is with the PE.
LEMMA LandRequestKeeps == ASSUME I!IInv, I!LandRequest PROVE I!OneIsHere' /\ I!OneAnswer'
<1>1. I!TypeOK /\ I!OneIsHere /\ I!OneAnswer
  BY DEF I!IInv
<1>2. PICK m \in requests : /\ args' = [args EXCEPT ![m.to].pcomplete = m.pcomplete]
                            /\ ilat' = [ilat EXCEPT ![m.to] = TRUE]
                            /\ requests' = requests \ {m}
  BY DEF I!LandRequest
<1>3. UNCHANGED <<pc, calls, remote, dest, isr, completes, served>>
  BY DEF I!LandRequest
<1>4. PICK q \in PE, p \in PE : m = [to |-> q, pcomplete |-> p]
  BY <1>1 DEF I!TypeOK
<1>5. \A u \in PE : /\ args'[u].pcomplete = IF u = q THEN p ELSE args[u].pcomplete
                    /\ args'[u].lock = args[u].lock
                    /\ args'[u].complete = args[u].complete
                    /\ u # q => ilat'[u] = ilat[u]
  <2>1. args \in [PE -> I!Args] /\ m.to = q /\ m.pcomplete = p
    BY <1>1, <1>4 DEF I!TypeOK
  <2>2. \A u \in PE : u # q => ilat'[u] = ilat[u]
    BY <1>1, <1>2, <2>1 DEF I!TypeOK
  <2>3. args' = [args EXCEPT ![q].pcomplete = p]
    BY <1>2, <2>1
  <2> QED BY <2>1, <2>2, <2>3 DEF I!Args
<1>6. I!At(q, "request", p) /\ "request" \in I!Stage
  BY <1>2, <1>4 DEF I!At, I!Stage
<1>7. \A s \in I!Stage, r \in PE : I!At(q, s, r) => s = "request" /\ r = p
  BY <1>1, <1>6 DEF I!OneIsHere
<1>8. ~(args[q].lock = 0 \/ isr[q] = "free")
  BY <1>1, <1>6 DEF I!OneIsHere
<1>9. isr[q] \notin {"copy", "complete"}
  <2>1. ASSUME isr[q] \in {"copy", "complete"} PROVE I!At(q, isr[q], args[q].pcomplete)
    BY <2>1 DEF I!At
  <2> QED BY <2>1, <1>1, <1>7 DEF I!TypeOK, I!Stage
<1>10. \A s \in I!Stage, r \in PE : I!At(q, s, r)' => s = "latched" /\ r = p
  BY <1>2, <1>3, <1>4, <1>5, <1>7, <1>9 DEF I!At, I!Stage
<1>11. \A u \in PE \ {q}, s \in I!Stage, r \in PE : I!At(u, s, r)' <=> I!At(u, s, r)
  BY <1>2, <1>3, <1>4, <1>5 DEF I!At
<1>12. I!OneIsHere'
  <2>1. \A u \in PE \ {q} :
          /\ args'[u].lock = args[u].lock /\ isr'[u] = isr[u]
          /\ \A s \in I!Stage, r \in PE : I!At(u, s, r)' => I!At(u, s, r)
    BY <1>3, <1>5, <1>11
  <2>2. args'[q].lock # 0 /\ isr'[q] # "free" /\ "latched" \in I!Stage
    BY <1>3, <1>5, <1>8 DEF I!Stage
  <2> QED BY <2>1, <2>2, <1>1, <1>10, OneStaysHere
<1>13. I!OneAnswer'
  <2>1. \A u, r \in PE, s \in I!Stage \ {"ask"} : I!At(u, s, r)' =>
          \E t \in I!Stage \ {"ask"} : I!At(u, t, r) /\ (t = "complete" <=> s = "complete")
    BY <1>6, <1>10, <1>11
  <2> QED BY <2>1, <1>1, <1>3, <1>5, OneAnswerStays
<1> QED BY <1>12, <1>13

LEMMA LandCompleteKeeps ==
  ASSUME I!IInv, I!LandComplete
  PROVE I!OneIsHere' /\ I!OneAnswer'
<1>1. I!TypeOK /\ I!OneIsHere /\ I!OneAnswer
  BY DEF I!IInv
<1>2. PICK p \in completes : /\ args' = [args EXCEPT ![p].complete = 1]
                             /\ completes' = completes \ {p}
  BY DEF I!LandComplete
<1>3. UNCHANGED <<pc, calls, remote, dest, requests, ilat, isr, served>> /\ p \in PE
  BY <1>1 DEF I!LandComplete, I!TypeOK
<1>4. \A u \in PE : /\ args'[u].pcomplete = args[u].pcomplete
                    /\ args'[u].lock = args[u].lock
                    /\ args'[u].complete = IF u = p THEN 1 ELSE args[u].complete
  BY <1>1, <1>2, <1>3 DEF I!TypeOK, I!Args
<1>5. \A u, r \in PE, s \in I!Stage : I!At(u, s, r)' <=> I!At(u, s, r)
  BY <1>3, <1>4 DEF I!At
<1>6. I!OneIsHere'
  BY <1>1, <1>3, <1>4, <1>5 DEF I!OneIsHere
<1>7. \A u \in PE, s \in I!Stage \ {"ask"} : ~I!At(u, s, p)
  BY <1>1, <1>2, <1>3 DEF I!OneAnswer
<1>8. I!OneAnswer'
  BY <1>1, <1>2, <1>3, <1>4, <1>5, <1>7 DEF I!OneAnswer, I!TypeOK
<1> QED BY <1>6, <1>8

------------------------------------------------------------------------------
\* The interrupt routine.

LEMMA InterruptKeeps ==
  ASSUME I!IInv, NEW q \in PE, I!Interrupt(q)
  PROVE I!OneIsHere' /\ I!OneAnswer'
<1> DEFINE p == args[q].pcomplete
<1>1. I!TypeOK /\ I!OneIsHere /\ I!OneAnswer /\ isr[q] = "none" /\ ilat[q] /\ p \in PE
  BY DEF I!IInv, I!Interrupt, I!Runs, I!TypeOK
<1>2. /\ UNCHANGED <<pc, calls, remote, dest, args, requests, completes, served>>
      /\ ~ilat'[q] /\ isr'[q] = "copy"
      /\ \A u \in PE \ {q} : ilat'[u] = ilat[u] /\ isr'[u] = isr[u]
  BY <1>1 DEF I!Interrupt, I!TypeOK
<1>3. I!At(q, "latched", p) /\ "latched" \in I!Stage /\ "copy" \in I!Stage
  BY <1>1 DEF I!At, I!Stage
<1>4. /\ args[q].lock # 0
      /\ \A s \in I!Stage, r \in PE : I!At(q, s, r) => s = "latched" /\ r = p
  BY <1>1, <1>3 DEF I!OneIsHere
<1>5. \A s \in I!Stage, r \in PE : I!At(q, s, r)' => s = "copy" /\ r = p
  BY <1>2, <1>4 DEF I!At, I!Stage
<1>6. \A u \in PE \ {q}, s \in I!Stage, r \in PE : I!At(u, s, r)' <=> I!At(u, s, r)
  BY <1>2 DEF I!At
<1>7. I!OneIsHere'
  <2>1. \A u \in PE \ {q} :
          /\ args'[u].lock = args[u].lock /\ isr'[u] = isr[u]
          /\ \A s \in I!Stage, r \in PE : I!At(u, s, r)' => I!At(u, s, r)
    BY <1>2, <1>6
  <2>2. args'[q].lock # 0 /\ isr'[q] # "free"
    BY <1>1, <1>2, <1>4
  <2> HIDE DEF p
  <2> QED BY <2>1, <2>2, <1>1, <1>3, <1>5, OneStaysHere
<1>8. \A u, r \in PE, s \in I!Stage \ {"ask"} : I!At(u, s, r)' =>
        \E t \in I!Stage \ {"ask"} : I!At(u, t, r) /\ (t = "complete" <=> s = "complete")
  BY <1>3, <1>5, <1>6
<1>9. I!OneAnswer'
  BY <1>1, <1>2, <1>8, OneAnswerStays
<1> QED BY <1>7, <1>9

\* The copy is made for the PE whose arguments these are.
LEMMA IsrCopyKeeps ==
  ASSUME I!IInv, NEW q \in PE, I!IsrCopy(q)
  PROVE I!OneIsHere' /\ I!OneAnswer'
<1> DEFINE p == args[q].pcomplete
<1>1. I!TypeOK /\ I!OneIsHere /\ I!OneAnswer /\ isr[q] = "copy" /\ p \in PE
  BY DEF I!IInv, I!IsrCopy, I!TypeOK
<1>2. /\ UNCHANGED <<pc, calls, remote, args, requests, ilat, completes>>
      /\ \A u \in PE : /\ served'[u] = IF u = p THEN served[p] + 1 ELSE served[u]
                       /\ isr'[u] = IF u = q THEN "complete" ELSE isr[u]
  BY <1>1 DEF I!IsrCopy, I!TypeOK
<1>3. I!At(q, "copy", p) /\ "copy" \in I!Stage /\ "complete" \in I!Stage
  BY <1>1 DEF I!At, I!Stage
<1>4. /\ args[q].lock # 0
      /\ \A s \in I!Stage, r \in PE : I!At(q, s, r) => s = "copy" /\ r = p
  BY <1>1, <1>3 DEF I!OneIsHere
<1>5. \A s \in I!Stage, r \in PE : I!At(q, s, r)' => s = "complete" /\ r = p
  BY <1>2, <1>4 DEF I!At, I!Stage
<1>6. \A u \in PE \ {q}, s \in I!Stage, r \in PE : I!At(u, s, r)' <=> I!At(u, s, r)
  BY <1>2 DEF I!At
<1>7. I!OneIsHere'
  <2>1. \A u \in PE \ {q} :
          /\ args'[u].lock = args[u].lock /\ isr'[u] = isr[u]
          /\ \A s \in I!Stage, r \in PE : I!At(u, s, r)' => I!At(u, s, r)
    BY <1>2, <1>6
  <2>2. args'[q].lock # 0 /\ isr'[q] # "free"
    BY <1>1, <1>2, <1>4
  <2> HIDE DEF p
  <2> QED BY <2>1, <2>2, <1>1, <1>3, <1>5, OneStaysHere
<1>8. /\ pc[p] = "wait" /\ remote[p] = q /\ p \notin completes /\ args[p].complete = 0
      /\ served[p] = calls[p] - 1
  BY <1>1, <1>3 DEF I!OneAnswer
<1>9. \A u \in PE \ {q}, s \in I!Stage \ {"ask"} : ~I!At(u, s, p)
  BY <1>1, <1>8 DEF I!OneAnswer
<1>10. I!OneAnswer'
  BY <1>1, <1>2, <1>5, <1>6, <1>8, <1>9 DEF I!OneAnswer, I!TypeOK
<1> QED BY <1>7, <1>10

LEMMA IsrCompleteKeeps ==
  ASSUME I!IInv, NEW q \in PE, I!IsrComplete(q)
  PROVE I!OneIsHere' /\ I!OneAnswer'
<1> DEFINE p == args[q].pcomplete
<1>1. I!TypeOK /\ I!OneIsHere /\ I!OneAnswer /\ isr[q] = "complete" /\ p \in PE
  BY DEF I!IInv, I!IsrComplete, I!TypeOK
<1>2. /\ UNCHANGED <<pc, calls, remote, args, requests, ilat, served>>
      /\ completes' = completes \cup {p}
      /\ \A u \in PE : isr'[u] = IF u = q THEN "free" ELSE isr[u]
  BY <1>1 DEF I!IsrComplete, I!TypeOK
<1>3. I!At(q, "complete", p) /\ "complete" \in I!Stage
  BY <1>1 DEF I!At, I!Stage
<1>4. /\ args[q].lock # 0
      /\ \A s \in I!Stage, r \in PE : I!At(q, s, r) => s = "complete" /\ r = p
  BY <1>1, <1>3 DEF I!OneIsHere
<1>5. \A s \in I!Stage, r \in PE : ~I!At(q, s, r)'
  BY <1>2, <1>4 DEF I!At, I!Stage
<1>6. \A u \in PE \ {q}, s \in I!Stage, r \in PE : I!At(u, s, r)' <=> I!At(u, s, r)
  BY <1>2 DEF I!At
<1>7. I!OneIsHere'
  <2>1. \A u \in PE \ {q} :
          /\ args'[u].lock = args[u].lock /\ isr'[u] = isr[u]
          /\ \A s \in I!Stage, r \in PE : I!At(u, s, r)' => I!At(u, s, r)
    BY <1>2, <1>6
  <2>2. args'[q].lock # 0 
    BY <1>1, <1>2, <1>4
  <2> HIDE DEF p
  <2> QED BY <2>1, <2>2, <1>1, <1>3, <1>5, OneStaysHere
<1>8. /\ pc[p] = "wait" /\ remote[p] = q /\ args[p].complete = 0 /\ served[p] = calls[p]
  BY <1>1, <1>3 DEF I!OneAnswer
<1>9. \A u \in PE \ {q}, s \in I!Stage \ {"ask"} : ~I!At(u, s, p)
  BY <1>1, <1>8 DEF I!OneAnswer
<1>10. I!OneAnswer'
  BY <1>1, <1>2, <1>5, <1>6, <1>8, <1>9 DEF I!OneAnswer, I!TypeOK
<1> QED BY <1>7, <1>10

LEMMA IsrFreeKeeps ==
  ASSUME I!IInv, NEW q \in PE, I!IsrFree(q)
  PROVE I!OneIsHere' /\ I!OneAnswer'
<1>1. I!TypeOK /\ I!OneIsHere /\ I!OneAnswer /\ isr[q] = "free"
  BY DEF I!IInv, I!IsrFree
<1>2. /\ UNCHANGED <<pc, calls, remote, dest, requests, ilat, completes, served>>
      /\ \A u \in PE : /\ args'[u].pcomplete = args[u].pcomplete
                       /\ args'[u].complete = args[u].complete
                       /\ args'[u].lock = IF u = q THEN 0 ELSE args[u].lock
                       /\ isr'[u] = IF u = q THEN "none" ELSE isr[u]
  BY <1>1 DEF I!IsrFree, I!TypeOK, I!Args
<1>3. \A s \in I!Stage, r \in PE : ~I!At(q, s, r)
  BY <1>1 DEF I!OneIsHere
<1>4. \A u, r \in PE, s \in I!Stage : I!At(u, s, r)' <=> I!At(u, s, r)
  BY <1>1, <1>2 DEF I!At
<1>5. I!OneIsHere'
  BY <1>1, <1>2, <1>3, <1>4 DEF I!OneIsHere
<1>6. I!OneAnswer'
  BY <1>1, <1>2, <1>4 DEF I!OneAnswer
<1> QED BY <1>5, <1>6

------------------------------------------------------------------------------
\* The inductive invariant: one request is with a PE while its lock is set, and a
\* PE that waits has a request out or its answer, never both.
THEOREM RequestsAreFollowed == I!Spec => []I!IInv
<1>1. ASSUME I!Init PROVE I!IInv
  BY <1>1 DEF I!Init, I!IInv, I!TypeOK, I!Args, I!NoArgs,
              I!OneIsHere, I!OneAnswer, I!At, I!Stage
<1>2. ASSUME I!IInv, [I!Next]_(I!vars) PROVE I!IInv'
  <2>1. I!TypeOK'
    BY <1>2, GetTypes DEF I!IInv
  <2>2. ASSUME UNCHANGED I!vars PROVE I!OneIsHere' /\ I!OneAnswer'
    <3>1. \A u, r, s : I!At(u, s, r)' <=> I!At(u, s, r)
      BY <2>2 DEF I!At, I!vars
    <3> QED BY <3>1, <2>2, <1>2 DEF I!vars, I!IInv, I!OneIsHere, I!OneAnswer
  <2>3. I!OneIsHere' /\ I!OneAnswer'
    BY <1>2, <2>2, GetKeeps, LockKeeps, AskKeeps, WaitKeeps, ResetKeeps, InterruptKeeps,
       IsrCopyKeeps, IsrCompleteKeeps, IsrFreeKeeps, LandRequestKeeps, LandCompleteKeeps
       DEF I!Next, I!Step, I!Land, I!Calls, I!Finished
  <2> QED BY <2>1, <2>3 DEF I!IInv
<1> QED BY <1>1, <1>2, PTL DEF I!Spec

\* The instance counts as FiniteSets does.
LEMMA SameCardinality == \A S : I!Cardinality(S) = Cardinality(S)
BY DEF I!Cardinality, Cardinality

\* The arguments of one request at a time are with a PE, whatever the number of PEs
\* that get from it: on the mesh, in the interrupt latch or in the routine.
THEOREM RequestsDoNotCollide == I!Spec => []I!OneRequestAtATime
<1>1. ASSUME I!IInv PROVE I!OneRequestAtATime
  <2> SUFFICES ASSUME NEW q \in PE
               PROVE  Cardinality(I!Served(q)) + (IF ilat[q] THEN 1 ELSE 0)
                        + (IF isr[q] \in {"copy", "complete"} THEN 1 ELSE 0) <= 1
    BY SameCardinality DEF I!OneRequestAtATime
  <2>1. I!TypeOK /\ I!OneIsHere
    BY <1>1 DEF I!IInv
  <2>2. \A m \in I!Served(q) : /\ m = [to |-> q, pcomplete |-> m.pcomplete]
                             /\ m.pcomplete \in PE /\ I!At(q, "request", m.pcomplete)
    BY <2>1 DEF I!Served, I!TypeOK, I!At
  <2>3. ilat[q] => args[q].pcomplete \in PE /\ I!At(q, "latched", args[q].pcomplete)
    BY <2>1 DEF I!TypeOK, I!At
  <2>4. isr[q] \in {"copy", "complete"} =>
          args[q].pcomplete \in PE /\ I!At(q, isr[q], args[q].pcomplete)
    BY <2>1 DEF I!TypeOK, I!At
  <2>5. \A s, t \in I!Stage, p, r \in PE : I!At(q, s, p) /\ I!At(q, t, r) => s = t /\ p = r
    BY <2>1 DEF I!OneIsHere
  <2>6. {"request", "latched", "copy", "complete"} \subseteq I!Stage
    BY DEF I!Stage
  <2>7. ~(ilat[q] /\ isr[q] \in {"copy", "complete"})
    BY <2>3, <2>4, <2>5, <2>6
  <2>8. CASE I!Served(q) = {}
    <3>1. Cardinality(I!Served(q)) = 0
      BY <2>8, FS_EmptySet
    <3> QED BY <3>1, <2>7
  <2>9. CASE I!Served(q) # {}
    <3>1. PICK m \in I!Served(q) : TRUE
      BY <2>9
    <3>2. I!Served(q) = {m}
      BY <3>1, <2>2, <2>5, <2>6
    <3>3. Cardinality(I!Served(q)) = 1
      BY <3>2, FS_Singleton
    <3>4. ~ilat[q] /\ isr[q] \notin {"copy", "complete"}
      BY <3>1, <2>2, <2>3, <2>4, <2>5, <2>6
    <3> QED BY <3>3, <3>4
  <2> QED BY <2>8, <2>9
<1> QED BY <1>1, RequestsAreFollowed, PTL

\* A PE is told that its get is complete only when a copy was made for this call,
\* and only while it waits for that.
THEOREM AnswersAreOwn == I!Spec => []I!CompletedWasServed
<1>1. I!IInv => I!CompletedWasServed
  BY DEF I!IInv, I!OneAnswer, I!CompletedWasServed
<1> QED BY <1>1, RequestsAreFollowed, PTL

\* Both together: no request is overwritten and no answer is taken for another's.
THEOREM GetsAreServed == I!Spec => []I!GetIsServed
<1>1. I!OneRequestAtATime /\ I!CompletedWasServed => I!GetIsServed
  BY DEF I!GetIsServed
<1> QED BY <1>1, RequestsDoNotCollide, AnswersAreOwn, PTL

==============================================================================

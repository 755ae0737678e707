------------------------------ MODULE NbodyProof ------------------------------
(* Proofs about the n-body program (Nbody), for every number of PEs, of       *)
(* segments, of chunks and of updates: each update is made from all particles *)
(* of all PEs, as the update before left them.                                *)
(*                                                                            *)
(* The barriers a PE has called tell its update and its pair of segments      *)
(* (InStep), and the barrier lets no PE be elsewhere while another reads      *)
(* (SameRound).  So what it reads is of the present update (UpToDate), and    *)
(* it reads the chunks in their order, leaving none out (ReadInOrder).        *)
EXTENDS Nbody, TLAPS

LEMMA Constants ==
  ASSUME NbodyAssumption
  PROVE  npes \in Nat \ {0} /\ s \in Nat \ {0} /\ Chunks \in Nat \ {0} /\ iter \in Nat
BY DEF NbodyAssumption

LEMMA LoopHasTypes ==
  ASSUME NbodyAssumption, TypeOK, NEW p \in PE
  PROVE  /\ loop[p].done \in 0..iter /\ loop[p].j \in Segments /\ loop[p].k \in Segments
         /\ loop[p].i \in 0..(npes - 1) /\ loop[p].c \in 0..(Chunks - 1)
         /\ loop[p].done \in Nat /\ loop[p].j \in Nat /\ loop[p].k \in Nat
         /\ loop[p].i \in Nat /\ loop[p].c \in Nat
<1>1. loop[p] \in Counters
  BY DEF TypeOK, InPlace
<1>2. /\ loop[p].done \in 0..iter /\ loop[p].j \in Segments /\ loop[p].k \in Segments
      /\ loop[p].i \in 0..(npes - 1) /\ loop[p].c \in 0..(Chunks - 1)
  BY <1>1 DEF Counters, Segments
<1> QED BY <1>2, Constants DEF Segments

\* Numbers of barriers and of chunks.
LEMMA FirstOfNext ==
  ASSUME NbodyAssumption, NEW d \in Nat, NEW j \in Nat
  PROVE  /\ First(d, j) \in Nat /\ First(d, j + 1) = First(d, j) + s
         /\ First(d + 1, 0) = First(d, s) /\ First(0, 0) = 0
<1> USE DEF NbodyAssumption
<1>1. d * s \in Nat /\ (d + 1) * s = d * s + s
  OBVIOUS
<1>2. /\ (d * s + j) * s \in Nat /\ (d * s + (j + 1)) * s = (d * s + j) * s + s
  BY <1>1
<1>3. 0 * s = 0 /\ d * s + s + 0 = d * s + s
  BY <1>1
<1> QED BY <1>1, <1>2, <1>3 DEF First

LEMMA DigitsDiffer ==
  ASSUME NbodyAssumption, NEW a \in Nat, NEW b \in Nat,
         NEW x \in 0..(s - 1), NEW y \in 0..(s - 1), a * s + x = b * s + y
  PROVE  a = b /\ x = y
<1> USE DEF NbodyAssumption
<1>0. a * s \in Nat /\ b * s \in Nat
  OBVIOUS
<1>1. ASSUME a < b PROVE FALSE
  <2>1. PICK k \in Nat : b = a + 1 + k
    <3>1. b - a - 1 \in Nat /\ b = a + 1 + (b - a - 1)
      BY <1>1
    <3> QED BY <3>1
  <2>2. k * s \in Nat /\ b * s = a * s + s + k * s
    BY <2>1
  <2> QED BY <1>0, <2>2
<1>2. ASSUME b < a PROVE FALSE
  <2>1. PICK k \in Nat : a = b + 1 + k
    <3>1. a - b - 1 \in Nat /\ a = b + 1 + (a - b - 1)
      BY <1>2
    <3> QED BY <3>1
  <2>2. k * s \in Nat /\ a * s = b * s + s + k * s
    BY <2>1
  <2> QED BY <1>0, <2>2
<1>3. a = b
  BY <1>1, <1>2
<1> QED BY <1>0, <1>3

LEMMA SameDigits ==
  ASSUME NbodyAssumption, NEW d \in Nat, NEW e \in Nat,
         NEW j \in 0..(s - 1), NEW i \in 0..(s - 1), NEW k \in 0..(s - 1), NEW l \in 0..(s - 1),
         First(d, j) + k = First(e, i) + l
  PROVE  d = e /\ j = i /\ k = l
<1>1. d * s + j \in Nat /\ e * s + i \in Nat
  BY DEF NbodyAssumption
<1>2. d * s + j = e * s + i /\ k = l
  BY <1>1, DigitsDiffer DEF First
<1> QED BY <1>2, DigitsDiffer

LEMMA Halves ==
  ASSUME NEW m \in Nat, NEW n \in Nat
  PROVE  /\ ~(2 * m + 1 <= 2 * n /\ 2 * n <= 2 * m + 1)
         /\ 2 * m + 1 <= 2 * n + 1 /\ 2 * n <= 2 * m + 1 => m = n
         /\ 2 * m + 1 <= 2 * n + 2 /\ 2 * n + 1 <= 2 * m + 1 => m = n
OBVIOUS

LEMMA CountChunks ==
  ASSUME NbodyAssumption, NEW k \in Nat, NEW i \in Nat
  PROVE  /\ npes * k * Chunks \in Nat /\ i * Chunks \in Nat
         /\ (i + 1) * Chunks = i * Chunks + Chunks
         /\ npes * (k + 1) * Chunks = npes * k * Chunks + npes * Chunks
         /\ npes * 0 * Chunks = 0 /\ 0 * Chunks = 0
<1> USE DEF NbodyAssumption
<1>1. npes * k \in Nat /\ npes * (k + 1) = npes * k + npes
  OBVIOUS
<1>2. npes * k * Chunks \in Nat /\ (npes * k + npes) * Chunks = npes * k * Chunks + npes * Chunks
  BY <1>1
<1> QED BY <1>1, <1>2

------------------------------------------------------------------------------
\* While a PE reads, no other is in another pair of segments of another update.
LEMMA SameRound ==
  ASSUME NbodyAssumption, TypeOK, InStep, NEW p \in PE, NEW q \in PE, pc[p] = "accel"
  PROVE  /\ pc[q] \in InFirst \cup {"inSecond"}
         /\ loop[q].done = loop[p].done /\ loop[q].j = loop[p].j /\ loop[q].k = loop[p].k
<1>1. /\ loop[p].done \in Nat /\ loop[p].j \in 0..(s - 1) /\ loop[p].k \in 0..(s - 1)
      /\ loop[q].done \in Nat /\ loop[q].j \in 0..(s - 1) /\ loop[q].k \in 0..(s - 1)
      /\ loop[p].j \in Nat /\ loop[q].j \in Nat /\ loop[p].k \in Nat /\ loop[q].k \in Nat
      /\ s \in Nat
  BY LoopHasTypes, Constants DEF Segments
<1>2. /\ First(loop[p].done, loop[p].j) \in Nat /\ First(loop[q].done, loop[q].j) \in Nat
  BY <1>1, FirstOfNext
<1>3. Round(p) \in Nat /\ Round(q) \in Nat
  BY <1>1, <1>2 DEF Round
<1>4. /\ entered[p] = 2 * Round(p) + 1 /\ left[p] = entered[p]
      /\ left[p] <= entered[q] /\ left[q] <= entered[p]
      /\ entered[q] = 2 * Round(q) + (IF pc[q] \in InFirst THEN 1
                                       ELSE IF pc[q] = "inSecond" THEN 2 ELSE 0)
      /\ left[q] = IF pc[q] \in {"inFirst", "inSecond"} THEN entered[q] - 1 ELSE entered[q]
  BY DEF InStep, InFirst
<1>5. pc[q] \in InFirst \cup {"inSecond"} /\ Round(p) = Round(q)
  <2> DEFINE m == Round(p)
             n == Round(q)
  <2>1. CASE pc[q] \in {"accel", "second", "inFirst"}
    <3>1. entered[q] = 2 * n + 1 /\ left[q] \in {2 * n, 2 * n + 1}
      BY <1>3, <1>4, <2>1 DEF InFirst
    <3>2. 2 * m + 1 <= 2 * n + 1 /\ 2 * n <= 2 * m + 1
      BY <1>3, <1>4, <3>1
    <3>3. m = n
      BY <1>3, <3>2, Halves
    <3> QED BY <3>3, <2>1 DEF InFirst
  <2>2. CASE pc[q] = "inSecond"
    <3>1. entered[q] = 2 * n + 2 /\ left[q] = 2 * n + 1
      BY <1>3, <1>4, <2>2 DEF InFirst
    <3>2. 2 * m + 1 <= 2 * n + 2 /\ 2 * n + 1 <= 2 * m + 1
      BY <1>3, <1>4, <3>1
    <3>3. m = n
      BY <1>3, <3>2, Halves
    <3> QED BY <3>3, <2>2
  <2>3. CASE pc[q] \notin InFirst \cup {"inSecond"}
    <3>1. entered[q] = 2 * n /\ left[q] = 2 * n
      <4>1. pc[q] \notin InFirst /\ pc[q] \notin {"inFirst", "inSecond"}
        BY <2>3 DEF InFirst
      <4>2. entered[q] = 2 * n + 0 /\ left[q] = entered[q]
        BY <1>4, <4>1
      <4> QED BY <1>3, <4>2
    <3>2. 2 * m + 1 <= 2 * n /\ 2 * n <= 2 * m + 1
      BY <1>4, <3>1
    <3> QED BY <1>3, <3>2, Halves
  <2> QED BY <2>1, <2>2, <2>3 DEF InFirst
<1>7. First(loop[p].done, loop[p].j) + loop[p].k = First(loop[q].done, loop[q].j) + loop[q].k
  BY <1>5 DEF Round, InFirst
<1>8. PICK d \in Nat, j \in 0..(s - 1), k \in 0..(s - 1) :
        d = loop[p].done /\ j = loop[p].j /\ k = loop[p].k
  BY <1>1
<1>9. PICK e \in Nat, i \in 0..(s - 1), l \in 0..(s - 1) :
        e = loop[q].done /\ i = loop[q].j /\ l = loop[q].k
  BY <1>1
<1>10. First(d, j) + k = First(e, i) + l
  BY <1>7, <1>8, <1>9
<1>11. d = e /\ j = i /\ k = l
  BY <1>10, SameDigits
<1> QED BY <1>5, <1>8, <1>9, <1>11

\* What ComputeAccel finds at another PE.
LEMMA OthersAreUpToDate ==
  ASSUME NbodyAssumption, IInv, NEW p \in PE, NEW q \in PE, pc[p] = "accel"
  PROVE  others(q) = Part(loop[p].k, loop[p].done)
<1>1. /\ TypeOK /\ UpToDate /\ pc[q] \in InFirst \cup {"inSecond"}
      /\ loop[q].done = loop[p].done /\ loop[q].j = loop[p].j /\ loop[q].k = loop[p].k
  BY SameRound DEF IInv
<1>2. CASE s = 1
  <2>1. loop[q].j = 0 /\ loop[p].k = 0
    <3>1. loop[q].j \in Segments /\ loop[p].k \in Segments
      BY <1>1, LoopHasTypes
    <3>2. Segments = 0..0
      BY <1>2 DEF Segments
    <3> QED BY <3>1, <3>2
  <2>2. my_particles[q] = Part(loop[q].j, loop[q].done)
    BY <1>1 DEF UpToDate, UpToDateAt, InFirst
  <2> QED BY <1>1, <1>2, <2>1, <2>2 DEF others
<1>3. CASE s # 1
  <2>1. work_particles[q] = Part(loop[q].k, loop[q].done)
    <3>1. s > 1
      BY <1>3, Constants
    <3>2. pc[q] \in InRound
      BY <1>1 DEF InRound
    <3> QED BY <3>2, <1>1, <3>1 DEF UpToDate, UpToDateAt
  <2> QED BY <1>1, <1>3, <2>1 DEF others
<1> QED BY <1>2, <1>3

------------------------------------------------------------------------------
\* A step that leaves the barriers and the other PEs alone keeps InStep if it leaves
\* the PE's number of calls.
LEMMA CallsStay ==
  ASSUME TypeOK, InStep, NEW p \in PE, UNCHANGED <<entered, left>>,
         \A q \in PE \ {p} : pc'[q] = pc[q] /\ loop'[q] = loop[q],
         pc[p] \notin {"inFirst", "inSecond"}, pc'[p] \notin {"inFirst", "inSecond"},
         Round(p)' = Round(p), pc[p] \in InFirst <=> pc'[p] \in InFirst
  PROVE  InStep'
<1>1. \A q \in PE \ {p} : Round(q)' = Round(q)
  BY DEF Round
<1> QED BY <1>1 DEF InStep, InFirst

\* A step that reads nothing and stays in its update keeps ReadInOrder.
LEMMA NothingRead ==
  ASSUME ReadInOrder, NEW p \in PE, read' = read,
         \A q \in PE \ {p} : pc'[q] = pc[q] /\ loop'[q] = loop[q],
         loop'[p].done = loop[p].done, ReadCount(p)' = ReadCount(p),
         \A q \in PE, c \in 0..(Chunks - 1), g \in Segments :
           HasRead(p, q, c, g)' <=> HasRead(p, q, c, g)
  PROVE  ReadInOrder'
<1>1. \A u \in PE : ReadCount(u)' = ReadCount(u) /\ loop'[u].done = loop[u].done
  BY DEF ReadCount
<1>2. \A u \in PE, q \in PE, c \in 0..(Chunks - 1), g \in Segments :
        HasRead(u, q, c, g)' <=> HasRead(u, q, c, g)
  <2>1. \A u \in PE \ {p}, q \in PE, c \in 0..(Chunks - 1), g \in Segments :
          HasRead(u, q, c, g)' <=> HasRead(u, q, c, g)
    BY DEF HasRead
  <2> QED BY <2>1
<1>3. \A u \in PE, q \in PE, c \in 0..(Chunks - 1), g \in Segments :
        Chunk(u, q, c, g)' = Chunk(u, q, c, g)
  BY <1>1 DEF Chunk, Part
<1> SUFFICES ASSUME NEW u \in PE PROVE ReadInOrderAt(u)'
  BY DEF ReadInOrder
<1>4. ReadInOrderAt(u)
  BY DEF ReadInOrder
<1>5. Len(read'[u]) = ReadCount(u)'
  BY <1>1, <1>4 DEF ReadInOrderAt
<1>6. \A m \in 1..Len(read'[u]) : \E q \in PE, c \in 0..(Chunks - 1), g \in Segments :
        HasRead(u, q, c, g)' /\ read'[u][m] = Chunk(u, q, c, g)'
  BY SMTT(20), <1>2, <1>3, <1>4 DEF ReadInOrderAt
<1>7. \A q \in PE, c \in 0..(Chunks - 1), g \in Segments : HasRead(u, q, c, g)' =>
        \E m \in 1..Len(read'[u]) : read'[u][m] = Chunk(u, q, c, g)'
  BY <1>2, <1>3, <1>4 DEF ReadInOrderAt
<1> QED BY <1>5, <1>6, <1>7 DEF ReadInOrderAt

\* The particles of the PEs that do not take the step stay what they are.
LEMMA UpToDateElsewhere ==
  ASSUME UpToDate, NEW p \in PE, UpToDateAt(p)',
         \A q \in PE \ {p} :
           /\ pc'[q] = pc[q] /\ loop'[q] = loop[q] /\ dram'[q] = dram[q]
           /\ buffer'[q] = buffer[q] /\ my_particles'[q] = my_particles[q]
           /\ work_particles'[q] = work_particles[q]
  PROVE  UpToDate'
<1> SUFFICES ASSUME NEW q \in PE \ {p} PROVE UpToDateAt(q)'
  BY DEF UpToDate
<1>1. UpToDateAt(q)
  BY DEF UpToDate
<1> QED BY <1>1 DEF UpToDateAt, Part

LEMMA InPlaceElsewhere ==
  ASSUME TypeOK, NEW p \in PE, InPlace(p)',
         \A q \in PE \ {p} : pc'[q] = pc[q] /\ loop'[q] = loop[q]
  PROVE  \A q \in PE : InPlace(q)'
<1> SUFFICES ASSUME NEW q \in PE \ {p} PROVE InPlace(q)'
  OBVIOUS
<1>1. InPlace(q) /\ pc'[q] = pc[q] /\ loop'[q] = loop[q]
  BY DEF TypeOK
<1> QED BY <1>1 DEF InPlace

LEMMA ReadStays ==
  ASSUME NEW u \in PE, ReadInOrderAt(u), pc'[u] = pc[u], loop'[u] = loop[u], read'[u] = read[u]
  PROVE  ReadInOrderAt(u)'
<1>1. ReadInOrderAt(u) /\ pc'[u] = pc[u] /\ loop'[u] = loop[u] /\ read'[u] = read[u]
  OBVIOUS
<1>2. ReadCount(u)' = ReadCount(u)
  BY <1>1 DEF ReadCount
<1>3. \A q \in PE, c \in 0..(Chunks - 1), g \in Segments :
        HasRead(u, q, c, g)' <=> HasRead(u, q, c, g)
  BY <1>1 DEF HasRead
<1>4. \A q, c, g : Chunk(u, q, c, g)' = Chunk(u, q, c, g)
  BY <1>1 DEF Chunk, Part
<1>5. Len(read'[u]) = ReadCount(u)'
  BY <1>1, <1>2 DEF ReadInOrderAt
<1>6. \A m \in 1..Len(read'[u]) : \E q \in PE, c \in 0..(Chunks - 1), g \in Segments :
        HasRead(u, q, c, g)' /\ read'[u][m] = Chunk(u, q, c, g)'
  BY <1>1, <1>3, <1>4 DEF ReadInOrderAt
<1>7. \A q \in PE, c \in 0..(Chunks - 1), g \in Segments : HasRead(u, q, c, g)' =>
        \E m \in 1..Len(read'[u]) : read'[u][m] = Chunk(u, q, c, g)'
  BY <1>1, <1>3, <1>4 DEF ReadInOrderAt
<1> QED BY <1>5, <1>6, <1>7 DEF ReadInOrderAt

LEMMA ReadElsewhere ==
  ASSUME ReadInOrder, NEW p \in PE, ReadInOrderAt(p)',
         \A q \in PE \ {p} : pc'[q] = pc[q] /\ loop'[q] = loop[q] /\ read'[q] = read[q]
  PROVE  ReadInOrder'
<1> SUFFICES ASSUME NEW u \in PE \ {p} PROVE ReadInOrderAt(u)'
  BY DEF ReadInOrder
<1> QED BY ReadStays DEF ReadInOrder

\* Behind an update nothing has been read.
LEMMA NothingReadYet ==
  ASSUME NbodyAssumption, NEW p \in PE, read'[p] = << >>, pc'[p] \in {"first", "load", "done"},
         loop'[p].k = 0, loop'[p].i = 0, loop'[p].c = 0
  PROVE  ReadInOrderAt(p)'
<1>1. ReadCount(p)' = 0 /\ Len(read'[p]) = 0
  <2>1. npes * 0 * Chunks = 0 /\ 0 * Chunks = 0
    BY CountChunks
  <2>2. ReadCount(p)' = npes * 0 * Chunks + 0 * Chunks + 0
    BY DEF ReadCount
  <2> QED BY <2>1, <2>2
<1>2. ASSUME NEW q \in PE, NEW c \in 0..(Chunks - 1), NEW g \in Segments, HasRead(p, q, c, g)'
      PROVE  FALSE
  <2>1. g \in Nat
    BY Constants DEF Segments
  <2> QED BY <2>1, <1>2 DEF HasRead
<1> QED BY <1>1, <1>2 DEF ReadInOrderAt

LEMMA ReadForgets ==
  ASSUME TypeOK, NEW p \in PE, read' = [read EXCEPT ![p] = << >>]
  PROVE  read' \in [PE -> Seq([pe : PE, chunk : 0..(Chunks - 1), part : Particles])]
<1> DEFINE Item == [pe : PE, chunk : 0..(Chunks - 1), part : Particles]
<1>1. read \in [PE -> Seq(Item)]
  BY DEF TypeOK
<1> HIDE DEF Item
<1>2. << >> \in Seq(Item)
  OBVIOUS
<1>3. read' \in [PE -> Seq(Item)]
  BY <1>1, <1>2
<1> QED BY <1>3 DEF Item

LEMMA PcStays ==
  ASSUME TypeOK, NEW p \in PE, NEW l \in {"load", "work", "update", "done"} \cup InRound,
         pc' = [pc EXCEPT ![p] = l]
  PROVE  pc' \in [PE -> {"load", "work", "update", "done"} \cup InRound]
BY DEF TypeOK, InPlace

LEMMA LoadKeeps == ASSUME NbodyAssumption, IInv, NEW p \in PE, Load(p) PROVE IInv'
<1>1. TypeOK /\ InStep /\ UpToDate /\ ReadInOrder /\ pc[p] = "load"
  BY DEF IInv, Load
<1>2. /\ UNCHANGED <<loop, dram, buffer, work_particles, read, entered, left>>
      /\ my_particles' = [my_particles EXCEPT ![p] = InDram(p, loop[p].j)]
      /\ pc' = [pc EXCEPT ![p] = IF iter = 0 THEN "done" ELSE IF s = 1 THEN "first" ELSE "work"]
  BY DEF Load, Goto
<1>3. /\ pc'[p] = (IF iter = 0 THEN "done" ELSE IF s = 1 THEN "first" ELSE "work")
      /\ \A q \in PE \ {p} : pc'[q] = pc[q] /\ my_particles'[q] = my_particles[q]
      /\ my_particles'[p] = InDram(p, loop[p].j)
  BY <1>1, <1>2 DEF TypeOK, InPlace
<1>4. /\ loop[p].k = 0 /\ loop[p].i = 0 /\ loop[p].c = 0 /\ loop[p].j \in Segments
      /\ loop[p].done \in 0..iter /\ iter \in Nat /\ s \in Nat \ {0}
  BY <1>1 DEF TypeOK, InPlace, Counters, Segments, NbodyAssumption
<1>5. InDram(p, loop[p].j) = Part(loop[p].j, loop[p].done)
  <2>1. dram[p][buffer[p]][loop[p].j] = loop[p].done
    <3>1. CASE s = 1
      <4>1. loop[p].j = 0 /\ loop[p].done = 0
        <5>1. Segments = 0..0
          BY <3>1 DEF Segments
        <5> QED BY <5>1, <1>1, <1>4, <3>1 DEF TypeOK, InPlace
      <4> QED BY <4>1, <1>1, <3>1 DEF UpToDate, UpToDateAt
    <3>2. CASE s # 1
      BY <1>1, <1>4, <3>2 DEF UpToDate, UpToDateAt
    <3> QED BY <3>1, <3>2
  <2> QED BY <2>1 DEF InDram
<1>6. TypeOK'
  <2>1. InDram(p, loop[p].j) \in Particles
    BY <1>4, <1>5 DEF Part, Particles, Segments
  <2>2. /\ pc' \in [PE -> {"load", "work", "update", "done"} \cup InRound]
        /\ my_particles' \in [PE -> Particles]
    BY <2>1, <1>1, <1>2 DEF TypeOK, InPlace, InRound
  <2>3. iter = 0 => loop[p].done = iter /\ loop[p].j = 0
    <3>1. loop[p].done < iter \/ (iter = 0 /\ loop[p].j = 0)
      BY <1>1 DEF TypeOK, InPlace
    <3> QED BY <3>1, <1>4
  <2>4. iter # 0 => loop[p].done < iter
    BY <1>1 DEF TypeOK, InPlace
  <2> QED BY <2>2, <2>3, <2>4, <1>1, <1>2, <1>3, <1>4 DEF TypeOK, InPlace
<1>7. InStep'
  <2>1. Round(p)' = Round(p)
    BY <1>1, <1>2, <1>3 DEF Round
  <2> QED BY <2>1, <1>1, <1>2, <1>3, CallsStay DEF InFirst
<1>8. UpToDate'
  <2>1. UpToDateAt(p)'
    <3>1. UpToDateAt(p)
      BY <1>1 DEF UpToDate
    <3>2. pc'[p] \in InRound => s = 1
      BY <1>3 DEF InRound, InFirst
    <3>3. pc'[p] = "done" => iter = 0
      BY <1>3
    <3> QED BY <3>1, <3>2, <3>3, <1>1, <1>2, <1>3, <1>4, <1>5 DEF UpToDateAt
  <2> QED BY <2>1, <1>1, <1>2, <1>3, UpToDateElsewhere
<1>9. ReadInOrder'
  <2>1. ReadCount(p)' = ReadCount(p)
    BY <1>1, <1>2, <1>3 DEF ReadCount
  <2>2. \A q \in PE, c \in 0..(Chunks - 1), g \in Segments :
          HasRead(p, q, c, g)' <=> HasRead(p, q, c, g)
    BY <1>1, <1>2, <1>3 DEF HasRead
  <2> QED BY <2>1, <2>2, <1>1, <1>2, <1>3, NothingRead
<1> QED BY <1>6, <1>7, <1>8, <1>9 DEF IInv


LEMMA LoadWorkKeeps == ASSUME NbodyAssumption, IInv, NEW p \in PE, LoadWork(p) PROVE IInv'
<1>1. TypeOK /\ InStep /\ UpToDate /\ ReadInOrder /\ pc[p] = "work"
  BY DEF IInv, LoadWork
<1>2. /\ UNCHANGED <<loop, dram, buffer, my_particles, read, entered, left>>
      /\ work_particles' = [work_particles EXCEPT ![p] = InDram(p, loop[p].k)]
      /\ pc' = [pc EXCEPT ![p] = "first"]
  BY DEF LoadWork, Goto
<1>3. /\ pc'[p] = "first" /\ work_particles'[p] = InDram(p, loop[p].k)
      /\ \A q \in PE \ {p} : pc'[q] = pc[q] /\ work_particles'[q] = work_particles[q]
  BY <1>1, <1>2 DEF TypeOK, InPlace
<1>4. InDram(p, loop[p].k) = Part(loop[p].k, loop[p].done) /\ s # 1
  <2>1. loop[p].k \in Segments /\ s # 1
    BY <1>1, LoopHasTypes DEF TypeOK, InPlace
  <2>2. dram[p][buffer[p]][loop[p].k] = loop[p].done
    BY <1>1, <2>1 DEF UpToDate, UpToDateAt
  <2> QED BY <2>1, <2>2 DEF InDram
<1>5. TypeOK'
  <2>1. InDram(p, loop[p].k) \in Particles
    BY <1>1, <1>4, LoopHasTypes DEF Part, Particles
  <2>2. /\ pc' \in [PE -> {"load", "work", "update", "done"} \cup InRound]
        /\ work_particles' \in [PE -> Particles]
    BY <2>1, <1>1, <1>2 DEF TypeOK, InPlace, InRound
  <2> QED BY <2>2, <1>1, <1>2, <1>3, <1>4 DEF TypeOK, InPlace
<1>6. InStep'
  <2>1. Round(p)' = Round(p)
    BY <1>1, <1>2, <1>3 DEF Round
  <2> QED BY <2>1, <1>1, <1>2, <1>3, CallsStay DEF InFirst
<1>7. UpToDate'
  <2>1. UpToDateAt(p)'
    <3>1. UpToDateAt(p)
      BY <1>1 DEF UpToDate
    <3> QED BY <3>1, <1>1, <1>2, <1>3, <1>4 DEF UpToDateAt
  <2> QED BY <2>1, <1>1, <1>2, <1>3, UpToDateElsewhere
<1>8. ReadInOrder'
  <2>1. ReadCount(p)' = ReadCount(p)
    BY <1>1, <1>2, <1>3 DEF ReadCount
  <2>2. \A q \in PE, c \in 0..(Chunks - 1), g \in Segments :
          HasRead(p, q, c, g)' <=> HasRead(p, q, c, g)
    BY <1>1, <1>2, <1>3 DEF HasRead
  <2> QED BY <2>1, <2>2, <1>1, <1>2, <1>3, NothingRead
<1> QED BY <1>5, <1>6, <1>7, <1>8 DEF IInv

LEMMA EnterKeeps == ASSUME NbodyAssumption, IInv, NEW p \in PE, Enter(p) PROVE IInv'
<1>1. TypeOK /\ InStep /\ UpToDate /\ ReadInOrder
  BY DEF IInv
<1>2. /\ UNCHANGED <<loop, dram, buffer, my_particles, work_particles, read, left>>
      /\ entered' = [entered EXCEPT ![p] = @ + 1]
      /\ \/ pc[p] = "first" /\ pc' = [pc EXCEPT ![p] = "inFirst"]
         \/ pc[p] = "second" /\ pc' = [pc EXCEPT ![p] = "inSecond"]
  BY DEF Enter, Goto, Barrier_all!Enter
<1>3. /\ \/ pc[p] = "first" /\ pc'[p] = "inFirst"
         \/ pc[p] = "second" /\ pc'[p] = "inSecond"
      /\ entered'[p] = entered[p] + 1 /\ entered[p] \in Nat /\ left[p] \in Nat
      /\ \A q \in PE \ {p} : pc'[q] = pc[q] /\ entered'[q] = entered[q]
  BY <1>1, <1>2 DEF TypeOK, InPlace
<1>4. TypeOK'
  <2>1. /\ pc' \in [PE -> {"load", "work", "update", "done"} \cup InRound]
        /\ entered' \in [PE -> Nat]
    <3>1. entered' \in [PE -> Nat]
      BY <1>1, <1>2 DEF TypeOK, InPlace
    <3>2. pc' = [pc EXCEPT ![p] = pc'[p]]
      BY <1>1, <1>2, <1>3
    <3> QED BY <3>1, <3>2, <1>1, <1>3, PcStays DEF InRound, InFirst
  <2>2. ASSUME NEW q \in PE PROVE InPlace(q)'
    <3>1. InPlace(q) /\ loop'[q] = loop[q]
      BY <1>1, <1>2 DEF TypeOK
    <3>2. CASE q = p
      <4>1. /\ pc[p] \notin {"accel", "load", "done", "work"}
            /\ pc'[p] \notin {"accel", "load", "update", "done", "work"}
        BY <1>3
      <4> QED BY <3>1, <3>2, <4>1 DEF InPlace
    <3>3. CASE q # p
      BY <3>1, <3>3, <1>3 DEF InPlace
    <3> QED BY <3>2, <3>3
  <2> QED BY <2>1, <2>2, <1>1, <1>2 DEF TypeOK
<1>5. InStep'
  <2>1. \A q \in PE : Round(q)' = Round(q)
    BY <1>1, <1>2, <1>3 DEF Round
  <2>2. /\ left'[p] = entered'[p] - 1 /\ pc'[p] \in {"inFirst", "inSecond"}
        /\ entered'[p] = 2 * Round(p)' + (IF pc'[p] \in InFirst THEN 1
                                            ELSE IF pc'[p] = "inSecond" THEN 2 ELSE 0)
    <3>1. Round(p) \in Int
      <4>1. First(loop[p].done, loop[p].j) \in Nat /\ loop[p].k \in Nat /\ s \in Nat
        BY <1>1, LoopHasTypes, FirstOfNext, Constants
      <4> QED BY <4>1 DEF Round
    <3>2. /\ left[p] = entered[p]
          /\ entered[p] = 2 * Round(p) + (IF pc[p] = "second" THEN 1 ELSE 0)
      BY <1>1, <1>3 DEF InStep, InFirst
    <3> QED BY <3>1, <3>2, <1>2, <1>3, <2>1 DEF InFirst
  <2>3. \A q, r \in PE : left'[q] <= entered'[r]
    BY <1>1, <1>2, <1>3 DEF InStep, TypeOK
  <2>4. \A q \in PE \ {p} :
          /\ entered'[q] = 2 * Round(q)' + (IF pc'[q] \in InFirst THEN 1
                                              ELSE IF pc'[q] = "inSecond" THEN 2 ELSE 0)
          /\ left'[q] = IF pc'[q] \in {"inFirst", "inSecond"} THEN entered'[q] - 1
                        ELSE entered'[q]
    BY <1>1, <1>2, <1>3, <2>1 DEF InStep
  <2> QED BY <2>2, <2>3, <2>4 DEF InStep
<1>6. UpToDate'
  <2>1. UpToDateAt(p)'
    <3>1. UpToDateAt(p)
      BY <1>1 DEF UpToDate
    <3> QED BY <3>1, <1>1, <1>2, <1>3 DEF UpToDateAt, InRound, InFirst, Part
  <2> QED BY <2>1, <1>1, <1>2, <1>3, UpToDateElsewhere
<1>7. ReadInOrder'
  <2>1. ReadCount(p)' = ReadCount(p)
    BY <1>1, <1>2, <1>3 DEF ReadCount
  <2>2. \A q \in PE, c \in 0..(Chunks - 1), g \in Segments :
          HasRead(p, q, c, g)' <=> HasRead(p, q, c, g)
    BY <1>1, <1>2, <1>3 DEF HasRead
  <2> QED BY <2>1, <2>2, <1>1, <1>2, <1>3, NothingRead
<1> QED BY <1>4, <1>5, <1>6, <1>7 DEF IInv

\* Back from the second barrier a PE is at the next pair of segments, or done with
\* the last one.
LEMMA LeaveKeeps == ASSUME NbodyAssumption, IInv, NEW p \in PE, Leave(p) PROVE IInv'
<1> DEFINE k == loop[p].k
<1>1. TypeOK /\ InStep /\ UpToDate /\ ReadInOrder
  BY DEF IInv
<1>2. /\ UNCHANGED <<dram, buffer, my_particles, work_particles, read, entered>>
      /\ left[p] < entered[p] /\ \A q \in PE : entered[q] >= entered[p]
      /\ left' = [left EXCEPT ![p] = @ + 1]
      /\ \/ pc[p] = "inFirst" /\ pc' = [pc EXCEPT ![p] = "accel"] /\ loop' = loop
         \/ /\ pc[p] = "inSecond"
            /\ pc' = [pc EXCEPT ![p] = IF k + 1 < s THEN "work" ELSE "update"]
            /\ loop' = [loop EXCEPT ![p].k = IF k + 1 < s THEN k + 1 ELSE 0]
  BY DEF Leave, Goto, Barrier_all!Leave
<1>3. /\ loop[p].done \in 0..iter /\ loop[p].j \in Segments /\ k \in Segments
      /\ loop[p].i = 0 /\ loop[p].c = 0 /\ k \in 0..(s - 1)
      /\ loop[p].done \in Nat /\ loop[p].j \in Nat /\ k \in Nat /\ s \in Nat \ {0}
      /\ loop[p].done < iter
  <2>1. pc[p] \notin {"accel", "load", "done"}
    BY <1>2
  <2> QED BY <2>1, <1>1, LoopHasTypes, Constants DEF TypeOK, InPlace, Segments
<1>4. /\ entered[p] \in Nat /\ left[p] \in Nat
      /\ \A q \in PE \ {p} : pc'[q] = pc[q] /\ loop'[q] = loop[q] /\ left'[q] = left[q]
      /\ left'[p] = left[p] + 1
      /\ loop'[p].done = loop[p].done /\ loop'[p].j = loop[p].j
      /\ loop'[p].i = 0 /\ loop'[p].c = 0 /\ loop' \in [PE -> Counters]
      /\ loop'[p].k \in Segments
  <2>1. loop \in [PE -> Counters] /\ left \in [PE -> Nat] /\ entered \in [PE -> Nat]
    BY <1>1 DEF TypeOK, InPlace
  <2>2. k + 1 < s => k + 1 \in 0..(s - 1)
    BY <1>3
  <2>3. 0 \in 0..(s - 1)
    BY <1>3
  <2>4. \A q \in PE \ {p} : pc'[q] = pc[q] /\ left'[q] = left[q]
    BY <1>1, <1>2 DEF TypeOK, InPlace
  <2>5. CASE loop' = loop
    BY <1>2, <1>3, <2>1, <2>4, <2>5
  <2>6. CASE loop' = [loop EXCEPT ![p].k = IF k + 1 < s THEN k + 1 ELSE 0]
    <3> DEFINE m == IF k + 1 < s THEN k + 1 ELSE 0
    <3>1. m \in 0..(s - 1) /\ loop' = [loop EXCEPT ![p].k = m]
      BY <2>2, <2>3, <2>6
    <3> HIDE DEF m
    <3>2. loop' \in [PE -> Counters]
      BY <3>1, <2>1 DEF Counters
    <3>3. /\ loop'[p].done = loop[p].done /\ loop'[p].j = loop[p].j
          /\ loop'[p].i = loop[p].i /\ loop'[p].c = loop[p].c /\ loop'[p].k = m
          /\ \A q \in PE \ {p} : loop'[q] = loop[q]
      BY <3>1, <2>1 DEF Counters
    <3> QED BY <3>1, <3>2, <3>3, <1>2, <1>3, <2>1, <2>4 DEF Segments
  <2> QED BY <1>2, <2>5, <2>6
<1>5. \/ pc[p] = "inFirst" /\ pc'[p] = "accel" /\ loop'[p].k = k
      \/ pc[p] = "inSecond" /\ pc'[p] = "work" /\ loop'[p].k = k + 1 /\ k + 1 < s
      \/ pc[p] = "inSecond" /\ pc'[p] = "update" /\ loop'[p].k = 0 /\ k + 1 = s
  <2>1. CASE pc[p] = "inFirst"
    BY <2>1, <1>1, <1>2 DEF TypeOK, InPlace
  <2>2. CASE pc[p] = "inSecond" /\ k + 1 < s
    BY <2>2, <1>1, <1>2 DEF TypeOK, InPlace, Counters
  <2>3. CASE pc[p] = "inSecond" /\ ~(k + 1 < s)
    BY <2>3, <1>1, <1>2, <1>3 DEF TypeOK, InPlace, Counters
  <2> QED BY <1>2, <2>1, <2>2, <2>3
<1>6. TypeOK'
  <2>1. left' \in [PE -> Nat]
    BY <1>1, <1>2 DEF TypeOK, InPlace
  <2>2. s = 1 => pc'[p] # "work"
    BY <1>3, <1>5
  <2>3. pc' \in [PE -> {"load", "work", "update", "done"} \cup InRound]
    <3>1. pc' = [pc EXCEPT ![p] = pc'[p]]
      BY <1>2, <1>5
    <3> QED BY <3>1, <1>1, <1>5, PcStays DEF InRound, InFirst
  <2>4. /\ pc'[p] \notin {"load", "done"} /\ loop'[p].done < iter
        /\ pc'[p] = "update" => loop'[p].k = 0
    BY <1>3, <1>4, <1>5
  <2>5. \A q \in PE : InPlace(q)'
    <3>1. InPlace(p)'
      BY <1>4, <1>5, <2>2, <2>4 DEF InPlace
    <3> QED BY <3>1, <1>1, <1>4, InPlaceElsewhere
  <2>6. /\ loop' \in [PE -> Counters] /\ dram' = dram /\ buffer' = buffer
        /\ my_particles' = my_particles /\ work_particles' = work_particles
        /\ read' = read /\ entered' = entered
    BY <1>2, <1>4
  <2> QED BY <2>1, <2>3, <2>5, <2>6, <1>1 DEF TypeOK, InPlace
<1>7. InStep'
  <2> DEFINE b == First(loop[p].done, loop[p].j)
  <2>1. b \in Nat
    BY <1>3, FirstOfNext
  <2>2. \A q \in PE \ {p} : Round(q)' = Round(q)
    BY <1>4 DEF Round
  <2>3. Round(p) = b + k /\ Round(p)' = b + (IF pc'[p] = "update" THEN s ELSE loop'[p].k)
    BY <1>4, <1>5 DEF Round, First
  <2> HIDE DEF b
  <2>4. /\ left'[p] = entered'[p] /\ pc'[p] \notin {"inFirst", "inSecond"}
        /\ entered'[p] = 2 * Round(p)' + (IF pc'[p] \in InFirst THEN 1
                                            ELSE IF pc'[p] = "inSecond" THEN 2 ELSE 0)
    <3>1. /\ left[p] = entered[p] - 1
          /\ entered[p] = 2 * (b + k) + (IF pc[p] = "inSecond" THEN 2 ELSE 1)
      BY <1>1, <1>5, <2>3 DEF InStep, InFirst
    <3>2. CASE pc[p] = "inFirst"
      BY <3>1, <3>2, <1>2, <1>3, <1>4, <1>5, <2>1, <2>3 DEF InFirst
    <3>3. CASE pc[p] = "inSecond"
      <4>1. Round(p)' = b + k + 1
        BY <3>3, <1>3, <1>5, <2>1, <2>3
      <4> QED BY <4>1, <3>1, <3>3, <1>2, <1>3, <1>4, <1>5, <2>1 DEF InFirst
    <3> QED BY <1>2, <3>2, <3>3
  <2>5. \A q, r \in PE : left'[q] <= entered'[r]
    BY <1>1, <1>2, <1>4, <2>4 DEF InStep
  <2>6. \A q \in PE \ {p} :
          /\ entered'[q] = 2 * Round(q)' + (IF pc'[q] \in InFirst THEN 1
                                              ELSE IF pc'[q] = "inSecond" THEN 2 ELSE 0)
          /\ left'[q] = IF pc'[q] \in {"inFirst", "inSecond"} THEN entered'[q] - 1
                        ELSE entered'[q]
    BY <1>1, <1>2, <1>4, <2>2 DEF InStep
  <2> QED BY <2>4, <2>5, <2>6 DEF InStep
<1>8. UpToDate'
  <2>1. UpToDateAt(p)'
    <3>1. UpToDateAt(p)
      BY <1>1 DEF UpToDate
    <3> QED BY <3>1, <1>2, <1>4, <1>5 DEF UpToDateAt, InRound, InFirst, Part
  <2> QED BY <2>1, <1>1, <1>2, <1>4, UpToDateElsewhere
<1>9. ReadInOrder'
  <2>1. ReadCount(p)' = ReadCount(p)
    <3>1. npes * k * Chunks \in Nat /\ npes * (k + 1) * Chunks \in Nat /\ 0 * Chunks = 0
      BY <1>3, CountChunks
    <3>2. CASE pc[p] = "inFirst"
      BY <3>2, <1>3, <1>4, <1>5 DEF ReadCount
    <3>3. CASE pc[p] = "inSecond" /\ pc'[p] = "work"
      BY <3>1, <3>3, <1>3, <1>4, <1>5 DEF ReadCount
    <3>4. CASE pc[p] = "inSecond" /\ pc'[p] = "update"
      BY <3>4, <1>3, <1>5 DEF ReadCount
    <3> QED BY <1>5, <3>2, <3>3, <3>4
  <2>2. ASSUME NEW q \in PE, NEW c \in 0..(Chunks - 1), NEW g \in Segments
        PROVE  HasRead(p, q, c, g)' <=> HasRead(p, q, c, g)
    <3>1. q \in Nat /\ c \in Nat /\ g \in Nat /\ g <= s - 1
      BY <1>3, Constants DEF PE, Segments
    <3>2. CASE pc[p] = "inFirst"
      BY <3>1, <3>2, <1>3, <1>4, <1>5 DEF HasRead
    <3>3. CASE pc[p] = "inSecond"
      BY <3>1, <3>3, <1>3, <1>4, <1>5 DEF HasRead
    <3> QED BY <1>2, <3>2, <3>3
  <2> QED BY <2>1, <2>2, <1>1, <1>2, <1>4, NothingRead
<1> QED BY <1>6, <1>7, <1>8, <1>9 DEF IInv

\* A chunk more is read, and it is of the present update whoever it is read from.
LEMMA ComputeAccelKeeps ==
  ASSUME NbodyAssumption, IInv, NEW p \in PE, ComputeAccel(p) PROVE IInv'
<1> DEFINE i == loop[p].i
           c == loop[p].c
           k == loop[p].k
           x == [pe |-> i, chunk |-> c, part |-> others(i)]
<1>1. TypeOK /\ InStep /\ UpToDate /\ ReadInOrder /\ pc[p] = "accel"
  BY DEF IInv, ComputeAccel
<1>2. /\ UNCHANGED <<dram, buffer, my_particles, work_particles, entered, left>>
      /\ read' = [read EXCEPT ![p] = Append(read[p], x)]
      /\ \/ c + 1 < Chunks /\ loop' = [loop EXCEPT ![p].c = c + 1] /\ pc' = pc
         \/ /\ ~(c + 1 < Chunks) /\ i + 1 < npes
            /\ loop' = [loop EXCEPT ![p].c = 0, ![p].i = i + 1] /\ pc' = pc
         \/ /\ ~(c + 1 < Chunks) /\ ~(i + 1 < npes)
            /\ loop' = [loop EXCEPT ![p].c = 0, ![p].i = 0]
            /\ pc' = [pc EXCEPT ![p] = "second"]
  BY DEF ComputeAccel, Goto
<1>3. /\ i \in PE /\ i \in Nat /\ c \in 0..(Chunks - 1) /\ c \in Nat
      /\ k \in Segments /\ k \in Nat
      /\ npes \in Nat \ {0} /\ Chunks \in Nat \ {0} /\ s \in Nat \ {0}
      /\ loop[p].done \in Nat /\ loop[p].j \in Nat
  BY <1>1, LoopHasTypes, Constants DEF PE
<1>4. x = Chunk(p, i, c, k) /\ x.part \in Particles
  <2>1. others(i) = Part(k, loop[p].done)
    BY <1>1, <1>3, OthersAreUpToDate
  <2> QED BY <2>1, <1>3 DEF Chunk, Part, Particles
<1> HIDE DEF x
<1>5. /\ loop' \in [PE -> Counters]
      /\ \A q \in PE \ {p} : pc'[q] = pc[q] /\ loop'[q] = loop[q]
      /\ loop'[p].done = loop[p].done /\ loop'[p].j = loop[p].j /\ loop'[p].k = k
      /\ \/ pc'[p] = "accel" /\ loop'[p].i = i /\ loop'[p].c = c + 1 /\ c + 1 < Chunks
         \/ /\ pc'[p] = "accel" /\ loop'[p].i = i + 1 /\ loop'[p].c = 0
            /\ c + 1 = Chunks /\ i + 1 < npes
         \/ /\ pc'[p] = "second" /\ loop'[p].i = 0 /\ loop'[p].c = 0
            /\ c + 1 = Chunks /\ i + 1 = npes
  <2>1. loop \in [PE -> Counters] /\ pc[p] = "accel"
    BY <1>1 DEF TypeOK
  <2>2. CASE c + 1 < Chunks
    <3> DEFINE m == c + 1
    <3>1. m \in 0..(Chunks - 1) /\ loop' = [loop EXCEPT ![p].c = m] /\ pc' = pc
      BY <2>2, <1>2, <1>3
    <3> HIDE DEF m
    <3>2. loop' \in [PE -> Counters]
      BY <3>1, <2>1 DEF Counters
    <3>3. /\ loop'[p].done = loop[p].done /\ loop'[p].j = loop[p].j /\ loop'[p].k = loop[p].k
          /\ loop'[p].i = loop[p].i /\ loop'[p].c = m
          /\ \A q \in PE \ {p} : loop'[q] = loop[q]
      BY <3>1, <2>1 DEF Counters
    <3> QED BY <3>1, <3>2, <3>3, <2>1, <2>2 DEF m
  <2>3. CASE ~(c + 1 < Chunks) /\ i + 1 < npes
    <3> DEFINE m == i + 1
    <3>1. /\ m \in 0..(npes - 1) /\ 0 \in 0..(Chunks - 1) /\ pc' = pc
          /\ loop' = [loop EXCEPT ![p].c = 0, ![p].i = m] /\ c + 1 = Chunks
      <4>1. m \in 0..(npes - 1) /\ 0 \in 0..(Chunks - 1) /\ c + 1 = Chunks
        BY <2>3, <1>3
      <4> QED BY <4>1, <2>3, <1>2
    <3> HIDE DEF m
    <3>2. loop' \in [PE -> Counters]
      BY <3>1, <2>1 DEF Counters
    <3>3. /\ loop'[p].done = loop[p].done /\ loop'[p].j = loop[p].j /\ loop'[p].k = loop[p].k
          /\ loop'[p].i = m /\ loop'[p].c = 0
          /\ \A q \in PE \ {p} : loop'[q] = loop[q]
      BY <3>1, <2>1 DEF Counters
    <3> QED BY <3>1, <3>2, <3>3, <2>1, <2>3 DEF m
  <2>4. CASE ~(c + 1 < Chunks) /\ ~(i + 1 < npes)
    <3>1. /\ 0 \in 0..(npes - 1) /\ 0 \in 0..(Chunks - 1) /\ c + 1 = Chunks /\ i + 1 = npes
          /\ loop' = [loop EXCEPT ![p].c = 0, ![p].i = 0]
          /\ pc' = [pc EXCEPT ![p] = "second"]
      <4>1. 0 \in 0..(npes - 1) /\ 0 \in 0..(Chunks - 1) /\ c + 1 = Chunks
        BY <2>4, <1>3
      <4>2. i + 1 = npes
        <5>1. i \in 0..(npes - 1)
          BY <1>3 DEF PE
        <5> QED BY <5>1, <2>4, <1>3
      <4>3. ~(c + 1 < Chunks) /\ ~(i + 1 < npes)
        BY <2>4
      <4> QED BY ZenonT(30), <4>1, <4>2, <4>3, <1>2
    <3>2. loop' \in [PE -> Counters]
      <4> DEFINE l == [loop[p] EXCEPT !.c = 0, !.i = 0]
      <4>1. l \in Counters
        BY <3>1, <2>1 DEF Counters
      <4>2. loop' = [loop EXCEPT ![p] = l]
        BY <3>1, <2>1
      <4> HIDE DEF l
      <4> QED BY <4>1, <4>2, <2>1
    <3>3. /\ loop'[p].done = loop[p].done /\ loop'[p].j = loop[p].j /\ loop'[p].k = loop[p].k
          /\ loop'[p].i = 0 /\ loop'[p].c = 0
          /\ \A q \in PE \ {p} : loop'[q] = loop[q]
      BY <3>1, <2>1 DEF Counters
    <3>4. pc'[p] = "second" /\ \A q \in PE \ {p} : pc'[q] = pc[q]
      BY <3>1, <1>1 DEF TypeOK
    <3> QED BY <3>1, <3>2, <3>3, <3>4
  <2> QED BY <2>2, <2>3, <2>4
<1>6. TypeOK'
  <2>1. pc' \in [PE -> {"load", "work", "update", "done"} \cup InRound]
    <3>1. pc' = [pc EXCEPT ![p] = pc'[p]] /\ pc'[p] \in {"accel", "second"}
      BY <1>1, <1>2, <1>5 DEF TypeOK
    <3> QED BY <3>1, <1>1, PcStays DEF InRound, InFirst
  <2>2. read' \in [PE -> Seq([pe : PE, chunk : 0..(Chunks - 1), part : Particles])]
    <3>1. x \in [pe : PE, chunk : 0..(Chunks - 1), part : Particles]
      BY <1>3, <1>4 DEF Chunk
    <3> DEFINE Item == [pe : PE, chunk : 0..(Chunks - 1), part : Particles]
    <3>2. read \in [PE -> Seq(Item)]
      BY <1>1 DEF TypeOK
    <3>3. x \in Item
      BY <3>1
    <3> HIDE DEF Item
    <3>4. Append(read[p], x) \in Seq(Item)
      BY <3>2, <3>3
    <3>5. read' \in [PE -> Seq(Item)]
      BY <3>2, <3>4, <1>2
    <3> QED BY <3>5 DEF Item
  <2>3. \A q \in PE : InPlace(q)'
    <3>1. InPlace(p)'
      BY <1>1, <1>5 DEF TypeOK, InPlace
    <3> QED BY <3>1, <1>1, <1>5, InPlaceElsewhere
  <2> QED BY <2>1, <2>2, <2>3, <1>1, <1>2, <1>5 DEF TypeOK
<1>7. InStep'
  <2>1. Round(p)' = Round(p)
    BY <1>1, <1>5 DEF Round
  <2>2. pc'[p] \in {"accel", "second"}
    BY <1>5
  <2> QED BY <2>1, <2>2, <1>1, <1>2, <1>5, CallsStay DEF InFirst
<1>8. UpToDate'
  <2>1. UpToDateAt(p)'
    <3>1. UpToDateAt(p) /\ pc'[p] \in {"accel", "second"}
      BY <1>1, <1>5 DEF UpToDate
    <3> QED BY <3>1, <1>1, <1>2, <1>5 DEF UpToDateAt, InRound, InFirst, Part
  <2> QED BY <2>1, <1>1, <1>2, <1>5, UpToDateElsewhere
<1>9. ReadInOrder'
  <2>1. /\ read[p] \in Seq([pe : PE, chunk : 0..(Chunks - 1), part : Particles])
        /\ read'[p] = Append(read[p], x) /\ \A q \in PE \ {p} : read'[q] = read[q]
    BY <1>1, <1>2 DEF TypeOK
  <2> DEFINE n == Len(read[p])
  <2>2. /\ n \in Nat /\ Len(read'[p]) = n + 1 /\ read'[p][n + 1] = x
        /\ \A m \in 1..n : read'[p][m] = read[p][m]
    BY <2>1
  <2>3. ReadInOrderAt(p)
    BY <1>1 DEF ReadInOrder
  <2> HIDE DEF n
  <2>4. ReadCount(p)' = ReadCount(p) + 1
    <3> DEFINE a == npes * k * Chunks
               b == i * Chunks
    <3>1. /\ a \in Nat /\ b \in Nat /\ (i + 1) * Chunks = b + Chunks
          /\ npes * (k + 1) * Chunks = a + npes * Chunks /\ 0 * Chunks = 0
      BY <1>3, CountChunks
    <3>2. ReadCount(p) = a + b + c /\ a \in Nat /\ b \in Nat
      BY <3>1, <1>1 DEF ReadCount
    <3>3. CASE pc'[p] = "accel" /\ loop'[p].i = i /\ loop'[p].c = c + 1
      <4>1. ReadCount(p)' = a + b + (c + 1)
        BY <3>3, <1>5 DEF ReadCount
      <4> HIDE DEF a, b
      <4> QED BY <4>1, <3>2, <1>3
    <3>4. CASE pc'[p] = "accel" /\ loop'[p].i = i + 1 /\ loop'[p].c = 0 /\ c + 1 = Chunks
      <4>1. ReadCount(p)' = a + (i + 1) * Chunks + 0
        BY <3>4, <1>5 DEF ReadCount
      <4>2. ReadCount(p)' = a + (b + Chunks) + 0
        BY <4>1, <3>1
      <4> HIDE DEF a, b
      <4> QED BY <4>2, <3>2, <3>4, <1>3
    <3>5. CASE pc'[p] = "second" /\ c + 1 = Chunks /\ i + 1 = npes
      <4>1. ReadCount(p)' = npes * (k + 1) * Chunks
        BY <3>5, <1>5 DEF ReadCount
      <4>2. npes * Chunks = b + Chunks
        BY <3>1, <3>5
      <4>3. ReadCount(p)' = a + (b + Chunks)
        BY <4>1, <4>2, <3>1
      <4> HIDE DEF a, b
      <4> QED BY <4>3, <3>2, <3>5, <1>3
    <3> QED BY <1>5, <3>3, <3>4, <3>5
  <2>5. \A q \in PE, d \in 0..(Chunks - 1), g \in Segments :
          HasRead(p, q, d, g)' <=> HasRead(p, q, d, g) \/ (q = i /\ d = c /\ g = k)
    <3> SUFFICES ASSUME NEW q \in PE, NEW d \in 0..(Chunks - 1), NEW g \in Segments
                 PROVE  HasRead(p, q, d, g)' <=> HasRead(p, q, d, g) \/ (q = i /\ d = c /\ g = k)
      OBVIOUS
    <3>1. /\ q \in Nat /\ d \in Nat /\ g \in Nat /\ q <= npes - 1 /\ d <= Chunks - 1
      BY <1>3 DEF PE, Segments
    <3>2. HasRead(p, q, d, g) <=> g < k \/ (g = k /\ (q < i \/ (q = i /\ d < c)))
      BY <1>1 DEF HasRead
    <3>3. CASE pc'[p] = "accel" /\ loop'[p].i = i /\ loop'[p].c = c + 1
      BY <3>1, <3>2, <3>3, <1>3, <1>5 DEF HasRead
    <3>4. CASE pc'[p] = "accel" /\ loop'[p].i = i + 1 /\ loop'[p].c = 0 /\ c + 1 = Chunks
      BY <3>1, <3>2, <3>4, <1>3, <1>5 DEF HasRead
    <3>5. CASE pc'[p] = "second" /\ c + 1 = Chunks /\ i + 1 = npes
      BY <3>1, <3>2, <3>5, <1>3, <1>5 DEF HasRead
    <3> QED BY <1>5, <3>3, <3>4, <3>5
  <2>6. \A q, d, g : Chunk(p, q, d, g)' = Chunk(p, q, d, g)
    BY <1>5 DEF Chunk, Part
  <2>7. ReadInOrderAt(p)'
    <3>1. Len(read'[p]) = ReadCount(p)'
      BY <2>2, <2>3, <2>4 DEF ReadInOrderAt, n
    <3>2. ASSUME NEW m \in 1..Len(read'[p])
          PROVE  \E q \in PE, d \in 0..(Chunks - 1), g \in Segments :
                   HasRead(p, q, d, g)' /\ read'[p][m] = Chunk(p, q, d, g)'
      <4>1. CASE m = n + 1
        BY <4>1, <2>2, <2>5, <2>6, <1>3, <1>4
      <4>2. CASE m # n + 1
        <5>1. m \in 1..n
          BY <4>2, <2>2
        <5>2. PICK q \in PE, d \in 0..(Chunks - 1), g \in Segments :
                HasRead(p, q, d, g) /\ read[p][m] = Chunk(p, q, d, g)
          BY <5>1, <2>3 DEF ReadInOrderAt, n
        <5> QED BY <5>1, <5>2, <2>2, <2>5, <2>6
      <4> QED BY <4>1, <4>2
    <3>3. ASSUME NEW q \in PE, NEW d \in 0..(Chunks - 1), NEW g \in Segments,
                 HasRead(p, q, d, g)'
          PROVE  \E m \in 1..Len(read'[p]) : read'[p][m] = Chunk(p, q, d, g)'
      <4>1. CASE HasRead(p, q, d, g)
        <5>1. PICK m \in 1..n : read[p][m] = Chunk(p, q, d, g)
          BY <4>1, <2>3 DEF ReadInOrderAt, n
        <5>2. m \in 1..Len(read'[p]) /\ read'[p][m] = Chunk(p, q, d, g)'
          BY <5>1, <2>2, <2>6
        <5> QED BY <5>2
      <4>2. CASE q = i /\ d = c /\ g = k
        <5>1. n + 1 \in 1..Len(read'[p]) /\ read'[p][n + 1] = Chunk(p, q, d, g)'
          BY <4>2, <2>2, <2>6, <1>4
        <5> QED BY <5>1
      <4> QED BY <3>3, <4>1, <4>2, <2>5
    <3> QED BY <3>1, <3>2, <3>3 DEF ReadInOrderAt
  <2> QED BY <2>1, <2>7, <1>1, <1>5, ReadElsewhere
<1> QED BY <1>6, <1>7, <1>8, <1>9 DEF IInv

LEMMA UpdateOnChipKeeps ==
  ASSUME NbodyAssumption, IInv, NEW p \in PE, UpdateOnChip(p) PROVE IInv'
<1> DEFINE d == loop[p].done
           new == my_particles[p].update + 1
<1>1. TypeOK /\ InStep /\ UpToDate /\ ReadInOrder /\ pc[p] = "update" /\ s = 1
  BY DEF IInv, UpdateOnChip
<1>2. /\ UNCHANGED <<buffer, work_particles, entered, left>>
      /\ my_particles' = [my_particles EXCEPT ![p].update = new]
      /\ dram' = IF d + 1 < iter THEN dram ELSE [dram EXCEPT ![p][0][0] = new]
      /\ loop' = [loop EXCEPT ![p].done = d + 1]
      /\ read' = [read EXCEPT ![p] = << >>]
      /\ pc' = [pc EXCEPT ![p] = IF d + 1 < iter THEN "first" ELSE "done"]
  BY DEF UpdateOnChip, Goto
<1>3. /\ d \in Nat /\ d < iter /\ iter \in Nat /\ d + 1 \in 0..iter /\ loop[p].j = 0
      /\ loop[p].k = 0 /\ loop[p].i = 0 /\ loop[p].c = 0
      /\ loop \in [PE -> Counters] /\ my_particles \in [PE -> Particles]
  <2>1. loop[p].j \in Segments /\ Segments = 0..0
    BY <1>1, LoopHasTypes DEF Segments
  <2>2. d \in Nat /\ iter \in Nat /\ d < iter
    BY <1>1, LoopHasTypes, Constants DEF TypeOK, InPlace
  <2> QED BY <2>1, <2>2, <1>1 DEF TypeOK, InPlace
<1>4. /\ loop' \in [PE -> Counters]
      /\ \A q \in PE \ {p} : loop'[q] = loop[q]
      /\ loop'[p].done = d + 1 /\ loop'[p].j = 0 /\ loop'[p].k = 0
      /\ loop'[p].i = 0 /\ loop'[p].c = 0
  <2> DEFINE e == d + 1
  <2>1. e \in 0..iter /\ loop' = [loop EXCEPT ![p].done = e]
    BY <1>2, <1>3
  <2> HIDE DEF e
  <2>2. /\ loop' \in [PE -> Counters]
        /\ \A q \in PE \ {p} : loop'[q] = loop[q]
        /\ loop'[p].done = e /\ loop'[p].j = loop[p].j /\ loop'[p].k = loop[p].k
        /\ loop'[p].i = loop[p].i /\ loop'[p].c = loop[p].c
    BY <2>1, <1>3 DEF Counters
  <2> QED BY <2>2, <1>3 DEF e
<1>5. /\ my_particles[p] = Part(0, d) /\ new = d + 1
      /\ buffer[p] = 0 /\ dram[p][0][0] = 0
  <2>1. UpToDateAt(p)
    BY <1>1 DEF UpToDate
  <2>2. my_particles[p] = Part(0, d) /\ buffer[p] = 0 /\ dram[p][0][0] = 0
    BY <2>1, <1>1, <1>3 DEF UpToDateAt
  <2> QED BY <2>2 DEF Part
<1> HIDE DEF new
<1>6. /\ my_particles' \in [PE -> Particles] /\ my_particles'[p] = Part(0, d + 1)
      /\ \A q \in PE \ {p} : my_particles'[q] = my_particles[q]
  <2>1. new \in Nat
    BY <1>3, <1>5
  <2>2. my_particles'[p] = [my_particles[p] EXCEPT !.update = new]
    BY <1>2, <1>3
  <2>3. my_particles'[p] = Part(0, d + 1)
    BY <2>2, <1>5 DEF Part
  <2> QED BY <2>1, <2>3, <1>2, <1>3 DEF Particles
<1>7. /\ dram' \in [PE -> [{0, 1} -> [Segments -> Nat]]]
      /\ \A q \in PE \ {p} : dram'[q] = dram[q]
      /\ dram'[p][0][0] = IF d + 1 < iter THEN 0 ELSE new
  <2>1. dram \in [PE -> [{0, 1} -> [Segments -> Nat]]] /\ 0 \in Segments /\ new \in Nat
    BY <1>1, <1>3, <1>5 DEF TypeOK, Segments
  <2>2. CASE d + 1 < iter
    BY <2>1, <2>2, <1>2, <1>5
  <2>3. CASE ~(d + 1 < iter)
    <3>1. dram' = [dram EXCEPT ![p][0][0] = new]
      BY <2>3, <1>2
    <3> QED BY <3>1, <2>1, <2>3
  <2> QED BY <2>2, <2>3
<1>8. /\ pc'[p] = (IF d + 1 < iter THEN "first" ELSE "done")
      /\ \A q \in PE \ {p} : pc'[q] = pc[q] /\ read'[q] = read[q]
      /\ read'[p] = << >>
  BY <1>1, <1>2 DEF TypeOK
<1>9. TypeOK'
  <2>1. pc' \in [PE -> {"load", "work", "update", "done"} \cup InRound]
    <3>1. pc' = [pc EXCEPT ![p] = pc'[p]]
      BY <1>2, <1>8
    <3> QED BY <3>1, <1>1, <1>8, PcStays DEF InRound
  <2>2. read' \in [PE -> Seq([pe : PE, chunk : 0..(Chunks - 1), part : Particles])]
    BY <1>1, <1>2, ReadForgets
  <2>3. \A q \in PE : InPlace(q)'
    <3>1. InPlace(p)'
      BY <1>3, <1>4, <1>8 DEF InPlace
    <3> QED BY <3>1, <1>1, <1>4, <1>8, InPlaceElsewhere
  <2> QED BY <2>1, <2>2, <2>3, <1>1, <1>2, <1>4, <1>6, <1>7 DEF TypeOK
<1>10. InStep'
  <2>1. /\ Round(p) = First(d, 0) + 1
        /\ Round(p)' = First(d + 1, 0) + 0
    BY <1>1, <1>3, <1>4, <1>8 DEF Round, First
  <2>2. First(d + 1, 0) = First(d, 0) + 1 /\ First(d, 0) \in Nat
    <3>1. First(d + 1, 0) = First(d, 1) /\ First(d, 0 + 1) = First(d, 0) + 1 /\ First(d, 0) \in Nat
      BY <1>1, <1>3, FirstOfNext
    <3> QED BY <3>1
  <2>3. Round(p)' = Round(p) /\ pc'[p] \in {"first", "done"}
    BY <2>1, <2>2, <1>8
  <2> QED BY <2>3, <1>1, <1>2, <1>4, <1>8, CallsStay DEF InFirst
<1>11. UpToDate'
  <2>1. UpToDateAt(p)'
    <3>1. pc'[p] = "done" => d + 1 = iter
      BY <1>3, <1>8
    <3>2. dram'[p][0][0] = IF pc'[p] = "done" THEN iter ELSE 0
      BY <3>1, <1>5, <1>7, <1>8
    <3> QED BY <3>2, <1>1, <1>2, <1>4, <1>5, <1>6 DEF UpToDateAt, Part
  <2> QED BY <2>1, <1>1, <1>2, <1>4, <1>6, <1>7, <1>8, UpToDateElsewhere
<1>12. ReadInOrder'
  <2>1. ReadInOrderAt(p)'
    BY <1>4, <1>8, NothingReadYet
  <2> QED BY <2>1, <1>1, <1>4, <1>8, ReadElsewhere
<1> QED BY <1>9, <1>10, <1>11, <1>12 DEF IInv

\* The buffer that p points to keeps the last update of every segment, and the other
\* one gets the next, segment by segment.
LEMMA UpdateOffChipKeeps ==
  ASSUME NbodyAssumption, IInv, NEW p \in PE, UpdateOffChip(p) PROVE IInv'
<1> DEFINE d == loop[p].done
           j == loop[p].j
           b == buffer[p]
           new == my_particles[p].update + 1
           last == j + 1 = s
<1>1. TypeOK /\ InStep /\ UpToDate /\ ReadInOrder /\ pc[p] = "update" /\ s > 1
  BY DEF IInv, UpdateOffChip
<1>2. /\ UNCHANGED <<work_particles, entered, left>>
      /\ my_particles' = [my_particles EXCEPT ![p].update = new]
      /\ dram' = [dram EXCEPT ![p][1 - b][j] = new]
      /\ buffer' = IF last THEN [buffer EXCEPT ![p] = 1 - b] ELSE buffer
      /\ loop' = [loop EXCEPT ![p].j = IF last THEN 0 ELSE j + 1,
                              ![p].done = IF last THEN d + 1 ELSE d]
      /\ read' = [read EXCEPT ![p] = << >>]
      /\ pc' = [pc EXCEPT ![p] = IF last /\ d + 1 = iter THEN "done" ELSE "load"]
  BY DEF UpdateOffChip, Goto
<1>3. /\ d \in Nat /\ d < iter /\ iter \in Nat /\ j \in Segments /\ j \in 0..(s - 1) /\ j \in Nat
      /\ loop[p].k = 0 /\ loop[p].i = 0 /\ loop[p].c = 0 /\ s \in Nat
      /\ loop \in [PE -> Counters] /\ my_particles \in [PE -> Particles]
      /\ b \in {0, 1} /\ buffer \in [PE -> {0, 1}]
  BY <1>1, LoopHasTypes, Constants DEF TypeOK, InPlace, Segments
<1>4. /\ loop' \in [PE -> Counters]
      /\ \A q \in PE \ {p} : loop'[q] = loop[q]
      /\ loop'[p].done = (IF last THEN d + 1 ELSE d)
      /\ loop'[p].j = (IF last THEN 0 ELSE j + 1)
      /\ loop'[p].k = 0 /\ loop'[p].i = 0 /\ loop'[p].c = 0
  <2> DEFINE e == IF last THEN d + 1 ELSE d
             m == IF last THEN 0 ELSE j + 1
  <2>1. e \in 0..iter /\ m \in 0..(s - 1)
    BY <1>1, <1>3
  <2>2. loop' = [loop EXCEPT ![p].j = m, ![p].done = e]
    BY <1>2
  <2> HIDE DEF e, m
  <2>3. /\ loop' \in [PE -> Counters]
        /\ \A q \in PE \ {p} : loop'[q] = loop[q]
        /\ loop'[p].done = e /\ loop'[p].j = m /\ loop'[p].k = loop[p].k
        /\ loop'[p].i = loop[p].i /\ loop'[p].c = loop[p].c
    BY <2>1, <2>2, <1>3 DEF Counters
  <2> QED BY <2>3, <1>3 DEF e, m
<1>5. /\ my_particles[p] = Part(j, d) /\ new = d + 1 /\ b = d % 2
      /\ \A g \in Segments : dram[p][b][g] = d
      /\ \A g \in 0..(j - 1) : dram[p][1 - b][g] = d + 1
  <2>1. UpToDateAt(p)
    BY <1>1 DEF UpToDate
  <2>2. /\ my_particles[p] = Part(j, d) /\ b = d % 2
        /\ \A g \in Segments : dram[p][b][g] = d
        /\ \A g \in 0..(j - 1) : dram[p][1 - b][g] = d + 1
    BY <2>1, <1>1 DEF UpToDateAt
  <2> QED BY <2>2 DEF Part
<1> HIDE DEF new
<1>6. /\ my_particles' \in [PE -> Particles]
      /\ \A q \in PE \ {p} : my_particles'[q] = my_particles[q]
  <2>1. new \in Nat
    BY <1>3, <1>5
  <2> QED BY <2>1, <1>2, <1>3 DEF Particles
<1>7. /\ dram' \in [PE -> [{0, 1} -> [Segments -> Nat]]]
      /\ \A q \in PE \ {p} : dram'[q] = dram[q]
      /\ \A g \in Segments : dram'[p][b][g] = d
      /\ dram'[p][1 - b][j] = d + 1
      /\ \A g \in Segments \ {j} : dram'[p][1 - b][g] = dram[p][1 - b][g]
  <2> DEFINE o == 1 - b
  <2>1. /\ dram \in [PE -> [{0, 1} -> [Segments -> Nat]]] /\ new \in Nat
        /\ o \in {0, 1} /\ o # b
    BY <1>1, <1>3, <1>5 DEF TypeOK
  <2>2. dram' = [dram EXCEPT ![p][o][j] = new]
    BY <1>2
  <2> HIDE DEF o
  <2>3. /\ dram' \in [PE -> [{0, 1} -> [Segments -> Nat]]]
        /\ \A q \in PE \ {p} : dram'[q] = dram[q]
        /\ dram'[p][b] = dram[p][b] /\ dram'[p][o][j] = new
        /\ \A g \in Segments \ {j} : dram'[p][o][g] = dram[p][o][g]
    BY <2>1, <2>2, <1>3
  <2> QED BY <2>3, <1>5 DEF o
<1>8. /\ pc'[p] = (IF last /\ d + 1 = iter THEN "done" ELSE "load")
      /\ \A q \in PE \ {p} : pc'[q] = pc[q] /\ read'[q] = read[q] /\ buffer'[q] = buffer[q]
      /\ read'[p] = << >> /\ buffer' \in [PE -> {0, 1}]
      /\ buffer'[p] = IF last THEN 1 - b ELSE b
  <2>1. 1 - b \in {0, 1}
    BY <1>3
  <2> QED BY <2>1, <1>1, <1>2, <1>3 DEF TypeOK
<1>9. TypeOK'
  <2>1. pc' \in [PE -> {"load", "work", "update", "done"} \cup InRound]
    <3>1. pc' = [pc EXCEPT ![p] = pc'[p]]
      BY <1>2, <1>8
    <3> QED BY <3>1, <1>1, <1>8, PcStays DEF InRound
  <2>2. read' \in [PE -> Seq([pe : PE, chunk : 0..(Chunks - 1), part : Particles])]
    BY <1>1, <1>2, ReadForgets
  <2>3. \A q \in PE : InPlace(q)'
    <3>1. InPlace(p)'
      <4>1. CASE last
        BY <4>1, <1>1, <1>3, <1>4, <1>8 DEF InPlace
      <4>2. CASE ~last
        BY <4>2, <1>1, <1>3, <1>4, <1>8 DEF InPlace
      <4> QED BY <4>1, <4>2
    <3> QED BY <3>1, <1>1, <1>4, <1>8, InPlaceElsewhere
  <2> QED BY <2>1, <2>2, <2>3, <1>1, <1>2, <1>4, <1>6, <1>7, <1>8 DEF TypeOK
<1>10. InStep'
  <2>1. Round(p) = First(d, j) + s
    BY <1>1, <1>3 DEF Round
  <2>2. First(d, j + 1) = First(d, j) + s /\ First(d + 1, 0) = First(d, s) /\ First(d, j) \in Nat
    BY <1>3, FirstOfNext
  <2>3. First(d, j + 1) \in Nat /\ First(d + 1, 0) \in Nat
    <3>1. j + 1 \in Nat /\ d + 1 \in Nat /\ 0 \in Nat
      BY <1>3
    <3> QED BY <3>1, <1>3, FirstOfNext
  <2>4. Round(p)' = Round(p)
    <3>1. CASE last
      <4>1. Round(p)' = First(d + 1, 0) + 0
        BY <3>1, <1>4, <1>8 DEF Round, First
      <4>2. First(d, s) = First(d, j) + s
        BY <3>1, <2>2
      <4> QED BY <4>1, <4>2, <2>1, <2>2, <2>3
    <3>2. CASE ~last
      <4>1. Round(p)' = First(d, j + 1) + 0
        BY <3>2, <1>4, <1>8 DEF Round, First
      <4> QED BY <4>1, <2>1, <2>2, <2>3
    <3> QED BY <3>1, <3>2
  <2>5. pc'[p] \in {"load", "done"}
    BY <1>8
  <2> QED BY <2>4, <2>5, <1>1, <1>2, <1>4, <1>8, CallsStay DEF InFirst
<1>11. UpToDate'
  <2>1. s # 1 /\ pc'[p] \in {"load", "done"} /\ pc'[p] \notin InRound
    BY <1>1, <1>8 DEF InRound, InFirst
  <2>2. CASE last
    <3>1. /\ loop'[p].done = d + 1 /\ loop'[p].j = 0 /\ buffer'[p] = 1 - b
      BY <2>2, <1>4, <1>8
    <3>2. 1 - b = (d + 1) % 2
      BY <1>3, <1>5
    <3>3. \A g \in Segments : dram'[p][1 - b][g] = d + 1
      <4> SUFFICES ASSUME NEW g \in Segments, g # j PROVE dram'[p][1 - b][g] = d + 1
        BY <1>7
      <4>1. g \in 0..(j - 1)
        BY <2>2, <1>3 DEF Segments
      <4> QED BY <4>1, <1>5, <1>7
    <3>4. 0..(0 - 1) = {}
      OBVIOUS
    <3>5. UpToDateAt(p)'
      BY <2>1, <3>1, <3>2, <3>3, <3>4 DEF UpToDateAt
    <3> QED BY <3>5, <1>1, <1>2, <1>4, <1>6, <1>7, <1>8, UpToDateElsewhere
  <2>3. CASE ~last
    <3>1. /\ loop'[p].done = d /\ loop'[p].j = j + 1 /\ buffer'[p] = b
      BY <2>3, <1>4, <1>8
    <3>2. \A g \in 0..((j + 1) - 1) : dram'[p][1 - b][g] = d + 1
      <4> SUFFICES ASSUME NEW g \in 0..((j + 1) - 1), g # j PROVE dram'[p][1 - b][g] = d + 1
        BY <1>7
      <4>1. g \in 0..(j - 1) /\ g \in Segments
        BY <1>3 DEF Segments
      <4> QED BY <4>1, <1>5, <1>7
    <3>3. UpToDateAt(p)'
      <4>1. buffer'[p] = loop'[p].done % 2
        BY <3>1, <1>5
      <4>2. \A g \in Segments : dram'[p][buffer'[p]][g] = loop'[p].done
        BY <3>1, <1>7
      <4>3. \A g \in 0..((loop'[p].j) - 1) :
              dram'[p][1 - (buffer'[p])][g] = (loop'[p].done) + 1
        <5>1. /\ (loop'[p].j) - 1 = (j + 1) - 1 /\ 1 - (buffer'[p]) = 1 - b
              /\ (loop'[p].done) + 1 = d + 1
          BY <3>1
        <5> QED BY <5>1, <3>2, Zenon
      <4> QED BY <2>1, <4>1, <4>2, <4>3 DEF UpToDateAt
    <3> QED BY <3>3, <1>1, <1>2, <1>4, <1>6, <1>7, <1>8, UpToDateElsewhere
  <2> QED BY <2>2, <2>3
<1>12. ReadInOrder'
  <2>1. ReadInOrderAt(p)'
    BY <1>4, <1>8, NothingReadYet
  <2> QED BY <2>1, <1>1, <1>4, <1>8, ReadElsewhere
<1> QED BY <1>9, <1>10, <1>11, <1>12 DEF IInv

LEMMA Start == ASSUME NbodyAssumption, Init PROVE IInv
<1>1. /\ npes \in Nat \ {0} /\ s \in Nat \ {0} /\ Chunks \in Nat \ {0} /\ iter \in Nat
  BY Constants
<1>2. /\ pc = [p \in PE |-> "load"]
      /\ loop = [p \in PE |-> [done |-> 0, j |-> 0, k |-> 0, i |-> 0, c |-> 0]]
      /\ dram = [p \in PE |-> [b \in {0, 1} |-> [g \in 0..(s - 1) |-> 0]]]
      /\ buffer = [p \in PE |-> 0] /\ read = [p \in PE |-> << >>]
      /\ my_particles = [p \in PE |-> Part(s, 0)] /\ work_particles = [p \in PE |-> Part(s, 0)]
      /\ entered = [p \in PE |-> 0] /\ left = [p \in PE |-> 0]
  BY DEF Init, Barrier_all!Init, Nothing
<1>3. TypeOK
  <2>1. Part(s, 0) \in Particles
    BY <1>1 DEF Part, Particles
  <2>2. loop \in [PE -> Counters]
    BY <1>1, <1>2 DEF Counters
  <2>3. read \in [PE -> Seq([pe : PE, chunk : 0..(Chunks - 1), part : Particles])]
    <3> DEFINE Item == [pe : PE, chunk : 0..(Chunks - 1), part : Particles]
    <3> HIDE DEF Item
    <3>1. << >> \in Seq(Item)
      OBVIOUS
    <3>2. read \in [PE -> Seq(Item)]
      BY <3>1, <1>2
    <3> QED BY <3>2 DEF Item
  <2>4. \A p \in PE : InPlace(p)
    BY <1>1, <1>2 DEF InPlace
  <2> QED BY <2>1, <2>2, <2>3, <2>4, <1>2 DEF TypeOK, Segments
<1>4. InStep
  <2>1. First(0, 0) = 0
    BY FirstOfNext
  <2>2. \A p \in PE : Round(p) = 0
    BY <2>1, <1>2 DEF Round
  <2> QED BY <2>2, <1>2 DEF InStep, InFirst
<1>5. UpToDate
  <2> SUFFICES ASSUME NEW p \in PE PROVE UpToDateAt(p)
    BY DEF UpToDate
  <2>1. pc[p] = "load" /\ loop[p].done = 0 /\ loop[p].j = 0 /\ buffer[p] = 0
    BY <1>2
  <2>2. \A g \in 0..(s - 1) : dram[p][0][g] = 0
    BY <1>2
  <2>3. 0 \in 0..(s - 1) /\ 0 % 2 = 0 /\ 0..(0 - 1) = {}
    BY <1>1
  <2> QED BY <2>1, <2>2, <2>3 DEF UpToDateAt, Segments, InRound, InFirst
<1>6. ReadInOrder
  <2> SUFFICES ASSUME NEW p \in PE PROVE ReadInOrderAt(p)
    BY DEF ReadInOrder
  <2>1. /\ pc[p] = "load" /\ loop[p].k = 0 /\ loop[p].i = 0 /\ loop[p].c = 0
        /\ read[p] = << >>
    BY <1>2
  <2>2. ReadCount(p) = 0 /\ Len(read[p]) = 0
    <3>1. npes * 0 * Chunks = 0 /\ 0 * Chunks = 0
      BY CountChunks
    <3>2. ReadCount(p) = npes * 0 * Chunks + 0 * Chunks + 0
      BY <2>1 DEF ReadCount
    <3> QED BY <3>1, <3>2, <2>1
  <2>3. ASSUME NEW q \in PE, NEW c \in 0..(Chunks - 1), NEW g \in Segments, HasRead(p, q, c, g)
        PROVE  FALSE
    <3>1. g \in Nat
      BY <1>1 DEF Segments
    <3> QED BY <3>1, <2>1, <2>3 DEF HasRead
  <2> QED BY <2>2, <2>3 DEF ReadInOrderAt
<1> QED BY <1>3, <1>4, <1>5, <1>6 DEF IInv

LEMMA StutterKeeps == ASSUME IInv, UNCHANGED vars PROVE IInv'
<1> USE DEF vars
<1>1. TypeOK'
  BY DEF IInv, TypeOK, InPlace
<1>2. InStep'
  BY DEF IInv, InStep, Round
<1>3. UpToDate'
  BY DEF IInv, UpToDate, UpToDateAt, Part
<1>4. ReadInOrder'
  <2> SUFFICES ASSUME NEW u \in PE PROVE ReadInOrderAt(u)'
    BY DEF ReadInOrder
  <2> QED BY ReadStays DEF IInv, ReadInOrder
<1> QED BY <1>1, <1>2, <1>3, <1>4 DEF IInv

\* The barriers keep the PEs together, the particles a PE shows between them are of
\* the update that the others are making too, and every PE reads all of them in turn.
THEOREM ParticlesAreUpToDate == ASSUME NbodyAssumption PROVE Spec => []IInv
<1>1. Init => IInv
  BY Start
<1>2. IInv /\ [Next]_vars => IInv'
  <2> SUFFICES ASSUME IInv, [Next]_vars PROVE IInv'
    OBVIOUS
  <2>1. CASE UNCHANGED vars
    BY <2>1, StutterKeeps
  <2>2. ASSUME NEW p \in PE, Step(p) PROVE IInv'
    BY <2>2, LoadKeeps, LoadWorkKeeps, EnterKeeps, LeaveKeeps, ComputeAccelKeeps,
       UpdateOnChipKeeps, UpdateOffChipKeeps DEF Step
  <2> QED BY <2>1, <2>2 DEF Next, Finished
<1> QED BY <1>1, <1>2, PTL DEF Spec

\* Each update comes from all particles of all PEs, each read once and as the update
\* before left it; and the host reads the result where the last update has put it.
THEOREM AccelerationsSeeAll == ASSUME NbodyAssumption PROVE Spec => []NbodySeesAll
<1>1. IInv => NbodySeesAll
  <2> SUFFICES ASSUME IInv PROVE NbodySeesAll
    OBVIOUS
  <2>1. TypeOK /\ UpToDate /\ ReadInOrder
    BY DEF IInv
  <2>2. ASSUME NEW p \in PE, pc[p] = "update"
        PROVE  /\ my_particles[p] = Part(loop[p].j, loop[p].done)
               /\ Len(read[p]) = npes * s * Chunks
               /\ {read[p][i] : i \in DOMAIN read[p]} =
                    {[pe |-> q, chunk |-> c, part |-> Part(g, loop[p].done)] :
                       q \in PE, c \in 0..(Chunks - 1), g \in 0..(s - 1)}
    <3>1. my_particles[p] = Part(loop[p].j, loop[p].done)
      BY <2>1, <2>2 DEF UpToDate, UpToDateAt
    <3>2. ReadInOrderAt(p)
      BY <2>1 DEF ReadInOrder
    <3>3. Len(read[p]) = npes * s * Chunks
      BY <2>2, <3>2 DEF ReadInOrderAt, ReadCount
    <3>4. DOMAIN read[p] = 1..Len(read[p])
      BY <2>1 DEF TypeOK
    <3>5. \A q \in PE, c \in 0..(Chunks - 1), g \in Segments : HasRead(p, q, c, g)
      BY <2>2 DEF HasRead
    <3>6. \A m \in 1..Len(read[p]) : \E q \in PE, c \in 0..(Chunks - 1), g \in 0..(s - 1) :
            read[p][m] = [pe |-> q, chunk |-> c, part |-> Part(g, loop[p].done)]
      BY <3>2 DEF ReadInOrderAt, Chunk, Segments
    <3>7. \A q \in PE, c \in 0..(Chunks - 1), g \in 0..(s - 1) : \E m \in 1..Len(read[p]) :
            read[p][m] = [pe |-> q, chunk |-> c, part |-> Part(g, loop[p].done)]
      BY <3>2, <3>5 DEF ReadInOrderAt, Chunk, Segments
    <3> DEFINE S == {[pe |-> q, chunk |-> c, part |-> Part(g, loop[p].done)] :
                       q \in PE, c \in 0..(Chunks - 1), g \in 0..(s - 1)}
    <3>8. \A i \in DOMAIN read[p] : read[p][i] \in S
      <4> SUFFICES ASSUME NEW i \in 1..Len(read[p]) PROVE read[p][i] \in S
        BY <3>4
      <4>1. PICK q \in PE, c \in 0..(Chunks - 1), g \in 0..(s - 1) :
              read[p][i] = [pe |-> q, chunk |-> c, part |-> Part(g, loop[p].done)]
        BY <3>6
      <4> QED BY <4>1
    <3>9. \A x \in S : \E i \in DOMAIN read[p] : read[p][i] = x
      BY <3>4, <3>7
    <3> HIDE DEF S
    <3>10. {read[p][i] : i \in DOMAIN read[p]} = S
      BY <3>8, <3>9
    <3> QED BY <3>1, <3>3, <3>10 DEF S
  <2>3. ASSUME \A p \in PE : pc[p] = "done", NEW p \in PE, NEW g \in 0..(s - 1)
        PROVE  dram[p][p_mem_switch][g] = iter
    <3>1. UpToDateAt(p) /\ loop[p].done = iter /\ pc[p] = "done" /\ s \in Nat \ {0} /\ iter \in Nat
      BY <2>1, <2>3, Constants DEF UpToDate, TypeOK, InPlace
    <3>2. CASE s = 1
      BY <3>1, <3>2 DEF UpToDateAt, p_mem_switch
    <3>3. CASE s # 1
      <4>1. buffer[p] = iter % 2 /\ dram[p][buffer[p]][g] = iter
        BY <3>1, <3>3 DEF UpToDateAt, Segments
      <4>2. p_mem_switch = iter % 2
        BY <3>1, <3>3 DEF p_mem_switch
      <4> QED BY <4>1, <4>2
    <3> QED BY <3>2, <3>3
  <2> QED BY <2>2, <2>3 DEF NbodySeesAll
<1> QED BY <1>1, ParticlesAreUpToDate, PTL

===============================================================================

---------------------------- MODULE ShmemHeapProof ----------------------------
(* Proofs about ShmemHeap: for every base, heap start, set of sizes without 0 *)
(* and set of alignments, a program that keeps the rules of src/README.md has *)
(* disjoint and aligned blocks, loses no memory and is given zeroed ones.     *)
EXTENDS ShmemHeap, SequenceTheorems, TLAPS

\* The program asks for at least one byte.
Positive == 0 \notin Sizes

\* The mask in shmem_align never moves the break down.
LEMMA AlignUpIsAbove ==
  ASSUME NEW x \in Nat, NEW a \in Nat \ {0}
  PROVE  AlignUp(x, a) \in Nat /\ AlignUp(x, a) >= x
<1>1. (x + a - 1) \in Nat /\ (x + a - 1) % a \in 0..(a - 1)
  OBVIOUS
<1> QED BY <1>1 DEF AlignUp

LEMMA StartIsInMemory == HeapStart \in Nat /\ HeapStart >= Base /\ Base \in Nat
BY HeapAssumption DEF HeapStart

LEMMA BlockIsTyped ==
  ASSUME NEW b \in TBlock
  PROVE  b.ptr \in Nat /\ b.size \in Nat /\ End(b) \in Nat
BY DEF TBlock, End

\* The addresses of a block are natural numbers.
LEMMA BlockInMemory ==
  ASSUME NEW b, b.ptr \in Nat, b.size \in Nat
  PROVE  Block(b) \subseteq Nat
BY DEF Block

LEMMA InitInOrder == Init => InOrder
<1> SUFFICES ASSUME Init PROVE InOrder OBVIOUS
<1>1. live = << >> /\ live \in Seq(TBlock) /\ Len(live) = 0
  BY DEF Init
<1>2. None \in TBlock /\ dirty \subseteq Nat
  BY HeapAssumption DEF Init, None, NULL, TBlock
<1> QED BY <1>1, <1>2, StartIsInMemory DEF Init, InOrder, TypeOK

\* A block that begins at or above the break may be appended.
LEMMA Grows ==
  ASSUME InOrder, Positive, NEW size \in Sizes, NEW a \in Nat \ {0}, Gets(a, size),
         dirty' \subseteq Nat, fresh' \in TBlock
  PROVE  InOrder'
<1> DEFINE p == AlignUp(free_mem, a)
           b == [ptr |-> p, size |-> size, align |-> a]
           n == Len(live)
<1>1. size \in Nat /\ size > 0
  BY HeapAssumption DEF Positive
<1>2. free_mem \in Nat /\ live \in Seq(TBlock) /\ n \in Nat
  BY DEF InOrder, TypeOK
<1>3. p \in Nat /\ p >= free_mem
  BY <1>2, AlignUpIsAbove
<1>4. free_mem' = p + size /\ live' = Append(live, b) /\ local_mem_base' = local_mem_base
  BY <1>1 DEF Gets, Align
<1>5. b \in TBlock
  BY <1>1, <1>3 DEF TBlock
<1>6. /\ live' \in Seq(TBlock) /\ Len(live') = n + 1 /\ live'[n + 1] = b
      /\ \A i \in 1..n : live'[i] = live[i] /\ live[i] \in TBlock
  BY <1>2, <1>4, <1>5
<1>7. TypeOK'
  BY <1>1, <1>3, <1>4, <1>6 DEF InOrder, TypeOK
<1>8. free_mem' >= HeapStart
  BY <1>1, <1>2, <1>3, <1>4, StartIsInMemory DEF InOrder
<1>9. ASSUME NEW i \in 1..(n + 1)
      PROVE  /\ live'[i].size > 0 /\ live'[i].ptr >= HeapStart /\ End(live'[i]) <= free_mem'
             /\ \A j \in 1..(i - 1) : End(live'[j]) <= live'[i].ptr
  <2>1. CASE i = n + 1
    <3>1. live'[i] = b /\ b.ptr = p /\ b.size = size
      BY <1>6, <2>1
    <3>2. \A j \in 1..n : End(live[j]) \in Nat /\ End(live[j]) <= free_mem
      BY <1>6, BlockIsTyped DEF InOrder
    <3>3. \A j \in 1..(i - 1) : j \in 1..n
      BY <1>2, <2>1
    <3> QED BY <1>1, <1>2, <1>3, <1>4, <1>6, <2>1, <3>1, <3>2, <3>3, StartIsInMemory
            DEF End, InOrder
  <2>2. CASE i \in 1..n
    <3>1. live'[i] = live[i] /\ \A j \in 1..(i - 1) : j \in 1..n /\ live'[j] = live[j]
      BY <1>2, <1>6, <2>2
    <3>2. End(live[i]) \in Nat /\ End(live[i]) <= free_mem
      BY <1>6, <2>2, BlockIsTyped DEF InOrder
    <3> QED BY <1>1, <1>2, <1>3, <1>4, <2>2, <3>1, <3>2 DEF InOrder
  <2> QED BY <1>2, <2>1, <2>2
<1> QED BY <1>6, <1>7, <1>8, <1>9 DEF InOrder

\* shmem_align gives such a block, and shmem_malloc is a call of it.
LEMMA AlignStep ==
  ASSUME InOrder, Positive, NEW size \in Sizes, NEW a \in Nat \ {0}, Shmem_align(a, size)
  PROVE  InOrder'
<1>1. Gets(a, size) /\ fresh' = None
  BY DEF Shmem_align
<1>2. None \in TBlock
  BY DEF None, NULL, TBlock
<1>3. dirty' \subseteq Nat
  <2>1. AlignUp(free_mem, a) \in Nat /\ size \in Nat /\ size > 0
    BY AlignUpIsAbove, HeapAssumption DEF InOrder, TypeOK, Positive
  <2>2. live' = Append(live, [ptr |-> AlignUp(free_mem, a), size |-> size, align |-> a])
    BY <1>1, <2>1 DEF Gets, Align
  <2>3. live'[Len(live')] = [ptr |-> AlignUp(free_mem, a), size |-> size, align |-> a]
    BY <2>2 DEF InOrder, TypeOK
  <2>4. Block(live'[Len(live')]) \subseteq Nat
    BY <2>1, <2>3, BlockInMemory
  <2>5. dirty' = dirty \cup Block(live'[Len(live')]) /\ dirty \subseteq Nat
    BY DEF Shmem_align, Fills, InOrder, TypeOK
  <2> QED BY <2>4, <2>5
<1> QED BY <1>1, <1>2, <1>3, Grows

LEMMA CallocStep ==
  ASSUME InOrder, Positive, NEW size \in Sizes, Shmem_calloc(size)
  PROVE  InOrder'
<1>1. Gets(8, size) /\ dirty' \subseteq Nat
  BY DEF Shmem_calloc, InOrder, TypeOK
<1>2. fresh' \in TBlock
  <2>1. AlignUp(free_mem, 8) \in Nat /\ size \in Nat /\ size > 0
    <3>1. free_mem \in Nat /\ 8 \in Nat \ {0}
      BY DEF InOrder, TypeOK
    <3> QED BY <3>1, AlignUpIsAbove, HeapAssumption DEF Positive
  <2>2. live' = Append(live, [ptr |-> AlignUp(free_mem, 8), size |-> size, align |-> 8])
    BY <1>1, <2>1 DEF Gets, Align
  <2> QED BY <2>1, <2>2 DEF Shmem_calloc, InOrder, TypeOK, TBlock
<1> QED BY <1>1, <1>2, Grows

LEMMA FreeStep == ASSUME InOrder, Shmem_free PROVE InOrder'
<1> DEFINE n == Len(live)
           b == live[n]
<1>1. free_mem \in Nat /\ live \in Seq(TBlock) /\ n \in Nat /\ n > 0 /\ b \in TBlock
  BY DEF InOrder, TypeOK, Shmem_free
<1>2. /\ live' \in Seq(TBlock) /\ Len(live') = n - 1
      /\ \A i \in 1..(n - 1) : live'[i] = live[i] /\ live[i] \in TBlock
  <2>1. live' = SubSeq(live, 1, n - 1)
    BY DEF Shmem_free
  <2>2. live' \in Seq(TBlock) /\ Len(live') = n - 1
    <3>1. \A i \in 1..(n - 1) : live[i] \in TBlock
      BY <1>1
    <3>2. 1 \in Int /\ n - 1 \in Int
      BY <1>1
    <3>3. live' \in Seq(TBlock)
      BY <2>1, <3>1, <3>2, SubSeqProperties
    <3>4. Len(live') = IF 1 <= n - 1 THEN (n - 1) - 1 + 1 ELSE 0
      BY <2>1, <3>1, <3>2, SubSeqProperties
    <3>5. Len(live') = n - 1
      <4>1. n \in Nat /\ n > 0
        BY <1>1
      <4> HIDE DEF n
      <4> QED BY <4>1, <3>4
    <3> QED BY <3>3, <3>5
  <2>3. ASSUME NEW i \in 1..(n - 1)
        PROVE  live'[i] = live[i] /\ live[i] \in TBlock
    BY <1>1, <2>1
  <2> QED BY <2>2, <2>3
<1>3. free_mem' = b.ptr
  BY <1>1 DEF Shmem_free, Last, InOrder, TBlock, End
<1>4. TypeOK'
  <2>1. None \in TBlock
    BY DEF None, NULL, TBlock
  <2> QED BY <1>1, <1>2, <1>3, <2>1 DEF Shmem_free, InOrder, TypeOK, TBlock
<1>5. b.ptr >= HeapStart /\ \A j \in 1..(n - 1) : End(live[j]) <= b.ptr
  <2>1. n \in 1..n
    BY <1>1
  <2> QED BY <2>1 DEF InOrder
<1>6. ASSUME NEW i \in 1..(n - 1)
      PROVE  /\ live[i].size > 0 /\ live[i].ptr >= HeapStart
             /\ \A j \in 1..(i - 1) : End(live[j]) <= live[i].ptr
  BY <1>1 DEF InOrder
<1>7. \A i \in 1..(n - 1) : \A j \in 1..(i - 1) : j \in 1..(n - 1)
  BY <1>1
<1> QED BY <1>2, <1>3, <1>4, <1>5, <1>6, <1>7 DEF InOrder, End

LEMMA ReallocStep ==
  ASSUME InOrder, Positive, NEW size \in Sizes, Shmem_realloc(size) PROVE InOrder'
<1> DEFINE n == Len(live)
           b == live[n]
           d == [b EXCEPT !.size = size]
<1>1. free_mem \in Nat /\ live \in Seq(TBlock) /\ n \in Nat /\ n > 0 /\ b \in TBlock
  BY DEF InOrder, TypeOK, Shmem_realloc
<1>2. size \in Nat /\ size > 0
  BY HeapAssumption DEF Positive
<1>3. d \in TBlock /\ d.ptr = b.ptr /\ d.size = size
  BY <1>1, <1>2 DEF TBlock
<1>4. live' = [live EXCEPT ![n] = d]
  BY DEF Shmem_realloc
<1>5. /\ live' \in Seq(TBlock) /\ Len(live') = n /\ live'[n] = d
      /\ \A i \in 1..(n - 1) : live'[i] = live[i] /\ live[i] \in TBlock
  BY <1>1, <1>3, <1>4
<1>6. free_mem' = b.ptr + size /\ free_mem' \in Nat
  BY <1>1, <1>2 DEF Shmem_realloc, Last, TBlock
<1>7. TypeOK'
  <2>1. None \in TBlock
    BY DEF None, NULL, TBlock
  <2>2. dirty' \subseteq Nat
    <3>1. Block(d) \subseteq Nat
      BY <1>3, BlockIsTyped, BlockInMemory
    <3> QED BY <1>5, <3>1 DEF Shmem_realloc, Fills, InOrder, TypeOK
  <2> QED BY <1>5, <1>6, <2>1, <2>2 DEF Shmem_realloc, InOrder, TypeOK
<1>8. b.ptr >= HeapStart /\ \A j \in 1..(n - 1) : End(live[j]) <= b.ptr /\ End(live[j]) \in Nat
  <2>1. n \in 1..n
    BY <1>1
  <2> QED BY <1>5, <2>1, BlockIsTyped DEF InOrder
<1>9. ASSUME NEW i \in 1..n
      PROVE  /\ live'[i].size > 0 /\ live'[i].ptr >= HeapStart /\ End(live'[i]) <= free_mem'
             /\ \A j \in 1..(i - 1) : End(live'[j]) <= live'[i].ptr
  <2>1. CASE i = n
    <3>1. live'[i] = d /\ End(d) = b.ptr + size
      BY <1>3, <1>5, <2>1 DEF End
    <3>2. \A j \in 1..(i - 1) : live'[j] = live[j]
      BY <1>5, <2>1
    <3>3. b.ptr \in Nat
      BY <1>1, BlockIsTyped
    <3> QED BY <1>2, <1>3, <1>6, <1>8, <2>1, <3>1, <3>2, <3>3
  <2>2. CASE i \in 1..(n - 1)
    <3>1. \A j \in 1..(i - 1) : j \in 1..(n - 1)
      BY <1>1, <2>2
    <3>2. b.ptr \in Nat
      BY <1>1 DEF TBlock
    <3> QED BY <1>1, <1>2, <1>5, <1>6, <1>8, <2>2, <3>1, <3>2 DEF InOrder
  <2> QED BY <1>1, <2>1, <2>2
<1>10. free_mem' >= HeapStart
  <2>1. b.ptr \in Nat
    BY <1>1, BlockIsTyped
  <2> QED BY <1>2, <1>6, <1>8, <2>1, StartIsInMemory
<1> QED BY <1>5, <1>7, <1>9, <1>10 DEF InOrder

LEMMA FinalizeStep == ASSUME InOrder, Shmem_finalize PROVE InOrder'
<1>1. live' = << >> /\ live' \in Seq(TBlock) /\ Len(live') = 0
  BY DEF Shmem_finalize
<1>2. None \in TBlock
  BY DEF None, NULL, TBlock
<1> QED BY <1>1, <1>2, StartIsInMemory DEF Shmem_finalize, InOrder, TypeOK

LEMMA NextInOrder == ASSUME InOrder, Positive, [Next]_vars PROVE InOrder'
<1>1. ASSUME NEW size \in Sizes, Shmem_malloc(size) PROVE InOrder'
  BY <1>1, AlignStep DEF Shmem_malloc
<1>2. ASSUME NEW size \in Sizes, NEW a \in Alignments, Shmem_align(a, size) PROVE InOrder'
  BY <1>2, AlignStep, HeapAssumption
<1>3. ASSUME Fill PROVE InOrder'
  <2>1. fresh' \in TBlock
    BY <1>3 DEF Fill, None, NULL, TBlock
  <2>2. Block(fresh) \subseteq Nat
    BY BlockIsTyped, BlockInMemory DEF InOrder, TypeOK
  <2>3. dirty' \subseteq Nat
    BY <1>3, <2>2 DEF Fill, Fills, InOrder, TypeOK
  <2> QED BY <1>3, <2>1, <2>3 DEF Fill, InOrder, TypeOK
<1>4. ASSUME UNCHANGED vars PROVE InOrder'
  BY <1>4 DEF vars, InOrder, TypeOK
<1>5. ASSUME NEW size \in ZeroedSizes, Shmem_calloc(size) PROVE InOrder'
  BY <1>5, CallocStep, HeapAssumption
<1> QED BY <1>1, <1>2, <1>3, <1>4, <1>5, FreeStep, ReallocStep, FinalizeStep DEF Next

\* Rules 1 to 3 of src/README.md and requests of at least one byte make the
\* blocks follow each other in the order of allocation, for every size.
THEOREM BlocksAreInOrder == ASSUME Positive PROVE Spec => []InOrder
<1>1. InOrder /\ [Next]_vars => InOrder'
  BY NextInOrder
<1> QED BY <1>1, InitInOrder, PTL DEF Spec

\* Under these rules the blocks are disjoint, in the heap and below the break.
THEOREM BlocksNeverOverlap == ASSUME Positive PROVE Spec => []BlocksAreDisjoint
<1>1. InOrder => BlocksAreDisjoint
  <2> SUFFICES ASSUME InOrder PROVE BlocksAreDisjoint OBVIOUS
  <2>1. \A i \in 1..Len(live) : live[i] \in TBlock
    BY DEF InOrder, TypeOK
  <2>2. free_mem \in Nat /\ local_mem_base = Base
    BY DEF InOrder, TypeOK
  <2>3. HeapStart \in Nat /\ local_mem_base \in Nat /\ HeapStart >= local_mem_base
    BY <2>2, StartIsInMemory
  <2>4. free_mem >= local_mem_base
    BY <2>2, <2>3 DEF InOrder
  <2>5. ASSUME NEW i \in 1..Len(live)
        PROVE  /\ live[i].ptr >= local_mem_base /\ End(live[i]) <= free_mem
               /\ \A j \in 1..(i - 1) : End(live[j]) <= live[i].ptr
    <3>1. live[i].ptr \in Nat
      BY <2>1 DEF TBlock
    <3>2. live[i].ptr >= HeapStart /\ End(live[i]) <= free_mem
      BY DEF InOrder
    <3>3. \A j \in 1..(i - 1) : End(live[j]) <= live[i].ptr
      BY DEF InOrder
    <3>4. live[i].ptr >= local_mem_base
      BY <2>3, <3>1, <3>2
    <3> QED BY <3>2, <3>3, <3>4
  <2> QED BY <2>4, <2>5 DEF BlocksAreDisjoint
<1> QED BY <1>1, BlocksAreInOrder, PTL


------------------------------------------------------------------------------
(* Alignment, the memory between the blocks, and what shmem_calloc returns *)

\* Rule 3 of src/README.md, alignments are powers of two, as far as it is needed:
\* of two alignments, one divides the other.
Chained == \A a, b \in Alignments \cup {8} : a % b = 0 \/ b % a = 0

\* The mask in shmem_align gives an aligned address, the next one.
LEMMA AlignUpIsNext ==
  ASSUME NEW x \in Nat, NEW a \in Nat \ {0}
  PROVE  /\ AlignUp(x, a) \in Nat /\ AlignUp(x, a) >= x
         /\ AlignUp(x, a) % a = 0 /\ AlignUp(x, a) < x + a
<1> DEFINE y == x + a - 1
<1>1. y \in Nat /\ y % a \in 0..(a - 1) /\ y \div a \in Int
  OBVIOUS
<1>2. y = (y \div a) * a + (y % a)
  OBVIOUS
<1>3. AlignUp(x, a) = y - (y % a)
  BY DEF AlignUp
<1>4. AlignUp(x, a) = (y \div a) * a
  BY <1>1, <1>2, <1>3
<1>5. AlignUp(x, a) % a = 0
  BY <1>1, <1>4
<1>6. AlignUp(x, a) < x + a
  <2> DEFINE r == y % a
  <2>1. AlignUp(x, a) = (x + a - 1) - r /\ r \in 0..(a - 1)
    BY <1>1, <1>3
  <2> HIDE DEF r
  <2> QED BY <2>1
<1> QED BY <1>5, <1>6, AlignUpIsAbove

\* A multiple of b is a multiple of what divides b.
LEMMA DividesMultiples ==
  ASSUME NEW x \in Nat, NEW b \in Nat \ {0}, NEW a \in Nat \ {0}, x % b = 0, b % a = 0
  PROVE  x % a = 0
<1>1. PICK j \in Int : x = j * b
  BY x = (x \div b) * b
<1>2. PICK k \in Int : b = k * a
  BY b = (b \div a) * a
<1>3. x = (j * k) * a /\ j * k \in Int
  BY <1>1, <1>2
<1> QED BY <1>3

\* Two different multiples of a lie at least a apart.
LEMMA MultiplesApart ==
  ASSUME NEW x \in Int, NEW y \in Int, NEW a \in Nat \ {0}, x % a = 0, y % a = 0, x < y
  PROVE  y - x >= a
<1>1. PICK j \in Int : x = j * a
  BY x = (x \div a) * a
<1>2. PICK k \in Int : y = k * a
  BY y = (y \div a) * a
<1> QED BY <1>1, <1>2

\* An aligned address is its own next one.
LEMMA AlignedStays ==
  ASSUME NEW x \in Nat, NEW a \in Nat \ {0}, x % a = 0
  PROVE  AlignUp(x, a) = x
<1>1. /\ AlignUp(x, a) \in Nat /\ AlignUp(x, a) >= x
      /\ AlignUp(x, a) % a = 0 /\ AlignUp(x, a) < x + a
  BY AlignUpIsNext
<1>2. CASE x < AlignUp(x, a)
  <2>1. x \in Int /\ AlignUp(x, a) \in Int
    BY <1>1
  <2>2. AlignUp(x, a) - x >= a
    BY <1>1, <1>2, <2>1, MultiplesApart, Zenon
  <2> QED BY <1>1, <2>2
<1> QED BY <1>1, <1>2

\* Aligning up twice, by whatever alignments, loses no more than aligning up once.
LEMMA AlignUpReaches ==
  ASSUME Chained, NEW a \in Alignments \cup {8}, NEW e \in Nat, NEW x \in Nat,
         e <= x, Reached(e, x)
  PROVE  Reached(e, AlignUp(x, a))
<1> DEFINE y == AlignUp(x, a)
<1>1. Alignments \cup {1, 8} \subseteq Nat \ {0} /\ a \in Nat \ {0} /\ 8 % 1 = 0
  BY HeapAssumption
<1>2. PICK g \in Alignments \cup {1, 8} : x % g = 0 /\ x - e < g
  BY DEF Reached
<1>3. y \in Nat /\ y >= x /\ y % a = 0 /\ y < x + a
  BY <1>1, AlignUpIsNext
<1>4. CASE g % a = 0
  <2>1. x % a = 0
    BY <1>1, <1>2, <1>4, DividesMultiples
  <2> QED BY <1>1, <1>2, <2>1, AlignedStays DEF Reached
<1>5. CASE a % g = 0
  <2>1. y - a \in Int /\ y - a < x
    BY <1>1, <1>3
  <2>2. y % g = 0
    BY <1>1, <1>3, <1>5, DividesMultiples
  <2> HIDE DEF y
  <2>3. PICK k \in Int : a = k * g
    BY <1>1, <1>5, a = (a \div g) * g
  <2>4. PICK j \in Int : y = j * g
    BY <1>1, <1>3, <2>2, y = (y \div g) * g
  <2>5. y - a = (j - k) * g /\ j - k \in Int
    BY <1>1, <2>3, <2>4
  <2>6. (y - a) % g = 0
    <3> DEFINE z == y - a
    <3>1. z = (j - k) * g /\ z \in Int /\ g \in Nat \ {0}
      BY <1>1, <2>1, <2>5
    <3> HIDE DEF z
    <3>2. z % g = 0
      BY <2>5, <3>1
    <3> QED BY <3>2 DEF z
  <2>7. x - (y - a) >= g
    <3>1. x \in Int /\ g \in Nat \ {0}
      BY <1>1
    <3> QED BY <1>2, <2>1, <2>6, <3>1, MultiplesApart, Zenon
  <2>8. y - e < a
    BY <1>1, <1>2, <1>3, <2>7
  <2>9. Reached(e, y)
    BY <1>3, <2>8 DEF Reached
  <2> QED BY <2>9 DEF y
<1>6. g = 1 \/ g % a = 0 \/ a % g = 0
  BY <1>2 DEF Chained
<1>7. g = 1 => a % g = 0
  BY <1>1
<1> QED BY <1>4, <1>5, <1>6, <1>7

\* Blocks and break lie at or above the end of the block before.
LEMMA BeforeIsBelow ==
  ASSUME InOrder
  PROVE  /\ \A i \in 1..Len(live) : Before(i) \in Nat /\ Before(i) <= live[i].ptr
         /\ Before(Len(live) + 1) \in Nat /\ Before(Len(live) + 1) <= free_mem
<1>1. live \in Seq(TBlock) /\ Len(live) \in Nat /\ free_mem \in Nat
  BY DEF InOrder, TypeOK
<1>2. \A i \in 1..Len(live) : End(live[i]) \in Nat /\ live[i].ptr \in Nat
  BY <1>1, BlockIsTyped
<1>3. ASSUME NEW i \in 1..Len(live) PROVE Before(i) \in Nat /\ Before(i) <= live[i].ptr
  <2>1. CASE i = 1
    BY <2>1, <1>2, StartIsInMemory DEF Before, InOrder
  <2>2. CASE i # 1
    <3>1. i - 1 \in 1..Len(live) /\ i - 1 \in 1..(i - 1) /\ Before(i) = End(live[i - 1])
      BY <1>1, <2>2 DEF Before
    <3> QED BY <1>2, <3>1 DEF InOrder
  <2> QED BY <2>1, <2>2
<1>4. CASE Len(live) = 0
  BY <1>1, <1>3, <1>4, StartIsInMemory DEF Before, InOrder
<1>5. CASE Len(live) > 0
  <2>1. Len(live) \in 1..Len(live) /\ Before(Len(live) + 1) = End(live[Len(live)])
    BY <1>1, <1>5 DEF Before
  <2> QED BY <1>2, <1>3, <2>1 DEF InOrder
<1> QED BY <1>1, <1>4, <1>5

LEMMA ReachedAtOnce == ASSUME NEW x \in Nat PROVE Reached(x, x)
BY DEF Reached

\* Every address is where its block before has ended, or it is aligned.
LEMMA InitNoGaps == Init => NoGaps
<1> SUFFICES ASSUME Init PROVE NoGaps OBVIOUS
<1>1. Len(live) = 0 /\ free_mem = HeapStart /\ Before(Len(live) + 1) = HeapStart
  BY DEF Init, Before
<1>2. Reached(HeapStart, HeapStart)
  BY StartIsInMemory, ReachedAtOnce
<1> QED BY <1>1, <1>2 DEF NoGaps

\* A new block is reached from the end of the last one, the break is its end.
LEMMA GetsNoGaps ==
  ASSUME InOrder, NoGaps, Positive, Chained,
         NEW size \in Sizes, NEW a \in Alignments \cup {8}, Gets(a, size)
  PROVE  NoGaps'
<1> DEFINE p == AlignUp(free_mem, a)
           b == [ptr |-> p, size |-> size, align |-> a]
           n == Len(live)
<1>1. size \in Nat /\ size > 0 /\ a \in Nat \ {0}
  BY HeapAssumption DEF Positive
<1>2. free_mem \in Nat /\ live \in Seq(TBlock) /\ n \in Nat
  BY DEF InOrder, TypeOK
<1>3. p \in Nat /\ p % a = 0
  BY <1>1, <1>2, AlignUpIsNext
<1>4. Reached(Before(n + 1), p)
  <2>1. Before(n + 1) \in Nat /\ Before(n + 1) <= free_mem /\ Reached(Before(n + 1), free_mem)
    BY BeforeIsBelow DEF NoGaps
  <2> QED BY <1>2, <2>1, AlignUpReaches
<1>5. free_mem' = p + size /\ live' = Append(live, b)
  BY <1>1 DEF Gets, Align
<1>6. /\ Len(live') = n + 1 /\ live'[n + 1] = b
      /\ \A i \in 1..n : live'[i] = live[i]
  BY <1>2, <1>5
<1>7. ASSUME NEW i \in 1..(n + 1)
      PROVE  live'[i].ptr % live'[i].align = 0 /\ Reached(Before(i)', live'[i].ptr)
  <2>1. Before(i)' = Before(i)
    <3>1. i # 1 => i - 1 \in 1..n
      BY <1>2
    <3> QED BY <1>6, <3>1 DEF Before
  <2>2. CASE i = n + 1
    BY <1>3, <1>4, <1>6, <2>1, <2>2
  <2>3. CASE i \in 1..n
    BY <1>6, <2>1, <2>3 DEF NoGaps
  <2> QED BY <1>2, <2>2, <2>3
<1>8. Before(Len(live) + 1)' = free_mem'
  <2>1. Len(live') + 1 # 1 /\ (Len(live') + 1) - 1 = n + 1
    BY <1>2, <1>6
  <2>2. Before(Len(live) + 1)' = End(live'[n + 1])
    BY <2>1 DEF Before
  <2>3. End(b) = p + size
    BY DEF End
  <2> QED BY <1>5, <1>6, <2>2, <2>3
<1>9. Reached(free_mem', free_mem')
  <2>1. free_mem' \in Nat
    BY <1>1, <1>3, <1>5
  <2> QED BY <2>1, ReachedAtOnce
<1> QED BY <1>6, <1>7, <1>8, <1>9 DEF NoGaps, Reached

\* Without the last block the break is where that block began.
LEMMA FreeNoGaps == ASSUME InOrder, NoGaps, Shmem_free PROVE NoGaps'
<1> DEFINE n == Len(live)
<1>1. free_mem \in Nat /\ live \in Seq(TBlock) /\ n \in Nat /\ n > 0 /\ live[n] \in TBlock
  BY DEF InOrder, TypeOK, Shmem_free
<1>2. free_mem' = live[n].ptr
  BY <1>1 DEF Shmem_free, Last, InOrder, TBlock, End
<1>3. Len(live') = n - 1 /\ \A i \in 1..(n - 1) : live'[i] = live[i]
  <2>1. live' = SubSeq(live, 1, n - 1) /\ n - 1 \in Nat
    BY <1>1 DEF Shmem_free
  <2>2. \A i \in 1..(n - 1) : live[i] \in TBlock
    BY <1>1
  <2> HIDE DEF n
  <2>3. Len(live') = n - 1
    BY <1>1, <2>1, <2>2, SubSeqProperties
  <2> QED BY <1>1, <2>1, <2>3
<1>4. \A i \in 1..n : Before(i)' = Before(i)
  <2>1. \A i \in 1..n : i # 1 => i - 1 \in 1..(n - 1)
    BY <1>1
  <2> QED BY <1>3, <2>1 DEF Before
<1>5. n \in 1..n /\ Len(live') + 1 = n /\ \A i \in 1..(n - 1) : i \in 1..n
  BY <1>1, <1>3
<1> QED BY <1>2, <1>3, <1>4, <1>5 DEF NoGaps, Reached

\* The last block keeps its address, the break is its new end.
LEMMA ReallocNoGaps ==
  ASSUME InOrder, NoGaps, NEW size \in Sizes, Shmem_realloc(size) PROVE NoGaps'
<1> DEFINE n == Len(live)
<1>1. size \in Nat /\ live \in Seq(TBlock) /\ n \in Nat /\ n > 0 /\ live[n] \in TBlock
  BY HeapAssumption DEF InOrder, TypeOK, Shmem_realloc
<1>2. /\ Len(live') = n
      /\ \A i \in 1..(n - 1) : live'[i] = live[i]
      /\ live'[n] = [live[n] EXCEPT !.size = size]
  BY <1>1 DEF Shmem_realloc
<1>3. live'[n].ptr = live[n].ptr /\ live'[n].align = live[n].align /\ live'[n].size = size
  BY <1>1, <1>2 DEF TBlock
<1>4. \A i \in 1..n : Before(i)' = Before(i)
  <2>1. \A i \in 1..n : i # 1 => i - 1 \in 1..(n - 1)
    BY <1>1
  <2> QED BY <1>2, <2>1 DEF Before
<1>5. \A i \in 1..n : live'[i].ptr = live[i].ptr /\ live'[i].align = live[i].align
  <2>1. \A i \in 1..n : i = n \/ i \in 1..(n - 1)
    BY <1>1
  <2> QED BY <1>2, <1>3, <2>1
<1>6. Before(Len(live) + 1)' = free_mem' /\ free_mem' \in Nat
  <2>1. Len(live') + 1 # 1 /\ (Len(live') + 1) - 1 = n
    BY <1>1, <1>2
  <2>2. Before(Len(live) + 1)' = End(live'[n])
    BY <2>1 DEF Before
  <2>3. End(live'[n]) = live[n].ptr + size /\ live[n].ptr \in Nat
    BY <1>1, <1>3 DEF End, TBlock
  <2>4. free_mem' = live[n].ptr + size
    BY <1>1 DEF Shmem_realloc, Last
  <2> QED BY <1>1, <2>2, <2>3, <2>4
<1>7. Reached(free_mem', free_mem')
  BY <1>6, ReachedAtOnce
<1> QED BY <1>2, <1>4, <1>5, <1>6, <1>7 DEF NoGaps, Reached

LEMMA FinalizeNoGaps == Shmem_finalize => NoGaps'
<1> SUFFICES ASSUME Shmem_finalize PROVE NoGaps' OBVIOUS
<1>1. Len(live') = 0 /\ free_mem' = HeapStart /\ Before(Len(live) + 1)' = HeapStart
  BY DEF Shmem_finalize, Before
<1>2. Reached(HeapStart, HeapStart)
  BY StartIsInMemory, ReachedAtOnce
<1> QED BY <1>1, <1>2 DEF NoGaps, Reached

LEMMA NextNoGaps ==
  ASSUME InOrder, NoGaps, Positive, Chained, [Next]_vars PROVE NoGaps'
<1>1. ASSUME NEW size \in Sizes, Shmem_malloc(size) PROVE NoGaps'
  BY <1>1, GetsNoGaps DEF Shmem_malloc, Shmem_align
<1>2. ASSUME NEW size \in Sizes, NEW a \in Alignments, Shmem_align(a, size) PROVE NoGaps'
  BY <1>2, GetsNoGaps DEF Shmem_align
<1>3. ASSUME NEW size \in ZeroedSizes, Shmem_calloc(size) PROVE NoGaps'
  <2>1. size \in Sizes /\ Gets(8, size)
    BY <1>3, HeapAssumption DEF Shmem_calloc
  <2> QED BY <2>1, GetsNoGaps
<1>4. ASSUME Fill \/ UNCHANGED vars PROVE NoGaps'
  BY <1>4 DEF Fill, vars, NoGaps, Before, Reached
<1> QED BY <1>1, <1>2, <1>3, <1>4, FreeNoGaps, ReallocNoGaps, FinalizeNoGaps DEF Next

\* Both parts of the invariant hold, whatever the program allocates and frees.
THEOREM HeapInvariant == ASSUME Positive, Chained PROVE Spec => []IInv
<1>1. Init => IInv
  BY InitInOrder, InitNoGaps DEF IInv
<1>2. IInv /\ [Next]_vars => IInv'
  BY NextInOrder, NextNoGaps DEF IInv
<1> QED BY <1>1, <1>2, PTL DEF Spec

\* Every block has the alignment that was asked for, also behind blocks of odd
\* sizes and after blocks were freed or resized.
THEOREM AlignmentIsKept == ASSUME Positive, Chained PROVE Spec => []BlocksAreAligned
<1>1. IInv => BlocksAreAligned
  BY DEF IInv, NoGaps, BlocksAreAligned
<1> QED BY <1>1, HeapInvariant, PTL

\* Freeing in reverse order gives the memory back: what is lost above the last
\* block is less than one alignment, however many blocks came and went.
THEOREM NoMemoryIsLost == ASSUME Positive, Chained PROVE Spec => []MemoryIsGivenBack
<1>1. IInv => MemoryIsGivenBack
  <2> SUFFICES ASSUME IInv PROVE MemoryIsGivenBack OBVIOUS
  <2> DEFINE used == IF live = << >> THEN HeapStart ELSE End(Last)
  <2>1. used = Before(Len(live) + 1) /\ used \in Nat /\ free_mem \in Nat
    <3>1. live \in Seq(TBlock) /\ Len(live) \in Nat /\ free_mem \in Nat
      BY DEF IInv, InOrder, TypeOK
    <3>2. live = << >> <=> Len(live) + 1 = 1
      BY <3>1
    <3>3. used = Before(Len(live) + 1)
      <4>1. (Len(live) + 1) - 1 = Len(live)
        BY <3>1
      <4> QED BY <3>2, <4>1 DEF Before, Last
    <3>4. Before(Len(live) + 1) \in Nat
      BY BeforeIsBelow DEF IInv
    <3> HIDE DEF used
    <3> QED BY <3>1, <3>3, <3>4
  <2> HIDE DEF used
  <2>2. PICK a \in Alignments \cup {1, 8} : free_mem - used < a
    BY <2>1 DEF IInv, NoGaps, Reached
  <2>3. \E al \in Alignments \cup {8} : free_mem - used < al
    BY <2>1, <2>2
  <2> QED BY <2>3 DEF used, MemoryIsGivenBack
<1> QED BY <1>1, HeapInvariant, PTL

\* The program asks shmem_calloc for whole double words.
WholeWords == \A size \in ZeroedSizes : size % 8 = 0

\* What shmem_calloc returns is zero, whatever the memory held before: its loop
\* over double words writes every byte of a block of whole double words.
THEOREM CallocGivesZeros == ASSUME Positive, WholeWords PROVE Spec => []CallocIsZeroed
<1>0. Block(None) = {}
  BY DEF Block, None, NULL
<1>1. Init => CallocIsZeroed
  BY <1>0 DEF Init, CallocIsZeroed
<1>2. ASSUME fresh' = None PROVE CallocIsZeroed'
  BY <1>0, <1>2 DEF CallocIsZeroed, Block
<1>3. ASSUME InOrder, NEW size \in ZeroedSizes, Shmem_calloc(size) PROVE CallocIsZeroed'
  <2> DEFINE b == live'[Len(live')]
  <2>1. size \in Nat /\ size % 8 = 0 /\ size > 0
    BY HeapAssumption DEF WholeWords, Positive
  <2>2. b.size = size
    <3>1. live' = Append(live, [ptr |-> Align(8, size).ptr, size |-> size, align |-> 8])
      BY <1>3 DEF Shmem_calloc, Gets
    <3> QED BY <1>3, <3>1 DEF InOrder, TypeOK
  <2>3. 8 * (size \div 8) = size
    BY <2>1
  <2>4. Zeroed(b) = Block(b)
    BY <2>2, <2>3 DEF Zeroed, Block
  <2>5. dirty' = dirty \ Zeroed(b) /\ fresh' = b
    BY <1>3 DEF Shmem_calloc
  <2> HIDE DEF b
  <2> QED BY <2>4, <2>5 DEF CallocIsZeroed, Block
<1>4. InOrder /\ CallocIsZeroed /\ [Next]_vars => CallocIsZeroed'
  BY <1>2, <1>3 DEF Next, Shmem_malloc, Shmem_align, Shmem_realloc, Shmem_free, Fill,
                    Shmem_finalize, vars, CallocIsZeroed, Block
<1>5. Spec => []InOrder
  BY BlocksAreInOrder
<1> QED BY <1>1, <1>4, <1>5, PTL DEF Spec

==============================================================================

------------------------------- MODULE ShmemHeap -------------------------------
(* The symmetric heap of one PE: shmem_malloc, shmem_align, shmem_calloc,     *)
(* shmem_realloc, shmem_free and shmem_finalize over the break free_mem.      *)
(*                                                                            *)
(* All PEs make the same calls with the same arguments, and the break is the  *)
(* only state, so that the heap of one PE stands for that of all.  The        *)
(* program keeps the rules of src/README.md: it frees in the reverse order of *)
(* allocation, reallocates the last block only and aligns to powers of two.   *)
EXTENDS Integers, Sequences

CONSTANTS
  Base,           \* address of the symbol end, the break before shmem_init
  HEAP_START,     \* SHMEM_HEAP_START
  Limit,          \* bound: the program asks for no more than fits below
  Sizes,          \* the sizes it asks for
  ZeroedSizes,    \* the sizes it asks shmem_calloc for
  Alignments,     \* the alignments it asks for
  MaxLive         \* bound: blocks it has at the same time

ASSUME HeapAssumption ==
  /\ Base \in Nat \ {0} /\ Base % 8 = 0 /\ HEAP_START \in Nat /\ HEAP_START % 8 = 0
  /\ Limit \in Nat /\ MaxLive \in Nat
  /\ Sizes \subseteq Nat /\ ZeroedSizes \subseteq Sizes
  /\ Alignments \subseteq {a \in Nat : a >= 8 /\ a % 8 = 0}

VARIABLES
  free_mem,       \* the break: the first address that is not in use
  local_mem_base, \* the break found by shmem_init
  live,           \* the program's blocks, in the order of allocation
  dirty,          \* the addresses that hold something else than 0
  fresh           \* auxiliary: the block shmem_calloc has just returned, or None

vars == <<free_mem, local_mem_base, live, dirty, fresh>>

NULL == 0
None == [ptr |-> NULL, size |-> 0, align |-> 1]
Block(b) == b.ptr..(b.ptr + b.size - 1)
Last == live[Len(live)]

\* shmem_init: the break is advanced to SHMEM_HEAP_START.
HeapStart == IF HEAP_START > Base THEN HEAP_START ELSE Base

Init == /\ local_mem_base = Base
        /\ free_mem = HeapStart
        /\ live = << >> /\ dirty = 0..Limit /\ fresh = None

\* ((x + minus1) & mask) for a power of two
AlignUp(x, alignment) == (x + alignment - 1) - ((x + alignment - 1) % alignment)

\* (faulty variant) The break is only aligned for sizes above the alignment.
AlignSmall(alignment, size) ==
  IF size = 0 THEN [ptr |-> NULL, brk |-> free_mem]
  ELSE LET ptr == IF size < alignment THEN free_mem ELSE AlignUp(free_mem, alignment)
       IN  [ptr |-> ptr, brk |-> ptr + size]

\* shmem_align, without the state: the block and the break after it.
Align(alignment, size) ==
  IF size = 0 THEN [ptr |-> NULL, brk |-> free_mem]
  ELSE LET ptr == AlignUp(free_mem, alignment) IN [ptr |-> ptr, brk |-> ptr + size]

------------------------------------------------------------------------------
\* The program gets a block and may fill it.
Gets(alignment, size) ==
  LET a == Align(alignment, size) IN
    /\ Len(live) < MaxLive /\ a.brk <= Limit
    /\ free_mem' = a.brk
    /\ live' = Append(live, [ptr |-> a.ptr, size |-> size, align |-> alignment])
    /\ UNCHANGED local_mem_base

Fills(b) == dirty' = dirty \cup Block(b)

Shmem_align(alignment, size) ==
  /\ Gets(alignment, size)
  /\ Fills(live'[Len(live')]) /\ fresh' = None

Shmem_malloc(size) == Shmem_align(8, size)

\* (faulty variant) The loop stops one double word early.
ZeroedShort(b) == b.ptr..(b.ptr + 8 * ((b.size \div 8) - 1) - 1)

\* The loop over size >> 3 double words.
Zeroed(b) == b.ptr..(b.ptr + 8 * (b.size \div 8) - 1)

Shmem_calloc(size) == LET b == live'[Len(live')] IN
  /\ Gets(8, size)
  /\ dirty' = dirty \ Zeroed(b)
  /\ fresh' = b

\* The program fills the block that it got from shmem_calloc.
Fill == fresh # None /\ Fills(fresh) /\ fresh' = None
        /\ UNCHANGED <<free_mem, local_mem_base, live>>

\* (faulty variant) The break moves to the end of the block.
FreeAbove == LET ptr == Last.ptr + Last.size IN
  /\ live # << >>
  /\ free_mem' = IF ptr < free_mem THEN ptr ELSE free_mem
  /\ live' = SubSeq(live, 1, Len(live) - 1)
  /\ fresh' = None
  /\ UNCHANGED <<local_mem_base, dirty>>

\* shmem_free of the last block.
Shmem_free == LET ptr == Last.ptr IN
  /\ live # << >>
  /\ free_mem' = IF ptr < free_mem THEN ptr ELSE free_mem
  /\ live' = SubSeq(live, 1, Len(live) - 1)
  /\ fresh' = None
  /\ UNCHANGED <<local_mem_base, dirty>>

\* (faulty variant) The break goes back to the block and stays there.
ReallocShort(size) == LET ptr == Last.ptr IN
  /\ live # << >> /\ ptr + size <= Limit
  /\ free_mem' = ptr
  /\ live' = [live EXCEPT ![Len(live)].size = size]
  /\ Fills(live'[Len(live')]) /\ fresh' = None
  /\ UNCHANGED local_mem_base

\* shmem_realloc of the last block: shmemx_brk(ptr), shmemx_sbrk(size).
Shmem_realloc(size) == LET ptr == Last.ptr IN
  /\ live # << >> /\ ptr + size <= Limit
  /\ free_mem' = ptr + size
  /\ live' = [live EXCEPT ![Len(live)].size = size]
  /\ Fills(live'[Len(live')]) /\ fresh' = None
  /\ UNCHANGED local_mem_base

\* shmem_finalize, and shmem_init once more.
Shmem_finalize == /\ live' = << >> /\ fresh' = None
                  /\ local_mem_base' = Base /\ free_mem' = HeapStart
                  /\ UNCHANGED dirty

Next == \/ \E size \in Sizes : \/ Shmem_malloc(size) \/ Shmem_realloc(size)
                               \/ \E a \in Alignments : Shmem_align(a, size)
        \/ \E size \in ZeroedSizes : Shmem_calloc(size)
        \/ Shmem_free \/ Fill \/ Shmem_finalize

Spec == Init /\ [][Next]_vars

------------------------------------------------------------------------------
(* Properties *)

TBlock == [ptr : Nat, size : Nat, align : Nat \ {0}]
TypeOK == /\ free_mem \in Nat /\ local_mem_base = Base
          /\ live \in Seq(TBlock) /\ dirty \subseteq Nat /\ fresh \in TBlock

End(b) == b.ptr + b.size

\* src/README.md:12-14: under its rules no two blocks of the program overlap, and
\* all of them are in the heap and below the break.
BlocksAreDisjoint ==
  /\ free_mem >= local_mem_base
  /\ \A i \in 1..Len(live) : live[i].size > 0 =>
       /\ live[i].ptr >= local_mem_base /\ End(live[i]) <= free_mem
       /\ \A j \in 1..(i - 1) : live[j].size > 0 => End(live[j]) <= live[i].ptr

\* For a program that never asks for 0 bytes the blocks follow each other in the
\* order of allocation.
InOrder == /\ TypeOK
           /\ free_mem >= HeapStart
           /\ \A i \in 1..Len(live) :
                /\ live[i].size > 0 /\ live[i].ptr >= HeapStart /\ End(live[i]) <= free_mem
                /\ \A j \in 1..(i - 1) : End(live[j]) <= live[i].ptr

\* Address y is address e, or e aligned up: less than an alignment lies between.
Reached(e, y) == \E a \in Alignments \cup {1, 8} : y % a = 0 /\ y - e < a

\* The end of the block before the i-th.
Before(i) == IF i = 1 THEN HeapStart ELSE End(live[i - 1])

\* A block begins, and the break stays when the blocks above are freed, where the
\* block before has ended or at the next aligned address.
NoGaps == /\ \A i \in 1..Len(live) : /\ live[i].ptr % live[i].align = 0
                                     /\ Reached(Before(i), live[i].ptr)
          /\ Reached(Before(Len(live) + 1), free_mem)

\* The inductive invariant.
IInv == InOrder /\ NoGaps

\* Blocks are aligned as asked for, also behind blocks of odd sizes
\* (src/README.md:14, default 8).
BlocksAreAligned ==
  \A i \in 1..Len(live) : live[i].ptr % live[i].align = 0

\* Freeing in reverse order gives the memory back (src/README.md:12): above the
\* program's last block less than the greatest alignment is lost.
MemoryIsGivenBack ==
  LET used == IF live = << >> THEN HeapStart ELSE End(Last)
  IN  \E a \in Alignments \cup {8} : free_mem - used < a

\* shmem_calloc.c:42-49: a block of whole double words is zero when the routine
\* returns, whatever the memory held before; of another size the last bytes
\* (size % 8) are not written.
CallocIsZeroed == Block(fresh) \cap dirty = {}

==============================================================================

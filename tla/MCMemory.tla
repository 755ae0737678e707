------------------------------- MODULE MCMemory -------------------------------
(* What a PE does with memory, for TLC: the heap (ShmemHeap), the blocking    *)
(* copies (ShmemCopy), the interrupt get (ShmemIpiGet), one element of a      *)
(* reduction (ReduceTypes), waiting for a word (WaitTypes), and two programs  *)
(* that use other PEs' memory in place (Nbody, Gups).  A behaviour is one     *)
(* job; a copy, a reduction or a wait is one call, chosen at the start.  The  *)
(* programs share the variables of the same meaning.                          *)
EXTENDS ShmemHeap, Sequences, FiniteSets, TLC

VARIABLES
  job,
  call,           \* the call, in the jobs "copy", "typed", "collective", "reduce" and "wait"
  pc, calls, remote, dest, args, requests, ilat, isr, completes, served, \* ShmemIpiGet
  at, loop, dram, my_particles, read, entered, left,   \* Nbody and Gups
  buffer, work_particles,         \* Nbody
  sent                            \* Gups

heapVars == <<free_mem, local_mem_base, live, dirty, fresh>>
getVars == <<pc, calls, remote, dest, args, requests, ilat, isr, completes, served>>
nbodyVars == <<at, loop, dram, buffer, my_particles, work_particles, read, entered, left>>
programVars == <<nbodyVars, sent>>
MCVars == <<job, call, heapVars, getVars, programVars>>

\* Sixteen cores in four rows.
Copy == INSTANCE ShmemCopy WITH
  ROW_SHIFT <- 2, ROW_MASK <- 3, BASE_COREID <- 2056, group_rows <- 4
Reduce == INSTANCE ReduceTypes WITH Width <- 3
Waiting == INSTANCE WaitTypes WITH Width <- 3
\* Three PEs that get from each other, directly or by interrupt, two calls each.
Get == INSTANCE ShmemIpiGet WITH
  PE <- {0, 1, 2}, Sizes <- {1, 8}, Threshold <- 4, MaxCalls <- 2
\* Three PEs with two chunks of particles; two PEs with two segments.
OnChip == INSTANCE Nbody WITH npes <- 3, s <- 1, iter <- 2, Chunks <- 2, pc <- at
OffChip == INSTANCE Nbody WITH npes <- 2, s <- 2, iter <- 3, Chunks <- 1, pc <- at

\* Two PEs, words of six bits: eight words with atomic updates, four without.
Table(n) == [k \in 0..(2^n - 1) |-> 5 * k + 3]
Atomic == INSTANCE Gups WITH
  N <- 3, NC <- 1, Width <- 6, AtomicUpTo <- 11, Factor <- 43, Shift <- <<3, 4, 2>>,
  MaxSent <- 1, T0 <- Table(3), pc <- at, T <- dram, t <- my_particles, i <- loop, a_read <- read
Race == INSTANCE Gups WITH
  N <- 2, NC <- 1, Width <- 6, AtomicUpTo <- 1, Factor <- 43, Shift <- <<3, 4, 2>>,
  MaxSent <- 1, T0 <- Table(2), pc <- at, T <- dram, t <- my_particles, i <- loop, a_read <- read

ASSUME MemoryAssumption ==
  /\ Copy!CopyAssumption /\ Copy!AddressingIsExact /\ OnChip!NbodyAssumption /\ OffChip!NbodyAssumption
  /\ Atomic!GupsAssumption /\ Race!GupsAssumption

\* A type has the same size in shmem_put as in the reductions, but long double.
Integer == Reduce!IntegerTypes
ASSUME SizeAssumption ==
  \A reduction \in Reduce!Reductions :
    reduction[2] \in {"float", "double"} \cup Integer =>
      Reduce!DECL_SHMEM_X_TO_ALL(reduction[1], reduction[2], [p \in 0..1 |-> 1], 2).bits
        = Copy!TypeSize(reduction[2])

------------------------------------------------------------------------------
(* The calls *)

Routines == {"put", "get", "put_nbi", "get_nbi", "iput", "iget"}
Args(d, source, dst, sst, nelems, pe) ==
  [my |-> Copy!CoreOf(1), dest |-> d, source |-> source, dst |-> dst, sst |-> sst,
   nelems |-> nelems, pe |-> pe]

\* Every alignment of both ends against a double word of per elements, and counts
\* for a head, blocks of four double words, single ones and a rest.
Aligned(S, per, most) ==
  {[name |-> name, S |-> S, a |-> Args(8 + d, source, 1, 1, nelems, 6)] :
     name \in {"put", "get"}, d, source \in 0..(per - 1), nelems \in 0..most}
CopyCalls ==
  Aligned(8, 8, 50) \cup Aligned(16, 4, 26) \cup Aligned(32, 2, 14)
    \cup Aligned(64, 1, 10) \cup Aligned(128, 1, 5)
    \cup {[name |-> name, S |-> S, a |-> Args(3, 8, dst, sst, nelems, pe)] :
            name \in Routines, S \in {8, 16, 32, 64, 128}, dst \in 1..3, sst \in 1..2,
            nelems \in {0, 1, 3}, pe \in {0, 6, 15}}

\* All but long double, which DECL_SHMEM_TYPE_RMA takes to have 128 bits.
Types == {"float", "double", "char", "schar", "short", "int", "long", "longlong",
          "uchar", "ushort", "uint", "ulong", "ulonglong", "int8", "int16", "int32", "int64",
          "uint8", "uint16", "uint32", "uint64", "size", "ptrdiff"}
\* The C types by which shmem_put and so on choose, with their sizes on the core.
CTypes == [A \in {"char", "signed char", "short", "int", "long", "long long", "float", "double",
                  "unsigned char", "unsigned short", "unsigned int", "unsigned long",
                  "unsigned long long"} |->
             CASE A \in {"char", "signed char", "unsigned char"} -> 8
               [] A \in {"short", "unsigned short"} -> 16
               [] A \in {"long long", "unsigned long long", "double"} -> 64
               [] OTHER -> 32]
OfType(name, pe) == Args(4, 1, 2, 3, IF name \in {"p", "g"} THEN 1 ELSE 5, pe)
Names == Routines \cup {"p", "g"}
TypedCalls ==
  {[name |-> name, by |-> "name", T |-> T, a |-> OfType(name, pe)] :
     name \in Names, T \in Types, pe \in {2, 13}} \cup
  {[name |-> name, by |-> "type", T |-> A, a |-> OfType(name, pe)] :
     name \in Names, A \in DOMAIN CTypes, pe \in {2, 13}}

\* The collective routines by size; PE 1 calls.
CollectiveCalls ==
  {[name |-> name, S |-> S, a |-> Args(8 + d, source, dst, 2, nelems, pe) @@ [own |-> 1]] :
     name \in {"fcollect", "collect", "broadcast", "alltoall", "alltoalls"}, S \in {32, 64},
     d, source \in 0..1, dst \in {1, 3}, nelems \in 0..6, pe \in {0, 7}}

\* All sources of two and of three PEs, and of four PEs those of the extremes, -1
\* and 2: the two steps of the power-of-two form combine in pairs of pairs.
Sources == UNION {[0..(n - 1) -> -4..3] : n \in 2..3} \cup [0..3 -> {-4, -1, 2, 3}]
ReduceCalls ==
  {[op |-> reduction[1], T |-> reduction[2], source |-> source,
    n |-> Cardinality(DOMAIN source)] :
     reduction \in Reduce!Reductions, source \in Sources}
WaitCalls == {[T |-> T, w |-> w, v |-> v] : T \in Waiting!DECL_P2P, w, v \in 0..7}

CallsOf(j) == CASE j = "copy" -> CopyCalls [] j = "typed" -> TypedCalls
                [] j = "collective" -> CollectiveCalls
                [] j = "reduce" -> ReduceCalls
                [] j = "wait" -> WaitCalls
                [] OTHER -> {NULL}

------------------------------------------------------------------------------
MCInit == /\ job \in {"heap", "copy", "typed", "collective", "reduce", "wait", "get",
                     "onchip", "offchip", "atomic", "race"}
          /\ call \in CallsOf(job)
          /\ Init /\ Get!Init
          /\ CASE job = "offchip" -> OffChip!Init /\ sent = NULL
               [] job = "atomic"  -> Atomic!Init /\ buffer = NULL /\ work_particles = NULL
               [] job = "race"    -> Race!Init /\ buffer = NULL /\ work_particles = NULL
               [] OTHER           -> OnChip!Init /\ sent = NULL

MCNext ==
  \/ job = "heap" /\ Next /\ UNCHANGED <<job, call, getVars, programVars>>
  \/ job = "get" /\ Get!Next /\ UNCHANGED <<job, call, heapVars, programVars>>
  \/ job = "onchip" /\ OnChip!Next /\ UNCHANGED <<job, call, heapVars, getVars, sent>>
  \/ job = "offchip" /\ OffChip!Next /\ UNCHANGED <<job, call, heapVars, getVars, sent>>
  \/ /\ \/ job = "atomic" /\ Atomic!Next
        \/ job = "race" /\ Race!Next
     /\ UNCHANGED <<job, call, heapVars, getVars, buffer, work_particles>>
  \/ job \in {"copy", "typed", "collective", "reduce", "wait"} /\ UNCHANGED MCVars

MCSpec == MCInit /\ [][MCNext]_MCVars

------------------------------------------------------------------------------
(* Properties, next to those of ShmemHeap *)

\* Whatever the alignment and the count, a copy moves the elements of the arrays, no
\* more and no fewer, between the right cores (shmemx_memcpy8.c:37-42).
CopyIsExact ==
  /\ job = "copy" =>
       Copy!CopyIsExact(call.name, call.S, call.a,
                        Copy!DECL_SHMEM_SIZE_RMAS(call.name, call.S, call.a))
  /\ job = "typed" =>
       LET plain == CASE call.name = "p" -> "put" [] call.name = "g" -> "get"
                      [] OTHER -> call.name
       IN  IF call.by = "name"
           THEN Copy!CopyIsExact(plain, Copy!TypeSize(call.T), call.a,
                                 Copy!DECL_SHMEM_TYPE_RMA(call.T, call.name, call.a))
           ELSE Copy!CopyIsExact(plain, CTypes[call.T], call.a,
                                 Copy!shmem_rma(call.name, call.T, call.a))
  /\ job = "collective" =>
       Copy!CollectiveIsExact(call.name, call.a, Copy!collective(call.name, call.S, call.a))

\* A reduction of every type gives the same, right result on all PEs, although each
\* combines the sources in an order of its own (def_shmem_x_to_all.h:55-80; its
\* pieces coming in the order of the steps, which run reduce4 is about).  A program
\* that polls goes on at the same words as one that waits
\* (def_shmem_x_wait_until.h:42-61).
OperationsAreRight ==
  /\ job = "reduce" => Reduce!ReductionIsRight(call.op, call.T, call.source, call.n)
  /\ job = "wait" => Waiting!WaitsAgree(call.T, call.w, call.v)
                     /\ Waiting!GenericWaitsAgree(call.w, call.v)

\* An interrupt get hands over one request at a time and is told of its own end only
\* (def_shmem_x_get.h:68-77).
GetIsServed == job = "get" => Get!IInv /\ Get!GetIsServed

\* An update of the particles is made from all particles, each once and as the
\* update before left them (c_nbody/shmem_tfunc.c:63-77).
NbodySeesAll == /\ job = "onchip" => OnChip!IInv /\ OnChip!NbodySeesAll
                /\ job = "offchip" => OffChip!IInv /\ OffChip!NbodySeesAll

\* The table of the random access program is the host's if its updates are atomic;
\* if not, updates are lost to others of the same word (c_gups/shmem_tfunc.c:68-77).
GupsIsRight == /\ job = "atomic" => Atomic!TableIsHosts /\ Atomic!ErrorsAreLostUpdates
               /\ job = "race" => Race!ErrorsAreLostUpdates

==============================================================================

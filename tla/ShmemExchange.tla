---------------------------- MODULE ShmemExchange ----------------------------
(* shmem_fcollect, shmem_alltoall and shmem_alltoalls, and the rotation of    *)
(* the example c_dynamic_calls: every PE of an active set copies blocks to    *)
(* other PEs and calls shmem_sync (in the example shmem_barrier), whose       *)
(* rounds are those of ShmemSync.                                             *)
(*                                                                            *)
(* The copies are posted stores like the signals of the rounds: what a PE     *)
(* stores to one other PE lands in the order in which it was stored, what it  *)
(* stores to two others in any order.  shmem_sync waits for signals only, and *)
(* nobody waits for a copy.                                                   *)
EXTENDS Integers

CONSTANTS
  Routine,        \* "fcollect", "alltoall", "alltoalls" or "rotate"
  PE_start,       \* first PE of the active set
  Stride,         \* 1 << logPE_stride
  PE_size,        \* number of PEs in the active set
  Rounds, Pow2,   \* the rounds of shmem_sync
  Arrays, ArrayOf,\* the pSync array of each call
  nelems,         \* length of a block
  dst, sst,       \* strides in dest and source (shmem_alltoalls)
  Source,         \* Source[p][i]: element i of the source array of PE p
  MaxCalls        \* bound: how often each PE calls the routine

VARIABLES
  calls, pc, c, flag, posted,    \* of ShmemSync
  copied,         \* copied[p]: copies that PE p has made in its present call
  data,           \* blocks in flight
  dest            \* dest[n][p]: the array in p's memory that call n writes to

vars == <<calls, pc, c, flag, posted, copied, data, dest>>

Sync == INSTANCE ShmemSync WITH Routine <- "sync"

Member == Sync!Member
Index(p) == (p - PE_start) \div Stride
PE(j) == PE_start + j * Stride

None == -1
Place == 0..(PE_size * nelems * dst)

Init ==
  /\ Sync!Init
  /\ copied = [p \in Member |-> 0]
  /\ data = {}
  /\ dest = [n \in 1..MaxCalls |-> [p \in Member |-> [i \in Place |-> None]]]

------------------------------------------------------------------------------
(* Where the k-th copy of PE p goes, and what it writes there. *)

\* To itself first, then to the PEs behind it, wrapped at the end of the set.
fcollect_to(p, k) == IF p + k * Stride >= Sync!PE_end
                     THEN p + k * Stride - Sync!PE_size_stride ELSE p + k * Stride

\* The block of PE p goes to the place of PE p everywhere.
fcollect_block(p, k) ==
  [i \in (Index(p) * nelems)..((Index(p) + 1) * nelems - 1) |->
     Source[p][i - Index(p) * nelems]]

\* int PE_to = my_pe + j * step
alltoall_to(p, j) == LET PE_to == p + j * Stride IN
  IF PE_to >= Sync!PE_end THEN PE_to - Sync!PE_size_stride ELSE PE_to

\* psrc points to the start of source for all PEs.
alltoall_block(p, j) == LET dst_offset == Index(p) * nelems IN
  [i \in dst_offset..(dst_offset + nelems - 1) |-> Source[p][i - dst_offset]]

\* (faulty variant) The block of the PE that sends, not of the one that gets it.
alltoalls_block_own(p, k) == LET pdst == nelems * dst * p IN
  [i \in {pdst + dst * e : e \in 0..(nelems - 1)} |->
     Source[p][nelems * sst * Index(p) + sst * ((i - pdst) \div dst)]]

\* shmem_iput of block k, to the place of the PE of that number.
alltoalls_block(p, k) == LET pdst == nelems * dst * p IN
  [i \in {pdst + dst * e : e \in 0..(nelems - 1)} |->
     Source[p][nelems * sst * k + sst * ((i - pdst) \div dst)]]

\* int next_pe = (shmem_my_pe() + 1) % 5; shmem_put32(..., N, next_pe)
rotate_to(p) == (p + 1) % PE_size
rotate_block(p) == [i \in 0..(nelems - 1) |-> Source[p][i]]

Copies == IF Routine = "rotate" THEN 1 ELSE PE_size
Target(p, k) == CASE Routine = "fcollect"  -> fcollect_to(p, k)
                  [] Routine = "alltoall"  -> alltoall_to(p, k)
                  [] Routine = "alltoalls" -> PE(k)
                  [] Routine = "rotate"    -> rotate_to(p)
Block(p, k) == CASE Routine = "fcollect"  -> fcollect_block(p, k)
                 [] Routine = "alltoall"  -> alltoall_block(p, k)
                 [] Routine = "alltoalls" -> alltoalls_block(p, k)
                 [] Routine = "rotate"    -> rotate_block(p)

------------------------------------------------------------------------------
Written(a, b) == [i \in Place |-> IF i \in DOMAIN b THEN b[i] ELSE a[i]]

\* The next copy: to the PE itself at once, to another PE as a posted store.
Copy(p) ==
  LET n == calls[p] + 1
      q == Target(p, copied[p])
      b == Block(p, copied[p])
  IN  /\ pc[p] = "out" /\ calls[p] < MaxCalls /\ copied[p] < Copies
      /\ copied' = [copied EXCEPT ![p] = @ + 1]
      /\ IF q = p THEN dest' = [dest EXCEPT ![n][p] = Written(@, b)] /\ UNCHANGED data
         ELSE data' = data \cup {[from |-> p, to |-> q, call |-> n, block |-> b]}
              /\ UNCHANGED dest
      /\ UNCHANGED <<calls, pc, c, flag, posted>>

\* All copies are made: shmem_sync is called.
Enter(p) == /\ copied[p] = Copies /\ Sync!Enter(p)
            /\ copied' = [copied EXCEPT ![p] = 0]
            /\ UNCHANGED <<data, dest>>

\* A testset waits for the stores before it to the same PE.
NothingBefore(p, q) == \A d \in data : ~(d.from = p /\ d.to = q)

SyncStep(p) == /\ \/ Sync!Signal(p) \/ Sync!Wait(p) \/ Sync!Clear(p) \/ Sync!Leave(p)
                  \/ Sync!TestsetSignal(p) /\ NothingBefore(p, Sync!To(p, 0))
               /\ UNCHANGED <<copied, data, dest>>

\* (faulty variant) A signal may overtake the copies before it.
LandSignalEarly(p, k) == Sync!Land(p, k) /\ UNCHANGED <<copied, data, dest>>

\* A signal lands, behind the copies of its call and of earlier ones.
LandSignal(p, k) ==
  /\ \A d \in data : d.from = p /\ d.to = Sync!To(p, k) =>
       \E n \in posted[p][k] : n < d.call
  /\ Sync!Land(p, k)
  /\ UNCHANGED <<copied, data, dest>>

\* A block lands, behind the signals and the blocks of earlier calls.
LandData == \E d \in data :
  /\ \A k \in Sync!Round : Sync!To(d.from, k) = d.to =>
       \A n \in posted[d.from][k] : n >= d.call
  /\ \A e \in data : e.from = d.from /\ e.to = d.to => e.call >= d.call
  /\ dest' = [dest EXCEPT ![d.call][d.to] = Written(@, d.block)]
  /\ data' = data \ {d}
  /\ UNCHANGED <<calls, pc, c, flag, posted, copied>>

Step(p) == Copy(p) \/ Enter(p) \/ SyncStep(p)
Land == LandData \/ \E p \in Member, k \in Sync!Round : LandSignal(p, k)

Next == Land \/ \E p \in Member : Step(p)

Spec == Init /\ [][Next]_vars

------------------------------------------------------------------------------
(* Properties *)

\* What a PE should find in dest: fcollect puts the blocks of all PEs one behind
\* the other; in an all-to-all the PE gets its block of each PE; in the rotation
\* the array of the PE before it.
Expected(p) == [i \in Place |->
  LET j == i \div nelems  e == i % nelems
      jj == i \div (nelems * dst)  ee == (i % (nelems * dst)) \div dst
  IN  CASE Routine = "fcollect" /\ j < PE_size -> Source[PE(j)][e]
        [] Routine = "alltoall" /\ j < PE_size -> Source[PE(j)][Index(p) * nelems + e]
        [] Routine = "alltoalls" /\ jj < PE_size /\ i % dst = 0 ->
             Source[PE(jj)][(Index(p) * nelems + ee) * sst]
        [] Routine = "rotate" /\ j = 0 -> Source[(p + PE_size - 1) % PE_size][e]
        [] OTHER -> None]

\* When a call returns, all that it promises is in dest, and nothing else
\* (def_shmem_fcollect_n.h:53, def_shmem_alltoall_x.h:54, def_shmem_alltoalls.h:43;
\* "If the shmem_barrier operation is removed, the data may not have completed
\* copying", c_dynamic_calls/main.c:53-55): no copy is still under way although
\* shmem_sync waits for signals only.
DestIsExchanged ==
  \A p \in Member : pc[p] = "out" => \A n \in 1..calls[p] : dest[n][p] = Expected(p)

==============================================================================

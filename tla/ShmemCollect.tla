----------------------------- MODULE ShmemCollect -----------------------------
(* shmem_collect32 and shmem_collect64, called in a loop by every PE of an    *)
(* active set: the PEs' blocks, of different lengths, are put one behind the  *)
(* other in dest of every PE.                                                 *)
(*                                                                            *)
(* A PE learns where its block begins from the PE before it, through the two  *)
(* last words of pSync: an offset and, behind it, a flag.  It then copies its *)
(* block to every PE and calls shmem_sync, here the abstract Barrier.  The    *)
(* testset that sets the flag does not overtake the store of the offset.      *)
EXTENDS Integers

CONSTANTS
  PE_start,       \* first PE of the active set
  Stride,         \* 1 << logPE_stride
  PE_size,        \* number of PEs in the active set
  nelems,         \* nelems[n][p]: length of PE p's block in call n
  MaxCalls        \* bound: how often each PE calls the routine

Member == {PE_start + m * Stride : m \in 0..(PE_size - 1)}

CollectAssumption ==
  /\ PE_start \in Nat /\ Stride \in Nat \ {0} /\ PE_size \in Nat \ {0}
  /\ MaxCalls \in Nat /\ nelems \in [1..MaxCalls -> [Member -> Nat]]

VARIABLES
  entered,        \* entered[p]: how often PE p has called shmem_sync
  left,           \* left[p]: how often it is back from shmem_sync
  pc,             \* pc[p]: where PE p is in the routine
  my_offset,      \* my_offset[p]: where PE p believes its block begins
  lsync,          \* lsync[p]: the flag and the offset in p's pSync
  dest            \* dest[p][i]: whose element is in place i, None before

vars == <<entered, left, pc, my_offset, lsync, dest>>

pe_end == PE_start + (PE_size - 1) * Stride
Sync == INSTANCE Barrier WITH PE <- Member

None == -1

\* nelems of PE p in the call it is in, which has not come to shmem_sync yet.
Len(p) == nelems[entered[p] + 1][p]

\* Where the block of PE p in call n should begin.
Offset[n \in 1..MaxCalls, p \in Member] ==
  IF p = PE_start THEN 0 ELSE Offset[n, p - Stride] + nelems[n][p - Stride]
Total(n) == Offset[n, pe_end] + nelems[n][pe_end]
Place == UNION {0..(Total(n) - 1) : n \in 1..MaxCalls}

Init == /\ Sync!Init
        /\ pc = [p \in Member |-> "out"]
        /\ my_offset = [p \in Member |-> 0]
        /\ lsync = [p \in Member |-> [flag |-> 0, offset |-> 0]]
        /\ dest = [p \in Member |-> [i \in Place |-> None]]

------------------------------------------------------------------------------
Goto(p, l) == pc' = [pc EXCEPT ![p] = l]

\* The call: the first PE's block begins at 0, the others look for the flag.
Enter(p) == /\ pc[p] = "out" /\ entered[p] < MaxCalls
            /\ my_offset' = [my_offset EXCEPT ![p] = 0]
            /\ Goto(p, IF p = PE_start THEN "offset" ELSE "look")
            /\ UNCHANGED <<entered, left, lsync, dest>>

\* while (!*lsync) ...
Look(p) == /\ pc[p] = "look"
           /\ Goto(p, IF lsync[p].flag = 0 THEN "read" ELSE "got")
           /\ UNCHANGED <<entered, left, my_offset, lsync, dest>>

\* ... my_offset = lsync[1]
Read(p) == /\ pc[p] = "read"
           /\ my_offset' = [my_offset EXCEPT ![p] = lsync[p].offset]
           /\ Goto(p, "look")
           /\ UNCHANGED <<entered, left, lsync, dest>>

\* (faulty variant) The flag is not reset.
GotKeep(p) == /\ pc[p] = "got"
              /\ Goto(p, IF p = pe_end THEN "copy" ELSE "offset")
              /\ UNCHANGED <<entered, left, my_offset, lsync, dest>>

\* *lsync = SHMEM_SYNC_VALUE; the last PE has nobody to tell.
Got(p) == /\ pc[p] = "got"
          /\ lsync' = [lsync EXCEPT ![p].flag = 0]
          /\ Goto(p, IF p = pe_end THEN "copy" ELSE "offset")
          /\ UNCHANGED <<entered, left, my_offset, dest>>

\* (faulty variant) The PE tells its own offset.
TellOwn(p) ==
  /\ pc[p] = "offset"
  /\ IF p = pe_end THEN Goto(p, "copy") /\ UNCHANGED lsync
     ELSE /\ lsync' = [lsync EXCEPT ![p + Stride].offset = my_offset[p]]
          /\ Goto(p, "lock")
  /\ UNCHANGED <<entered, left, my_offset, dest>>

\* rsync[1] = my_offset + nelems
TellOffset(p) ==
  /\ pc[p] = "offset"
  /\ IF p = pe_end THEN Goto(p, "copy") /\ UNCHANGED lsync
     ELSE /\ lsync' = [lsync EXCEPT ![p + Stride].offset = my_offset[p] + Len(p)]
          /\ Goto(p, "lock")
  /\ UNCHANGED <<entered, left, my_offset, dest>>

\* __shmem_set_lock(rsync) succeeds.
SetFlag(p) == /\ pc[p] = "lock"
              /\ lsync[p + Stride].flag = 0
              /\ lsync' = [lsync EXCEPT ![p + Stride].flag = 1]
              /\ Goto(p, "copy")
              /\ UNCHANGED <<entered, left, my_offset, dest>>

\* The block is copied to every PE, and shmem_sync is called.
Copy(p) ==
  /\ pc[p] = "copy"
  /\ dest' = [q \in Member |-> [i \in Place |->
                IF i \in my_offset[p]..(my_offset[p] + Len(p) - 1) THEN p ELSE dest[q][i]]]
  /\ Sync!Enter(p)
  /\ Goto(p, "sync")
  /\ UNCHANGED <<my_offset, lsync>>

\* shmem_sync returns.
Return(p) == /\ pc[p] = "sync"
             /\ Sync!Leave(p)
             /\ Goto(p, "out")
             /\ UNCHANGED <<my_offset, lsync, dest>>

Step(p) == \/ Enter(p) \/ Look(p) \/ Read(p) \/ Got(p) \/ TellOffset(p)
           \/ SetFlag(p) \/ Copy(p) \/ Return(p)

Finished == /\ \A p \in Member : pc[p] = "out" /\ left[p] = MaxCalls
            /\ UNCHANGED vars

Next == (\E p \in Member : Step(p)) \/ Finished

Spec == Init /\ [][Next]_vars

------------------------------------------------------------------------------
(* Properties *)

TypeOK ==
  /\ entered \in [Member -> 0..MaxCalls] /\ left \in [Member -> 0..MaxCalls]
  /\ pc \in [Member -> {"out", "look", "read", "got", "offset", "lock", "copy", "sync"}]
  /\ my_offset \in [Member -> Nat]
  /\ lsync \in [Member -> [flag : 0..1, offset : Nat]]
  /\ dest \in [Member -> [Place -> Member \cup {None}]]

\* How often PE p has set the flag of the next PE, and how often it has taken
\* its own; both end with shmem_sync.
Sets(p) == entered[p] + (IF pc[p] = "copy" THEN 1 ELSE 0)
Takes(p) == entered[p] + (IF pc[p] \in {"offset", "lock", "copy"} THEN 1 ELSE 0)

\* No PE is a call ahead of another but in shmem_sync.
InStep == \A p \in Member :
  /\ entered[p] = left[p] + (IF pc[p] = "sync" THEN 1 ELSE 0)
  /\ pc[p] \notin {"out", "sync"} => entered[p] < MaxCalls
  /\ \A q \in Member : left[p] <= entered[q]

\* The flag of a PE is set as often as it is taken, or once more.
FlagCounts ==
  /\ lsync[PE_start].flag = 0 /\ pc[PE_start] \notin {"look", "read", "got"}
  /\ pc[pe_end] # "lock"
  /\ \A p \in Member \ {PE_start} :
       /\ lsync[p].flag = Sets(p - Stride) - Takes(p)
       /\ pc[p] = "got" => lsync[p].flag = 1

\* The offset stays from before the flag is set until it is taken.
OffsetStays == \A p \in Member \ {PE_start} : LET b == p - Stride IN
  lsync[p].flag = 1 \/ pc[b] = "lock" =>
    lsync[p].offset = my_offset[b] + nelems[entered[p] + 1][b]

\* The inductive invariant.
IInv == TypeOK /\ InStep /\ FlagCounts /\ OffsetStays

\* def_shmem_collect_n.h:54-55: a PE that sees the flag finds the offset behind
\* it, that of this call, and it stays until the PE has taken the flag.
FlagMeansOffset ==
  \A p \in Member : lsync[p].flag = 1 =>
    /\ p # PE_start /\ pc[p] \notin {"offset", "lock", "copy"}
    /\ lsync[p].offset = my_offset[p - Stride] + nelems[entered[p] + 1][p - Stride]

\* The padded words of pSync are restored (def_shmem_collect_n.h:44-45): when all
\* PEs are out of the same call, no flag is set.
FlagsRestored ==
  (\A p, q \in Member : pc[p] = "out" /\ left[p] = left[q]) =>
    \A p \in Member : lsync[p].flag = 0

\* A call returns with all blocks of that call, one behind the other, in dest
\* (test/collect32.c:100-105).
DestIsConcatenation ==
  \A p \in Member : pc[p] = "out" /\ left[p] > 0
                    /\ (\A q \in Member : entered[q] = left[p]) =>
    \A q \in Member : \A i \in Place :
      Offset[left[p], q] <= i /\ i < Offset[left[p], q] + nelems[left[p]][q] =>
        dest[p][i] = q

==============================================================================

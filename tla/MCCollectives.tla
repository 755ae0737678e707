---------------------------- MODULE MCCollectives ----------------------------
(* Instances of ShmemReduce, ShmemBroadcast, ShmemCollect, ShmemExchange and  *)
(* ShmemInit for TLC, side by side: the program's job is chosen at the start, *)
(* and all its calls are of that routine over that active set.  The jobs      *)
(* share the variables of the same meaning; a variable that a job does not    *)
(* have is NotUsed.                                                           *)
EXTENDS Naturals

VARIABLES
  job,                                    \* what the program does
  calls, synced, pc, dest, mail,          \* of more than one collective
  it, vSync, pWrk,                        \* ShmemReduce
  mask, finished,                         \* ShmemBroadcast
  my_offset, lsync,                       \* ShmemCollect
  c, flag, posted,                        \* ShmemSync
  copied, data,                           \* ShmemExchange
  at, chain                               \* ShmemInit

ofReduce == <<it, vSync, pWrk>>
ofBroadcast == <<mask, finished>>
ofCollect == <<my_offset, lsync>>
ofSync == <<c, flag, posted>>
ofExchange == <<copied, data>>
ofInit == <<at, chain>>
others == <<ofSync, ofExchange, ofInit>>
vars == <<job, calls, synced, pc, dest, mail, ofReduce, ofBroadcast, ofCollect, others>>

NotUsed == 0
MaxCalls == 2
PE == 0..7

\* Reductions: a ring of three, two PEs with pieces, four at distances 1 and 2.
Ring == INSTANCE ShmemReduce WITH
  PE_start <- 0, Stride <- 1, PE_size <- 3, nreduce <- 1, MIN_WRKDATA <- 1
Pair == INSTANCE ShmemReduce WITH
  PE_start <- 1, Stride <- 2, PE_size <- 2, nreduce <- 5, MIN_WRKDATA <- 2
Four == INSTANCE ShmemReduce WITH
  PE_start <- 0, Stride <- 1, PE_size <- 4, nreduce <- 1, MIN_WRKDATA <- 1

\* Broadcasts, with another root in each call: eight PEs, and four of eight.
Tree8 == INSTANCE ShmemBroadcast WITH
  PE_start <- 0, Stride <- 1, PE_size <- 8, PE_root <- <<1, 3>>
Tree4 == INSTANCE ShmemBroadcast WITH
  PE_start <- 1, Stride <- 2, PE_size <- 4, PE_root <- <<1, 3>>

\* Blocks of 0, 1 and 2 elements of three PEs.
Row == INSTANCE ShmemCollect WITH
  PE_start <- 1, Stride <- 2, PE_size <- 3, entered <- calls, left <- synced,
  nelems <- [n \in 1..MaxCalls |-> [p \in {1, 3, 5} |-> (p + n + 1) % 3]]

\* Exchanges: two PEs, three calls with one pSync array; three PEs, two arrays in
\* turn; the rotation of five PEs, once.
Pow2 == [k \in 0..3 |-> CASE k = 0 -> 1 [] k = 1 -> 2 [] k = 2 -> 4 [] k = 3 -> 8]
One(m) == [n \in 1..m |-> "A"]
Two == [n \in 1..2 |-> IF n = 1 THEN "A" ELSE "B"]
Blocks(n) == [p \in PE |-> [i \in 0..(6 * n) |-> 10 * p + i]]
EqualBlocks(n) == [p \in PE |-> [i \in 0..(3 * n) |-> 10 * p + (i % n)]]

Duo == INSTANCE ShmemExchange WITH Routine <- "fcollect", Source <- Blocks(1),
  PE_start <- 4, Stride <- 2, PE_size <- 2, Rounds <- 1, Pow2 <- [k \in 0..1 |-> Pow2[k]],
  Arrays <- {"A"}, ArrayOf <- One(3), nelems <- 1, dst <- 1, sst <- 1, MaxCalls <- 3
Trio == INSTANCE ShmemExchange WITH Routine <- "fcollect", Source <- Blocks(2),
  PE_start <- 1, Stride <- 2, PE_size <- 3, Rounds <- 2, Pow2 <- [k \in 0..2 |-> Pow2[k]],
  Arrays <- {"A", "B"}, ArrayOf <- Two, nelems <- 2, dst <- 1, sst <- 1
Swap == INSTANCE ShmemExchange WITH Routine <- "alltoall", Source <- EqualBlocks(2),
  PE_start <- 1, Stride <- 2, PE_size <- 3, Rounds <- 2, Pow2 <- [k \in 0..2 |-> Pow2[k]],
  Arrays <- {"A"}, ArrayOf <- One(1), nelems <- 2, dst <- 1, sst <- 1, MaxCalls <- 1
Strided == INSTANCE ShmemExchange WITH Routine <- "alltoalls", Source <- Blocks(2),
  PE_start <- 0, Stride <- 1, PE_size <- 3, Rounds <- 2, Pow2 <- [k \in 0..2 |-> Pow2[k]],
  Arrays <- {"A"}, ArrayOf <- One(1), nelems <- 2, dst <- 3, sst <- 2, MaxCalls <- 1
Turn == INSTANCE ShmemExchange WITH Routine <- "rotate", Source <- Blocks(1),
  PE_start <- 0, Stride <- 1, PE_size <- 5, Rounds <- 3, Pow2 <- [k \in 0..3 |-> Pow2[k]],
  Arrays <- {"A"}, ArrayOf <- One(1), nelems <- 1, dst <- 1, sst <- 1, MaxCalls <- 1

\* shmem_init on four PEs and a shmem_sync with a pSync of its own.
Chain == INSTANCE ShmemInit WITH
  n_pes <- 4, Rounds <- 2, Pow2 <- [k \in 0..2 |-> Pow2[k]], MaxCalls <- 1,
  Routine <- "sync", Arrays <- {"barrier_sync", "A"}, ArrayOf <- One(1)

ASSUME JobAssumption ==
  /\ Ring!ReduceAssumption /\ Pair!ReduceAssumption /\ Four!ReduceAssumption
  /\ Tree8!BroadcastAssumption /\ Tree4!BroadcastAssumption
  /\ Row!CollectAssumption
  /\ Duo!Sync!CallsAssumption /\ Trio!Sync!CallsAssumption /\ Swap!Sync!CallsAssumption
  /\ Strided!Sync!CallsAssumption /\ Turn!Sync!CallsAssumption /\ Chain!Sync!CallsAssumption

NoReduce == it = NotUsed /\ vSync = NotUsed /\ pWrk = NotUsed
NoBroadcast == mask = NotUsed /\ finished = NotUsed
NoCollect == my_offset = NotUsed /\ lsync = NotUsed
NoExchange == copied = NotUsed /\ data = NotUsed
NoInit == at = NotUsed /\ chain = NotUsed
NoSync == c = NotUsed /\ flag = NotUsed /\ posted = NotUsed /\ NoExchange /\ NoInit
OnlySync == NoReduce /\ NoBroadcast /\ NoCollect /\ synced = NotUsed /\ mail = NotUsed

InitOfCollectives ==
  \/ /\ NoBroadcast /\ NoCollect
     /\ \/ job = "ring" /\ Ring!Init
        \/ job = "pair" /\ Pair!Init
        \/ job = "four" /\ Four!Init
  \/ /\ NoReduce /\ NoCollect
     /\ \/ job = "tree8" /\ Tree8!Init
        \/ job = "tree4" /\ Tree4!Init
  \/ NoReduce /\ NoBroadcast /\ mail = NotUsed /\ job = "row" /\ Row!Init

Init ==
  \/ NoSync /\ InitOfCollectives
  \/ /\ OnlySync /\ NoInit
     /\ \/ job = "duo" /\ Duo!Init
        \/ job = "trio" /\ Trio!Init
        \/ job = "swap" /\ Swap!Init
        \/ job = "strided" /\ Strided!Init
        \/ job = "turn" /\ Turn!Init
  \/ OnlySync /\ NoExchange /\ dest = NotUsed /\ job = "chain" /\ Chain!Init

\* A step of PE p.
ReduceStep(p) ==
  /\ \/ job = "ring" /\ p \in Ring!Member /\ Ring!Step(p)
     \/ job = "pair" /\ p \in Pair!Member /\ Pair!Step(p)
     \/ job = "four" /\ p \in Four!Member /\ Four!Step(p)
  /\ UNCHANGED <<job, ofBroadcast, ofCollect, others>>
BroadcastStep(p) ==
  /\ \/ job = "tree8" /\ p \in Tree8!Member /\ Tree8!Step(p)
     \/ job = "tree4" /\ p \in Tree4!Member /\ Tree4!Step(p)
  /\ UNCHANGED <<job, ofReduce, ofCollect, others>>
CollectStep(p) == /\ job = "row" /\ p \in Row!Member /\ Row!Step(p)
                  /\ UNCHANGED <<job, mail, ofReduce, ofBroadcast, others>>
ExchangeStep(p) ==
  /\ \/ job = "duo" /\ p \in Duo!Member /\ Duo!Step(p)
     \/ job = "trio" /\ p \in Trio!Member /\ Trio!Step(p)
     \/ job = "swap" /\ p \in Swap!Member /\ Swap!Step(p)
     \/ job = "strided" /\ p \in Strided!Member /\ Strided!Step(p)
     \/ job = "turn" /\ p \in Turn!Member /\ Turn!Step(p)
  /\ UNCHANGED <<job, synced, mail, ofReduce, ofBroadcast, ofCollect, ofInit>>
InitStep(p) == /\ job = "chain" /\ p \in Chain!PE /\ Chain!Step(p)
               /\ UNCHANGED <<job, synced, dest, mail, ofReduce, ofBroadcast, ofCollect, ofExchange>>

\* Something that was posted lands in the memory of PE p.
ReduceLand(p) ==
  /\ \/ job = "ring" /\ p \in Ring!Member /\ Ring!Land(p)
     \/ job = "pair" /\ p \in Pair!Member /\ Pair!Land(p)
     \/ job = "four" /\ p \in Four!Member /\ Four!Land(p)
  /\ UNCHANGED <<job, ofBroadcast, ofCollect, others>>
BroadcastLand(p) ==
  /\ \/ job = "tree8" /\ p \in Tree8!Member /\ \E q \in Tree8!Member : Tree8!Land(q, p)
     \/ job = "tree4" /\ p \in Tree4!Member /\ \E q \in Tree4!Member : Tree4!Land(q, p)
  /\ UNCHANGED <<job, ofReduce, ofCollect, others>>

ExchangeLand ==
  /\ \/ job = "duo" /\ Duo!Land
     \/ job = "trio" /\ Trio!Land
     \/ job = "swap" /\ Swap!Land
     \/ job = "strided" /\ Strided!Land
     \/ job = "turn" /\ Turn!Land
  /\ UNCHANGED <<job, synced, mail, ofReduce, ofBroadcast, ofCollect, ofInit>>
InitLand(p) == /\ job = "chain" /\ p \in Chain!PE /\ Chain!Land(p)
               /\ UNCHANGED <<job, synced, dest, mail, ofReduce, ofBroadcast, ofCollect, ofExchange>>

Step(p) == \/ ReduceStep(p) \/ BroadcastStep(p) \/ CollectStep(p)
           \/ ExchangeStep(p) \/ InitStep(p)
Land(p) == ReduceLand(p) \/ BroadcastLand(p) \/ InitLand(p)
Move == (\E p \in PE : Step(p) \/ Land(p)) \/ ExchangeLand

CallsOf == [j \in {"duo", "trio", "swap", "strided", "turn", "chain"} |->
              CASE j = "duo" -> 3 [] j = "trio" -> 2 [] OTHER -> 1]
Done == \A p \in DOMAIN pc :
          pc[p] = "out" /\ IF job \in DOMAIN CallsOf THEN calls[p] = CallsOf[job]
                           ELSE synced[p] = MaxCalls
Finished == Done /\ UNCHANGED vars

Next == Move \/ Finished

\* The cores run on and the mesh delivers.  Where no core spins in the model it
\* is enough that some step is taken; in ShmemCollect each core must run.
FairSpec == /\ Init /\ [][Next]_vars
            /\ WF_vars(Move)
            /\ \A p \in PE : WF_vars(CollectStep(p))

------------------------------------------------------------------------------
(* Properties: those of the five modules, for the jobs they are about. *)

\* A piece in pWrk is not overwritten before it is combined
\* (def_shmem_x_to_all.h:68-74).
OnePieceAtATime == /\ job = "ring" => Ring!OnePieceAtATime
                   /\ job = "pair" => Pair!OnePieceAtATime
                   /\ job = "four" => Four!OnePieceAtATime

\* No piece reaches a PE that is in another call, where the reset of vSync would
\* wipe it out (def_shmem_x_to_all.h:52-53).
PieceOfThisCall == /\ job = "ring" => Ring!PieceOfThisCall
                   /\ job = "pair" => Pair!PieceOfThisCall
                   /\ job = "four" => Four!PieceOfThisCall

\* A reduction returns with the sum of all (test/reduce.c:98) in a ring of single
\* pieces and for two PEs; run reduce4 shows that for four PEs it may not.
SumIsComplete == /\ job = "ring" => Ring!SumIsComplete
                 /\ job = "pair" => Pair!SumIsComplete

\* A broadcast returns with the root's data of that call (test/broadcast32.c:100).
DestIsSource == /\ job = "tree8" => Tree8!DestIsSource
                /\ job = "tree4" => Tree4!DestIsSource

\* No data comes to a PE that has returned, although the routine ends without a
\* barrier (def_shmem_broadcastx.h:76).
NothingComesLate == /\ job = "tree8" => Tree8!NothingComesLate
                    /\ job = "tree4" => Tree4!NothingComesLate

\* lock_receive_finished, one word for all calls, is set for the PE's present call
\* only (def_shmem_broadcastx.h:57, 68-72).
FlagIsOfThisCall == /\ job = "tree8" => Tree8!FlagIsOfThisCall
                    /\ job = "tree4" => Tree4!FlagIsOfThisCall

\* A PE of a collect that sees the flag finds behind it the offset of its call
\* (def_shmem_collect_n.h:54-55).
FlagMeansOffset == job = "row" => Row!IInv /\ Row!FlagMeansOffset

\* The padded words of pSync are restored when all are out of a collect
\* (def_shmem_collect_n.h:44-49).
FlagsRestored == job = "row" => Row!FlagsRestored

\* The data of an exchange is there when the call returns, although nobody waits
\* for the copies (def_shmem_fcollect_n.h:53); with four PEs or more not all PEs
\* are partners in the rounds, and it may not be.
DestIsExchanged == /\ job = "duo" => Duo!DestIsExchanged
                   /\ job = "trio" => Trio!DestIsExchanged
                   /\ job = "swap" => Swap!DestIsExchanged
                   /\ job = "strided" => Strided!DestIsExchanged
                   /\ job = "turn" => Turn!DestIsExchanged

\* Two PEs can call shmem_sync in a loop with one array (shmem_sync.c:41-43):
\* the invariant of ShmemSync holds, no signal is lost, and nobody leaves before
\* the other has entered.
SyncIsBarrier == job = "duo" =>
  /\ Duo!Sync!IInv /\ Duo!Sync!NoLostSignal
  /\ \A p, q \in Duo!Member : pc[p] = "out" => calls[q] >= calls[p]

\* The chain of shmem_init and a shmem_sync leave barrier_sync clear
\* (shmem_init.c:181-184).
InitIsOver == job = "chain" => Chain!InitIsChain /\ Chain!InitIsOver

\* In the jobs of this module no spin on a flag or a lock lasts for ever: every call
\* returns, and the program comes to its end.  Their ring has three PEs
\* (def_shmem_x_to_all.h:68-74); in a ring of five a call may never return: run
\* ring5, on the module ShmemReduce.
EveryCallReturns == <>Done

==============================================================================

------------------------------ MODULE ShmemInit ------------------------------
(* The end of shmem_init where it is not built for COPRTHR, and the barrier   *)
(* that the program calls next.  The PEs pass a 1 around in the first word of *)
(* barrier_sync: PE 0 sends it, every PE waits for it and sends it on, and    *)
(* PE 0 ends the round.  shmem_sync_all uses the same word in its round 0.    *)
EXTENDS Integers

CONSTANTS
  n_pes,          \* number of PEs
  Rounds, Pow2,   \* the rounds of the barrier
  MaxCalls,       \* bound: barriers that each PE calls afterwards
  Routine,        \* "sync" with a pSync of its own, or "sync_all"
  Arrays, ArrayOf

VARIABLES
  calls, pc, c, flag, posted,    \* of ShmemSync
  at,             \* at[p]: where PE p is in shmem_init
  chain           \* the PEs whose store of the chain is in flight

vars == <<calls, pc, c, flag, posted, at, chain>>

Sync == INSTANCE ShmemSync WITH PE_start <- 0, Stride <- 1, PE_size <- n_pes

PE == 0..(n_pes - 1)
barrier_sync(p) == flag["barrier_sync"][p][0]
SetSync(p, v) == flag' = [flag EXCEPT !["barrier_sync"][p][0] = v]
Next_pe(p) == Sync!To(p, 0)

Init == /\ Sync!Init
        /\ at = [p \in PE |-> "start"]
        /\ chain = {}

Goto(p, l) == at' = [at EXCEPT ![p] = l]
SyncUnchanged == UNCHANGED <<calls, pc, c, posted>>

\* if (!my_pe) *barrier_psync[0] = 1
Start(p) == /\ at[p] = "start"
            /\ Goto(p, "wait")
            /\ chain' = IF p = 0 THEN chain \cup {p} ELSE chain
            /\ UNCHANGED flag /\ SyncUnchanged

\* The store of the chain lands in the next PE.
LandChain(p) == /\ p \in chain
                /\ SetSync(Next_pe(p), 1)
                /\ chain' = chain \ {p}
                /\ UNCHANGED at /\ SyncUnchanged

\* (faulty variant) The word is not looked at.
WaitNot(p) == /\ at[p] = "wait"
              /\ Goto(p, IF p = 0 THEN "clear" ELSE "post")
              /\ UNCHANGED <<flag, chain>> /\ SyncUnchanged

\* while (*barrier_sync == SHMEM_SYNC_VALUE)
WaitChain(p) == /\ at[p] = "wait" /\ barrier_sync(p) # 0
                /\ Goto(p, IF p = 0 THEN "clear" ELSE "post")
                /\ UNCHANGED <<flag, chain>> /\ SyncUnchanged

\* if (my_pe) *barrier_psync[0] = 1
Post(p) == /\ at[p] = "post"
           /\ chain' = chain \cup {p}
           /\ Goto(p, "clear")
           /\ UNCHANGED flag /\ SyncUnchanged

\* *barrier_sync = SHMEM_SYNC_VALUE, and shmem_init returns.
ClearChain(p) == /\ at[p] = "clear"
                 /\ SetSync(p, 0)
                 /\ Goto(p, "out")
                 /\ UNCHANGED chain /\ SyncUnchanged

\* The program goes on with barriers.
SyncStep(p) == at[p] = "out" /\ Sync!Step(p) /\ UNCHANGED <<at, chain>>

\* A signal of a barrier lands, behind the store of the chain.
LandSignal(p, k) == /\ p \in chain => Sync!To(p, k) # Next_pe(p)
                    /\ Sync!Land(p, k) /\ UNCHANGED <<at, chain>>

Step(p) == \/ Start(p) \/ WaitChain(p) \/ Post(p) \/ ClearChain(p) \/ SyncStep(p)
Land(p) == LandChain(p) \/ \E k \in Sync!Round : LandSignal(p, k)

Next == \/ \E p \in PE : Step(p) \/ Land(p)
        \/ Sync!Finished /\ UNCHANGED <<at, chain>>

Spec == Init /\ [][Next]_vars

------------------------------------------------------------------------------
(* Properties *)

\* "linear barrier" (shmem_init.c:179): nobody returns from shmem_init before all
\* PEs have come to it.  In the code only PE 0 waits for all.
InitIsBarrier == \A p, q \in PE : at[p] = "out" => at[q] # "start"

\* What the chain does give: a PE returns after the PEs before it have entered,
\* PE 0 after all.
InitIsChain == \A p, q \in PE : at[p] = "out" /\ (p = 0 \/ q <= p) => at[q] # "start"

\* A shmem_sync with a pSync of its own behind shmem_init makes up for it: when
\* one PE is back from it, all are out of shmem_init, no store of the chain is
\* under way and barrier_sync is clear, as shmem_sync_all needs it.
InitIsOver == \A p \in PE : calls[p] > 0 /\ pc[p] = "out" =>
  chain = {} /\ \A q \in PE : at[q] = "out" /\ barrier_sync(q) = 0

==============================================================================

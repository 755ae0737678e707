---------------------------- MODULE ShmemBroadcast ----------------------------
(* shmem_broadcast32 and shmem_broadcast64, called in a loop by every PE of   *)
(* an active set, with any root in each call.                                 *)
(*                                                                            *)
(* After a barrier the data goes down a binomial tree: a PE waits for its     *)
(* flag lock_receive_finished, which is one word for all calls, and then      *)
(* stores dest and the flag in the PEs below it.  Distances to the root (PEx) *)
(* are in PE numbers, so multiples of the stride.                             *)
(*                                                                            *)
(* What the root sends in its n-th call is modelled by n; data and flag are   *)
(* posted and land together, in order for each pair of PEs.  shmem_sync is    *)
(* the abstract Barrier.                                                      *)
EXTENDS Integers, Sequences

CONSTANTS
  PE_start,       \* first PE of the active set
  Stride,         \* 1 << logPE_stride
  PE_size,        \* number of PEs in the active set
  MaxCalls,       \* bound: how often each PE calls the routine
  PE_root         \* PE_root[n]: the root of call n, as its place in the set

BroadcastAssumption ==
  /\ PE_start \in Nat /\ Stride \in Nat \ {0} /\ PE_size \in Nat \ {0}
  /\ MaxCalls \in Nat /\ PE_root \in [1..MaxCalls -> 0..(PE_size - 1)]

VARIABLES
  calls,          \* calls[p]: calls PE p has started
  synced,         \* synced[p]: how often PE p is back from the barrier
  pc,             \* pc[p]: where PE p is in the routine
  mask,           \* mask[p]: mask1 and mask2 of PE p
  dest,           \* dest[p]: whose call's data is in dest of PE p, 0 for none
  finished,       \* finished[p]: __shmem.lock_receive_finished of PE p
  mail            \* mail[p][q]: data and flags p has posted to q, in flight

vars == <<calls, synced, pc, mask, dest, finished, mail>>

Member == {PE_start + m * Stride : m \in 0..(PE_size - 1)}
PE_size_stride == PE_size * Stride
PE_end == PE_start + PE_size_stride

Sync == INSTANCE Barrier WITH PE <- Member, entered <- calls, left <- synced

PE_root_stride(n) == PE_root[n] * Stride
PEx(p, n) == LET x == p - PE_start - PE_root_stride(n)
             IN  IF x < 0 THEN x + PE_size_stride ELSE x
IsRoot(p, n) == PEx(p, n) = 0

Power2 == {2^e : e \in 0..PE_size_stride}

\* The largest power of two below PE_size_stride.
maskx == CHOOSE m \in Power2 : m < PE_size_stride /\ PE_size_stride <= 2 * m

\* PEx & -PEx
LowBit(x) == CHOOSE m \in Power2 : x % m = 0 /\ x % (2 * m) # 0

\* mask2 is maskx in the root, and the least significant 1 bit elsewhere.
FirstMask(x) == LET m == IF x = 0 THEN maskx ELSE LowBit(x)
                IN  [mask1 |-> 2 * m - 1, mask2 |-> m]
Halved(m) == [mask1 |-> m.mask1 \div 2, mask2 |-> m.mask2 \div 2]

\* (faulty variant) The partner is one step off.
PE_to_next(p) == LET to == PEx(p, calls[p]) + mask[p].mask2 + Stride
                           + PE_start + PE_root_stride(calls[p])
                 IN  IF to >= PE_end THEN to - PE_size_stride ELSE to

\* (PEx | mask2) with the root at its place, wrapped at PE_end.
PE_to(p) == LET to == PEx(p, calls[p]) + mask[p].mask2
                      + PE_start + PE_root_stride(calls[p])
            IN  IF to >= PE_end THEN to - PE_size_stride ELSE to

Init == /\ Sync!Init
        /\ pc = [p \in Member |-> "out"]
        /\ mask = [p \in Member |-> [mask1 |-> 0, mask2 |-> 0]]
        /\ dest = [p \in Member |-> 0]
        /\ finished = [p \in Member |-> 0]
        /\ mail = [p \in Member |-> [q \in Member |-> << >>]]

------------------------------------------------------------------------------
\* The call: the masks are computed, the flag is reset, shmem_sync is called.
Enter(p) == /\ PE_size # 1
            /\ pc[p] = "out" /\ calls[p] < MaxCalls
            /\ Sync!Enter(p)
            /\ mask' = [mask EXCEPT ![p] = FirstMask(PEx(p, calls[p] + 1))]
            /\ finished' = [finished EXCEPT ![p] = 0]
            /\ pc' = [pc EXCEPT ![p] = "sync"]
            /\ UNCHANGED <<dest, mail>>

SyncReturns(p) == /\ pc[p] = "sync"
                  /\ Sync!Leave(p)
                  /\ pc' = [pc EXCEPT ![p] = "loop"]
                  /\ UNCHANGED <<mask, dest, finished, mail>>

\* (PEx & mask1) == 0, for mask1 = 2 mask2 - 1
Sends(p) == PEx(p, calls[p]) % (mask[p].mask1 + 1) = 0

\* The end of the loop body: while (mask1 >> logPE_stride).
Advance(p) == /\ mask' = [mask EXCEPT ![p] = Halved(@)]
              /\ pc' = [pc EXCEPT ![p] =
                          IF mask'[p].mask1 >= Stride THEN "loop" ELSE "out"]

\* dest (source in the root) and the flag are stored in the PE below.
Send(p) ==
  /\ pc[p] = "loop" /\ Sends(p)
  /\ mail' = [mail EXCEPT ![p][PE_to(p)] =
                Append(@, IF IsRoot(p, calls[p]) THEN calls[p] ELSE dest[p])]
  /\ Advance(p)
  /\ UNCHANGED <<calls, synced, dest, finished>>

\* The oldest data of p for q, and the flag behind it, land.
Land(p, q) == /\ mail[p][q] # << >>
              /\ dest' = [dest EXCEPT ![q] = Head(mail[p][q])]
              /\ finished' = [finished EXCEPT ![q] = 1]
              /\ mail' = [mail EXCEPT ![p][q] = Tail(@)]
              /\ UNCHANGED <<calls, synced, pc, mask>>

\* (faulty variant) The flag is not awaited.
ReceiveBlind(p) == /\ pc[p] = "loop" /\ ~Sends(p)
                   /\ pc' = [pc EXCEPT ![p] = "reset"]
                   /\ UNCHANGED <<calls, synced, mask, dest, finished, mail>>

\* while (!lock_receive_finished) ends ...
Receive(p) == /\ pc[p] = "loop" /\ ~Sends(p)
              /\ finished[p] # 0
              /\ pc' = [pc EXCEPT ![p] = "reset"]
              /\ UNCHANGED <<calls, synced, mask, dest, finished, mail>>

\* ... and the flag is reset.
Reset(p) == /\ pc[p] = "reset"
            /\ finished' = [finished EXCEPT ![p] = 0]
            /\ Advance(p)
            /\ UNCHANGED <<calls, synced, dest, mail>>

Step(p) == Enter(p) \/ SyncReturns(p) \/ Send(p) \/ Receive(p) \/ Reset(p)

\* With one PE every call returns at once.
Finished == /\ \A p \in Member : pc[p] = "out" /\ (calls[p] = MaxCalls \/ PE_size = 1)
            /\ UNCHANGED vars

Next == \/ \E p \in Member : Step(p) \/ \E q \in Member : Land(p, q)
        \/ Finished

Spec == Init /\ [][Next]_vars

------------------------------------------------------------------------------
(* Properties *)

TypeOK ==
  /\ calls \in [Member -> 0..MaxCalls] /\ synced \in [Member -> 0..MaxCalls]
  /\ pc \in [Member -> {"out", "sync", "loop", "reset"}]
  /\ mask \in [Member -> [mask1 : Nat, mask2 : Nat]]
  /\ dest \in [Member -> 0..MaxCalls]
  /\ finished \in [Member -> 0..1]
  /\ mail \in [Member -> [Member -> Seq(0..MaxCalls)]]
  /\ \A p \in Member : pc[p] = "loop" /\ Sends(p) => PE_to(p) \in Member \ {p}

\* A call returns with the root's data of that call, and with no other, in dest
\* of every other PE (test/broadcast32.c:100).
DestIsSource ==
  \A p \in Member : pc[p] = "out" /\ calls[p] > 0 /\ ~IsRoot(p, calls[p]) =>
    dest[p] = calls[p]

\* Once a PE has returned its dest is its own: nothing is in flight to it and
\* nobody will send to it (def_shmem_broadcastx.h:76, the routine ends without
\* a barrier).
Until(p, n) == \A q \in Member : mail[q][p] = << >> /\ (calls[q] = n /\ pc[q] # "out" =>
                 ~(pc[q] = "loop" /\ Sends(q) /\ PE_to(q) = p))
NothingComesLate == \A p \in Member : pc[p] = "out" => Until(p, calls[p])

\* The flag is set only for a PE that has not seen it in this call.
FlagIsOfThisCall ==
  \A p \in Member : finished[p] = 1 => pc[p] \in {"sync", "loop", "reset"} /\
                                       dest[p] = calls[p]

------------------------------------------------------------------------------
(* The inductive invariant, for a number of PEs that is a power of two *)

PowersOfTwo == \E s \in Nat, e \in Nat \ {0} : Stride = 2^s /\ PE_size = 2^e

\* In the tree of call n, PE q stands above PE y and sends to it with mask m.
Above(q, y, n, m) == /\ m \in Power2
                     /\ PEx(q, n) % (2 * m) = 0
                     /\ PEx(y, n) = PEx(q, n) + m

\* PE q is past mask m of call n; PE y has seen its flag in call n.
Sent(q, n, m) == calls[q] > n \/ (calls[q] = n /\ mask[q].mask2 < m)
Received(y, n) == \/ calls[y] > n
                  \/ /\ calls[y] = n
                     /\ finished[y] = 1 \/ mask[y].mask2 < LowBit(PEx(y, n))

\* The barrier lets nobody by who is a call ahead.
InStep == /\ \A p \in Member : calls[p] = IF pc[p] = "sync" THEN synced[p] + 1 ELSE synced[p]
          /\ \A p, q \in Member : synced[p] <= calls[q]

\* The masks go down from the first one to the stride.
MasksOK == \A p \in Member :
  LET m == mask[p].mask2  x == PEx(p, calls[p])  IN
  IF pc[p] = "out" THEN m < Stride
  ELSE /\ calls[p] >= 1
       /\ m \in Power2 /\ mask[p].mask1 = 2 * m - 1
       /\ Stride <= m /\ 2 * m <= PE_size_stride
       /\ x # 0 => m <= LowBit(x)
       /\ pc[p] = "sync" => m = FirstMask(x).mask2
       /\ pc[p] = "reset" => finished[p] = 1

\* The flag is up only where it is waited for.
FlagOK == \A p \in Member : finished[p] = 1 =>
  LET x == PEx(p, calls[p])
  IN  pc[p] # "out" /\ x # 0 /\ mask[p].mask2 = LowBit(x)

\* Who has received has the data of the call; the PE above it has sent it ...
DataOK == \A y \in Member : \A n \in 1..MaxCalls :
  calls[y] = n /\ ~IsRoot(y, n) /\ Received(y, n) => dest[y] = n
SentBefore == \A q, y \in Member : \A n \in 1..MaxCalls : \A m \in Power2 :
  Above(q, y, n, m) /\ Received(y, n) => Sent(q, n, m)

\* ... and what is in flight comes from there, once.
MailOK == \A q, y \in Member : mail[q][y] # << >> =>
  \E n \in 1..MaxCalls :
    /\ calls[y] = n /\ ~Received(y, n) /\ mail[q][y] = <<n>>
    /\ \E m \in Power2 : Above(q, y, n, m) /\ Sent(q, n, m)

IInv == /\ TypeOK /\ InStep /\ MasksOK /\ FlagOK
        /\ DataOK /\ SentBefore /\ MailOK

==============================================================================

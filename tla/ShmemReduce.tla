----------------------------- MODULE ShmemReduce -----------------------------
(* The reductions of the library (shmem_<type>_<op>_to_all), called in a loop *)
(* by every PE of an active set with the same pWrk and pSync.                 *)
(*                                                                            *)
(* After a barrier every PE sends its data to the PE step further on and      *)
(* combines what it receives with dest: to all PEs in turn (the ring, if      *)
(* PE_size is not a power of two), or to the PEs at distance 1, 2, 4, ...     *)
(* The data goes through pWrk in pieces of nwrk elements; two words of pSync  *)
(* guard it: vSync[0] is a lock set by the sender (testset) and opened by the *)
(* receiver, vSync[1] tells the receiver that the piece is there.             *)
(*                                                                            *)
(* An element is modelled by how often the contribution of each PE is in it,  *)
(* the reading of dest as a sum; shmem_sync is the abstract Barrier.          *)
EXTENDS Integers, FiniteSets

CONSTANTS
  PE_start,       \* first PE of the active set
  Stride,         \* 1 << logPE_stride
  PE_size,        \* number of PEs in the active set
  nreduce,        \* elements to reduce
  MIN_WRKDATA,    \* SHMEM_REDUCE_MIN_WRKDATA_SIZE
  MaxCalls        \* bound: how often each PE calls the routine

ReduceAssumption ==
  /\ PE_start \in Nat /\ Stride \in Nat \ {0} /\ PE_size \in Nat \ {0}
  /\ nreduce \in Nat \ {0} /\ MIN_WRKDATA \in Nat \ {0} /\ MaxCalls \in Nat

VARIABLES
  calls,          \* calls[p]: calls PE p has started
  synced,         \* synced[p]: how often PE p is back from the barrier
  pc,             \* pc[p]: where PE p is in the routine
  it,             \* it[p]: the loop variables r, step, to and i of PE p
  dest,           \* dest[p][i][q]: how often q's element i is in p's dest[i]
  vSync,          \* vSync[p]: the lock and the signal word in p's memory
  mail,           \* mail[p]: pieces and signals posted to p, in flight
  pWrk            \* pWrk[p]: the nwrk elements of p's work array

vars == <<calls, synced, pc, it, dest, vSync, mail, pWrk>>

Member == {PE_start + m * Stride : m \in 0..(PE_size - 1)}
PE_size_stride == PE_size * Stride
PE_end == PE_start + PE_size_stride
nwrk == IF (nreduce \div 2) + 1 > MIN_WRKDATA THEN nreduce \div 2 ELSE MIN_WRKDATA
Element == 0..(nreduce - 1)
nrem(i) == IF nreduce - i < nwrk THEN nreduce - i ELSE nwrk

\* PE_size & (PE_size - 1)
ring == \A e \in 0..PE_size : PE_size # 2^e

Sync == INSTANCE Barrier WITH PE <- Member, entered <- calls, left <- synced

Own(p) == [i \in Element |-> [q \in Member |-> IF q = p THEN 1 ELSE 0]]
\* (faulty variant) The ring passes on what has been combined so far.
DataCombined(p) == dest[p]

data(p) == IF ring THEN Own(p) ELSE dest[p]

\* (faulty variant) The last PE does not wrap.
NoWrap(to, step) == to + step

\* The start of the loop body: to += step, wrapped at PE_end.
Next_to(to, step) == IF to + step >= PE_end THEN to + step - PE_size_stride
                                            ELSE to + step

\* The loop variables one PE further on: the distance is doubled in the
\* power-of-two case, where to goes back first.
After(l) ==
  IF ring THEN [r |-> l.r + l.step, step |-> l.step,
                to |-> Next_to(l.to, l.step), i |-> 0]
          ELSE [r |-> l.r + 2 * l.step, step |-> 2 * l.step,
                to |-> Next_to(l.to - l.step, 2 * l.step), i |-> 0]
First(p) == [r |-> 1, step |-> Stride, to |-> Next_to(p, Stride), i |-> 0]

Nobody == [q \in Member |-> 0]
Open == [lock |-> 0, signal |-> 0]

Init == /\ Sync!Init
        /\ pc = [p \in Member |-> "out"]
        /\ it = [p \in Member |-> First(p)]
        /\ dest = [p \in Member |-> Own(p)]
        /\ vSync = [p \in Member |-> Open]
        /\ mail = [p \in Member |-> {}]
        /\ pWrk = [p \in Member |-> [j \in 0..(nwrk - 1) |-> Nobody]]

------------------------------------------------------------------------------
\* The call: dest = source, vSync is reset, shmem_sync is called.
Enter(p) == /\ pc[p] = "out" /\ calls[p] < MaxCalls
            /\ Sync!Enter(p)
            /\ dest' = [dest EXCEPT ![p] = Own(p)]
            /\ vSync' = [vSync EXCEPT ![p] = Open]
            /\ pc' = [pc EXCEPT ![p] = "sync"]
            /\ it' = [it EXCEPT ![p] = First(p)]
            /\ UNCHANGED <<mail, pWrk>>

\* Where PE p goes on with loop variables l.
Goto(l) == IF l.r < PE_size_stride THEN "send" ELSE "out"

\* (faulty variant) vSync is reset without a barrier behind it.
SyncReturnsAtOnce(p) == /\ pc[p] = "sync"
                        /\ synced' = [synced EXCEPT ![p] = @ + 1]
                        /\ pc' = [pc EXCEPT ![p] = Goto(it[p])]
                        /\ UNCHANGED <<calls, it, dest, vSync, mail, pWrk>>

\* shmem_sync returns.
SyncReturns(p) == /\ pc[p] = "sync"
                  /\ Sync!Leave(p)
                  /\ pc' = [pc EXCEPT ![p] = Goto(it[p])]
                  /\ UNCHANGED <<it, dest, vSync, mail, pWrk>>

Piece(p) == LET i == it[p].i IN
  [call |-> calls[p], elements |-> [j \in 0..(nrem(i) - 1) |-> data(p)[i + j]]]

\* (faulty variant) The receiver's lock is stored, not tested.
SendUnlocked(p) ==
  /\ pc[p] = "send"
  /\ vSync' = [vSync EXCEPT ![it[p].to].lock = 1]
  /\ mail' = [mail EXCEPT ![it[p].to] = @ \cup {Piece(p)}]
  /\ pc' = [pc EXCEPT ![p] = "wait"]
  /\ UNCHANGED <<calls, synced, it, dest, pWrk>>

\* __shmem_set_lock succeeds; the piece and then the signal are posted.
Send(p) == LET to == it[p].to IN
             /\ pc[p] = "send"
             /\ vSync[to].lock = 0
             /\ vSync' = [vSync EXCEPT ![to].lock = 1]
             /\ mail' = [mail EXCEPT ![to] = @ \cup {Piece(p)}]
             /\ pc' = [pc EXCEPT ![p] = "wait"]
             /\ UNCHANGED <<calls, synced, it, dest, pWrk>>

\* A piece and the signal behind it land in p's memory.
Land(p) == \E m \in mail[p] :
             /\ pWrk' = [pWrk EXCEPT ![p] = [j \in DOMAIN @ |->
                  IF j \in DOMAIN m.elements THEN m.elements[j] ELSE @[j]]]
             /\ vSync' = [vSync EXCEPT ![p].signal = 1]
             /\ mail' = [mail EXCEPT ![p] = @ \ {m}]
             /\ UNCHANGED <<calls, synced, pc, it, dest>>

\* The signal is there: the piece is combined with dest.
Combine(p) ==
  /\ pc[p] = "wait"
  /\ vSync[p].signal # 0
  /\ LET i == it[p].i IN
       dest' = [dest EXCEPT ![p] = [e \in Element |->
                  IF e \in i..(i + nrem(i) - 1)
                  THEN [q \in Member |-> @[e][q] + pWrk[p][e - i][q]] ELSE @[e]]]
  /\ pc' = [pc EXCEPT ![p] = "clear"]
  /\ UNCHANGED <<calls, synced, it, vSync, mail, pWrk>>

\* vSync[1] = SHMEM_SYNC_VALUE
Clear(p) == /\ pc[p] = "clear"
            /\ vSync' = [vSync EXCEPT ![p].signal = 0]
            /\ pc' = [pc EXCEPT ![p] = "open"]
            /\ UNCHANGED <<calls, synced, it, dest, mail, pWrk>>

\* The next piece, or the next PE to send to.
Onward(l) == IF l.i + nwrk < nreduce THEN [l EXCEPT !.i = @ + nwrk] ELSE After(l)

\* (faulty variant) The lock is left set.
OpenNot(p) == /\ pc[p] = "open"
              /\ it' = [it EXCEPT ![p] = Onward(@)]
              /\ pc' = [pc EXCEPT ![p] = Goto(Onward(it[p]))]
              /\ UNCHANGED <<calls, synced, dest, vSync, mail, pWrk>>

\* vSync[0] = SHMEM_SYNC_VALUE; the PE goes on.
OpenLock(p) == /\ pc[p] = "open"
               /\ vSync' = [vSync EXCEPT ![p].lock = 0]
               /\ it' = [it EXCEPT ![p] = Onward(@)]
               /\ pc' = [pc EXCEPT ![p] = Goto(Onward(it[p]))]
               /\ UNCHANGED <<calls, synced, dest, mail, pWrk>>

Step(p) == \/ Enter(p) \/ SyncReturns(p) \/ Send(p)
           \/ Combine(p) \/ Clear(p) \/ OpenLock(p)

Finished == /\ \A p \in Member : pc[p] = "out" /\ calls[p] = MaxCalls
            /\ UNCHANGED vars

Next == (\E p \in Member : Step(p) \/ Land(p)) \/ Finished

Spec == Init /\ [][Next]_vars

\* Every core runs on, and what is posted lands.
FairSpec == Spec /\ \A p \in Member : WF_vars(Step(p)) /\ WF_vars(Land(p))

------------------------------------------------------------------------------
(* Properties *)

TContribution == [Member -> Nat]
Pieces == UNION {[call : 0..MaxCalls, elements : [0..(n - 1) -> TContribution]] :
                 n \in 1..nwrk}
TypeOK ==
  /\ calls \in [Member -> 0..MaxCalls] /\ synced \in [Member -> 0..MaxCalls]
  /\ pc \in [Member -> {"out", "sync", "send", "wait", "clear", "open"}]
  /\ it \in [Member -> [r : Nat, step : Nat, to : Member, i : Element]]
  /\ dest \in [Member -> [Element -> TContribution]]
  /\ vSync \in [Member -> [lock : 0..1, signal : 0..1]]
  /\ mail \in [Member -> SUBSET Pieces]
  /\ pWrk \in [Member -> [0..(nwrk - 1) -> TContribution]]

\* def_shmem_x_to_all.h:68-74: a piece is in flight or unread in pWrk only while
\* the lock is set, one at a time: none is overwritten before it is combined.
OnePieceAtATime ==
  \A p \in Member :
    /\ Cardinality(mail[p]) + vSync[p].signal <= 1
    /\ mail[p] # {} \/ vSync[p].signal = 1 => vSync[p].lock = 1
    /\ pc[p] = "open" => mail[p] = {} /\ vSync[p] = [lock |-> 1, signal |-> 0]

\* No piece reaches a PE that is in another call than its sender, so that the
\* reset of vSync at the next call (def_shmem_x_to_all.h:52-53) hits none.
PieceOfThisCall ==
  \A p \in Member :
    /\ \A m \in mail[p] : m.call = calls[p]
    /\ pc[p] = "out" => mail[p] = {} /\ vSync[p] = Open

\* A call returns with every PE's contribution in every element, once
\* (test/reduce.c:98: target[i] is i * npes).
SumIsComplete ==
  \A p \in Member : pc[p] = "out" /\ calls[p] > 0 =>
    \A e \in Element, q \in Member : dest[p][e][q] = 1

\* Every call returns, like the sums of test/atomic_set.c:79 over every number of
\* PEs, and the loop around them ends: no PE spins for ever on another's lock
\* (def_shmem_x_to_all.h:68) or on its own signal (line 71).  Run ring5 shows that
\* five PEs may wait for each other.
EveryCallReturns == <>(\A p \in Member : pc[p] = "out" /\ calls[p] = MaxCalls)

------------------------------------------------------------------------------
(* The inductive invariant: what has been sent to a PE is counted against the *)
(* place that the PE has come to in its own loops.                            *)

\* A place in the two loops, r and i, and the one after it.
Place(l) == <<l.r, l.i>>
Before(x, y) == x[1] < y[1] \/ (x[1] = y[1] /\ x[2] < y[2])
NextPlace(x) == IF x[2] + nwrk < nreduce THEN <<x[1], x[2] + nwrk>>
                ELSE <<IF ring THEN x[1] + Stride ELSE 2 * x[1] - 1 + 2 * Stride, 0>>

\* The places that the loops come to, the same for every PE: <<1, 0>> is one, and
\* the next one of each, as long as r < PE_size_stride.
Box == (1..(PE_size_stride - 1)) \X Element
Closed(T) == /\ <<1, 0>> \in Box => <<1, 0>> \in T
             /\ \A x \in T : NextPlace(x) \in Box => NextPlace(x) \in T
Places == {x \in Box : \A T \in SUBSET Box : Closed(T) => x \in T}

\* The PE that q sends to at place x.
Offset(x) == IF ring THEN x[1] - 1 + Stride ELSE ((x[1] - 1) \div 2) + Stride
Partner(q, x) == Next_to(q, Offset(x))

\* The places at which p has sent, and at which it has taken a piece, in its call.
Passed(p) == {x \in Places : Before(x, Place(it[p]))}
Sent(p) == IF pc[p] \in {"wait", "clear", "open"} THEN Passed(p) \cup {Place(it[p])}
           ELSE Passed(p)
Taken(p) == IF pc[p] = "open" THEN Passed(p) \cup {Place(it[p])} ELSE Passed(p)

\* The places at which somebody has sent to p in p's call.
HasSent(q, p, x) == \/ calls[q] > calls[p] /\ calls[p] > 0
                    \/ calls[q] = calls[p] /\ x \in Sent(q)
SentTo(p) == {x \in Places : \E q \in Member : Partner(q, x) = p /\ HasSent(q, p, x)}

\* Pieces on their way to p or unread in its pWrk.
Waiting(p) == (IF mail[p] = {} THEN 0 ELSE 1) + vSync[p].signal

\* A PE in a call is not further than the barrier lets it be.
InStep == \A p \in Member :
  /\ calls[p] = synced[p] + (IF pc[p] = "sync" THEN 1 ELSE 0)
  /\ \A q \in Member : synced[p] <= calls[q]

\* The loop variables are those of a place, and to is the partner at that place.
InLoop == \A p \in Member : LET l == it[p] IN
  /\ pc[p] \in {"send", "wait", "clear", "open"} => Place(l) \in Places
  /\ pc[p] = "sync" \/ calls[p] = 0 => l = First(p)
  /\ calls[p] = 0 => pc[p] = "out"
  /\ pc[p] = "out" /\ calls[p] > 0 => l.r >= PE_size_stride
  /\ IF ring THEN l.step = Stride ELSE l.r = 2 * (l.step - Stride) + 1
  /\ l.r < PE_size_stride => l.to = Partner(p, Place(l))

\* The lock is set from the testset of the sender until the receiver is done.
LockIsHeld == \A p \in Member :
  /\ mail[p] = {} \/ \E m \in mail[p] : mail[p] = {m} /\ m.call = calls[p]
  /\ vSync[p].lock = Waiting(p) + (IF pc[p] = "open" THEN 1 ELSE 0)
  /\ pc[p] = "clear" => vSync[p].signal = 1

\* A PE has taken all pieces that were sent to it but the one that is waiting.
Counted == \A p \in Member : Cardinality(SentTo(p)) = Cardinality(Taken(p)) + Waiting(p)

\* Whoever is left behind in a call by p has nothing more to send to p in it.
AllSent == \A p, q \in Member : calls[q] > 0 /\ calls[p] > calls[q] =>
  \A x \in Places : Partner(q, x) = p => x \in Sent(q)

IInv == TypeOK /\ InStep /\ InLoop /\ LockIsHeld /\ Counted /\ AllSent

(* The sums, where they are complete. *)

\* In a ring of single pieces: the piece sent to p that p has not combined yet, and
\* what is in dest with it.
Unread(p) == IF mail[p] # {} THEN (CHOOSE m \in mail[p] : TRUE).elements
             ELSE IF vSync[p].signal = 1 /\ pc[p] # "clear" THEN pWrk[p]
             ELSE [e \in Element |-> Nobody]
SumOf(p) ==
  /\ \A m \in mail[p] : DOMAIN m.elements = Element
  /\ \A e \in Element, q \in Member :
       dest[p][e][q] + Unread(p)[e][q] =
         IF q = p \/ \E x \in SentTo(p) : Partner(q, x) = p THEN 1 ELSE 0
RingSum == \A p \in Member : SumOf(p)

\* For two PEs: the elements of the piece at place x, the places whose piece p has
\* combined, and a piece that p has not combined yet, which is of p's place.
Elements(x) == x[2]..(x[2] + nrem(x[2]) - 1)
Combined(p) == IF pc[p] \in {"clear", "open"} THEN Passed(p) \cup {Place(it[p])}
               ELSE Passed(p)
NotOwn(p) == [q \in Member |-> IF q = p THEN 0 ELSE 1]
PairSumOf(p) ==
  /\ \A e \in Element, q \in Member :
       dest[p][e][q] =
         IF q = p \/ \E x \in Combined(p) : e \in Elements(x) THEN 1 ELSE 0
  /\ \A m \in mail[p] :
       m.elements = [j \in 0..(nrem(it[p].i) - 1) |-> NotOwn(p)]
  /\ vSync[p].signal = 1 /\ pc[p] # "clear" =>
       \A j \in 0..(nrem(it[p].i) - 1) : pWrk[p][j] = NotOwn(p)
PairSum == \A p \in Member : PairSumOf(p)

==============================================================================

------------------------------ MODULE ShmemSync ------------------------------
(* The dissemination barrier of the library, called in a loop by every PE of  *)
(* an active set: shmem_sync (with its testset form for two PEs) and          *)
(* shmem_sync_all, the second half of shmem_barrier and shmem_barrier_all.    *)
(*                                                                            *)
(* A PE is a core of its own.  In round c it stores 1 in flag c of the PE     *)
(* r = Stride * 2^c further on, waits for its own flag c, and clears it.  The *)
(* remote store is posted: it leaves the core at once and lands later, in     *)
(* order with the other stores of that core to that destination.  The code    *)
(* stores the value 1; the model stores the number of the call instead, so    *)
(* that a property can tell which call a signal was meant for.  The code only *)
(* compares it with SHMEM_SYNC_VALUE (0), and so does the model.              *)
EXTENDS Integers

CONSTANTS
  PE_start,       \* first PE of the active set
  Stride,         \* 1 << logPE_stride
  PE_size,        \* number of PEs in the active set
  Rounds,         \* iterations of the round loop (n_pes_log2 in shmem_sync_all)
  Pow2,           \* Pow2[c] = 2^c, so that r = Stride * Pow2[c] in round c
  Arrays,         \* the pSync arrays of the program
  MaxCalls,       \* bound: how often each PE calls the barrier
  ArrayOf,        \* ArrayOf[n]: the pSync array the program passes in call n
  Routine         \* "sync" or "sync_all"

ASSUME SetAssumption ==
  /\ PE_start \in Nat /\ Stride \in Nat \ {0} /\ PE_size \in Nat \ {0}

\* for (c = 0, r = Stride; r < PE_size * Stride; c++, r <<= 1)
ASSUME RoundsAssumption ==
  /\ Rounds \in Nat
  /\ Pow2 \in [0..Rounds -> Nat]
  /\ Pow2[0] = 1
  /\ \A c \in 0..Rounds : c < Rounds => Pow2[c + 1] = 2 * Pow2[c]
  /\ \A c \in 0..Rounds : Pow2[c] < PE_size <=> c < Rounds

ASSUME CallsAssumption ==
  /\ MaxCalls \in Nat
  /\ ArrayOf \in [1..MaxCalls -> Arrays]

\* shmem_sync_all has one flag array, and all PEs are members
ASSUME RoutineAssumption ==
  /\ Routine \in {"sync", "sync_all"}
  /\ Routine = "sync_all" => /\ PE_start = 0
                             /\ Stride = 1
                             /\ \A m, n \in 1..MaxCalls : ArrayOf[m] = ArrayOf[n]

VARIABLES
  calls,          \* calls[p]: barrier calls PE p has started
  pc,             \* pc[p]: where PE p is in the routine
  c,              \* c[p]: the round PE p is in
  flag,           \* flag[a][p][k]: word k of pSync array a in the memory of p
  posted          \* posted[p][k]: signals of round k that p sent, in flight

vars == <<calls, pc, c, flag, posted>>

Member == {PE_start + m * Stride : m \in 0..(PE_size - 1)}
Round == 0..(Rounds - 1)
PE_size_stride == PE_size * Stride
PE_end == PE_start + PE_size_stride

SYNC_VALUE == 0

\* The code's r in round k, and the partner r further on, wrapped at PE_end.
Dist(k) == Pow2[k] * Stride
To(p, k) == IF p + Dist(k) >= PE_end THEN p + Dist(k) - PE_size_stride
                                     ELSE p + Dist(k)

\* PE_size < 3 takes __shmem_sync_lte2, whose signal is a testset.
Testset == Routine = "sync" /\ PE_size < 3

Init == /\ calls = [p \in Member |-> 0]
        /\ pc = [p \in Member |-> "out"]
        /\ c = [p \in Member |-> Rounds]
        /\ flag = [a \in Arrays |-> [p \in Member |-> [k \in Round |-> SYNC_VALUE]]]
        /\ posted = [p \in Member |-> [k \in Round |-> {}]]

------------------------------------------------------------------------------
\* PE p calls the routine (the program makes at most MaxCalls calls).
Enter(p) == /\ pc[p] = "out"
            /\ calls[p] < MaxCalls
            /\ calls' = [calls EXCEPT ![p] = @ + 1]
            /\ pc' = [pc EXCEPT ![p] = "loop"]
            /\ c' = [c EXCEPT ![p] = 0]
            /\ UNCHANGED <<flag, posted>>

\* (faulty variant) The PE's own flag is initialised when its round starts.
SignalAfterReset(p) ==
  /\ pc[p] = "loop" /\ c[p] < Rounds
  /\ posted' = [posted EXCEPT ![p][c[p]] = @ \cup {calls[p]}]
  /\ flag' = [flag EXCEPT ![ArrayOf[calls[p]]][p][c[p]] = SYNC_VALUE]
  /\ pc' = [pc EXCEPT ![p] = "wait"]
  /\ UNCHANGED <<calls, c>>

\* *remote_lock = 1: the store is posted to the mesh.
Signal(p) == /\ ~Testset
             /\ pc[p] = "loop" /\ c[p] < Rounds
             /\ posted' = [posted EXCEPT ![p][c[p]] = @ \cup {calls[p]}]
             /\ pc' = [pc EXCEPT ![p] = "wait"]
             /\ UNCHANGED <<calls, c, flag>>

\* (faulty variant) The flag is stored without testing it.
TestsetSignalBlind(p) ==
  /\ Testset
  /\ pc[p] = "loop" /\ c[p] < Rounds
  /\ flag' = [flag EXCEPT ![ArrayOf[calls[p]]][To(p, c[p])][c[p]] = calls[p]]
  /\ pc' = [pc EXCEPT ![p] = "wait"]
  /\ UNCHANGED <<calls, c, posted>>

\* __shmem_set_lock(remote lock): spins until the testset finds the flag clear.
TestsetSignal(p) ==
  LET a == ArrayOf[calls[p]]
      to == To(p, c[p])
  IN  /\ Testset
      /\ pc[p] = "loop" /\ c[p] < Rounds
      /\ flag[a][to][c[p]] = SYNC_VALUE
      /\ flag' = [flag EXCEPT ![a][to][c[p]] = calls[p]]
      /\ pc' = [pc EXCEPT ![p] = "wait"]
      /\ UNCHANGED <<calls, c, posted>>

\* The oldest posted signal of p for round k reaches its destination.
Land(p, k) == \E n \in posted[p][k] :
                /\ \A m \in posted[p][k] : n <= m
                /\ flag' = [flag EXCEPT ![ArrayOf[n]][To(p, k)][k] = n]
                /\ posted' = [posted EXCEPT ![p][k] = @ \ {n}]
                /\ UNCHANGED <<calls, pc, c>>

\* (faulty variant) The flag is not awaited.
WaitNot(p) == /\ pc[p] = "wait"
              /\ pc' = [pc EXCEPT ![p] = "clear"]
              /\ UNCHANGED <<calls, c, flag, posted>>

\* while (*lock == SHMEM_SYNC_VALUE) ends: the flag was read set ...
Wait(p) == /\ pc[p] = "wait"
           /\ flag[ArrayOf[calls[p]]][p][c[p]] # SYNC_VALUE
           /\ pc' = [pc EXCEPT ![p] = "clear"]
           /\ UNCHANGED <<calls, c, flag, posted>>

\* (faulty variant) The flag is left set.
ClearNot(p) == /\ pc[p] = "clear"
               /\ pc' = [pc EXCEPT ![p] = "loop"]
               /\ c' = [c EXCEPT ![p] = @ + 1]
               /\ UNCHANGED <<calls, flag, posted>>

\* ... and is cleared afterwards; whatever landed in between is cleared too.
Clear(p) == /\ pc[p] = "clear"
            /\ flag' = [flag EXCEPT ![ArrayOf[calls[p]]][p][c[p]] = SYNC_VALUE]
            /\ pc' = [pc EXCEPT ![p] = "loop"]
            /\ c' = [c EXCEPT ![p] = @ + 1]
            /\ UNCHANGED <<calls, posted>>

\* (faulty variant) One round too few.
LeaveEarly(p) == /\ pc[p] = "loop" /\ c[p] >= Rounds - 1
                 /\ pc' = [pc EXCEPT ![p] = "out"]
                 /\ UNCHANGED <<calls, c, flag, posted>>

\* All rounds done: the routine returns.
Leave(p) == /\ pc[p] = "loop" /\ c[p] = Rounds
            /\ pc' = [pc EXCEPT ![p] = "out"]
            /\ UNCHANGED <<calls, c, flag, posted>>

Step(p) == \/ Enter(p) \/ Signal(p) \/ TestsetSignal(p)
           \/ Wait(p) \/ Clear(p) \/ Leave(p)

\* The program has made all its calls.
Finished == /\ \A p \in Member : pc[p] = "out" /\ calls[p] = MaxCalls
            /\ UNCHANGED vars

Next == \/ \E p \in Member : Step(p)
        \/ \E p \in Member, k \in Round : Land(p, k)
        \/ Finished

Spec == Init /\ [][Next]_vars

\* Every core runs on its own and the mesh delivers every store.
Fairness == /\ \A p \in Member : WF_vars(Step(p))
            /\ \A p \in Member, k \in Round : WF_vars(Land(p, k))

FairSpec == Spec /\ Fairness

------------------------------------------------------------------------------
(* Properties *)

TypeOK ==
  /\ calls \in [Member -> 0..MaxCalls]
  /\ pc \in [Member -> {"out", "loop", "wait", "clear"}]
  /\ c \in [Member -> 0..Rounds]
  /\ flag \in [Arrays -> [Member -> [Round -> 0..MaxCalls]]]
  /\ posted \in [Member -> [Round -> SUBSET (1..MaxCalls)]]

\* The control state is consistent with the round counter.
ControlOK ==
  \A p \in Member : /\ pc[p] = "out" => c[p] = Rounds
                    /\ pc[p] # "out" => calls[p] >= 1
                    /\ pc[p] \in {"wait", "clear"} => c[p] < Rounds

\* For how many calls p has sent its signal of round k, and cleared its flag.
Sent(p, k) == IF c[p] > k \/ (c[p] = k /\ pc[p] \in {"wait", "clear"})
              THEN calls[p] ELSE calls[p] - 1
Consumed(p, k) == IF c[p] > k THEN calls[p] ELSE calls[p] - 1

\* The testset routine writes flags directly.
TestsetOK == Testset => \A p \in Member, k \in Round : posted[p][k] = {}

\* Signals of p for round k land in order: the ones in flight are younger.
InOrder == \A p \in Member, k \in Round, a \in Arrays : \A n \in posted[p][k] :
             flag[a][To(p, k)][k] < n

\* A signal that is set or in flight was sent, and is not one of an earlier
\* call than the receiver's next: no stale signal can release a PE.
PostedFresh ==
  \A p \in Member, k \in Round : \A n \in posted[p][k] :
    Consumed(To(p, k), k) < n /\ n <= Sent(p, k)
FlagFresh ==
  \A p \in Member, k \in Round, a \in Arrays :
    LET n == flag[a][To(p, k)][k]
    IN  n # SYNC_VALUE => /\ Consumed(To(p, k), k) < n
                          /\ n <= Sent(p, k)
                          /\ ArrayOf[n] = a

\* shmem_sync.c:66-69: in each round a PE consumes at most what was sent to it.
ConsumedWasSent ==
  \A p \in Member, k \in Round : Consumed(To(p, k), k) <= Sent(p, k)

\* The flag a PE has seen set stays set until that PE clears it.
SeenStaysSet ==
  \A p \in Member : pc[p] = "clear" =>
    flag[ArrayOf[calls[p]]][p][c[p]] # SYNC_VALUE

\* Distance, in PE numbers, from q forward to p around the active set.
Behind(q, p) == IF q <= p THEN p - q ELSE (p - q) + PE_size_stride

\* What dissemination is for (shmem_sync.c:60-70): a PE that has completed d
\* rounds of a call knows that the 2^d - 1 PEs behind it have entered that call.
Dissemination ==
  \A p, q \in Member : \A d \in 0..c[p] :
    Behind(q, p) < Dist(d) => calls[q] >= calls[p]

\* Nobody is more than one call ahead of anybody.
Skew == \A p, q \in Member : calls[q] >= calls[p] - 1

\* The inductive invariant.
IInv == /\ TypeOK /\ ControlOK /\ TestsetOK /\ InOrder /\ PostedFresh /\ FlagFresh
        /\ ConsumedWasSent /\ SeenStaysSet /\ Dissemination /\ Skew

\* The distance in strides.
Hops(q, p) == Behind(q, p) \div Stride

\* What a PE knows of the flags of round k (shmem_sync.c:68-69), by the rounds other
\* than k: by rounds behind k, that they are taken in its call; by rounds before
\* k as well, that they were taken in the call before.
TakenBehind ==
  \A p, q \in Member, k \in Round :
    LET h == Hops(q, p) % Pow2[k + 1]
    IN  /\ h = 0 /\ Hops(q, p) < Pow2[c[p]] /\ k < c[p] => Consumed(q, k) >= calls[p]
        /\ h < Pow2[k] /\ h < Pow2[c[p]] => Consumed(q, k) >= calls[p] - 1

\* No signal is lost (shmem_sync.c:39-41): a signal in flight finds its flag
\* clear, so that the receiver cannot wipe out two signals at once.
NoLostSignal ==
  \A p \in Member, k \in Round : \A n \in posted[p][k] :
    /\ flag[ArrayOf[n]][To(p, k)][k] = SYNC_VALUE
    /\ \A m \in posted[p][k] : ArrayOf[m] = ArrayOf[n] => m = n

\* When all PEs have returned from the same call, every pSync word is back at
\* SHMEM_SYNC_VALUE (the clear at shmem_sync.c:69) and nothing is in flight.
FlagsRestored ==
  (\A p, q \in Member : pc[p] = "out" /\ calls[p] = calls[q]) =>
    /\ \A a \in Arrays, p \in Member, k \in Round : flag[a][p][k] = SYNC_VALUE
    /\ \A p \in Member, k \in Round : posted[p][k] = {}

\* Every call returns when all PEs make it (shmem_sync.c:68 stops spinning), so
\* that each PE comes to the end of the program.
EveryCallReturns == <>(\A p \in Member : pc[p] = "out" /\ calls[p] = MaxCalls)

\* The routine is a barrier: nobody returns from a call that some PE of the
\* active set has not entered.
Bar == INSTANCE Barrier WITH
         PE <- Member,
         entered <- calls,
         left <- [p \in Member |-> IF pc[p] = "out" THEN calls[p] ELSE calls[p] - 1]
ImplementsBarrier == Bar!Spec

==============================================================================

--------------------------------- MODULE Gups ---------------------------------
(* The random access benchmark c_gups: a table is spread over the PEs, and    *)
(* each PE xors its share of pseudo random numbers into words anywhere in it. *)
(* A small table is updated with shmem_uint32_atomic_xor, which is one step   *)
(* here (ShmemAtomic is shown to implement that); a large one with a load and *)
(* a posted store that land in order.  shmem_barrier_all is the abstract      *)
(* barrier, whose signals land behind the stores to the same PE.              *)
EXTENDS Naturals, Sequences, Bitwise

CONSTANTS
  N,              \* log2 of the number of words of the table
  NC,             \* log2 of the number of PEs
  Width,          \* bits of a word (32)
  AtomicUpTo,     \* the largest N for which the atomic operation is used (11)
  Factor, Shift,  \* of INDEX: 1234567891 and <<13, 17, 5>>
  MaxSent,        \* bound: stores of a PE in flight
  T0              \* the table at the start

K == 2^N
PE == 0..(2^NC - 1)

\* With as many PEs as words the code would shift by 32, which C leaves undefined.
GupsAssumption == /\ {N, NC, Width, AtomicUpTo, MaxSent} \subseteq Nat
                  /\ NC < N /\ N < Width
                  /\ T0 \in [0..(K - 1) -> 0..(2^Width - 1)]

VARIABLES
  pc,
  T,              \* the table in DRAM
  t,              \* t[p]: PE p's part of the table
  i,              \* i[p]: the update that PE p makes
  a_read,         \* a_read[p]: the word that PE p has loaded
  sent,           \* sent[p]: stores of PE p in flight, to the others
  entered, left   \* of the barrier

vars == <<pc, T, t, i, a_read, sent, entered, left>>

Barrier_all == INSTANCE Barrier

\* Pseudo-random index access.
INDEX(n) == LET a == (n * Factor) % 2^Width
                b == a ^^ ((a * 2^Shift[1]) % 2^Width)
                c == b ^^ (b \div 2^Shift[2])
            IN  c ^^ ((c * 2^Shift[3]) % 2^Width)

updates == 2^(N + 2)
peshift == N - NC
npart == 2^peshift
ipart == 2^(N + 2 - NC)
istart(p) == ipart * p
iend(p) == ipart * (p + 1)

\* Where update n goes: word k of PE q.
k_global(n) == INDEX(n) \div 2^(Width - N)
k(n) == k_global(n) % 2^peshift
q(n) == k_global(n) \div 2^peshift

Init == /\ pc = [p \in PE |-> "load"]
        /\ T = T0
        /\ t = [p \in PE |-> [j \in 0..(npart - 1) |-> 0]]
        /\ i = [p \in PE |-> istart(p)]
        /\ a_read = [p \in PE |-> 0]
        /\ sent = [p \in PE |-> << >>]
        /\ Barrier_all!Init

Goto(p, l) == pc' = [pc EXCEPT ![p] = l]

------------------------------------------------------------------------------
\* shmemx_memcpy(t, T + npart * me, nsz)
Load(p) == /\ pc[p] = "load"
           /\ t' = [t EXCEPT ![p] = [j \in 0..(npart - 1) |-> T[npart * p + j]]]
           /\ Goto(p, "first")
           /\ UNCHANGED <<T, i, a_read, sent, entered, left>>

\* shmem_barrier_all, before the updates and behind them.
Enter(p) == /\ \/ pc[p] = "first" /\ Goto(p, "in first")
               \/ pc[p] = "update" /\ i[p] = iend(p) /\ Goto(p, "in last")
            /\ Barrier_all!Enter(p)
            /\ UNCHANGED <<T, t, i, a_read, sent>>

Leave(p) == /\ \/ pc[p] = "in first" /\ Goto(p, "update")
               \/ /\ pc[p] = "in last" /\ Goto(p, "store")
                  /\ \A o \in PE : \A n \in DOMAIN sent[o] : sent[o][n].to # p
            /\ Barrier_all!Leave(p)
            /\ UNCHANGED <<T, t, i, a_read, sent>>

Next_i(p) == i' = [i EXCEPT ![p] = @ + 1]

\* (faulty variant) The atomic operation goes to the PE itself.
AtomicXorOwn(p) ==
  /\ pc[p] = "update" /\ i[p] < iend(p) /\ N <= AtomicUpTo
  /\ t' = [t EXCEPT ![p][k(i[p])] = @ ^^ INDEX(i[p])]
  /\ Next_i(p)
  /\ UNCHANGED <<pc, T, a_read, sent, entered, left>>

\* shmem_uint32_atomic_xor(t + k, a, q)
AtomicXor(p) ==
  /\ pc[p] = "update" /\ i[p] < iend(p) /\ N <= AtomicUpTo
  /\ t' = [t EXCEPT ![q(i[p])][k(i[p])] = @ ^^ INDEX(i[p])]
  /\ Next_i(p)
  /\ UNCHANGED <<pc, T, a_read, sent, entered, left>>

\* *ptk ^= a: the load, which may overtake stores in flight ...
Read(p) == /\ pc[p] = "update" /\ i[p] < iend(p) /\ N > AtomicUpTo
           /\ a_read' = [a_read EXCEPT ![p] = t[q(i[p])][k(i[p])]]
           /\ Goto(p, "write")
           /\ UNCHANGED <<T, t, i, sent, entered, left>>

\* ... and the store, to the PE's own part at once and otherwise posted.
Write(p) == LET v == a_read[p] ^^ INDEX(i[p]) IN
  /\ pc[p] = "write"
  /\ IF q(i[p]) = p THEN t' = [t EXCEPT ![p][k(i[p])] = v] /\ UNCHANGED sent
     ELSE /\ Len(sent[p]) < MaxSent
          /\ sent' = [sent EXCEPT ![p] = Append(@, [to |-> q(i[p]), k |-> k(i[p]), v |-> v])]
          /\ UNCHANGED t
  /\ Next_i(p)
  /\ Goto(p, "update")
  /\ UNCHANGED <<T, a_read, entered, left>>

Land(p) == /\ sent[p] # << >>
           /\ LET s == Head(sent[p]) IN t' = [t EXCEPT ![s.to][s.k] = s.v]
           /\ sent' = [sent EXCEPT ![p] = Tail(@)]
           /\ UNCHANGED <<pc, T, i, a_read, entered, left>>

\* shmemx_memcpy(T + npart * me, t, nsz)
Store(p) == /\ pc[p] = "store"
            /\ T' = [n \in 0..(K - 1) |-> IF n \div npart = p THEN t[p][n % npart] ELSE T[n]]
            /\ Goto(p, "done")
            /\ UNCHANGED <<t, i, a_read, sent, entered, left>>

Step(p) == \/ Load(p) \/ Enter(p) \/ Leave(p) \/ AtomicXor(p)
           \/ Read(p) \/ Write(p) \/ Land(p) \/ Store(p)
Finished == (\A p \in PE : pc[p] = "done") /\ UNCHANGED vars

Next == (\E p \in PE : Step(p)) \/ Finished
Spec == Init /\ [][Next]_vars

\* The host's own table, after n updates.
RandomAccessHost[n \in 0..updates] ==
  IF n = 0 THEN T0
  ELSE [RandomAccessHost[n - 1] EXCEPT ![k_global(n - 1)] = @ ^^ INDEX(n - 1)]

------------------------------------------------------------------------------
(* Properties *)

Done == \A p \in PE : pc[p] = "done"

\* Whatever the order of the updates, the table is in the end the one of the host
\* (c_gups/main.c:125-129), where the updates are atomic: none falls between the load
\* or the store of a part and the barriers, and the parts make up the table.
TableIsHosts == Done /\ N <= AtomicUpTo => T = RandomAccessHost[updates]

\* Where they are not, "the percentage of errors is high" (c_gups/shmem_tfunc.c:71),
\* but an error is an update lost to another one of the same word: the word is made
\* from updates meant for it, of at least one if there are any.
ErrorsAreLostUpdates == Done => \A n \in 0..(K - 1) :
  LET meant == {u \in 0..(updates - 1) : k_global(u) = n}
      xored[S \in SUBSET meant] ==
        IF S = {} THEN T0[n]
        ELSE LET u == CHOOSE u \in S : TRUE IN INDEX(u) ^^ xored[S \ {u}]
  IN  \E S \in SUBSET meant : (meant = {} \/ S # {}) /\ T[n] = xored[S]

==============================================================================

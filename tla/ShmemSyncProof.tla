--------------------------- MODULE ShmemSyncProof ---------------------------
(* Proofs about ShmemSync, for every active set, number of calls and choice   *)
(* of pSync arrays.                                                           *)
EXTENDS ShmemSync, WellFoundedInduction, TLAPS

------------------------------------------------------------------------------
(* The geometry of the active set *)

\* Scaling by the stride preserves sums and order.
LEMMA Scale ==
  \A x, y \in Int : /\ x * Stride \in Int
                    /\ (x + y) * Stride = x * Stride + y * Stride
                    /\ (x - y) * Stride = x * Stride - y * Stride
                    /\ x < y => x * Stride + Stride <= y * Stride
                    /\ x <= y => x * Stride <= y * Stride
                    /\ 0 <= x => 0 <= x * Stride
<1> SUFFICES ASSUME NEW x \in Int, NEW y \in Int
             PROVE  /\ x * Stride \in Int
                    /\ (x + y) * Stride = x * Stride + y * Stride
                    /\ (x - y) * Stride = x * Stride - y * Stride
                    /\ x < y => x * Stride + Stride <= y * Stride
                    /\ x <= y => x * Stride <= y * Stride
                    /\ 0 <= x => 0 <= x * Stride
  OBVIOUS
<1> USE SetAssumption
<1>1. x * Stride \in Int /\ (x + y) * Stride = x * Stride + y * Stride
  OBVIOUS
<1>2. (x - y) * Stride = x * Stride - y * Stride
  OBVIOUS
<1>3. 0 <= x => 0 <= x * Stride
  OBVIOUS
<1>4. x <= y => x * Stride <= y * Stride
  OBVIOUS
<1>5. x < y => x * Stride + Stride <= y * Stride
  OBVIOUS
<1> QED BY <1>1, <1>2, <1>3, <1>4, <1>5

\* A round's distance is a multiple of the stride, shorter than the active set.
LEMMA Rounding ==
  /\ \A k \in 0..Rounds : Pow2[k] \in Nat
  /\ \A k \in Round : /\ k \in 0..Rounds /\ k + 1 \in 0..Rounds
                      /\ Pow2[k] < PE_size
                      /\ Pow2[k + 1] = Pow2[k] + Pow2[k]
  /\ PE_size <= Pow2[Rounds]
  /\ PE_size \in Nat /\ PE_start \in Nat /\ Stride \in Nat /\ Stride > 0
BY SetAssumption, RoundsAssumption DEF Round

\* Members and distances are numbers, and the last distance spans the set.
LEMMA Numbers ==
  /\ PE_size_stride \in Nat
  /\ PE_start \in Nat /\ PE_end = PE_start + PE_size_stride
  /\ \A p \in Member : p \in Nat /\ PE_start <= p /\ p < PE_end
  /\ \A k \in 0..Rounds : Dist(k) \in Nat
  /\ Dist(0) = Stride
  /\ PE_size_stride <= Dist(Rounds)
  /\ \A k \in Round : Dist(k) < PE_size_stride /\ Dist(k + 1) = Dist(k) + Dist(k)
<1> USE SetAssumption, Rounding
<1>1. PE_size_stride \in Nat /\ PE_start \in Nat /\ PE_end = PE_start + PE_size_stride
  BY Scale DEF PE_size_stride, PE_end
<1>2. ASSUME NEW p \in Member PROVE p \in Nat /\ PE_start <= p /\ p < PE_end
  <2>1. PICK m \in 0..(PE_size - 1) : p = PE_start + m * Stride
    BY DEF Member
  <2>2. m * Stride \in Int /\ m * Stride >= 0 /\ m * Stride + Stride <= PE_size * Stride
    BY Scale
  <2> QED BY <1>1, <2>1, <2>2 DEF PE_size_stride
<1>3. \A k \in 0..Rounds : Dist(k) \in Nat
  BY Scale DEF Dist
<1>4. Dist(0) = Stride
  BY RoundsAssumption DEF Dist
<1>5. PE_size_stride <= Dist(Rounds)
  <2>1. Pow2[Rounds] \in Nat
    BY RoundsAssumption
  <2> QED BY <2>1, Scale DEF Dist, PE_size_stride
<1>6. ASSUME NEW k \in Round
      PROVE  Dist(k) < PE_size_stride /\ Dist(k + 1) = Dist(k) + Dist(k)
  <2>1. /\ Pow2[k] \in Int
        /\ Pow2[k] * Stride \in Int
        /\ Pow2[k] * Stride + Stride <= PE_size * Stride
    BY Scale
  <2>2. Pow2[k + 1] * Stride = Pow2[k] * Stride + Pow2[k] * Stride
    BY <2>1, Scale
  <2> QED BY <2>1, <2>2, <1>1 DEF Dist, PE_size_stride
<1> QED BY <1>1, <1>2, <1>3, <1>4, <1>5, <1>6

\* The partner of a member is a member.
LEMMA ToMember == \A p \in Member, k \in Round : To(p, k) \in Member
<1> SUFFICES ASSUME NEW p \in Member, NEW k \in Round PROVE To(p, k) \in Member
  OBVIOUS
<1> USE Rounding
<1>1. PICK m \in 0..(PE_size - 1) : p = PE_start + m * Stride
  BY DEF Member
<1> DEFINE n == m + Pow2[k]
           o == n - PE_size
<1>2. /\ n \in Nat /\ o \in Int
      /\ m * Stride \in Int /\ n * Stride \in Int
      /\ n * Stride = m * Stride + Dist(k)
      /\ o * Stride = n * Stride - PE_size_stride
  BY <1>1, Scale DEF Dist, PE_size_stride
<1>3. CASE n < PE_size
  <2>1. n * Stride + Stride <= PE_size_stride
    BY <1>2, <1>3, Scale DEF PE_size_stride
  <2>2. To(p, k) = PE_start + n * Stride
    BY <1>1, <1>2, <2>1, Numbers DEF To
  <2> QED BY <2>2, <1>2, <1>3 DEF Member
<1>4. CASE ~(n < PE_size)
  <2>1. o \in 0..(PE_size - 1)
    BY <1>1, <1>2, <1>4
  <2>2. n * Stride >= PE_size_stride
    BY <1>2, <1>4, Scale DEF PE_size_stride
  <2>3. To(p, k) = PE_start + o * Stride
    BY <1>1, <1>2, <2>2, Numbers DEF To
  <2> QED BY <2>1, <2>3 DEF Member
<1> QED BY <1>3, <1>4

\* No two members signal the same partner in a round.
LEMMA ToInjective ==
  \A p, q \in Member, k \in Round : To(p, k) = To(q, k) => p = q
<1> SUFFICES ASSUME NEW p \in Member, NEW q \in Member, NEW k \in Round,
                    To(p, k) = To(q, k)
             PROVE  p = q
  OBVIOUS
<1>1. Dist(k) \in Nat /\ Dist(k) < PE_size_stride
  BY Numbers, Rounding
<1> QED BY <1>1, Numbers DEF To

\* Every member has a member that signals it.
LEMMA FromMember == \A j \in Member, k \in Round : \E i \in Member : To(i, k) = j
<1> SUFFICES ASSUME NEW j \in Member, NEW k \in Round
             PROVE  \E i \in Member : To(i, k) = j
  OBVIOUS
<1> USE Rounding
<1>1. PICK m \in 0..(PE_size - 1) : j = PE_start + m * Stride
  BY DEF Member
<1> DEFINE n == m - Pow2[k]
           o == n + PE_size
<1>2. /\ n \in Int /\ o \in Int
      /\ m * Stride \in Int /\ n * Stride \in Int
      /\ m * Stride + Stride <= PE_size_stride
      /\ m * Stride >= 0
      /\ n * Stride = m * Stride - Dist(k)
      /\ o * Stride = n * Stride + PE_size_stride
  BY <1>1, Scale DEF Dist, PE_size_stride
<1>3. CASE n >= 0
  <2>1. PE_start + n * Stride \in Member
    BY SMTT(20), <1>1, <1>2, <1>3 DEF Member
  <2>2. To(PE_start + n * Stride, k) = j
    BY <1>1, <1>2, Numbers DEF To
  <2> QED BY <2>1, <2>2
<1>4. CASE ~(n >= 0)
  <2>1. PE_start + o * Stride \in Member
    BY <1>1, <1>2, <1>4 DEF Member
  <2>2. To(PE_start + o * Stride, k) = j
    BY <1>1, <1>2, Numbers DEF To
  <2> QED BY <2>1, <2>2
<1> QED BY <1>3, <1>4

\* Only p itself is less than one stride behind p.
LEMMA BehindZero == \A p, q \in Member : Behind(q, p) < Dist(0) => q = p
<1> SUFFICES ASSUME NEW p \in Member, NEW q \in Member, Behind(q, p) < Stride
             PROVE  q = p
  BY Numbers
<1> USE Rounding
<1>1. PICK m \in 0..(PE_size - 1) : p = PE_start + m * Stride
  BY DEF Member
<1>2. PICK n \in 0..(PE_size - 1) : q = PE_start + n * Stride
  BY DEF Member
<1>3. CASE n < m
  <2>1. n * Stride \in Int /\ m * Stride \in Int /\ n * Stride + Stride <= m * Stride
    BY <1>3, Scale
  <2> QED BY <1>1, <1>2, <2>1 DEF Behind
<1>4. CASE n > m
  <2>1. /\ n * Stride \in Int /\ m * Stride \in Int
        /\ n * Stride + Stride <= PE_size_stride
        /\ m * Stride + Stride <= n * Stride
        /\ m * Stride >= 0
    BY <1>4, Scale DEF PE_size_stride
  <2> QED BY <1>1, <1>2, <2>1, Numbers DEF Behind
<1> QED BY <1>1, <1>2, <1>3, <1>4

\* Whoever is r to 2r behind j is less than r behind the PE that signals j.
LEMMA BehindStep ==
  \A i, q \in Member, k \in Round :
    /\ Behind(q, To(i, k)) >= Dist(k)
    /\ Behind(q, To(i, k)) < Dist(k) + Dist(k)
    => Behind(q, i) < Dist(k)
<1> SUFFICES ASSUME NEW i \in Member, NEW q \in Member, NEW k \in Round,
                    Behind(q, To(i, k)) >= Dist(k),
                    Behind(q, To(i, k)) < Dist(k) + Dist(k)
             PROVE  Behind(q, i) < Dist(k)
  OBVIOUS
<1>1. Dist(k) \in Nat /\ Dist(k) < PE_size_stride
  BY Numbers, Rounding
<1> QED BY <1>1, Numbers DEF To, Behind

\* Everybody is less than the last distance behind everybody.
LEMMA BehindAll == \A p, q \in Member : Behind(q, p) < Dist(Rounds)
<1>1. Dist(Rounds) \in Nat
  BY Numbers, RoundsAssumption
<1> QED BY <1>1, Numbers DEF Behind
------------------------------------------------------------------------------
(* Type correctness, with the control facts it needs *)

FlagType == [Arrays -> [Member -> [Round -> 0..MaxCalls]]]

\* Writing one flag word changes that word and nothing else.
LEMMA FlagWrite ==
  ASSUME flag \in FlagType,
         NEW a \in Arrays, NEW p \in Member, NEW k \in Round, NEW n \in 0..MaxCalls,
         flag' = [flag EXCEPT ![a][p][k] = n]
  PROVE  /\ flag' \in FlagType
         /\ \A b \in Arrays, q \in Member, l \in Round :
              flag'[b][q][l] = IF b = a /\ q = p /\ l = k THEN n ELSE flag[b][q][l]
<1> DEFINE row == [flag[a][p] EXCEPT ![k] = n]
           plane == [flag[a] EXCEPT ![p] = row]
<1>1. /\ row \in [Round -> 0..MaxCalls]
      /\ \A l \in Round : row[l] = IF l = k THEN n ELSE flag[a][p][l]
  BY DEF FlagType
<1>2. /\ plane \in [Member -> [Round -> 0..MaxCalls]]
      /\ \A q \in Member : plane[q] = IF q = p THEN row ELSE flag[a][q]
  <2> HIDE DEF row
  <2> QED BY <1>1 DEF FlagType
<1>3. flag' = [flag EXCEPT ![a] = plane]
  OBVIOUS
<1>4. /\ flag' \in FlagType
      /\ \A b \in Arrays : flag'[b] = IF b = a THEN plane ELSE flag[b]
  <2> HIDE DEF plane
  <2> QED BY <1>2, <1>3 DEF FlagType
<1> HIDE DEF row, plane
<1> QED BY <1>1, <1>2, <1>4

LEMMA InitTypeControl == Init => TypeOK /\ ControlOK
BY CallsAssumption, RoundsAssumption DEF Init, TypeOK, ControlOK, SYNC_VALUE, Round

LEMMA NextTypeControl == TypeOK /\ ControlOK /\ [Next]_vars => TypeOK' /\ ControlOK'
<1> SUFFICES ASSUME TypeOK, ControlOK, [Next]_vars PROVE TypeOK' /\ ControlOK'
  OBVIOUS
<1> USE CallsAssumption, RoundsAssumption
<1>1. ASSUME NEW p \in Member, Enter(p) PROVE TypeOK' /\ ControlOK'
  BY <1>1 DEF Enter, TypeOK, ControlOK
<1>2. ASSUME NEW p \in Member, Signal(p) PROVE TypeOK' /\ ControlOK'
  <2>1. calls[p] \in 1..MaxCalls /\ c[p] \in Round
    BY <1>2 DEF Signal, TypeOK, ControlOK, Round
  <2>2. posted' \in [Member -> [Round -> SUBSET (1..MaxCalls)]]
    <3>1. [posted[p] EXCEPT ![c[p]] = @ \cup {calls[p]}] \in [Round -> SUBSET (1..MaxCalls)]
      BY <2>1 DEF TypeOK
    <3> QED BY <3>1, <1>2 DEF Signal, TypeOK
  <2>3. pc' \in [Member -> {"out", "loop", "wait", "clear"}]
    BY <1>2 DEF Signal, TypeOK
  <2>4. ControlOK'
    BY <1>2 DEF Signal, ControlOK, TypeOK
  <2> QED BY <2>2, <2>3, <2>4, <1>2 DEF Signal, TypeOK
<1>3. ASSUME NEW p \in Member, TestsetSignal(p) PROVE TypeOK' /\ ControlOK'
  <2>1. flag' \in FlagType
    <3>0. calls[p] \in 1..MaxCalls /\ c[p] \in Round
      BY <1>3 DEF TestsetSignal, TypeOK, ControlOK, Round
    <3>1. /\ ArrayOf[calls[p]] \in Arrays /\ To(p, c[p]) \in Member
          /\ c[p] \in Round /\ calls[p] \in 0..MaxCalls
      BY <3>0, ToMember
    <3>2. flag' = [flag EXCEPT ![ArrayOf[calls[p]]][To(p, c[p])][c[p]] = calls[p]]
      BY <1>3 DEF TestsetSignal
    <3> QED BY <3>1, <3>2, FlagWrite DEF TypeOK, FlagType
  <2>2. ControlOK'
    BY <1>3 DEF TestsetSignal, ControlOK, TypeOK
  <2> QED BY <2>1, <2>2, <1>3 DEF TestsetSignal, TypeOK, FlagType
<1>4. ASSUME NEW p \in Member, NEW k \in Round, Land(p, k) PROVE TypeOK' /\ ControlOK'
  <2>1. PICK n \in posted[p][k] :
               /\ flag' = [flag EXCEPT ![ArrayOf[n]][To(p, k)][k] = n]
               /\ posted' = [posted EXCEPT ![p][k] = @ \ {n}]
               /\ UNCHANGED <<calls, pc, c>>
    BY <1>4 DEF Land
  <2>2. n \in 0..MaxCalls
    BY DEF TypeOK
  <2>3. flag' \in FlagType
    <3>1. ArrayOf[n] \in Arrays /\ To(p, k) \in Member
      BY ToMember DEF TypeOK
    <3> QED BY <2>1, <2>2, <3>1, FlagWrite DEF TypeOK, FlagType
  <2>4. posted' \in [Member -> [Round -> SUBSET (1..MaxCalls)]]
    BY <2>1 DEF TypeOK
  <2> QED BY <2>1, <2>3, <2>4 DEF TypeOK, ControlOK, FlagType
<1>5. ASSUME NEW p \in Member, Wait(p) PROVE TypeOK' /\ ControlOK'
  BY <1>5 DEF Wait, TypeOK, ControlOK
<1>6. ASSUME NEW p \in Member, Clear(p) PROVE TypeOK' /\ ControlOK'
  <2>1. flag' \in FlagType
    <3>1. calls[p] \in 1..MaxCalls /\ c[p] \in Round
      BY <1>6 DEF Clear, TypeOK, ControlOK, Round
    <3>2. ArrayOf[calls[p]] \in Arrays /\ 0 \in 0..MaxCalls
      BY <3>1
    <3>3. flag' = [flag EXCEPT ![ArrayOf[calls[p]]][p][c[p]] = 0]
      BY <1>6 DEF Clear, SYNC_VALUE
    <3> QED BY <3>1, <3>2, <3>3, FlagWrite DEF TypeOK, FlagType
  <2>2. c[p] \in 0..(Rounds - 1) /\ c' \in [Member -> 0..Rounds]
    BY <1>6 DEF Clear, TypeOK, ControlOK
  <2>3. ControlOK'
    BY <1>6 DEF Clear, ControlOK, TypeOK
  <2> QED BY <2>1, <2>2, <2>3, <1>6 DEF Clear, TypeOK, FlagType
<1>7. ASSUME NEW p \in Member, Leave(p) PROVE TypeOK' /\ ControlOK'
  BY <1>7 DEF Leave, TypeOK, ControlOK
<1>8. CASE UNCHANGED vars
  BY <1>8 DEF vars, TypeOK, ControlOK
<1> QED BY <1>1, <1>2, <1>3, <1>4, <1>5, <1>6, <1>7, <1>8 DEF Next, Step, Finished

\* Every variable keeps its type: a call number never exceeds the number of
\* calls, a round never exceeds the number of rounds, and only flags of the
\* active set's members are written (shmem_sync.c:52-71).
THEOREM TypeCorrect == Spec => []TypeOK
BY InitTypeControl, NextTypeControl, PTL DEF Spec
------------------------------------------------------------------------------
(* The inductive invariant *)

\* The facts about signals, which speak of flags, signals in flight and the
\* counts Sent and Consumed only.
SignalInv == TestsetOK /\ InOrder /\ PostedFresh /\ FlagFresh /\ ConsumedWasSent

LEMMA InitIInv == Init => IInv
<1> SUFFICES ASSUME Init PROVE IInv
  OBVIOUS
<1> USE CallsAssumption, RoundsAssumption
<1>1. TypeOK /\ ControlOK
  BY InitTypeControl
<1>2. SignalInv
  <2>1. \A p \in Member, k \in Round : posted[p][k] = {}
    BY DEF Init
  <2>2. \A p \in Member, k \in Round, a \in Arrays : flag[a][To(p, k)][k] = SYNC_VALUE
    BY ToMember DEF Init
  <2>3. \A p \in Member, k \in Round : Sent(p, k) = 0 /\ Consumed(p, k) = 0
    BY DEF Init, Sent, Consumed, Round
  <2> QED BY <2>1, <2>2, <2>3, ToMember
          DEF SignalInv, TestsetOK, InOrder, PostedFresh, FlagFresh, ConsumedWasSent
<1>3. SeenStaysSet /\ Dissemination /\ Skew
  BY DEF Init, SeenStaysSet, Dissemination, Skew
<1> QED BY <1>1, <1>2, <1>3 DEF IInv, SignalInv

\* A PE inside the routine is in a call and, while it signals or waits, in a round.
LEMMA InCall ==
  ASSUME IInv, NEW q \in Member
  PROVE  /\ pc[q] # "out" => calls[q] \in 1..MaxCalls /\ ArrayOf[calls[q]] \in Arrays
         /\ pc[q] \in {"wait", "clear"} => c[q] \in Round
<1>1. Rounds \in Nat /\ MaxCalls \in Nat
  BY RoundsAssumption, CallsAssumption
<1>2. pc[q] # "out" => calls[q] \in 1..MaxCalls
  BY <1>1 DEF IInv, TypeOK, ControlOK
<1>3. pc[q] \in {"wait", "clear"} => c[q] \in Round
  BY <1>1 DEF IInv, TypeOK, ControlOK, Round
<1> QED BY <1>2, <1>3, CallsAssumption

\* A call that starts knows from the previous one that everybody entered that.
LEMMA EnterIInv ==
  ASSUME IInv, TypeOK', ControlOK', NEW p \in Member, Enter(p)
  PROVE  IInv'
<1>1. /\ \A q \in Member : /\ calls'[q] = IF q = p THEN calls[p] + 1 ELSE calls[q]
                           /\ pc'[q] = IF q = p THEN "loop" ELSE pc[q]
                           /\ c'[q] = IF q = p THEN 0 ELSE c[q]
                           /\ calls[q] \in Nat /\ c[q] \in 0..Rounds
      /\ pc[p] = "out" /\ c[p] = Rounds
      /\ flag' = flag /\ posted' = posted
      /\ Rounds \in Nat
  BY RoundsAssumption DEF Enter, IInv, TypeOK, ControlOK
<1>2. \A q \in Member, k \in Round : Sent(q, k)' = Sent(q, k) /\ Consumed(q, k)' = Consumed(q, k)
  <2> SUFFICES ASSUME NEW q \in Member, NEW k \in Round
               PROVE  Sent(q, k)' = Sent(q, k) /\ Consumed(q, k)' = Consumed(q, k)
    OBVIOUS
  <2>0. k >= 0 /\ k < Rounds /\ k \in Int
    BY <1>1 DEF Round
  <2>1. CASE q = p
    <3>1. Sent(q, k) = calls[p] /\ Consumed(q, k) = calls[p]
      BY <1>1, <2>0, <2>1 DEF Sent, Consumed
    <3>2. Sent(q, k)' = (calls[p] + 1) - 1 /\ Consumed(q, k)' = (calls[p] + 1) - 1
      BY <1>1, <2>0, <2>1 DEF Sent, Consumed
    <3> QED BY <3>1, <3>2, <1>1
  <2>2. CASE q # p
    BY <1>1, <2>2 DEF Sent, Consumed
  <2> QED BY <2>1, <2>2
<1>3. SignalInv'
  BY <1>1, <1>2, ToMember
     DEF IInv, SignalInv, TestsetOK, InOrder, PostedFresh, FlagFresh, ConsumedWasSent
<1>4. SeenStaysSet'
  BY <1>1 DEF IInv, SeenStaysSet
<1>5. Skew'
  <2>1. \A q \in Member : calls[q] >= calls[p]
    BY <1>1, BehindAll DEF IInv, Dissemination
  <2> SUFFICES ASSUME NEW q \in Member, NEW s \in Member
               PROVE  calls'[q] >= calls'[s] - 1
    BY DEF Skew
  <2>2. calls[q] >= calls[s] - 1
    BY DEF IInv, Skew
  <2>3. CASE s = p
    BY <1>1, <2>1, <2>3
  <2>4. CASE s # p
    BY <1>1, <2>2, <2>4
  <2> QED BY <2>3, <2>4
<1>6. Dissemination'
  <2> SUFFICES ASSUME NEW q \in Member, NEW s \in Member, NEW d \in 0..c'[q],
                      Behind(s, q) < Dist(d)
               PROVE  calls'[s] >= calls'[q]
    BY DEF Dissemination, Behind, Dist
  <2>1. CASE q = p
    BY <1>1, <2>1, BehindZero
  <2>2. CASE q # p
    BY <1>1, <2>2 DEF IInv, Dissemination
  <2> QED BY <2>1, <2>2
<1> QED BY <1>3, <1>4, <1>5, <1>6 DEF IInv, SignalInv

\* The signal of a round carries the number of the sender's call, which is one
\* more than the last one it sent in that round.
LEMMA SignalIInv ==
  ASSUME IInv, TypeOK', ControlOK', NEW p \in Member, Signal(p)
  PROVE  IInv'
<1> DEFINE k0 == c[p]
<1>1. /\ \A q \in Member : /\ pc'[q] = IF q = p THEN "wait" ELSE pc[q]
                           /\ calls[q] \in Nat /\ c[q] \in 0..Rounds
      /\ k0 \in Round /\ pc[p] = "loop" /\ ~Testset
      /\ calls' = calls /\ c' = c /\ flag' = flag
  BY RoundsAssumption DEF Signal, IInv, TypeOK, ControlOK, Round
<1>2. \A q \in Member, k \in Round :
        posted'[q][k] = IF q = p /\ k = k0 THEN posted[q][k] \cup {calls[p]} ELSE posted[q][k]
  BY ZenonT(30), <1>1 DEF Signal, IInv, TypeOK
<1>3. \A q \in Member, k \in Round :
        /\ Consumed(q, k)' = Consumed(q, k)
        /\ Sent(q, k)' = IF q = p /\ k = k0 THEN calls[p] ELSE Sent(q, k)
        /\ Consumed(q, k) \in Int /\ Sent(q, k) \in Int
  <2> SUFFICES ASSUME NEW q \in Member, NEW k \in Round
               PROVE  /\ Consumed(q, k)' = Consumed(q, k)
                      /\ Sent(q, k)' = IF q = p /\ k = k0 THEN calls[p] ELSE Sent(q, k)
                      /\ Consumed(q, k) \in Int /\ Sent(q, k) \in Int
    OBVIOUS
  <2>1. Consumed(q, k)' = Consumed(q, k)
    BY <1>1 DEF Consumed
  <2>2. Consumed(q, k) \in Int /\ Sent(q, k) \in Int
    BY <1>1 DEF Sent, Consumed
  <2>3. Sent(q, k)' = IF q = p /\ k = k0 THEN calls[p] ELSE Sent(q, k)
    BY <1>1 DEF Sent
  <2> QED BY <2>1, <2>2, <2>3
<1>4. Sent(p, k0) = calls[p] - 1
  BY <1>1 DEF Sent
<1>5. TestsetOK'
  BY <1>1 DEF TestsetOK, Testset
<1>6. \A q \in Member, k \in Round : \A n \in posted[q][k] : n \in Nat
  BY DEF IInv, TypeOK
<1>7. \A a \in Arrays, q \in Member, k \in Round : flag[a][q][k] \in Nat
  BY DEF IInv, TypeOK
<1>8. InOrder'
  <2> SUFFICES ASSUME NEW q \in Member, NEW k \in Round, NEW a \in Arrays,
                      NEW n \in posted'[q][k]
               PROVE  flag[a][To(q, k)][k] < n
    BY <1>1 DEF InOrder, To, Dist
  <2>1. CASE n \in posted[q][k]
    BY <2>1 DEF IInv, InOrder
  <2>2. CASE q = p /\ k = k0 /\ n = calls[p]
    <3>1. flag[a][To(p, k0)][k0] # 0 => flag[a][To(p, k0)][k0] <= calls[p] - 1
      BY <1>1, <1>4 DEF IInv, FlagFresh, SYNC_VALUE
    <3>2. calls[p] \in Nat /\ calls[p] >= 1
      BY <1>1 DEF IInv, ControlOK
    <3> QED BY <2>2, <3>1, <3>2, <1>7, ToMember
  <2> QED BY <1>2, <2>1, <2>2
<1>9. PostedFresh'
  <2> SUFFICES ASSUME NEW q \in Member, NEW k \in Round, NEW n \in posted'[q][k]
               PROVE  Consumed(To(q, k), k) < n /\ n <= Sent(q, k)'
    BY <1>3, ToMember DEF PostedFresh, To, Dist
  <2>1. CASE n \in posted[q][k]
    <3>1. Consumed(To(q, k), k) < n /\ n <= Sent(q, k) /\ n \in Nat
      BY <2>1, <1>6 DEF IInv, PostedFresh
    <3> QED BY <3>1, <1>1, <1>3, <1>4
  <2>2. CASE q = p /\ k = k0 /\ n = calls[p]
    <3>1. Consumed(To(p, k0), k0) <= calls[p] - 1
      BY <1>1, <1>4 DEF IInv, ConsumedWasSent
    <3>2. Consumed(To(p, k0), k0) \in Int /\ calls[p] \in Nat
      BY <1>1, <1>3, ToMember
    <3> QED BY <2>2, <3>1, <3>2, <1>3
  <2> QED BY <1>2, <2>1, <2>2
<1>10. FlagFresh'
  <2> SUFFICES ASSUME NEW q \in Member, NEW k \in Round, NEW a \in Arrays,
                      flag[a][To(q, k)][k] # SYNC_VALUE
               PROVE  /\ Consumed(To(q, k), k) < flag[a][To(q, k)][k]
                      /\ flag[a][To(q, k)][k] <= Sent(q, k)'
                      /\ ArrayOf[flag[a][To(q, k)][k]] = a
    BY <1>1, <1>3, ToMember DEF FlagFresh, To, Dist, SYNC_VALUE
  <2>1. /\ Consumed(To(q, k), k) < flag[a][To(q, k)][k]
        /\ flag[a][To(q, k)][k] <= Sent(q, k)
        /\ ArrayOf[flag[a][To(q, k)][k]] = a
    BY DEF IInv, FlagFresh
  <2>2. flag[a][To(q, k)][k] \in Nat
    BY <1>7, ToMember
  <2>3. flag[a][To(q, k)][k] <= Sent(q, k)'
    BY <2>1, <2>2, <1>1, <1>3, <1>4
  <2> QED BY <2>1, <2>3
<1>11. ConsumedWasSent'
  <2> SUFFICES ASSUME NEW q \in Member, NEW k \in Round
               PROVE  Consumed(To(q, k), k) <= Sent(q, k)'
    BY <1>3, ToMember DEF ConsumedWasSent, To, Dist
  <2>1. Consumed(To(q, k), k) <= Sent(q, k) /\ Consumed(To(q, k), k) \in Int
    BY <1>3, ToMember DEF IInv, ConsumedWasSent
  <2> QED BY <2>1, <1>1, <1>3, <1>4
<1>12. SeenStaysSet' /\ Dissemination' /\ Skew'
  BY <1>1 DEF IInv, SeenStaysSet, Dissemination, Skew
<1> QED BY <1>5, <1>8, <1>9, <1>10, <1>11, <1>12 DEF IInv

\* A signal that lands replaces at most an older one of the same sender.
LEMMA LandIInv ==
  ASSUME IInv, TypeOK', ControlOK', NEW p \in Member, NEW k0 \in Round, Land(p, k0)
  PROVE  IInv'
<1>1. PICK m \in posted[p][k0] :
        /\ \A n \in posted[p][k0] : m <= n
        /\ flag' = [flag EXCEPT ![ArrayOf[m]][To(p, k0)][k0] = m]
        /\ posted' = [posted EXCEPT ![p][k0] = @ \ {m}]
        /\ UNCHANGED <<calls, pc, c>>
  BY DEF Land
<1> DEFINE a0 == ArrayOf[m]
<1>2. /\ m \in 1..MaxCalls /\ m \in 0..MaxCalls /\ m \in Nat /\ m # 0
      /\ a0 \in Arrays /\ To(p, k0) \in Member
  BY <1>1, CallsAssumption, ToMember DEF IInv, TypeOK
<1>3. \A a \in Arrays, q \in Member, k \in Round :
        flag'[a][q][k] = IF a = a0 /\ q = To(p, k0) /\ k = k0 THEN m ELSE flag[a][q][k]
  BY <1>1, <1>2, FlagWrite DEF IInv, TypeOK, FlagType
<1>4. \A a \in Arrays, q \in Member, k \in Round :
        flag'[a][To(q, k)][k] = IF a = a0 /\ q = p /\ k = k0 THEN m ELSE flag[a][To(q, k)][k]
  BY <1>3, ToMember, ToInjective
<1>5. \A q \in Member, k \in Round :
        posted'[q][k] = IF q = p /\ k = k0 THEN posted[q][k] \ {m} ELSE posted[q][k]
  BY <1>1 DEF IInv, TypeOK
<1>6. \A q \in Member, k \in Round :
        Consumed(q, k)' = Consumed(q, k) /\ Sent(q, k)' = Sent(q, k)
  BY <1>1 DEF Sent, Consumed
<1>7. \A q \in Member, k \in Round : \A n \in posted[q][k] : n \in Nat
  BY DEF IInv, TypeOK
<1>8. TestsetOK'
  BY <1>5 DEF IInv, TestsetOK, Testset
<1>9. InOrder'
  <2> SUFFICES ASSUME NEW q \in Member, NEW k \in Round, NEW a \in Arrays,
                      NEW n \in posted'[q][k]
               PROVE  flag'[a][To(q, k)][k] < n
    BY DEF InOrder, To, Dist
  <2>1. n \in posted[q][k] /\ n \in Nat
    BY <1>5, <1>7
  <2>2. flag[a][To(q, k)][k] < n
    BY <2>1 DEF IInv, InOrder
  <2>3. CASE a = a0 /\ q = p /\ k = k0
    <3>1. m <= n /\ n # m
      BY <1>1, <1>5, <2>1, <2>3
    <3> QED BY <3>1, <2>1, <2>3, <1>2, <1>4
  <2> QED BY <2>2, <2>3, <1>4
<1>10. PostedFresh'
  BY ZenonT(30), <1>5, <1>6, ToMember DEF IInv, PostedFresh, To, Dist
<1>11. FlagFresh'
  <2> SUFFICES ASSUME NEW q \in Member, NEW k \in Round, NEW a \in Arrays,
                      flag'[a][To(q, k)][k] # SYNC_VALUE
               PROVE  /\ Consumed(To(q, k), k) < flag'[a][To(q, k)][k]
                      /\ flag'[a][To(q, k)][k] <= Sent(q, k)
                      /\ ArrayOf[flag'[a][To(q, k)][k]] = a
    BY <1>6, ToMember DEF FlagFresh, To, Dist, SYNC_VALUE
  <2>1. CASE a = a0 /\ q = p /\ k = k0
    BY <2>1, <1>4 DEF IInv, PostedFresh
  <2>2. CASE ~(a = a0 /\ q = p /\ k = k0)
    <3>1. flag'[a][To(q, k)][k] = flag[a][To(q, k)][k]
      BY <2>2, <1>4
    <3> QED BY <3>1 DEF IInv, FlagFresh
  <2> QED BY <2>1, <2>2
<1>12. ConsumedWasSent'
  BY <1>6, ToMember DEF IInv, ConsumedWasSent, To, Dist
<1>13. SeenStaysSet'
  <2> SUFFICES ASSUME NEW q \in Member, pc[q] = "clear"
               PROVE  flag'[ArrayOf[calls[q]]][q][c[q]] # SYNC_VALUE
    BY <1>1 DEF SeenStaysSet, SYNC_VALUE
  <2>1. c[q] \in Round /\ calls[q] \in 1..MaxCalls /\ ArrayOf[calls[q]] \in Arrays
    BY InCall
  <2>3. flag[ArrayOf[calls[q]]][q][c[q]] # SYNC_VALUE
    BY DEF IInv, SeenStaysSet
  <2> QED BY <2>1, <2>3, <1>2, <1>3 DEF SYNC_VALUE
<1>14. Dissemination' /\ Skew'
  BY <1>1 DEF IInv, Dissemination, Skew
<1> QED BY <1>8, <1>9, <1>10, <1>11, <1>12, <1>13, <1>14 DEF IInv

\* The testset signal finds the flag clear and sets it in one step.
LEMMA TestsetIInv ==
  ASSUME IInv, TypeOK', ControlOK', NEW p \in Member, TestsetSignal(p)
  PROVE  IInv'
<1> DEFINE k0 == c[p]
           a0 == ArrayOf[calls[p]]
<1>1. /\ \A q \in Member : /\ pc'[q] = IF q = p THEN "wait" ELSE pc[q]
                           /\ calls[q] \in Nat /\ c[q] \in 0..Rounds
      /\ k0 \in Round /\ pc[p] = "loop" /\ Testset
      /\ calls[p] \in 1..MaxCalls /\ calls[p] \in 0..MaxCalls
      /\ calls' = calls /\ c' = c /\ posted' = posted
  BY RoundsAssumption DEF TestsetSignal, IInv, TypeOK, ControlOK, Round
<1>2. a0 \in Arrays /\ To(p, k0) \in Member
  BY <1>1, CallsAssumption, ToMember
<1>3. flag' = [flag EXCEPT ![a0][To(p, k0)][k0] = calls[p]]
  BY DEF TestsetSignal
<1>4. \A a \in Arrays, q \in Member, k \in Round :
        flag'[a][q][k] = IF a = a0 /\ q = To(p, k0) /\ k = k0 THEN calls[p] ELSE flag[a][q][k]
  BY <1>1, <1>2, <1>3, FlagWrite DEF IInv, TypeOK, FlagType
<1>5. \A a \in Arrays, q \in Member, k \in Round :
        flag'[a][To(q, k)][k] = IF a = a0 /\ q = p /\ k = k0
                                THEN calls[p] ELSE flag[a][To(q, k)][k]
  BY <1>1, <1>4, ToMember, ToInjective
<1>6. \A q \in Member, k \in Round :
        /\ Consumed(q, k)' = Consumed(q, k)
        /\ Sent(q, k)' = IF q = p /\ k = k0 THEN calls[p] ELSE Sent(q, k)
        /\ Consumed(q, k) \in Int /\ Sent(q, k) \in Int
  <2> SUFFICES ASSUME NEW q \in Member, NEW k \in Round
               PROVE  /\ Consumed(q, k)' = Consumed(q, k)
                      /\ Sent(q, k)' = IF q = p /\ k = k0 THEN calls[p] ELSE Sent(q, k)
                      /\ Consumed(q, k) \in Int /\ Sent(q, k) \in Int
    OBVIOUS
  <2>1. Consumed(q, k)' = Consumed(q, k)
    BY <1>1 DEF Consumed
  <2>2. Consumed(q, k) \in Int /\ Sent(q, k) \in Int
    BY <1>1 DEF Sent, Consumed
  <2>3. Sent(q, k)' = IF q = p /\ k = k0 THEN calls[p] ELSE Sent(q, k)
    BY <1>1 DEF Sent
  <2> QED BY <2>1, <2>2, <2>3
<1>7. Sent(p, k0) = calls[p] - 1
  BY <1>1 DEF Sent
<1>8. \A q \in Member, k \in Round : posted[q][k] = {} /\ posted'[q][k] = {}
  BY <1>1 DEF IInv, TestsetOK
<1>9. TestsetOK' /\ InOrder' /\ PostedFresh'
  BY <1>8 DEF TestsetOK, InOrder, PostedFresh
<1>10. Consumed(To(p, k0), k0) < calls[p]
  <2>1. Consumed(To(p, k0), k0) <= calls[p] - 1 /\ Consumed(To(p, k0), k0) \in Int
    BY <1>1, <1>2, <1>6, <1>7 DEF IInv, ConsumedWasSent
  <2> QED BY <2>1, <1>1
<1>11. FlagFresh'
  <2> SUFFICES ASSUME NEW q \in Member, NEW k \in Round, NEW a \in Arrays,
                      flag'[a][To(q, k)][k] # SYNC_VALUE
               PROVE  /\ Consumed(To(q, k), k) < flag'[a][To(q, k)][k]
                      /\ flag'[a][To(q, k)][k] <= Sent(q, k)'
                      /\ ArrayOf[flag'[a][To(q, k)][k]] = a
    BY <1>6, ToMember DEF FlagFresh, To, Dist, SYNC_VALUE
  <2>1. CASE a = a0 /\ q = p /\ k = k0
    BY <2>1, <1>1, <1>5, <1>6, <1>10
  <2>2. CASE ~(a = a0 /\ q = p /\ k = k0)
    <3>1. flag'[a][To(q, k)][k] = flag[a][To(q, k)][k]
      BY <2>2, <1>5
    <3>2. /\ Consumed(To(q, k), k) < flag[a][To(q, k)][k]
          /\ flag[a][To(q, k)][k] <= Sent(q, k)
          /\ ArrayOf[flag[a][To(q, k)][k]] = a
      BY <3>1 DEF IInv, FlagFresh
    <3>3. flag[a][To(q, k)][k] \in Nat
      BY ToMember DEF IInv, TypeOK
    <3>4. flag[a][To(q, k)][k] <= Sent(q, k)'
      BY <3>2, <3>3, <1>1, <1>6, <1>7
    <3> QED BY <3>1, <3>2, <3>4
  <2> QED BY <2>1, <2>2
<1>12. ConsumedWasSent'
  <2> SUFFICES ASSUME NEW q \in Member, NEW k \in Round
               PROVE  Consumed(To(q, k), k) <= Sent(q, k)'
    BY <1>6, ToMember DEF ConsumedWasSent, To, Dist
  <2>1. Consumed(To(q, k), k) <= Sent(q, k) /\ Consumed(To(q, k), k) \in Int
    BY <1>6, ToMember DEF IInv, ConsumedWasSent
  <2> QED BY <2>1, <1>1, <1>6, <1>7
<1>13. SeenStaysSet'
  <2> SUFFICES ASSUME NEW q \in Member, pc[q] = "clear"
               PROVE  flag'[ArrayOf[calls[q]]][q][c[q]] # SYNC_VALUE
    BY <1>1 DEF SeenStaysSet, SYNC_VALUE
  <2>1. c[q] \in Round /\ calls[q] \in 1..MaxCalls /\ ArrayOf[calls[q]] \in Arrays
    BY InCall
  <2>3. flag[ArrayOf[calls[q]]][q][c[q]] # SYNC_VALUE
    BY DEF IInv, SeenStaysSet
  <2> QED BY <2>1, <2>3, <1>1, <1>4 DEF SYNC_VALUE
<1>14. Dissemination' /\ Skew'
  BY <1>1 DEF IInv, Dissemination, Skew
<1> QED BY <1>9, <1>11, <1>12, <1>13, <1>14 DEF IInv

\* Reading the flag changes nothing that the invariant counts.
LEMMA WaitIInv ==
  ASSUME IInv, TypeOK', ControlOK', NEW p \in Member, Wait(p)
  PROVE  IInv'
<1>1. /\ \A q \in Member : /\ pc'[q] = IF q = p THEN "clear" ELSE pc[q]
                           /\ calls[q] \in Nat /\ c[q] \in 0..Rounds
      /\ pc[p] = "wait"
      /\ flag[ArrayOf[calls[p]]][p][c[p]] # SYNC_VALUE
      /\ calls' = calls /\ c' = c /\ flag' = flag /\ posted' = posted
  BY DEF Wait, IInv, TypeOK
<1>2. \A q \in Member, k \in Round :
        Consumed(q, k)' = Consumed(q, k) /\ Sent(q, k)' = Sent(q, k)
  BY <1>1 DEF Sent, Consumed
<1>3. SignalInv'
  BY <1>1, <1>2, ToMember
     DEF IInv, SignalInv, TestsetOK, InOrder, PostedFresh, FlagFresh, ConsumedWasSent
<1>4. SeenStaysSet' /\ Dissemination' /\ Skew'
  BY <1>1 DEF IInv, SeenStaysSet, Dissemination, Skew
<1> QED BY <1>3, <1>4 DEF IInv, SignalInv

\* Returning from the routine changes nothing that the invariant counts.
LEMMA LeaveIInv ==
  ASSUME IInv, TypeOK', ControlOK', NEW p \in Member, Leave(p)
  PROVE  IInv'
<1>1. /\ \A q \in Member : /\ pc'[q] = IF q = p THEN "out" ELSE pc[q]
                           /\ calls[q] \in Nat /\ c[q] \in 0..Rounds
      /\ pc[p] = "loop"
      /\ calls' = calls /\ c' = c /\ flag' = flag /\ posted' = posted
  BY DEF Leave, IInv, TypeOK
<1>2. \A q \in Member, k \in Round :
        Consumed(q, k)' = Consumed(q, k) /\ Sent(q, k)' = Sent(q, k)
  BY <1>1 DEF Sent, Consumed
<1>3. SignalInv'
  BY <1>1, <1>2, ToMember
     DEF IInv, SignalInv, TestsetOK, InOrder, PostedFresh, FlagFresh, ConsumedWasSent
<1>4. SeenStaysSet' /\ Dissemination' /\ Skew'
  BY <1>1 DEF IInv, SeenStaysSet, Dissemination, Skew
<1> QED BY <1>3, <1>4 DEF IInv, SignalInv

\* A PE that finishes round k0 has seen a signal that its partner sent in this
\* call or a later one, so it inherits what the partner knew.
LEMMA ClearIInv ==
  ASSUME IInv, TypeOK', ControlOK', NEW p \in Member, Clear(p)
  PROVE  IInv'
<1> DEFINE k0 == c[p]
           a0 == ArrayOf[calls[p]]
<1>1. /\ k0 \in Round /\ calls[p] \in 1..MaxCalls /\ a0 \in Arrays
      /\ pc[p] = "clear" /\ calls' = calls /\ posted' = posted
      /\ Rounds \in Nat /\ MaxCalls \in Nat
  BY InCall, RoundsAssumption, CallsAssumption DEF Clear
<1>2. \A q \in Member : /\ pc'[q] = IF q = p THEN "loop" ELSE pc[q]
                        /\ c'[q] = IF q = p THEN k0 + 1 ELSE c[q]
                        /\ calls[q] \in Nat /\ c[q] \in 0..Rounds /\ c[q] \in Nat
  BY <1>1 DEF Clear, IInv, TypeOK
<1>3. \A a \in Arrays, q \in Member, k \in Round :
        flag'[a][q][k] = IF a = a0 /\ q = p /\ k = k0 THEN 0 ELSE flag[a][q][k]
  <2>1. flag' = [flag EXCEPT ![a0][p][k0] = 0]
    BY DEF Clear, SYNC_VALUE
  <2>2. 0 \in 0..MaxCalls
    BY <1>1
  <2> QED BY <2>1, <2>2, <1>1, FlagWrite DEF IInv, TypeOK, FlagType
<1>4. \A k \in Round : k \in Nat /\ k < Rounds
  BY <1>1 DEF Round
<1>5. \A q \in Member, k \in Round :
        /\ Sent(q, k)' = Sent(q, k)
        /\ Consumed(q, k)' = IF q = p /\ k = k0 THEN calls[p] ELSE Consumed(q, k)
        /\ Consumed(q, k) \in Int /\ Sent(q, k) \in Int
  <2> SUFFICES ASSUME NEW q \in Member, NEW k \in Round
               PROVE  /\ Sent(q, k)' = Sent(q, k)
                      /\ Consumed(q, k)' = IF q = p /\ k = k0 THEN calls[p] ELSE Consumed(q, k)
                      /\ Consumed(q, k) \in Int /\ Sent(q, k) \in Int
    OBVIOUS
  <2>1. Consumed(q, k) \in Int /\ Sent(q, k) \in Int
    BY <1>2 DEF Sent, Consumed
  <2>2. Sent(q, k)' = Sent(q, k)
    BY <1>1, <1>2, <1>4 DEF Sent
  <2>3. Consumed(q, k)' = IF q = p /\ k = k0 THEN calls[p] ELSE Consumed(q, k)
    BY <1>1, <1>2, <1>4 DEF Consumed
  <2> QED BY <2>1, <2>2, <2>3
<1>6. PICK i \in Member : To(i, k0) = p
  BY <1>1, FromMember
<1>7. Consumed(p, k0) = calls[p] - 1
  BY <1>1, <1>2 DEF Consumed
<1> DEFINE n0 == flag[a0][p][k0]
<1>8. n0 \in Nat /\ n0 # 0 /\ calls[p] <= n0 /\ n0 <= Sent(i, k0)
  <2>1. n0 \in Nat
    BY <1>1 DEF IInv, TypeOK
  <2>2. n0 # SYNC_VALUE
    BY <1>1 DEF IInv, SeenStaysSet
  <2>3. Consumed(p, k0) < n0 /\ n0 <= Sent(i, k0)
    BY <1>1, <1>6, <2>2 DEF IInv, FlagFresh
  <2> QED BY <2>1, <2>2, <2>3, <1>1, <1>7 DEF SYNC_VALUE
<1>9. \A q \in Member, k \in Round : To(q, k) = p /\ k = k0 => q = i
  BY <1>6, ToInjective
<1>10. TestsetOK'
  BY <1>1 DEF IInv, TestsetOK, Testset
<1>11. \A q \in Member, k \in Round : \A n \in posted[q][k] : n \in Nat
  BY DEF IInv, TypeOK
<1>12. InOrder'
  <2> SUFFICES ASSUME NEW q \in Member, NEW k \in Round, NEW a \in Arrays,
                      NEW n \in posted[q][k]
               PROVE  flag'[a][To(q, k)][k] < n
    BY <1>1 DEF InOrder, To, Dist
  <2>1. flag[a][To(q, k)][k] < n /\ n \in Nat /\ flag[a][To(q, k)][k] \in Nat
    BY <1>11, ToMember DEF IInv, InOrder, TypeOK
  <2> QED BY <2>1, <1>3, ToMember
<1>13. PostedFresh'
  <2> SUFFICES ASSUME NEW q \in Member, NEW k \in Round, NEW n \in posted[q][k]
               PROVE  Consumed(To(q, k), k)' < n /\ n <= Sent(q, k)
    BY <1>1, <1>5 DEF PostedFresh, To, Dist
  <2>1. Consumed(To(q, k), k) < n /\ n <= Sent(q, k) /\ n \in Nat
    BY <1>11 DEF IInv, PostedFresh
  <2>2. CASE To(q, k) = p /\ k = k0
    <3>1. n0 < n
      BY <2>2, <1>1 DEF IInv, InOrder
    <3> QED BY <2>1, <2>2, <3>1, <1>1, <1>5, <1>8
  <2>3. CASE ~(To(q, k) = p /\ k = k0)
    BY <2>1, <2>3, <1>5, ToMember
  <2> QED BY <2>2, <2>3
<1>14. FlagFresh'
  <2> SUFFICES ASSUME NEW q \in Member, NEW k \in Round, NEW a \in Arrays,
                      flag'[a][To(q, k)][k] # SYNC_VALUE
               PROVE  /\ Consumed(To(q, k), k)' < flag'[a][To(q, k)][k]
                      /\ flag'[a][To(q, k)][k] <= Sent(q, k)
                      /\ ArrayOf[flag'[a][To(q, k)][k]] = a
    BY <1>5 DEF FlagFresh, To, Dist, SYNC_VALUE
  <2> DEFINE n == flag[a][To(q, k)][k]
  <2>1. ~(a = a0 /\ To(q, k) = p /\ k = k0) /\ flag'[a][To(q, k)][k] = n
    BY <1>3, ToMember DEF SYNC_VALUE
  <2>2. Consumed(To(q, k), k) < n /\ n <= Sent(q, k) /\ ArrayOf[n] = a
    BY <2>1 DEF IInv, FlagFresh
  <2>3. n \in Nat
    BY ToMember DEF IInv, TypeOK
  <2>4. CASE To(q, k) = p /\ k = k0
    <3>1. n # calls[p]
      BY <2>1, <2>2, <2>4
    <3>2. calls[p] - 1 < n
      BY <2>2, <2>4, <1>7
    <3> QED BY <2>1, <2>2, <2>3, <2>4, <3>1, <3>2, <1>1, <1>5
  <2>5. CASE ~(To(q, k) = p /\ k = k0)
    BY <2>1, <2>2, <2>5, <1>5, ToMember
  <2> QED BY <2>4, <2>5
<1>15. ConsumedWasSent'
  <2> SUFFICES ASSUME NEW q \in Member, NEW k \in Round
               PROVE  Consumed(To(q, k), k)' <= Sent(q, k)
    BY <1>5 DEF ConsumedWasSent, To, Dist
  <2>1. CASE To(q, k) = p /\ k = k0
    <3>1. q = i
      BY <2>1, <1>9
    <3> QED BY <2>1, <3>1, <1>1, <1>5, <1>8
  <2>2. CASE ~(To(q, k) = p /\ k = k0)
    BY <2>2, <1>5, ToMember DEF IInv, ConsumedWasSent
  <2> QED BY <2>1, <2>2
<1>16. SeenStaysSet'
  <2> SUFFICES ASSUME NEW q \in Member, pc'[q] = "clear"
               PROVE  flag'[ArrayOf[calls[q]]][q][c'[q]] # SYNC_VALUE
    BY <1>1 DEF SeenStaysSet, SYNC_VALUE
  <2>1. q # p /\ pc[q] = "clear" /\ c'[q] = c[q]
    BY <1>2
  <2>2. c[q] \in Round /\ ArrayOf[calls[q]] \in Arrays
    BY <2>1, InCall
  <2>3. flag[ArrayOf[calls[q]]][q][c[q]] # SYNC_VALUE
    BY <2>1 DEF IInv, SeenStaysSet
  <2> QED BY <2>1, <2>2, <2>3, <1>3
<1>17. \A q \in Member : Behind(q, p) < Dist(k0 + 1) => calls[q] >= calls[p]
  <2> SUFFICES ASSUME NEW q \in Member, Behind(q, p) < Dist(k0) + Dist(k0)
               PROVE  calls[q] >= calls[p]
    BY <1>1, Numbers
  <2>0. calls[q] \in Nat /\ calls[p] \in Nat /\ calls[i] \in Nat
    BY <1>2
  <2>1. CASE Behind(q, p) < Dist(k0)
    <3>1. k0 \in 0..c[p]
      BY <1>2
    <3> QED BY <2>1, <3>1 DEF IInv, Dissemination
  <2>2. CASE ~(Behind(q, p) < Dist(k0))
    <3>1. Behind(q, i) < Dist(k0)
      <4>1. Dist(k0) \in Nat /\ p \in Nat /\ q \in Nat /\ PE_size_stride \in Nat
        BY <1>2, Numbers
      <4>2. Behind(q, p) >= Dist(k0)
        BY <2>2, <4>1 DEF Behind
      <4> QED BY <4>2, <1>1, <1>6, BehindStep
    <3>2. CASE calls[i] > calls[p]
      <4>1. calls[q] >= calls[i] - 1
        BY DEF IInv, Skew
      <4> QED BY <3>2, <4>1, <2>0
    <3>3. CASE ~(calls[i] > calls[p])
      <4>1. calls[i] = calls[p] /\ c[i] >= k0
        BY <3>3, <2>0, <1>1, <1>2, <1>8 DEF Sent
      <4>2. k0 \in 0..c[i]
        BY <4>1, <1>2, <1>4, <1>1
      <4> QED BY <4>1, <4>2, <3>1 DEF IInv, Dissemination
    <3> QED BY <3>2, <3>3
  <2> QED BY <2>1, <2>2
<1>18. Dissemination'
  <2> SUFFICES ASSUME NEW q \in Member, NEW s \in Member, NEW d \in 0..c'[q],
                      Behind(s, q) < Dist(d)
               PROVE  calls[s] >= calls[q]
    BY <1>1 DEF Dissemination, Behind, Dist
  <2>1. CASE q = p /\ d = k0 + 1
    BY <2>1, <1>17
  <2>2. CASE ~(q = p /\ d = k0 + 1)
    <3>1. d \in 0..c[q]
      BY <2>2, <1>1, <1>2
    <3> QED BY <3>1 DEF IInv, Dissemination
  <2> QED BY <2>1, <2>2
<1>19. Skew'
  BY <1>1 DEF IInv, Skew
<1> QED BY <1>10, <1>12, <1>13, <1>14, <1>15, <1>16, <1>18, <1>19 DEF IInv

LEMMA NextIInv == IInv /\ [Next]_vars => IInv'
<1> SUFFICES ASSUME IInv, [Next]_vars PROVE IInv'
  OBVIOUS
<1>1. TypeOK' /\ ControlOK'
  BY NextTypeControl DEF IInv
<1>2. CASE UNCHANGED vars
  BY <1>2 DEF vars, IInv, TypeOK, ControlOK, TestsetOK, Testset, InOrder, PostedFresh,
              FlagFresh, ConsumedWasSent, SeenStaysSet, Dissemination, Skew,
              Sent, Consumed, To, Dist, Behind
<1> QED BY <1>1, <1>2, EnterIInv, SignalIInv, TestsetIInv, LandIInv, WaitIInv,
           ClearIInv, LeaveIInv DEF Next, Step, Finished

\* The inductive invariant holds throughout: in each round a PE consumes only
\* signals sent for its own call or a later one, in order, and what it learns
\* from them about the PEs behind it is true (shmem_sync.c:60-70).
THEOREM InvariantHolds == Spec => []IInv
BY InitIInv, NextIInv, PTL DEF Spec

------------------------------------------------------------------------------
(* Consequences *)

\* shmem_sync and shmem_sync_all are barriers for every active set, and however
\* the program passes its pSync arrays: nobody returns before all have entered.
THEOREM SyncImplementsBarrier == Spec => ImplementsBarrier
<1> DEFINE Left == [p \in Member |-> IF pc[p] = "out" THEN calls[p] ELSE calls[p] - 1]
<1>1. Init => Bar!Init
  BY DEF Init, Bar!Init
<1>2. IInv /\ IInv' /\ [Next]_vars => [Bar!Next]_Bar!vars
  <2> SUFFICES ASSUME IInv, IInv', [Next]_vars PROVE [Bar!Next]_Bar!vars
    OBVIOUS
  <2>1. ASSUME NEW p \in Member, Enter(p) PROVE Bar!Enter(p)
    <3>1. /\ calls' = [calls EXCEPT ![p] = @ + 1] /\ pc' = [pc EXCEPT ![p] = "loop"]
          /\ pc[p] = "out" /\ calls \in [Member -> Nat] /\ pc \in [Member -> {"out", "loop", "wait", "clear"}]
      BY <2>1, CallsAssumption DEF Enter, IInv, TypeOK
    <3>2. Left[p] = calls[p]
      BY <3>1
    <3>3. \A q \in Member : Left'[q] = Left[q]
      <4> SUFFICES ASSUME NEW q \in Member PROVE Left'[q] = Left[q]
        OBVIOUS
      <4>1. CASE q = p
        <5>1. calls'[p] = calls[p] + 1 /\ pc'[p] = "loop" /\ calls[p] \in Nat
          BY <3>1
        <5> QED BY <3>1, <4>1, <5>1
      <4>2. CASE q # p
        BY <3>1, <4>2
      <4> QED BY <4>1, <4>2
    <3> QED BY <3>1, <3>2, <3>3 DEF Bar!Enter
  <2>2. ASSUME NEW p \in Member, Leave(p) PROVE Bar!Leave(p)
    <3>1. /\ calls' = calls /\ pc' = [pc EXCEPT ![p] = "out"]
          /\ pc[p] = "loop" /\ c[p] = Rounds
          /\ calls \in [Member -> Nat] /\ pc \in [Member -> {"out", "loop", "wait", "clear"}]
      BY <2>2, CallsAssumption DEF Leave, IInv, TypeOK
    <3>2. Left[p] = calls[p] - 1 /\ calls[p] \in Nat /\ Left[p] < calls[p]
      BY <3>1
    <3>3. \A q \in Member : calls[q] >= calls[p]
      <4>1. Rounds \in 0..c[p]
        BY <3>1, RoundsAssumption
      <4> QED BY <4>1, BehindAll DEF IInv, Dissemination
    <3>4. Left' = [Left EXCEPT ![p] = @ + 1]
      <4>1. \A q \in Member : Left'[q] = IF q = p THEN calls[p] ELSE Left[q]
        BY <3>1
      <4>2. (calls[p] - 1) + 1 = calls[p]
        BY <3>2
      <4> QED BY <3>2, <4>1, <4>2
    <3> QED BY <3>1, <3>2, <3>3, <3>4 DEF Bar!Leave
  <2>3. ASSUME NEW p \in Member, Signal(p) \/ TestsetSignal(p) \/ Wait(p) \/ Clear(p)
        PROVE  UNCHANGED Bar!vars
    <3>1. /\ calls' = calls /\ pc[p] # "out" /\ pc \in [Member -> {"out", "loop", "wait", "clear"}]
          /\ \E l \in {"loop", "wait", "clear"} : pc' = [pc EXCEPT ![p] = l]
      BY <2>3 DEF Signal, TestsetSignal, Wait, Clear, IInv, TypeOK
    <3>2. \A q \in Member : (pc'[q] = "out") = (pc[q] = "out")
      BY <3>1
    <3> QED BY <3>1, <3>2 DEF Bar!vars
  <2>4. ASSUME NEW p \in Member, NEW k \in Round, Land(p, k) PROVE UNCHANGED Bar!vars
    BY <2>4 DEF Land, Bar!vars
  <2>5. CASE UNCHANGED vars
    BY <2>5 DEF vars, Bar!vars
  <2> QED BY <2>1, <2>2, <2>3, <2>4, <2>5 DEF Next, Step, Finished, Bar!Next
<1> QED BY <1>1, <1>2, InvariantHolds, PTL DEF Spec, ImplementsBarrier, Bar!Spec

\* Consecutive calls use different pSync arrays, as the loop of test/barrier.c
\* does with pSyncA and pSyncB.
AlternatingArrays ==
  \A n \in 1..MaxCalls : n + 1 \in 1..MaxCalls => ArrayOf[n] # ArrayOf[n + 1]

\* With alternating arrays no signal is ever lost, whatever the active set: a
\* signal that lands always finds the flag cleared (shmem_sync.c:66-69).
THEOREM AlternatingArraysAreSafe ==
  ASSUME AlternatingArrays PROVE Spec => []NoLostSignal
<1>1. IInv => NoLostSignal
  <2> SUFFICES ASSUME IInv, NEW p \in Member, NEW k \in Round, NEW n \in posted[p][k]
               PROVE  /\ flag[ArrayOf[n]][To(p, k)][k] = SYNC_VALUE
                      /\ \A m \in posted[p][k] : ArrayOf[m] = ArrayOf[n] => m = n
    BY DEF NoLostSignal
  <2> DEFINE j == To(p, k)
  <2>1. j \in Member /\ calls[p] \in Nat /\ calls[j] \in Nat
    BY ToMember, CallsAssumption DEF IInv, TypeOK
  <2>2. \A m \in 1..MaxCalls :
          Consumed(j, k) < m /\ m <= Sent(p, k) => calls[p] - 1 <= m /\ m <= calls[p]
    <3>1. calls[j] >= calls[p] - 1
      BY <2>1 DEF IInv, Skew
    <3>2. CASE calls[j] >= calls[p]
      BY <2>1, <3>2 DEF Sent, Consumed
    <3>3. CASE ~(calls[j] >= calls[p])
      BY <2>1, <3>1, <3>3 DEF Sent, Consumed
    <3> QED BY <3>2, <3>3
  <2>3. \A l, m \in 1..MaxCalls :
          /\ Consumed(j, k) < l /\ l <= Sent(p, k)
          /\ Consumed(j, k) < m /\ m <= Sent(p, k)
          /\ ArrayOf[l] = ArrayOf[m]
          => l = m
    <3> SUFFICES ASSUME NEW l \in 1..MaxCalls, NEW m \in 1..MaxCalls,
                        calls[p] - 1 <= l, l <= calls[p],
                        calls[p] - 1 <= m, m <= calls[p], ArrayOf[l] = ArrayOf[m]
                 PROVE  l = m
      BY <2>2
    <3>1. l \in Nat /\ m \in Nat /\ (l = m \/ m = l + 1 \/ l = m + 1)
      BY <2>1, CallsAssumption
    <3> QED BY <3>1 DEF AlternatingArrays
  <2>4. \A m \in posted[p][k] :
          m \in 1..MaxCalls /\ Consumed(j, k) < m /\ m <= Sent(p, k)
    BY DEF IInv, TypeOK, PostedFresh
  <2>5. \A m \in posted[p][k] : ArrayOf[m] = ArrayOf[n] => m = n
    BY <2>3, <2>4
  <2> DEFINE a == ArrayOf[n]
             f == flag[a][j][k]
  <2>6. a \in Arrays /\ f \in 0..MaxCalls /\ n \in Nat /\ MaxCalls \in Nat
    BY <2>1, <2>4, CallsAssumption DEF IInv, TypeOK
  <2>7. ASSUME f # SYNC_VALUE PROVE FALSE
    <3>1. Consumed(j, k) < f /\ f <= Sent(p, k) /\ ArrayOf[f] = a /\ f \in 1..MaxCalls
      BY <2>6, <2>7 DEF IInv, FlagFresh, SYNC_VALUE
    <3>2. f < n
      BY <2>6 DEF IInv, InOrder
    <3>3. f = n
      BY <3>1, <2>3, <2>4
    <3> QED BY <3>2, <3>3, <2>6
  <2> QED BY <2>5, <2>7
<1> QED BY <1>1, InvariantHolds, PTL

\* When all PEs are back from the same call, pSync holds SHMEM_SYNC_VALUE again
\* and no store is in flight: the arrays can be used for another collective.
THEOREM PSyncIsRestored == Spec => []FlagsRestored
<1>1. IInv => FlagsRestored
  <2> SUFFICES ASSUME IInv, \A p, q \in Member : pc[p] = "out" /\ calls[p] = calls[q]
               PROVE  /\ \A a \in Arrays, p \in Member, k \in Round : flag[a][p][k] = SYNC_VALUE
                      /\ \A p \in Member, k \in Round : posted[p][k] = {}
    BY DEF FlagsRestored
  <2>1. \A p \in Member, k \in Round :
          Sent(p, k) = Consumed(To(p, k), k) /\ Sent(p, k) \in Nat
    <3> SUFFICES ASSUME NEW p \in Member, NEW k \in Round
                 PROVE  Sent(p, k) = Consumed(To(p, k), k) /\ Sent(p, k) \in Nat
      OBVIOUS
    <3>1. To(p, k) \in Member /\ Rounds > k /\ calls[p] \in Nat
      BY ToMember, RoundsAssumption, CallsAssumption DEF Round, IInv, TypeOK
    <3>2. c[p] = Rounds /\ c[To(p, k)] = Rounds /\ calls[To(p, k)] = calls[p]
      BY <3>1 DEF IInv, ControlOK
    <3> QED BY <3>1, <3>2 DEF Sent, Consumed
  <2>2. \A p \in Member, k \in Round : posted[p][k] = {}
    <3> SUFFICES ASSUME NEW p \in Member, NEW k \in Round, NEW n \in posted[p][k]
                 PROVE  FALSE
      OBVIOUS
    <3>1. n \in Nat /\ Consumed(To(p, k), k) < n /\ n <= Sent(p, k)
      BY CallsAssumption DEF IInv, TypeOK, PostedFresh
    <3> QED BY <2>1, <3>1
  <2>3. ASSUME NEW a \in Arrays, NEW q \in Member, NEW k \in Round
        PROVE  flag[a][q][k] = SYNC_VALUE
    <3>1. PICK p \in Member : To(p, k) = q
      BY FromMember
    <3>2. flag[a][q][k] \in Nat
      BY CallsAssumption DEF IInv, TypeOK
    <3>3. flag[a][q][k] # SYNC_VALUE =>
            Consumed(To(p, k), k) < flag[a][q][k] /\ flag[a][q][k] <= Sent(p, k)
      BY <3>1 DEF IInv, FlagFresh
    <3> QED BY <2>1, <3>2, <3>3
  <2> QED BY <2>2, <2>3
<1> QED BY <1>1, InvariantHolds, PTL

------------------------------------------------------------------------------
(* One array for all calls: the signals of a power of two less one of PEs *)

\* A set of natural numbers that is not empty has a least one.
LEMMA LeastNat ==
  ASSUME NEW T \in SUBSET Nat, T # {}
  PROVE  \E n \in T : \A m \in T : n <= m
<1> DEFINE R == OpToRel(<, Nat)
<1>1. IsWellFoundedOn(R, Nat)
  BY NatLessThanWellFounded
<1>2. \A x, y \in Nat : x < y => <<x, y>> \in R
  BY DEF OpToRel
<1> HIDE DEF R
<1>3. PICK n \in T : \A y \in T : ~(<<y, n>> \in R)
  BY <1>1, WFMin
<1>4. \A m \in T : ~(m < n) /\ m \in Nat /\ n \in Nat
  BY <1>2, <1>3
<1> QED BY <1>4

\* The distance of a round is a multiple of those of the rounds before.
LEMMA PowerDivides ==
  ASSUME NEW i \in 0..Rounds, NEW j \in 0..Rounds, i <= j
  PROVE  \E t \in Nat \ {0} : Pow2[j] = t * Pow2[i]
<1> DEFINE T == {l \in 0..Rounds : i <= l /\ ~(\E t \in Nat \ {0} : Pow2[l] = t * Pow2[i])}
<1>1. Rounds \in Nat /\ \A l \in 0..Rounds : Pow2[l] \in Nat
  BY RoundsAssumption
<1>2. CASE T = {}
  BY <1>2
<1>3. CASE T # {}
  <2>1. T \in SUBSET Nat
    BY <1>1
  <2>2. PICK l \in T : \A m \in T : l <= m
    BY <1>3, <2>1, LeastNat
  <2>3. CASE l = i
    <3>1. Pow2[l] = 1 * Pow2[i] /\ 1 \in Nat \ {0}
      BY <1>1, <2>3
    <3> QED BY <2>2, <3>1
  <2>4. CASE l # i
    <3>1. l - 1 \in Round /\ i <= l - 1 /\ (l - 1) + 1 = l /\ ~(l <= l - 1) /\ l - 1 \in 0..Rounds
      BY <1>1, <2>2, <2>4 DEF Round
    <3>2. l - 1 \notin T
      BY <2>2, <3>1
    <3>3. PICK t \in Nat \ {0} : Pow2[l - 1] = t * Pow2[i]
      BY <3>1, <3>2
    <3>4. Pow2[l] = Pow2[l - 1] + Pow2[l - 1]
      BY <3>1, Rounding
    <3>5. Pow2[l] = (t + t) * Pow2[i] /\ t + t \in Nat \ {0}
      BY <1>1, <3>3, <3>4
    <3> QED BY <2>2, <3>5
  <2> QED BY <2>3, <2>4
<1> QED BY <1>2, <1>3

\* The distances of the rounds are positive.
LEMMA PowerPositive == \A k \in 0..Rounds : Pow2[k] \in Nat \ {0}
<1> SUFFICES ASSUME NEW k \in 0..Rounds PROVE Pow2[k] \in Nat \ {0}
  OBVIOUS
<1>1. 0 \in 0..Rounds /\ 0 <= k /\ Pow2[0] = 1 /\ Pow2[k] \in Nat
  BY RoundsAssumption
<1>2. PICK t \in Nat \ {0} : Pow2[k] = t * Pow2[0]
  BY <1>1, PowerDivides
<1> QED BY <1>1, <1>2

\* Numbers of strides are equal where the distances are.
LEMMA SameStrides == ASSUME NEW x \in Int, NEW y \in Int, x * Stride = y * Stride PROVE x = y
<1>1. x * Stride \in Int /\ Stride \in Nat /\ Stride > 0
  BY Scale, Rounding
<1>2. ~(x < y)
  BY <1>1, Scale
<1>3. ~(y < x)
  BY <1>1, Scale
<1> QED BY <1>2, <1>3

\* The distance in strides is a number below PE_size.
LEMMA HopsAre ==
  ASSUME NEW p \in Member, NEW q \in Member
  PROVE  Hops(q, p) \in 0..(PE_size - 1) /\ Behind(q, p) = Hops(q, p) * Stride
<1> USE Rounding
<1>1. PICK m \in 0..(PE_size - 1) : p = PE_start + m * Stride
  BY DEF Member
<1>2. PICK n \in 0..(PE_size - 1) : q = PE_start + n * Stride
  BY DEF Member
<1> DEFINE h == IF n <= m THEN m - n ELSE (m - n) + PE_size
<1>3. h \in 0..(PE_size - 1)
  OBVIOUS
<1>4. /\ m * Stride \in Int /\ n * Stride \in Int
      /\ (m - n) * Stride = m * Stride - n * Stride
      /\ ((m - n) + PE_size) * Stride = (m - n) * Stride + PE_size_stride
      /\ n <= m => n * Stride <= m * Stride
      /\ m < n => m * Stride + Stride <= n * Stride
  BY Scale DEF PE_size_stride
<1>5. n <= m <=> q <= p
  BY <1>1, <1>2, <1>4
<1>6. Behind(q, p) = h * Stride
  BY <1>1, <1>2, <1>4, <1>5 DEF Behind
<1> HIDE DEF h
<1>7. (h * Stride) \div Stride = h
  BY <1>3
<1> QED BY <1>3, <1>6, <1>7 DEF Hops

\* Whoever is less than one stride behind p is p.
LEMMA HopsZero ==
  ASSUME NEW p \in Member, NEW q \in Member, Hops(q, p) = 0
  PROVE  q = p
<1>1. Behind(q, p) = 0
  BY HopsAre, Rounding
<1>2. Dist(0) = Stride /\ Stride > 0
  BY Numbers, Rounding
<1> QED BY <1>1, <1>2, BehindZero

\* A PE is as far behind the PE that signals it as the round says.
LEMMA HopsStep ==
  ASSUME NEW i \in Member, NEW q \in Member, NEW k \in Round,
         Hops(q, To(i, k)) >= Pow2[k]
  PROVE  Hops(q, i) = Hops(q, To(i, k)) - Pow2[k]
<1> DEFINE a == Hops(q, To(i, k))
           b == Hops(q, i)
<1>1. a \in Nat /\ b \in Nat /\ Behind(q, To(i, k)) = a * Stride /\ Behind(q, i) = b * Stride
  BY HopsAre, ToMember, Rounding
<1>2. Pow2[k] \in Nat /\ Dist(k) = Pow2[k] * Stride /\ Dist(k) < PE_size_stride
  BY Numbers, Rounding DEF Dist
<1>3. Pow2[k] <= a
  OBVIOUS
<1> HIDE DEF a, b
<1>4. a \in Int /\ b \in Int /\ a - Pow2[k] \in Int /\ Pow2[k] \in Int
  BY <1>1, <1>2
<1>5. Dist(k) <= Behind(q, To(i, k))
  BY <1>1, <1>2, <1>3, <1>4, Scale
<1>6. Behind(q, i) = Behind(q, To(i, k)) - Dist(k)
  <2>1. /\ i \in Nat /\ q \in Nat /\ PE_start <= i /\ i < PE_end /\ PE_start <= q /\ q < PE_end
        /\ PE_start \in Nat /\ PE_size_stride \in Nat /\ PE_end = PE_start + PE_size_stride
        /\ Dist(k) \in Nat
    BY <1>2, Numbers, Rounding
  <2> DEFINE d == Dist(k)
  <2>2. CASE i + d >= PE_end
    BY <1>2, <1>5, <2>1, <2>2 DEF To, Behind
  <2>3. CASE ~(i + d >= PE_end)
    BY <1>2, <1>5, <2>1, <2>3 DEF To, Behind
  <2> QED BY <2>2, <2>3
<1>7. (a - Pow2[k]) * Stride = a * Stride - Pow2[k] * Stride
  BY <1>4, Scale
<1>8. b * Stride = (a - Pow2[k]) * Stride
  BY <1>1, <1>2, <1>6, <1>7
<1>9. b = a - Pow2[k]
  BY <1>4, <1>8, SameStrides
<1> QED BY <1>9 DEF a, b

\* The partner of p is all other PEs' distance behind it.
LEMMA HopsOfPartner ==
  ASSUME NEW p \in Member, NEW k \in Round
  PROVE  Hops(To(p, k), p) = PE_size - Pow2[k]
<1> DEFINE h == Hops(To(p, k), p)
<1>1. h \in Nat /\ Behind(To(p, k), p) = h * Stride
  BY HopsAre, ToMember, Rounding
<1>2. Pow2[k] \in Nat \ {0} /\ Dist(k) = Pow2[k] * Stride /\ Dist(k) < PE_size_stride
      /\ PE_size \in Nat /\ Stride \in Nat \ {0} /\ Pow2[k] < PE_size
  BY Numbers, Rounding, PowerPositive DEF Dist
<1>3. Dist(k) > 0
  BY <1>2
<1>4. Behind(To(p, k), p) = PE_size_stride - Dist(k)
  BY <1>2, <1>3, Numbers DEF To, Behind
<1>5. PE_size_stride - Dist(k) = (PE_size - Pow2[k]) * Stride
  BY <1>2, Scale DEF PE_size_stride
<1> HIDE DEF h
<1>6. h * Stride = (PE_size - Pow2[k]) * Stride
  BY <1>1, <1>4, <1>5 DEF h
<1>7. h = PE_size - Pow2[k]
  BY <1>1, <1>2, <1>6, SameStrides
<1> QED BY <1>7 DEF h

\* Division with a remainder is unique ...
LEMMA Remainder ==
  ASSUME NEW x \in Nat, NEW d \in Nat \ {0}, NEW t \in Int, NEW r \in 0..(d - 1),
         x = d * t + r
  PROVE  x % d = r
<1>1. x = d * (x \div d) + (x % d) /\ x \div d \in Int /\ x % d \in 0..(d - 1)
  OBVIOUS
<1>2. PICK k \in Int : d * k = (x % d) - r
  <2>1. PICK q \in Int : x = d * q + (x % d)
    BY <1>1
  <2>2. d * (t - q) = d * t - d * q /\ t - q \in Int /\ d * t \in Int /\ d * q \in Int
    OBVIOUS
  <2>3. d * t - d * q = (x % d) - r
    <3>1. x % d \in Int /\ r \in Int /\ d * t \in Int /\ d * q \in Int
      BY <1>1
    <3> QED BY <2>1, <3>1
  <2> QED BY <2>2, <2>3
<1>3. k >= 1 => d * k >= d
  OBVIOUS
<1>4. k <= -1 => d * k <= -d
  OBVIOUS
<1>5. k = 0
  BY <1>1, <1>2, <1>3, <1>4
<1> QED BY <1>1, <1>2, <1>5

LEMMA Quotient ==
  ASSUME NEW x \in Nat, NEW d \in Nat \ {0}
  PROVE  \E t \in Nat : x = d * t + (x % d)
<1>1. x = d * (x \div d) + (x % d) /\ x \div d \in Nat
  OBVIOUS
<1> QED BY <1>1

\* ... so that what is taken from the remainder is taken from the number, and
\* a multiple can be taken without a trace.
LEMMA RemainderLess ==
  ASSUME NEW x \in Nat, NEW d \in Nat \ {0}, NEW e \in Nat, e <= x % d
  PROVE  x - e \in Nat /\ (x - e) % d = (x % d) - e
<1>1. PICK t \in Nat : x = d * t + (x % d)
  BY Quotient
<1>2. d * t \in Nat /\ x % d \in 0..(d - 1)
  OBVIOUS
<1>3. x - e \in Nat /\ (x % d) - e \in 0..(d - 1) /\ x - e = d * t + ((x % d) - e)
  BY <1>1, <1>2
<1> QED BY <1>3, Remainder

LEMMA RemainderSame ==
  ASSUME NEW x \in Nat, NEW d \in Nat \ {0}, NEW s \in Nat, s * d <= x
  PROVE  x - s * d \in Nat /\ (x - s * d) % d = x % d
<1>1. PICK t \in Nat : x = d * t + (x % d)
  BY Quotient
<1>2. /\ x % d \in 0..(d - 1) /\ s * d \in Nat /\ d * t \in Nat /\ t - s \in Int
      /\ d * (t - s) = d * t - s * d
  OBVIOUS
<1>3. x - s * d \in Nat /\ x - s * d = d * (t - s) + (x % d)
  BY <1>1, <1>2
<1> QED BY <1>2, <1>3, Remainder

\* The steps that start no round and end none teach nobody anything.
LEMMA TakenBehindSame ==
  ASSUME IInv, TakenBehind, UNCHANGED <<calls, c>>
  PROVE  TakenBehind'
BY DEF TakenBehind, Hops, Behind, Consumed

\* A PE that calls again takes along that all it knew is of the call before.
LEMMA TakenBehindEnter ==
  ASSUME IInv, TakenBehind, NEW p \in Member, Enter(p)
  PROVE  TakenBehind'
<1>1. /\ \A q \in Member : /\ calls'[q] = IF q = p THEN calls[p] + 1 ELSE calls[q]
                           /\ c'[q] = IF q = p THEN 0 ELSE c[q]
                           /\ calls[q] \in Nat /\ c[q] \in 0..Rounds
      /\ pc[p] = "out" /\ c[p] = Rounds /\ Rounds \in Nat
  BY RoundsAssumption DEF Enter, IInv, TypeOK, ControlOK
<1>2. ASSUME NEW q \in Member, NEW k \in Round PROVE Consumed(q, k)' = Consumed(q, k)
  <2>0. k >= 0 /\ k < Rounds /\ k \in Int
    BY <1>1 DEF Round
  <2>1. CASE q = p
    <3>1. Consumed(q, k) = calls[p] /\ Consumed(q, k)' = (calls[p] + 1) - 1
      BY <1>1, <2>0, <2>1 DEF Consumed
    <3> QED BY <3>1, <1>1
  <2>2. CASE q # p
    BY <1>1, <2>2 DEF Consumed
  <2> QED BY <2>1, <2>2
<1> SUFFICES ASSUME NEW s \in Member, NEW q \in Member, NEW k \in Round
             PROVE  LET h == Hops(q, s) % Pow2[k + 1]
                    IN  /\ h = 0 /\ Hops(q, s) < Pow2[c'[s]] /\ k < c'[s]
                             => Consumed(q, k) >= calls'[s]
                        /\ h < Pow2[k] /\ h < Pow2[c'[s]] => Consumed(q, k) >= calls'[s] - 1
  BY <1>2 DEF TakenBehind, Hops, Behind
<1>3. CASE s # p
  BY <1>1, <1>3 DEF TakenBehind
<1>4. CASE s = p
  <2>1. ~(k < c'[s]) /\ Pow2[c'[s]] = 1 /\ calls'[s] - 1 = calls[s] /\ k < c[s]
    BY <1>1, <1>4, RoundsAssumption DEF Round
  <2>2. Hops(q, s) < Pow2[c[s]]
    BY <1>1, <1>4, HopsAre, Rounding
  <2>3. Hops(q, s) % Pow2[k + 1] \in Nat
    <3>1. Hops(q, s) \in Nat /\ Pow2[k + 1] \in Nat \ {0}
      BY HopsAre, Rounding, PowerPositive
    <3> QED BY <3>1
  <2>4. Hops(q, s) % Pow2[k + 1] = 0 => Consumed(q, k) >= calls[s]
    BY <2>1, <2>2 DEF TakenBehind
  <2> QED BY <2>1, <2>3, <2>4
<1> QED BY <1>3, <1>4

\* A PE that ends round d learns what the PE d rounds behind it had learnt.
LEMMA TakenBehindClear ==
  ASSUME IInv, TakenBehind, NEW p \in Member, Clear(p)
  PROVE  TakenBehind'
<1> DEFINE d == c[p]
           n == calls[p]
<1>1. /\ d \in Round /\ n \in 1..MaxCalls /\ ArrayOf[n] \in Arrays
      /\ pc[p] = "clear" /\ calls' = calls
      /\ Rounds \in Nat /\ MaxCalls \in Nat
  BY InCall, RoundsAssumption, CallsAssumption DEF Clear
<1>2. \A q \in Member : /\ c'[q] = IF q = p THEN d + 1 ELSE c[q]
                        /\ calls[q] \in Nat /\ c[q] \in 0..Rounds /\ c[q] \in Nat
  BY <1>1 DEF Clear, IInv, TypeOK
<1>3. \A k \in Round : k \in Nat /\ k < Rounds
  BY <1>1 DEF Round
<1>4. \A q \in Member, k \in Round :
        /\ Consumed(q, k)' = IF q = p /\ k = d THEN n ELSE Consumed(q, k)
        /\ Consumed(q, k) \in Int /\ Consumed(q, k) >= calls[q] - 1
        /\ Consumed(q, k)' >= Consumed(q, k)
  BY <1>1, <1>2, <1>3 DEF Consumed
<1>5. PICK i \in Member : To(i, d) = p
  BY <1>1, FromMember
<1>6. (calls[i] = n /\ c[i] >= d) \/ calls[i] > n
  <2> DEFINE f == flag[ArrayOf[n]][p][d]
  <2>1. f \in Nat /\ f # SYNC_VALUE
    BY <1>1 DEF IInv, TypeOK, SeenStaysSet
  <2>2. Consumed(p, d) < f /\ f <= Sent(i, d)
    BY <1>1, <1>5, <2>1 DEF IInv, FlagFresh
  <2>3. Consumed(p, d) = n - 1
    BY <1>1, <1>2 DEF Consumed
  <2> HIDE DEF f
  <2>4. Sent(i, d) \in Int
    BY <1>2 DEF Sent
  <2>5. n <= Sent(i, d)
    BY <1>1, <2>1, <2>2, <2>3, <2>4
  <2> QED BY <1>1, <1>2, <1>3, <2>5 DEF Sent
<1>7. Pow2[d] \in Nat \ {0} /\ Pow2[d + 1] = Pow2[d] + Pow2[d] /\ d + 1 \in 0..Rounds
  BY <1>1, Rounding, PowerPositive
<1> HIDE DEF d, n
<1> SUFFICES ASSUME NEW s \in Member, NEW q \in Member, NEW k \in Round
             PROVE  LET h == Hops(q, s) % Pow2[k + 1]
                    IN  /\ h = 0 /\ Hops(q, s) < Pow2[c'[s]] /\ k < c'[s]
                             => Consumed(q, k)' >= calls[s]
                        /\ h < Pow2[k] /\ h < Pow2[c'[s]] => Consumed(q, k)' >= calls[s] - 1
  BY <1>1 DEF TakenBehind, Hops, Behind
<1>8. CASE s # p
  <2>1. c'[s] = c[s] /\ calls[s] \in Nat
    BY <1>2, <1>8
  <2>2. Consumed(q, k) \in Int /\ Consumed(q, k)' \in Int /\ Consumed(q, k)' >= Consumed(q, k)
    BY <1>1, <1>4
  <2>3. LET h == Hops(q, s) % Pow2[k + 1]
        IN  /\ h = 0 /\ Hops(q, s) < Pow2[c[s]] /\ k < c[s] => Consumed(q, k) >= calls[s]
            /\ h < Pow2[k] /\ h < Pow2[c[s]] => Consumed(q, k) >= calls[s] - 1
    BY DEF TakenBehind
  <2> QED BY <2>1, <2>2, <2>3
<1> DEFINE x == Hops(q, p)
           D == Pow2[k + 1]
<1>9. x \in Nat /\ D \in Nat \ {0} /\ D = Pow2[k] + Pow2[k] /\ Pow2[k] \in Nat \ {0}
  BY HopsAre, Rounding, PowerPositive
<1>10. x >= Pow2[d] => Hops(q, i) = x - Pow2[d]
  BY <1>1, <1>5, HopsStep
<1> HIDE DEF x, D
<1>11. ASSUME x % D = 0, x < Pow2[d + 1], k < d + 1
       PROVE  Consumed(q, k)' >= n
  <2>1. CASE k = d
    <3>1. x = 0
      BY <1>9, <1>11, <2>1, Rounding DEF D
    <3>2. q = p
      BY <3>1, HopsZero DEF x
    <3> QED BY <1>1, <1>4, <2>1, <3>2
  <2>2. CASE k < d /\ x < Pow2[d]
    <3>1. Consumed(q, k) >= n
      BY <1>11, <2>2 DEF TakenBehind, x, D, d, n
    <3> QED BY <1>1, <1>4, <3>1
  <2>3. CASE k < d /\ ~(x < Pow2[d])
    <3>1. k + 1 \in 0..Rounds /\ d \in 0..Rounds /\ k + 1 <= d /\ k < d
      BY <1>1, <1>3, <2>3
    <3>2. PICK t \in Nat \ {0} : Pow2[d] = t * D
      BY <3>1, PowerDivides DEF D
    <3>3. t * D <= x
      BY <1>7, <1>9, <2>3, <3>2
    <3>4. (x - Pow2[d]) % D = 0 /\ x - Pow2[d] \in Nat
      BY <1>9, <1>11, <3>2, <3>3, RemainderSame
    <3>5. Hops(q, i) % Pow2[k + 1] = 0 /\ Hops(q, i) < Pow2[d] /\ Hops(q, i) \in Nat
      BY <1>7, <1>9, <1>10, <1>11, <2>3, <3>4 DEF D
    <3>6. CASE calls[i] = n /\ c[i] >= d
      <4>1. c[i] \in 0..Rounds /\ d <= c[i] /\ k < c[i]
        BY <1>2, <1>1, <1>3, <2>3, <3>6
      <4>2. PICK u \in Nat \ {0} : Pow2[c[i]] = u * Pow2[d]
        BY <3>1, <4>1, PowerDivides
      <4>3. Pow2[d] <= u * Pow2[d]
        BY <1>7
      <4>4. Hops(q, i) < Pow2[c[i]]
        BY <1>7, <3>5, <4>2, <4>3
      <4>5. Consumed(q, k) >= calls[i]
        BY <3>5, <4>1, <4>4 DEF TakenBehind
      <4> QED BY <1>1, <1>2, <1>4, <3>6, <4>5
    <3>7. CASE calls[i] > n
      <4>1. 0 < Pow2[k] /\ 0 < Pow2[c[i]]
        BY <1>2, <1>9, PowerPositive
      <4>2. Consumed(q, k) >= calls[i] - 1
        BY <3>5, <4>1 DEF TakenBehind
      <4> QED BY <1>1, <1>2, <1>4, <3>7, <4>2
    <3> QED BY <1>6, <3>6, <3>7
  <2> QED BY <1>1, <1>3, <1>11, <2>1, <2>2, <2>3
<1>12. ASSUME x % D < Pow2[k], x % D < Pow2[d + 1]
       PROVE  Consumed(q, k)' >= n - 1
  <2>0. x % D \in Nat
    BY <1>9
  <2>1. CASE x % D < Pow2[d]
    <3>1. Consumed(q, k) >= n - 1
      BY <1>12, <2>1 DEF TakenBehind, x, D, d, n
    <3> QED BY <1>1, <1>4, <3>1
  <2>2. CASE ~(x % D < Pow2[d])
    <3>1. Pow2[d] <= x % D /\ Pow2[d] \in Nat
      BY <1>7, <2>0, <2>2
    <3>2. x - Pow2[d] \in Nat /\ (x - Pow2[d]) % D = (x % D) - Pow2[d]
      BY <1>9, <3>1, RemainderLess
    <3>3. /\ Hops(q, i) % Pow2[k + 1] < Pow2[d] /\ Hops(q, i) % Pow2[k + 1] < Pow2[k]
          /\ Hops(q, i) % Pow2[k + 1] \in Nat
      BY <1>7, <1>9, <1>10, <1>12, <2>0, <3>1, <3>2 DEF D
    <3>4. CASE calls[i] = n /\ c[i] >= d
      <4>1. c[i] \in 0..Rounds /\ d \in 0..Rounds /\ d <= c[i]
        BY <1>1, <1>2, <1>3, <3>4
      <4>2. PICK u \in Nat \ {0} : Pow2[c[i]] = u * Pow2[d]
        BY <4>1, PowerDivides
      <4>3. Pow2[d] <= u * Pow2[d]
        BY <1>7
      <4>4. Hops(q, i) % Pow2[k + 1] < Pow2[c[i]]
        BY <1>7, <3>3, <4>2, <4>3
      <4>5. Consumed(q, k) >= calls[i] - 1
        BY <3>3, <4>4 DEF TakenBehind
      <4> QED BY <1>1, <1>2, <1>4, <3>4, <4>5
    <3>5. CASE calls[i] > n
      <4>1. calls[q] >= calls[i] - 1
        BY DEF IInv, Skew
      <4> QED BY <1>1, <1>2, <1>4, <3>5, <4>1
    <3> QED BY <1>6, <3>4, <3>5
  <2> QED BY <2>1, <2>2
<1>13. CASE s = p
  BY <1>2, <1>11, <1>12, <1>13 DEF x, D, n
<1> QED BY <1>8, <1>13

LEMMA TakenBehindNext == IInv /\ TakenBehind /\ [Next]_vars => TakenBehind'
<1> SUFFICES ASSUME IInv, TakenBehind, [Next]_vars PROVE TakenBehind'
  OBVIOUS
<1>1. ASSUME NEW p \in Member, Step(p) PROVE TakenBehind'
  <2>1. Enter(p) \/ Clear(p) \/ UNCHANGED <<calls, c>>
    BY <1>1 DEF Step, Signal, TestsetSignal, Wait, Leave
  <2> QED BY <2>1, TakenBehindSame, TakenBehindEnter, TakenBehindClear
<1>2. ASSUME NEW p \in Member, NEW k \in Round, Land(p, k) PROVE TakenBehind'
  BY <1>2, TakenBehindSame DEF Land
<1>3. CASE UNCHANGED vars
  BY <1>3, TakenBehindSame DEF vars
<1> QED BY <1>1, <1>2, <1>3 DEF Next, Finished

\* Round k of the next call reaches back to the receiver by the rounds other than
\* k, if these add up to PE_size - 2^k: if PE_size is 2^Rounds - 1.
LEMMA OneAheadAtMost ==
  ASSUME IInv, TakenBehind, PE_size = Pow2[Rounds] - 1, NEW p \in Member, NEW k \in Round
  PROVE  Sent(p, k) <= Consumed(To(p, k), k) + 1
<1> DEFINE q == To(p, k)
<1>1. /\ q \in Member /\ calls[p] \in Nat /\ calls[q] \in Nat /\ c[p] \in 0..Rounds
      /\ k \in 0..Rounds /\ k + 1 \in 0..Rounds /\ Rounds \in 0..Rounds /\ k + 1 <= Rounds
  <2>1. q \in Member
    BY ToMember
  <2>2. \A s \in Member : calls[s] \in Nat /\ c[s] \in 0..Rounds
    BY CallsAssumption DEF IInv, TypeOK
  <2>3. k \in 0..Rounds /\ k + 1 \in 0..Rounds /\ Rounds \in 0..Rounds /\ k + 1 <= Rounds
    BY RoundsAssumption DEF Round
  <2> HIDE DEF q
  <2> QED BY <2>1, <2>2, <2>3
<1>2. Hops(q, p) = (Pow2[Rounds] - 1) - Pow2[k]
  BY HopsOfPartner
<1>3. PICK t \in Nat \ {0} : Pow2[Rounds] = t * Pow2[k + 1]
  BY <1>1, PowerDivides
<1>4. Pow2[k + 1] = Pow2[k] + Pow2[k] /\ Pow2[k] \in Nat \ {0} /\ Pow2[k + 1] \in Nat \ {0}
  BY <1>1, Rounding, PowerPositive
<1>5. Hops(q, p) % Pow2[k + 1] = Pow2[k] - 1
  <2>1. t * Pow2[k + 1] = Pow2[k + 1] * (t - 1) + Pow2[k + 1] /\ t - 1 \in Int
        /\ Pow2[k + 1] * (t - 1) \in Int
    BY <1>4
  <2>2. Hops(q, p) = Pow2[k + 1] * (t - 1) + (Pow2[k] - 1)
    BY <1>2, <1>3, <1>4, <2>1
  <2>3. Hops(q, p) \in Nat /\ Pow2[k] - 1 \in 0..(Pow2[k + 1] - 1)
    BY <1>1, <1>4, HopsAre, Rounding
  <2> DEFINE x == Hops(q, p)
             d == Pow2[k + 1]
             r == Pow2[k] - 1
  <2>4. x \in Nat /\ d \in Nat \ {0} /\ t - 1 \in Int /\ r \in 0..(d - 1) /\ x = d * (t - 1) + r
    BY <1>4, <2>1, <2>2, <2>3
  <2> HIDE DEF x, d, r
  <2>5. x % d = r
    BY <2>4, Remainder
  <2> QED BY <2>5 DEF x, d, r
<1> HIDE DEF q
<1>6. Consumed(q, k) \in Int /\ Consumed(q, k) >= calls[q] - 1
  BY <1>1 DEF Consumed
<1>7. CASE c[p] >= k
  <2>1. PICK u \in Nat \ {0} : Pow2[c[p]] = u * Pow2[k]
    BY <1>1, <1>7, PowerDivides
  <2>2. Pow2[k] <= u * Pow2[k]
    BY <1>4
  <2>3. Consumed(q, k) >= calls[p] - 1
    BY <1>1, <1>4, <1>5, <2>1, <2>2 DEF TakenBehind
  <2>4. Sent(p, k) <= calls[p] /\ Sent(p, k) \in Int
    BY <1>1 DEF Sent
  <2> QED BY <1>1, <1>6, <2>3, <2>4 DEF q
<1>8. CASE ~(c[p] >= k)
  <2>1. Sent(p, k) = calls[p] - 1
    BY <1>1, <1>8 DEF Sent
  <2>2. calls[q] >= calls[p] - 1
    BY <1>1 DEF IInv, Skew
  <2> QED BY <1>1, <1>6, <2>1, <2>2 DEF q
<1> QED BY <1>7, <1>8

\* On 2^k - 1 PEs consecutive calls of shmem_sync and shmem_sync_all may use one
\* array: no signal is lost, whatever arrays the program passes.
THEOREM OneArrayIsEnough ==
  ASSUME PE_size = Pow2[Rounds] - 1 PROVE Spec => []NoLostSignal
<1>1. IInv /\ TakenBehind => NoLostSignal
  <2> SUFFICES ASSUME IInv, TakenBehind, NEW p \in Member, NEW k \in Round, NEW n \in posted[p][k]
               PROVE  /\ flag[ArrayOf[n]][To(p, k)][k] = SYNC_VALUE
                      /\ \A m \in posted[p][k] : ArrayOf[m] = ArrayOf[n] => m = n
    BY DEF NoLostSignal
  <2> DEFINE q == To(p, k)
             a == ArrayOf[n]
             f == flag[a][q][k]
  <2>1. q \in Member /\ Consumed(q, k) \in Int /\ Sent(p, k) \in Int
    <3>1. \A s \in Member : calls[s] \in Nat
      BY CallsAssumption DEF IInv, TypeOK
    <3>2. q \in Member
      BY ToMember
    <3> QED BY <3>1, <3>2 DEF Consumed, Sent
  <2>2. \A m \in posted[p][k] :
          m \in 1..MaxCalls /\ Consumed(q, k) < m /\ m <= Sent(p, k)
    BY DEF IInv, TypeOK, PostedFresh
  <2>3. Sent(p, k) <= Consumed(q, k) + 1
    BY OneAheadAtMost
  <2>4. \A m \in posted[p][k] : m = n
    BY <2>1, <2>2, <2>3, CallsAssumption
  <2>5. a \in Arrays /\ f \in 0..MaxCalls /\ n \in Nat /\ MaxCalls \in Nat
    BY <2>1, <2>2, CallsAssumption DEF IInv, TypeOK
  <2>6. ASSUME f # SYNC_VALUE PROVE FALSE
    <3>1. Consumed(q, k) < f /\ f <= Sent(p, k)
      BY <2>5, <2>6 DEF IInv, FlagFresh
    <3>2. f < n
      BY <2>5 DEF IInv, InOrder
    <3> QED BY <2>1, <2>2, <2>3, <2>5, <3>1, <3>2
  <2> QED BY <2>4, <2>6
<1>2. Init => TakenBehind
  <2> SUFFICES ASSUME Init PROVE TakenBehind
    OBVIOUS
  <2>1. \A p \in Member, k \in Round : calls[p] = 0 /\ Consumed(p, k) = 0
    BY RoundsAssumption DEF Init, Consumed, Round
  <2> QED BY <2>1 DEF TakenBehind
<1> QED BY <1>1, <1>2, InitIInv, NextIInv, TakenBehindNext, PTL DEF Spec

------------------------------------------------------------------------------
(* ShmemInit: the chain at the end of shmem_init, and the first barrier.  The  *)
(* chain has words of its own in barrier_sync, and the barrier its own arrays: *)
(* flag is what the barriers use, word what the chain uses.                    *)
VARIABLES at, chain, word

AllFlags == [a \in Arrays \cup {"barrier_sync"} |->
               IF a = "barrier_sync" THEN word ELSE flag[a]]
I == INSTANCE ShmemInit WITH
  n_pes <- PE_size, Arrays <- Arrays \cup {"barrier_sync"}, flag <- AllFlags

\* All PEs take part, two at least, and the barrier has an array of its own.
AllPEs == PE_start = 0 /\ Stride = 1 /\ PE_size > 1 /\ "barrier_sync" \notin Arrays

\* Nothing is in flag but the flags of the barriers.
OnlyFlags == flag = [a \in Arrays |-> flag[a]]

LEMMA ChainGeometry ==
  ASSUME AllPEs
  PROVE  /\ I!PE = Member /\ I!Sync!Member = Member /\ I!Sync!Round = Round
         /\ \A p \in Int, k \in Round : I!Sync!To(p, k) = To(p, k)
         /\ Member = 0..(PE_size - 1) /\ 0 \in Round
         /\ \A p \in Member : To(p, 0) = IF p + 1 = PE_size THEN 0 ELSE p + 1
<1> USE DEF AllPEs
<1>1. I!Sync!Member = Member
  BY DEF I!Sync!Member, Member
<1>2. Member = 0..(PE_size - 1)
  <2>1. \A m \in 0..(PE_size - 1) : 0 + m * 1 = m
    BY SetAssumption
  <2> QED BY <2>1 DEF Member
<1>3. I!PE = Member
  BY <1>2 DEF I!PE
<1>4. I!Sync!Round = Round
  BY DEF I!Sync!Round, Round
<1>5. \A p \in Int, k \in Round : I!Sync!To(p, k) = To(p, k)
  BY DEF I!Sync!To, To, I!Sync!Dist, Dist, I!Sync!PE_end, PE_end,
         I!Sync!PE_size_stride, PE_size_stride
<1>6. 0 \in Round
  <2>1. Rounds # 0
    BY Rounding, RoundsAssumption
  <2> QED BY <2>1, RoundsAssumption DEF Round
<1>7. \A p \in Member : To(p, 0) = IF p + 1 = PE_size THEN 0 ELSE p + 1
  <2>1. Dist(0) = 1 /\ PE_size_stride = PE_size /\ PE_end = PE_size /\ PE_size \in Nat
    BY Rounding, RoundsAssumption, Numbers DEF Dist, PE_size_stride, PE_end
  <2> QED BY <1>2, <2>1 DEF To
<1> QED BY <1>1, <1>2, <1>3, <1>4, <1>5, <1>6, <1>7

\* What is stored in an array of the barriers, what in the words of the chain.
LEMMA FlagsApart ==
  ASSUME AllPEs, OnlyFlags, OnlyFlags'
  PROVE  /\ AllFlags' = AllFlags => flag' = flag /\ word' = word
         /\ \A q \in Member, v \in Nat :
              AllFlags' = [AllFlags EXCEPT !["barrier_sync"][q][0] = v] =>
                flag' = flag /\ word' = [word EXCEPT ![q][0] = v]
<1>1. /\ \A a \in Arrays : AllFlags[a] = flag[a] /\ AllFlags'[a] = flag'[a] /\ a # "barrier_sync"
      /\ AllFlags["barrier_sync"] = word /\ AllFlags'["barrier_sync"] = word'
      /\ DOMAIN AllFlags = Arrays \cup {"barrier_sync"}
      /\ AllFlags = [a \in Arrays \cup {"barrier_sync"} |-> AllFlags[a]]
  BY DEF AllFlags, AllPEs
<1> HIDE DEF AllFlags
<1>2. ASSUME \A a \in Arrays : flag'[a] = flag[a] PROVE flag' = flag
  BY <1>2 DEF OnlyFlags
<1>3. ASSUME AllFlags' = AllFlags PROVE flag' = flag /\ word' = word
  BY <1>1, <1>2, <1>3
<1>5. ASSUME NEW q \in Member, NEW v \in Nat,
             AllFlags' = [AllFlags EXCEPT !["barrier_sync"][q][0] = v]
      PROVE  flag' = flag /\ word' = [word EXCEPT ![q][0] = v]
  BY <1>1, <1>2, <1>5
<1> QED BY <1>3, <1>5

LEMMA BarrierFlag ==
  ASSUME AllPEs, OnlyFlags, OnlyFlags',
         NEW a \in Arrays, NEW q \in Member, NEW k \in Round, NEW v \in Nat,
         AllFlags' = [AllFlags EXCEPT ![a][q][k] = v]
  PROVE  flag' = [flag EXCEPT ![a][q][k] = v] /\ word' = word
<1>1. /\ \A b \in Arrays : AllFlags[b] = flag[b] /\ AllFlags'[b] = flag'[b] /\ b # "barrier_sync"
      /\ AllFlags["barrier_sync"] = word /\ AllFlags'["barrier_sync"] = word'
      /\ AllFlags = [b \in Arrays \cup {"barrier_sync"} |-> AllFlags[b]]
  BY DEF AllFlags, AllPEs
<1> HIDE DEF AllFlags
<1>2. word' = word
  BY <1>1
<1>3. \A b \in Arrays : flag'[b] = IF b = a THEN [flag[a] EXCEPT ![q][k] = v] ELSE flag[b]
  BY <1>1
<1>4. flag' = [b \in Arrays |-> IF b = a THEN [flag[a] EXCEPT ![q][k] = v] ELSE flag[b]]
  BY <1>3 DEF OnlyFlags
<1>5. [flag EXCEPT ![a][q][k] = v]
        = [b \in Arrays |-> IF b = a THEN [flag[a] EXCEPT ![q][k] = v] ELSE flag[b]]
  BY DEF OnlyFlags
<1> QED BY <1>2, <1>4, <1>5

\* A step of the barriers is one of ShmemSync.
LEMMA ChainSyncStep ==
  ASSUME AllPEs, OnlyFlags, OnlyFlags', IInv, NEW p \in Member, I!Sync!Step(p)
  PROVE  Step(p) /\ word' = word
<1>1. calls[p] + 1 \in 1..MaxCalls \/ pc[p] # "out" \/ ~(calls[p] < MaxCalls)
  BY CallsAssumption DEF IInv, TypeOK
<1>2. \A a \in Arrays : AllFlags[a] = flag[a]
  BY DEF AllFlags, AllPEs
<1>3. p \in Int /\ I!Sync!Round = Round /\ c[p] \in Nat /\ Rounds \in Nat /\ (\A k \in Round : I!Sync!To(p, k) = To(p, k))
  BY ChainGeometry, Numbers, RoundsAssumption DEF IInv, TypeOK
<1>4. CASE I!Sync!Enter(p)
  BY <1>4, FlagsApart DEF I!Sync!Enter, Enter, Step
<1>5. CASE I!Sync!Signal(p)
  <2>1. c[p] \in Round
    BY <1>3, <1>5 DEF I!Sync!Signal, Round
  <2> QED BY <1>5, FlagsApart DEF I!Sync!Signal, Signal, Step, I!Sync!Testset, Testset
<1>6. CASE I!Sync!TestsetSignal(p)
  <2>1. /\ c[p] \in Round /\ ArrayOf[calls[p]] \in Arrays /\ calls[p] \in Nat
        /\ To(p, c[p]) \in Member /\ I!Sync!To(p, c[p]) = To(p, c[p])
    <3>1. c[p] \in Round /\ pc[p] # "out"
      BY <1>3, <1>6 DEF I!Sync!TestsetSignal, Round
    <3> QED BY <1>3, <3>1, InCall, ToMember, CallsAssumption
  <2>2. /\ AllFlags' = [AllFlags EXCEPT ![ArrayOf[calls[p]]][To(p, c[p])][c[p]] = calls[p]]
        /\ AllFlags[ArrayOf[calls[p]]][To(p, c[p])][c[p]] = SYNC_VALUE
        /\ Testset /\ pc[p] = "loop" /\ c[p] < Rounds
        /\ pc' = [pc EXCEPT ![p] = "wait"] /\ UNCHANGED <<calls, c, posted>>
    BY <1>6, <2>1 DEF I!Sync!TestsetSignal, I!Sync!Testset, Testset, I!Sync!SYNC_VALUE, SYNC_VALUE
  <2>3. flag' = [flag EXCEPT ![ArrayOf[calls[p]]][To(p, c[p])][c[p]] = calls[p]] /\ word' = word
    BY <2>1, <2>2, BarrierFlag
  <2> QED BY <1>2, <2>1, <2>2, <2>3 DEF TestsetSignal, Step
<1>7. CASE I!Sync!Wait(p)
  <2>1. pc[p] = "wait" /\ ArrayOf[calls[p]] \in Arrays
    BY <1>7, InCall DEF I!Sync!Wait
  <2> QED BY <1>2, <1>7, <2>1, FlagsApart DEF I!Sync!Wait, Wait, Step, I!Sync!SYNC_VALUE, SYNC_VALUE
<1>8. CASE I!Sync!Clear(p)
  <2>1. pc[p] = "clear" /\ ArrayOf[calls[p]] \in Arrays /\ c[p] \in Round
    BY <1>8, InCall DEF I!Sync!Clear
  <2>2. AllFlags' = [AllFlags EXCEPT ![ArrayOf[calls[p]]][p][c[p]] = 0]
    BY <1>8 DEF I!Sync!Clear, I!Sync!SYNC_VALUE
  <2>3. flag' = [flag EXCEPT ![ArrayOf[calls[p]]][p][c[p]] = 0] /\ word' = word
    BY <2>1, <2>2, BarrierFlag
  <2> QED BY <1>8, <2>3 DEF I!Sync!Clear, Clear, Step, SYNC_VALUE
<1>9. CASE I!Sync!Leave(p)
  BY <1>9, FlagsApart DEF I!Sync!Leave, Leave, Step
<1> QED BY <1>4, <1>5, <1>6, <1>7, <1>8, <1>9 DEF I!Sync!Step

LEMMA ChainSyncLand ==
  ASSUME AllPEs, OnlyFlags, OnlyFlags', IInv, NEW p \in Member, NEW k \in Round, I!Sync!Land(p, k)
  PROVE  Land(p, k) /\ word' = word
<1>1. PICK n \in posted[p][k] :
        /\ \A m \in posted[p][k] : n <= m
        /\ AllFlags' = [AllFlags EXCEPT ![ArrayOf[n]][I!Sync!To(p, k)][k] = n]
        /\ posted' = [posted EXCEPT ![p][k] = @ \ {n}]
        /\ UNCHANGED <<calls, pc, c>>
  BY DEF I!Sync!Land
<1>2. I!Sync!To(p, k) = To(p, k) /\ To(p, k) \in Member
  BY ChainGeometry, ToMember, Numbers
<1>3. n \in Nat /\ ArrayOf[n] \in Arrays
  BY CallsAssumption DEF IInv, TypeOK
<1>4. flag' = [flag EXCEPT ![ArrayOf[n]][To(p, k)][k] = n] /\ word' = word
  <2>1. AllFlags' = [AllFlags EXCEPT ![ArrayOf[n]][To(p, k)][k] = n]
    BY <1>1, <1>2
  <2> QED BY <1>2, <1>3, <2>1, BarrierFlag
<1> QED BY <1>1, <1>4 DEF Land

\* PE p has sent the 1 of the chain.
Passed(p) == IF p = 0 THEN at[p] # "start" ELSE at[p] \in {"clear", "out"}
Past(p) == at[p] \in {"post", "clear", "out"}

ChainTypes ==
  /\ at \in [Member -> {"start", "wait", "post", "clear", "out"}] /\ at[0] # "post"
  /\ chain \in SUBSET Member
  /\ word \in [Member -> [Round -> 0..1]]
  /\ \A p \in Member : at[p] # "out" => calls[p] = 0

\* The 1 is in one place: on its way, in the word of the next PE, or behind it.
OneToken ==
  \A p \in Member :
    /\ p \in chain => Passed(p) /\ word[To(p, 0)][0] = 0 /\ ~Past(To(p, 0))
    /\ word[To(p, 0)][0] # 0 => Passed(p) /\ at[To(p, 0)] # "out"
    /\ Past(To(p, 0)) => Passed(p)

\* Who has seen it has all PEs before it in shmem_init.
ChainKnows == \A p, q \in Member : Past(p) /\ (p = 0 \/ q <= p) => at[q] # "start"

ChainInv == ChainTypes /\ OneToken /\ ChainKnows

LEMMA ChainNeighbours ==
  ASSUME AllPEs
  PROVE  /\ \A p \in Member : To(p, 0) \in Member /\ To(p, 0) # p /\ p \in Nat
         /\ \A p, q \in Member : To(p, 0) = To(q, 0) => p = q
         /\ 0 \in Member /\ 0 \in Round
         /\ \A q \in Member \ {0} : q - 1 \in Member /\ To(q - 1, 0) = q
         /\ PE_size - 1 \in Member /\ To(PE_size - 1, 0) = 0 /\ PE_size - 1 # 0
         /\ \A p \in Member : p <= PE_size - 1
<1> USE ChainGeometry, SetAssumption
<1>1. Member = 0..(PE_size - 1) /\ PE_size \in Nat /\ PE_size > 1
  BY DEF AllPEs
<1>2. \A p \in Member : To(p, 0) = IF p + 1 = PE_size THEN 0 ELSE p + 1
  OBVIOUS
<1> QED BY <1>1, <1>2

LEMMA ChainStart ==
  ASSUME AllPEs, ChainInv, NEW p \in Member, I!Start(p)
  PROVE  ChainInv'
<1>1. /\ at[p] = "start" /\ at' = [at EXCEPT ![p] = "wait"]
      /\ chain' = IF p = 0 THEN chain \cup {p} ELSE chain
      /\ AllFlags' = AllFlags /\ calls' = calls
  BY DEF I!Start, I!Goto, I!SyncUnchanged
<1>2. word' = word
  <2>1. AllFlags["barrier_sync"] = word /\ AllFlags'["barrier_sync"] = word'
    BY DEF AllFlags
  <2> QED BY <1>1, <2>1
<1>3. \A q \in Member : at'[q] = IF q = p THEN "wait" ELSE at[q]
  BY <1>1 DEF ChainInv, ChainTypes
<1>4. ChainTypes'
  BY <1>1, <1>2, <1>3 DEF ChainInv, ChainTypes
<1>5. /\ \A q \in Member : Past(q)' = Past(q)
      /\ \A q \in Member : Passed(q)' = (Passed(q) \/ (q = 0 /\ p = 0))
  BY <1>1, <1>3 DEF Past, Passed
<1>6. OneToken'
  <2>1. p = 0 => ~Passed(p)
    BY <1>1 DEF Passed
  <2> SUFFICES ASSUME NEW q \in Member
               PROVE  /\ q \in chain' => Passed(q)' /\ word[To(q, 0)][0] = 0 /\ ~Past(To(q, 0))
                      /\ word[To(q, 0)][0] # 0 => Passed(q)' /\ at'[To(q, 0)] # "out"
                      /\ Past(To(q, 0)) => Passed(q)'
    BY <1>2, <1>5, ChainNeighbours DEF OneToken, To, Dist
  <2>2. /\ q \in chain => Passed(q) /\ word[To(q, 0)][0] = 0 /\ ~Past(To(q, 0))
        /\ word[To(q, 0)][0] # 0 => Passed(q) /\ at[To(q, 0)] # "out"
        /\ Past(To(q, 0)) => Passed(q)
    BY DEF ChainInv, OneToken
  <2>3. at'[To(q, 0)] # "out" \/ at[To(q, 0)] = "out"
    BY <1>3, ChainNeighbours
  <2> QED BY <1>1, <1>5, <2>1, <2>2, <2>3
<1>7. ChainKnows'
  BY <1>3, <1>5 DEF ChainInv, ChainKnows
<1> QED BY <1>4, <1>6, <1>7 DEF ChainInv

LEMMA ChainLand ==
  ASSUME AllPEs, OnlyFlags, OnlyFlags', ChainInv, NEW p \in Member, I!LandChain(p)
  PROVE  ChainInv' /\ flag' = flag
<1> DEFINE r == To(p, 0)
<1>0. I!Next_pe(p) = r
  <2>1. p \in Int /\ 0 \in Round
    BY ChainNeighbours
  <2> QED BY <2>1, ChainGeometry DEF I!Next_pe
<1>1. /\ p \in chain /\ chain' = chain \ {p} /\ at' = at /\ calls' = calls
      /\ AllFlags' = [AllFlags EXCEPT !["barrier_sync"][r][0] = 1]
  BY <1>0 DEF I!LandChain, I!SetSync, I!SyncUnchanged
<1>2. r \in Member /\ 0 \in Round
  BY ChainNeighbours
<1> HIDE DEF r
<1>3. flag' = flag /\ word' = [word EXCEPT ![r][0] = 1]
  BY <1>1, <1>2, FlagsApart
<1>4. \A q \in Member : word'[q][0] = IF q = r THEN 1 ELSE word[q][0]
  BY <1>2, <1>3 DEF ChainInv, ChainTypes
<1>5. ChainTypes'
  <2>1. word' \in [Member -> [Round -> 0..1]]
    BY <1>2, <1>3 DEF ChainInv, ChainTypes
  <2> QED BY <1>1, <2>1 DEF ChainInv, ChainTypes
<1>6. \A q \in Member : Past(q)' = Past(q) /\ Passed(q)' = Passed(q)
  BY <1>1 DEF Past, Passed
<1>7. OneToken'
  <2> SUFFICES ASSUME NEW q \in Member
               PROVE  /\ q \in chain' => Passed(q) /\ word'[To(q, 0)][0] = 0 /\ ~Past(To(q, 0))
                      /\ word'[To(q, 0)][0] # 0 => Passed(q) /\ at[To(q, 0)] # "out"
                      /\ Past(To(q, 0)) => Passed(q)
    BY <1>1, <1>6, ChainNeighbours DEF OneToken, To, Dist
  <2>1. /\ q \in chain => Passed(q) /\ word[To(q, 0)][0] = 0 /\ ~Past(To(q, 0))
        /\ word[To(q, 0)][0] # 0 => Passed(q) /\ at[To(q, 0)] # "out"
        /\ Past(To(q, 0)) => Passed(q)
    BY DEF ChainInv, OneToken
  <2>2. CASE q = p
    BY <1>1, <1>2, <1>4, <2>1, <2>2 DEF r, Past
  <2>3. CASE q # p
    <3>1. To(q, 0) # r /\ To(q, 0) \in Member
      BY <2>3, ChainNeighbours DEF r
    <3> QED BY <1>1, <1>4, <2>1, <3>1
  <2> QED BY <2>2, <2>3
<1>8. ChainKnows'
  BY <1>1, <1>6 DEF ChainInv, ChainKnows
<1> QED BY <1>3, <1>5, <1>7, <1>8 DEF ChainInv

LEMMA ChainWait ==
  ASSUME AllPEs, ChainInv, NEW p \in Member, I!WaitChain(p)
  PROVE  ChainInv'
<1> DEFINE l == IF p = 0 THEN "clear" ELSE "post"
<1>1. /\ at[p] = "wait" /\ word[p][0] # 0 /\ at' = [at EXCEPT ![p] = l]
      /\ chain' = chain /\ AllFlags' = AllFlags /\ calls' = calls
  BY DEF I!WaitChain, I!Goto, I!SyncUnchanged, I!barrier_sync, AllFlags
<1>2. word' = word
  <2>1. AllFlags["barrier_sync"] = word /\ AllFlags'["barrier_sync"] = word'
    BY DEF AllFlags
  <2> QED BY <1>1, <2>1
<1>3. \A q \in Member : at'[q] = IF q = p THEN l ELSE at[q]
  BY <1>1 DEF ChainInv, ChainTypes
<1>4. ChainTypes'
  BY <1>1, <1>2, <1>3, ChainNeighbours DEF ChainInv, ChainTypes
<1>5. \A q \in Member : /\ Past(q)' = (Past(q) \/ q = p)
                        /\ Passed(q)' = Passed(q)
  BY <1>1, <1>3 DEF Past, Passed
<1>6. PICK s \in Member : To(s, 0) = p
  BY ChainNeighbours
<1>7. Passed(s) /\ s \notin chain
  BY <1>1, <1>6 DEF ChainInv, OneToken
<1>8. OneToken'
  <2> SUFFICES ASSUME NEW q \in Member
               PROVE  /\ q \in chain => Passed(q) /\ word[To(q, 0)][0] = 0 /\ ~Past(To(q, 0))'
                      /\ word[To(q, 0)][0] # 0 => Passed(q) /\ at'[To(q, 0)] # "out"
                      /\ Past(To(q, 0))' => Passed(q)
    BY <1>1, <1>2, <1>5, ChainNeighbours DEF OneToken, To, Dist
  <2>1. /\ q \in chain => Passed(q) /\ word[To(q, 0)][0] = 0 /\ ~Past(To(q, 0))
        /\ word[To(q, 0)][0] # 0 => Passed(q) /\ at[To(q, 0)] # "out"
        /\ Past(To(q, 0)) => Passed(q)
    BY DEF ChainInv, OneToken
  <2>2. To(q, 0) \in Member /\ (To(q, 0) = p => q = s)
    BY <1>6, ChainNeighbours
  <2>3. at'[To(q, 0)] # "out" \/ at[To(q, 0)] = "out"
    BY <1>3, <2>2
  <2> QED BY <1>5, <1>7, <2>1, <2>2, <2>3 DEF To, Dist, Past
<1>9. ChainKnows'
  <2> SUFFICES ASSUME NEW x \in Member, NEW q \in Member, Past(x)', x = 0 \/ q <= x
               PROVE  at'[q] # "start"
    BY DEF ChainKnows
  <2>1. CASE x # p
    BY <1>3, <1>5, <2>1 DEF ChainInv, ChainKnows
  <2>2. CASE x = p
    <3>1. CASE s = 0
      <4>1. p = 1 /\ at[0] # "start"
        BY <1>6, <1>7, <3>1, ChainGeometry, ChainNeighbours DEF Passed
      <4>2. q = p \/ q = 0
        BY <2>2, <4>1, ChainNeighbours
      <4> QED BY <1>1, <1>3, <4>1, <4>2
    <3>2. CASE s # 0
      <4>1. Past(s)
        BY <1>7, <3>2 DEF Passed, Past
      <4>2. q = p \/ q <= s
        <5>1. p = 0 => s = PE_size - 1
          BY <1>6, ChainNeighbours
        <5>2. p # 0 => s = p - 1
          BY <1>6, ChainNeighbours
        <5> QED BY <2>2, <5>1, <5>2, ChainNeighbours
      <4>3. q <= s => at[q] # "start"
        BY <4>1 DEF ChainInv, ChainKnows
      <4> QED BY <1>1, <1>3, <4>2, <4>3
    <3> QED BY <3>1, <3>2
  <2> QED BY <2>1, <2>2
<1> QED BY <1>4, <1>8, <1>9 DEF ChainInv

LEMMA ChainPost ==
  ASSUME AllPEs, ChainInv, NEW p \in Member, I!Post(p)
  PROVE  ChainInv'
<1>1. /\ at[p] = "post" /\ at' = [at EXCEPT ![p] = "clear"]
      /\ chain' = chain \cup {p} /\ AllFlags' = AllFlags /\ calls' = calls
  BY DEF I!Post, I!Goto, I!SyncUnchanged
<1>2. word' = word
  <2>1. AllFlags["barrier_sync"] = word /\ AllFlags'["barrier_sync"] = word'
    BY DEF AllFlags
  <2> QED BY <1>1, <2>1
<1>3. \A q \in Member : at'[q] = IF q = p THEN "clear" ELSE at[q]
  BY <1>1 DEF ChainInv, ChainTypes
<1>4. ChainTypes'
  BY <1>1, <1>2, <1>3, ChainNeighbours DEF ChainInv, ChainTypes
<1>5. p # 0 /\ ~Passed(p)
  BY <1>1 DEF ChainInv, ChainTypes, Passed
<1>6. \A q \in Member : /\ Past(q)' = Past(q)
                        /\ Passed(q)' = (Passed(q) \/ q = p)
  BY <1>1, <1>3, <1>5 DEF Past, Passed
<1>7. OneToken'
  <2> SUFFICES ASSUME NEW q \in Member
               PROVE  /\ q \in chain' => Passed(q)' /\ word[To(q, 0)][0] = 0 /\ ~Past(To(q, 0))
                      /\ word[To(q, 0)][0] # 0 => Passed(q)' /\ at'[To(q, 0)] # "out"
                      /\ Past(To(q, 0)) => Passed(q)'
    BY <1>2, <1>6, ChainNeighbours DEF OneToken, To, Dist
  <2>1. /\ q \in chain => Passed(q) /\ word[To(q, 0)][0] = 0 /\ ~Past(To(q, 0))
        /\ word[To(q, 0)][0] # 0 => Passed(q) /\ at[To(q, 0)] # "out"
        /\ Past(To(q, 0)) => Passed(q)
    BY DEF ChainInv, OneToken
  <2>2. at'[To(q, 0)] # "out" \/ at[To(q, 0)] = "out"
    BY <1>3, ChainNeighbours
  <2> QED BY <1>1, <1>5, <1>6, <2>1, <2>2
<1>8. ChainKnows'
  BY <1>3, <1>6 DEF ChainInv, ChainKnows
<1> QED BY <1>4, <1>7, <1>8 DEF ChainInv

LEMMA ChainClear ==
  ASSUME AllPEs, OnlyFlags, OnlyFlags', ChainInv, NEW p \in Member, I!ClearChain(p)
  PROVE  ChainInv' /\ flag' = flag
<1>1. /\ at[p] = "clear" /\ at' = [at EXCEPT ![p] = "out"] /\ chain' = chain /\ calls' = calls
      /\ AllFlags' = [AllFlags EXCEPT !["barrier_sync"][p][0] = 0]
  BY DEF I!ClearChain, I!SetSync, I!SyncUnchanged, I!Goto
<1>2. flag' = flag /\ word' = [word EXCEPT ![p][0] = 0]
  BY <1>1, FlagsApart
<1>3. \A q \in Member : /\ word'[q][0] = IF q = p THEN 0 ELSE word[q][0]
                        /\ at'[q] = IF q = p THEN "out" ELSE at[q]
  BY <1>1, <1>2, ChainNeighbours DEF ChainInv, ChainTypes
<1>4. ChainTypes'
  <2>1. word' \in [Member -> [Round -> 0..1]]
    BY <1>2, ChainNeighbours DEF ChainInv, ChainTypes
  <2> QED BY <1>1, <1>3, <2>1, ChainNeighbours DEF ChainInv, ChainTypes
<1>5. \A q \in Member : Past(q)' = Past(q) /\ Passed(q)' = Passed(q)
  BY <1>1, <1>3 DEF Past, Passed
<1>6. OneToken'
  <2> SUFFICES ASSUME NEW q \in Member
               PROVE  /\ q \in chain => Passed(q) /\ word'[To(q, 0)][0] = 0 /\ ~Past(To(q, 0))
                      /\ word'[To(q, 0)][0] # 0 => Passed(q) /\ at'[To(q, 0)] # "out"
                      /\ Past(To(q, 0)) => Passed(q)
    BY <1>1, <1>5, ChainNeighbours DEF OneToken, To, Dist
  <2>1. /\ q \in chain => Passed(q) /\ word[To(q, 0)][0] = 0 /\ ~Past(To(q, 0))
        /\ word[To(q, 0)][0] # 0 => Passed(q) /\ at[To(q, 0)] # "out"
        /\ Past(To(q, 0)) => Passed(q)
    BY DEF ChainInv, OneToken
  <2>2. To(q, 0) \in Member
    BY ChainNeighbours
  <2> QED BY <1>3, <2>1, <2>2
<1>7. ChainKnows'
  BY <1>3, <1>5 DEF ChainInv, ChainKnows
<1> QED BY <1>2, <1>4, <1>6, <1>7 DEF ChainInv

\* The barriers do not touch the chain, and nobody calls one before the end of it.
LEMMA ChainSync ==
  ASSUME AllPEs, IInv, ChainInv, Next, UNCHANGED <<at, chain, word>>,
         \A p \in Member : at[p] # "out" => calls'[p] = calls[p]
  PROVE  ChainInv'
BY DEF ChainInv, ChainTypes, OneToken, ChainKnows, Past, Passed, To, Dist

LEMMA ChainInit == ASSUME AllPEs, OnlyFlags, I!Init PROVE IInv /\ ChainInv
<1>1. /\ AllFlags["barrier_sync"] = word /\ \A a \in Arrays : AllFlags[a] = flag[a]
  BY DEF AllFlags, AllPEs
<1>2. /\ AllFlags = [a \in Arrays \cup {"barrier_sync"} |->
                       [p \in Member |-> [k \in Round |-> SYNC_VALUE]]]
      /\ calls = [p \in Member |-> 0] /\ pc = [p \in Member |-> "out"]
      /\ c = [p \in Member |-> Rounds] /\ posted = [p \in Member |-> [k \in Round |-> {}]]
      /\ at = [p \in Member |-> "start"] /\ chain = {}
  BY ChainGeometry DEF I!Init, I!Sync!Init, I!Sync!SYNC_VALUE, SYNC_VALUE
<1> HIDE DEF AllFlags
<1>3. word = [p \in Member |-> [k \in Round |-> 0]]
  BY <1>1, <1>2 DEF SYNC_VALUE
<1>4. Init
  <2>1. \A a \in Arrays : flag[a] = [p \in Member |-> [k \in Round |-> SYNC_VALUE]]
    BY <1>1, <1>2
  <2>2. flag = [a \in Arrays |-> [p \in Member |-> [k \in Round |-> SYNC_VALUE]]]
    BY <2>1 DEF OnlyFlags
  <2> QED BY <1>2, <2>2 DEF Init
<1>5. \A p \in Member : ~Past(p) /\ ~Passed(p)
  BY <1>2 DEF Past, Passed
<1>6. \A p \in Member : To(p, 0) \in Member /\ word[To(p, 0)][0] = 0
  BY <1>3, ChainNeighbours
<1> QED BY <1>2, <1>3, <1>4, <1>5, <1>6, InitIInv, ChainNeighbours
        DEF ChainInv, ChainTypes, OneToken, ChainKnows

\* A step of the chain leaves the barriers alone, and a step of a barrier the chain.
LEMMA ChainNext ==
  ASSUME AllPEs, OnlyFlags, OnlyFlags', IInv, ChainInv, [I!Next]_(I!vars)
  PROVE  IInv' /\ ChainInv'
<1>1. ASSUME I!SyncUnchanged, flag' = flag PROVE IInv'
  <2>1. UNCHANGED vars
    BY <1>1 DEF I!SyncUnchanged, vars
  <2> QED BY <2>1, NextIInv
<1>2. ASSUME AllFlags' = AllFlags PROVE flag' = flag /\ word' = word
  BY <1>2, FlagsApart
<1>3. ASSUME NEW p \in Member, I!Step(p) PROVE IInv' /\ ChainInv'
  <2>1. CASE I!Start(p)
    BY <1>1, <1>2, <2>1, ChainStart DEF I!Start
  <2>2. CASE I!WaitChain(p)
    BY <1>1, <1>2, <2>2, ChainWait DEF I!WaitChain
  <2>3. CASE I!Post(p)
    BY <1>1, <1>2, <2>3, ChainPost DEF I!Post
  <2>4. CASE I!ClearChain(p)
    BY <1>1, <2>4, ChainClear DEF I!ClearChain
  <2>5. CASE I!SyncStep(p)
    <3>1. at[p] = "out" /\ I!Sync!Step(p) /\ UNCHANGED <<at, chain>>
      BY <2>5 DEF I!SyncStep
    <3>2. Step(p) /\ word' = word
      BY <3>1, ChainSyncStep
    <3>3. Next
      BY <3>2 DEF Next
    <3>4. \A q \in Member : q # p => calls'[q] = calls[q]
      BY <3>2 DEF Step, Enter, Signal, TestsetSignal, Wait, Clear, Leave, IInv, TypeOK
    <3>5. ChainInv'
      BY <3>1, <3>2, <3>3, <3>4, ChainSync
    <3> QED BY <3>3, <3>5, NextIInv
  <2> QED BY <1>3, <2>1, <2>2, <2>3, <2>4, <2>5 DEF I!Step
<1>4. ASSUME NEW p \in Member, I!Land(p) PROVE IInv' /\ ChainInv'
  <2>1. CASE I!LandChain(p)
    BY <1>1, <2>1, ChainLand DEF I!LandChain
  <2>2. CASE \E k \in I!Sync!Round : I!LandSignal(p, k)
    <3>1. PICK k \in Round : I!Sync!Land(p, k) /\ UNCHANGED <<at, chain>>
      BY <2>2, ChainGeometry DEF I!LandSignal
    <3>2. Land(p, k) /\ word' = word
      BY <3>1, ChainSyncLand
    <3>3. Next /\ calls' = calls
      BY <3>2 DEF Next, Land
    <3>4. ChainInv'
      BY <3>1, <3>2, <3>3, ChainSync
    <3> QED BY <3>3, <3>4, NextIInv
  <2> QED BY <1>4, <2>1, <2>2 DEF I!Land
<1>5. ASSUME UNCHANGED <<calls, pc, c, AllFlags, posted, at, chain>> PROVE IInv' /\ ChainInv'
  <2>1. UNCHANGED vars /\ word' = word
    BY <1>2, <1>5 DEF vars
  <2>2. ChainInv'
    BY <1>5, <2>1 DEF vars, ChainInv, ChainTypes, OneToken, ChainKnows, Past, Passed, To, Dist
  <2> QED BY <2>1, <2>2, NextIInv
<1>6. CASE I!Next
  <2>1. I!Sync!Finished /\ UNCHANGED <<at, chain>>
          => UNCHANGED <<calls, pc, c, AllFlags, posted, at, chain>>
    BY DEF I!Sync!Finished, I!Sync!vars
  <2> QED BY <1>3, <1>4, <1>5, <1>6, <2>1, ChainGeometry DEF I!Next
<1>7. CASE UNCHANGED I!vars
  BY <1>5, <1>7 DEF I!vars
<1> QED BY <1>6, <1>7

\* A PE returns from shmem_init after the PEs before it have come to it, PE 0 after
\* all; and when one PE has returned from a barrier behind it, all are out of
\* shmem_init and the words of the chain are clear.
LEMMA ChainInvGives ==
  ASSUME AllPEs, IInv, ChainInv PROVE I!InitIsChain /\ I!InitIsOver
<1>1. I!InitIsChain
  BY ChainGeometry DEF I!InitIsChain, ChainInv, ChainKnows, Past
<1>2. I!InitIsOver
  <2> SUFFICES ASSUME NEW p \in Member, calls[p] > 0, pc[p] = "out"
               PROVE  chain = {} /\ \A q \in Member : at[q] = "out" /\ word[q][0] = 0
    BY ChainGeometry DEF I!InitIsOver, I!barrier_sync, AllFlags
  <2>1. c[p] = Rounds
    BY DEF IInv, ControlOK
  <2>2. \A q \in Member : Behind(q, p) < Dist(Rounds)
    BY BehindAll
  <2>3. \A q \in Member : calls[q] >= calls[p]
    BY <2>1, <2>2, RoundsAssumption DEF IInv, Dissemination
  <2>4. calls \in [Member -> 0..MaxCalls] /\ MaxCalls \in Nat
    BY CallsAssumption DEF IInv, TypeOK
  <2>5. \A q \in Member : at[q] = "out"
    BY <2>3, <2>4 DEF ChainInv, ChainTypes
  <2>6. \A q \in Member : Past(To(q, 0)) /\ at[To(q, 0)] = "out"
    BY <2>5, ChainNeighbours DEF Past
  <2>7. \A q \in Member : q \notin chain /\ word[To(q, 0)][0] = 0
    BY <2>6 DEF ChainInv, OneToken
  <2>8. \A q \in Member : \E r \in Member : To(r, 0) = q
    BY FromMember, ChainNeighbours
  <2> QED BY <2>5, <2>7, <2>8 DEF ChainInv, ChainTypes
<1> QED BY <1>1, <1>2

\* shmem_init passes a 1 around (shmem_init.c:175-184); the shmem_sync behind it makes
\* a barrier of it and leaves barrier_sync clear for shmem_sync_all.
THEOREM InitIsOverAfterSync ==
  ASSUME AllPEs PROVE I!Spec /\ []OnlyFlags => [](I!InitIsChain /\ I!InitIsOver)
<1>1. OnlyFlags /\ I!Init => IInv /\ ChainInv
  BY ChainInit
<1>2. OnlyFlags /\ OnlyFlags' /\ IInv /\ ChainInv /\ [I!Next]_(I!vars) => IInv' /\ ChainInv'
  BY ChainNext
<1>3. IInv /\ ChainInv => I!InitIsChain /\ I!InitIsOver
  BY ChainInvGives
<1> QED BY <1>1, <1>2, <1>3, PTL DEF I!Spec

------------------------------------------------------------------------------
(* ShmemExchange: copies that are in order with the signals of the rounds.    *)
CONSTANTS Collective, nelems, dst, sst, Source
VARIABLES copied, data, dest

X == INSTANCE ShmemExchange WITH Routine <- Collective

Copying == 0..(X!Copies - 1)

\* Who is sent a block is the PE itself or its partner in some round.
ReachesAll ==
  \A p \in Member, k \in Copying :
    LET q == X!Target(p, k)
    IN  q \in Member /\ (q = p \/ \E j \in Round : To(p, j) = q)

\* The blocks are what the routine promises, and all of it.
BlocksFit ==
  \A q \in Member, i \in X!Place :
    /\ \A p \in Member, k \in Copying :
         X!Target(p, k) = q /\ i \in DOMAIN X!Block(p, k) => X!Block(p, k)[i] = X!Expected(q)[i]
    /\ X!Expected(q)[i] # X!None =>
         \E p \in Member, k \in Copying : X!Target(p, k) = q /\ i \in DOMAIN X!Block(p, k)

LEMMA ExchangeSync ==
  ASSUME Routine = "sync"
  PROVE  /\ X!Member = Member /\ X!Sync!Member = Member /\ X!Sync!Round = Round
         /\ X!Sync!PE_end = PE_end /\ X!Sync!PE_size_stride = PE_size_stride
         /\ X!Sync!Init = Init
         /\ \A p, k : X!Sync!To(p, k) = To(p, k) /\ X!Sync!Land(p, k) = Land(p, k)
         /\ \A p : /\ X!Sync!Enter(p) = Enter(p) /\ X!Sync!Signal(p) = Signal(p)
                   /\ X!Sync!TestsetSignal(p) = TestsetSignal(p) /\ X!Sync!Wait(p) = Wait(p)
                   /\ X!Sync!Clear(p) = Clear(p) /\ X!Sync!Leave(p) = Leave(p)
BY DEF X!Member, X!Sync!Member, Member, X!Sync!Round, Round, X!Sync!PE_end, PE_end,
       X!Sync!PE_size_stride, PE_size_stride, X!Sync!Init, Init, X!Sync!To, To, X!Sync!Dist, Dist,
       X!Sync!Land, Land, X!Sync!Enter, Enter, X!Sync!Signal, Signal, X!Sync!TestsetSignal,
       TestsetSignal, X!Sync!Wait, Wait, X!Sync!Clear, Clear, X!Sync!Leave, Leave,
       X!Sync!Testset, Testset, X!Sync!SYNC_VALUE, SYNC_VALUE

\* PE p has made its copy k of call n, and what it put on its way.
Made(p, k, n) == n <= calls[p] \/ (n = calls[p] + 1 /\ k < copied[p])
Record(p, k, n) == [from |-> p, to |-> X!Target(p, k), call |-> n, block |-> X!Block(p, k)]

Datum == {X!None} \cup {X!Expected(q)[i] : q \in Member, i \in X!Place}
ExchangeTypes ==
  /\ copied \in [Member -> 0..X!Copies]
  /\ dest \in [1..MaxCalls -> [Member -> [X!Place -> Datum]]]

\* What is in flight was copied, and what was copied is in flight or in dest.
DataAreCopies ==
  \A d \in data : \E p \in Member, k \in Copying, n \in 1..MaxCalls :
    Made(p, k, n) /\ X!Target(p, k) # p /\ d = Record(p, k, n)
CopiesArrive ==
  \A p \in Member, k \in Copying, n \in 1..MaxCalls : Made(p, k, n) =>
    \/ Record(p, k, n) \in data
    \/ \A i \in X!Place : i \in DOMAIN X!Block(p, k) =>
         dest[n][X!Target(p, k)][i] = X!Expected(X!Target(p, k))[i]
DestIsPart ==
  \A n \in 1..MaxCalls, q \in Member, i \in X!Place : dest[n][q][i] \in {X!None, X!Expected(q)[i]}

\* While a copy is under way the signals behind it are, too.
SignalsBehind ==
  \A d \in data, j \in Round : To(d.from, j) = d.to =>
    /\ \A a \in Arrays : flag[a][d.to][j] < d.call
    /\ Consumed(d.to, j) < d.call

ExchangeInv == ExchangeTypes /\ DataAreCopies /\ CopiesArrive /\ DestIsPart /\ SignalsBehind

\* A block that is written makes its part of dest what it should be.
LEMMA WrittenIs ==
  ASSUME BlocksFit, NEW p \in Member, NEW k \in Copying, X!Target(p, k) \in Member,
         NEW f \in [X!Place -> Datum],
         \A i \in X!Place : f[i] \in {X!None, X!Expected(X!Target(p, k))[i]}
  PROVE  LET w == X!Written(f, X!Block(p, k))
             e == X!Expected(X!Target(p, k))
         IN  /\ w \in [X!Place -> Datum]
             /\ \A i \in X!Place : /\ w[i] \in {X!None, e[i]}
                                   /\ i \in DOMAIN X!Block(p, k) \/ f[i] = e[i] => w[i] = e[i]
<1> DEFINE q == X!Target(p, k)
           b == X!Block(p, k)
           e == X!Expected(q)
           w == X!Written(f, b)
<1>1. w = [i \in X!Place |-> IF i \in DOMAIN b THEN b[i] ELSE f[i]]
  BY DEF X!Written
<1>2. \A i \in X!Place : i \in DOMAIN b => b[i] = e[i]
  BY DEF BlocksFit
<1>3. \A i \in X!Place : e[i] \in Datum
  BY DEF Datum
<1> HIDE DEF w, b, e, q
<1>4. \A i \in X!Place : /\ w[i] \in {X!None, e[i]} /\ w[i] \in Datum
                         /\ i \in DOMAIN b \/ f[i] = e[i] => w[i] = e[i]
  BY <1>1, <1>2, <1>3 DEF e, q
<1>5. w \in [X!Place -> Datum]
  BY <1>1, <1>4
<1> QED BY <1>4, <1>5 DEF w, b, e, q

LEMMA ExchangeCalls ==
  ASSUME IInv, NEW p \in Member
  PROVE  calls[p] \in 0..MaxCalls /\ calls[p] \in Nat /\ MaxCalls \in Nat
BY CallsAssumption DEF IInv, TypeOK

\* A copy is made: the signals of its call have not been sent yet.
LEMMA ExchangeCopy ==
  ASSUME Routine = "sync", ReachesAll, BlocksFit, IInv, ExchangeInv, NEW p \in Member, X!Copy(p)
  PROVE  ExchangeInv'
<1>0. X!Copies \in Nat /\ copied[p] \in 0..X!Copies /\ copied[p] < X!Copies /\ calls[p] < MaxCalls
  <2>1. X!Copies \in Nat
    BY SetAssumption DEF X!Copies
  <2> QED BY <2>1 DEF ExchangeInv, ExchangeTypes, X!Copy
<1>a. PICK n \in 1..MaxCalls : n = calls[p] + 1
  BY <1>0, ExchangeCalls
<1>b. PICK k \in Copying : k = copied[p]
  BY <1>0 DEF Copying
<1> DEFINE q == X!Target(p, k)
           b == X!Block(p, k)
<1>1. /\ calls[p] < MaxCalls /\ k < X!Copies
      /\ copied' = [copied EXCEPT ![p] = @ + 1]
      /\ IF q = p THEN dest' = [dest EXCEPT ![n][p] = X!Written(@, b)] /\ data' = data
         ELSE data' = data \cup {Record(p, k, n)} /\ dest' = dest
      /\ calls' = calls /\ c' = c /\ flag' = flag
  BY <1>a, <1>b DEF X!Copy, Record
<1>2. /\ n \in 1..MaxCalls /\ n \in Nat /\ calls[p] \in Nat /\ k \in Copying /\ q \in Member
      /\ X!Copies \in Nat /\ copied[p] \in 0..X!Copies
  BY <1>0, <1>a, <1>b, ExchangeCalls DEF ReachesAll
<1>3. \A s \in Member : copied'[s] = IF s = p THEN k + 1 ELSE copied[s]
  BY <1>1, <1>b DEF ExchangeInv, ExchangeTypes
<1>4. \A s \in Member, m \in Copying, l \in 1..MaxCalls :
        Made(s, m, l)' = (Made(s, m, l) \/ (s = p /\ m = k /\ l = n))
  <2> SUFFICES ASSUME NEW s \in Member, NEW m \in Copying, NEW l \in 1..MaxCalls
               PROVE  Made(s, m, l)' = (Made(s, m, l) \/ (s = p /\ m = k /\ l = n))
    OBVIOUS
  <2>1. m \in Nat /\ copied[s] \in Nat
    BY <1>2 DEF Copying, ExchangeInv, ExchangeTypes
  <2> QED BY <1>1, <1>2, <1>3, <1>a, <1>b, <2>1 DEF Made
<1> HIDE DEF q, b
<1>5. CASE q = p
  <2> DEFINE f == dest[n][p]
             w == X!Written(f, b)
  <2>1. dest' = [dest EXCEPT ![n][p] = w] /\ data' = data
    BY <1>1, <1>5
  <2>2. f \in [X!Place -> Datum] /\ \A i \in X!Place : f[i] \in {X!None, X!Expected(p)[i]}
    BY <1>2 DEF ExchangeInv, ExchangeTypes, DestIsPart
  <2>3. /\ w \in [X!Place -> Datum]
        /\ \A i \in X!Place : /\ w[i] \in {X!None, X!Expected(p)[i]}
                              /\ i \in DOMAIN b \/ f[i] = X!Expected(p)[i] => w[i] = X!Expected(p)[i]
    BY <1>2, <1>5, <2>2, WrittenIs DEF q, b
  <2> HIDE DEF w
  <2>4. \A l \in 1..MaxCalls, s \in Member :
          dest'[l][s] = IF l = n /\ s = p THEN w ELSE dest[l][s]
    BY <1>2, <2>1 DEF ExchangeInv, ExchangeTypes
  <2>5. ExchangeTypes'
    <3>1. copied' \in [Member -> 0..X!Copies]
      BY <1>1, <1>2, <1>b DEF ExchangeInv, ExchangeTypes
    <3>2. dest' \in [1..MaxCalls -> [Member -> [X!Place -> Datum]]]
      BY <1>2, <2>1, <2>3 DEF ExchangeInv, ExchangeTypes
    <3> QED BY <3>1, <3>2 DEF ExchangeTypes
  <2>6. DataAreCopies'
    <3> SUFFICES ASSUME NEW d \in data
                 PROVE  \E s \in Member, m \in Copying, l \in 1..MaxCalls :
                          Made(s, m, l)' /\ X!Target(s, m) # s /\ d = Record(s, m, l)
      BY <2>1 DEF DataAreCopies
    <3>1. PICK s \in Member, m \in Copying, l \in 1..MaxCalls :
            Made(s, m, l) /\ X!Target(s, m) # s /\ d = Record(s, m, l)
      BY DEF ExchangeInv, DataAreCopies
    <3>2. Made(s, m, l)'
      BY <1>4, <3>1
    <3> QED BY <3>1, <3>2
  <2>7. CopiesArrive'
    <3> SUFFICES ASSUME NEW s \in Member, NEW m \in Copying, NEW l \in 1..MaxCalls,
                        Made(s, m, l)', Record(s, m, l) \notin data,
                        NEW i \in X!Place, i \in DOMAIN X!Block(s, m)
                 PROVE  dest'[l][X!Target(s, m)][i] = X!Expected(X!Target(s, m))[i]
      BY <2>1 DEF CopiesArrive
    <3>1. X!Target(s, m) \in Member
      BY DEF ReachesAll
    <3>2. CASE Made(s, m, l)
      <4>1. dest[l][X!Target(s, m)][i] = X!Expected(X!Target(s, m))[i]
        BY <3>2 DEF ExchangeInv, CopiesArrive
      <4> QED BY <2>3, <2>4, <3>1, <4>1
    <3>3. CASE s = p /\ m = k /\ l = n
      BY <1>5, <2>3, <2>4, <3>1, <3>3 DEF q, b
    <3> QED BY <1>4, <3>2, <3>3
  <2>8. DestIsPart'
    BY <2>3, <2>4 DEF ExchangeInv, DestIsPart
  <2>9. SignalsBehind'
    BY <1>1, <2>1 DEF ExchangeInv, SignalsBehind, Consumed, To, Dist
  <2> QED BY <2>5, <2>6, <2>7, <2>8, <2>9 DEF ExchangeInv
<1>6. CASE q # p
  <2>1. data' = data \cup {Record(p, k, n)} /\ dest' = dest
    BY <1>1, <1>6
  <2>2. ExchangeTypes'
    <3>1. copied' \in [Member -> 0..X!Copies]
      BY <1>1, <1>2, <1>b DEF ExchangeInv, ExchangeTypes
    <3> QED BY <2>1, <3>1 DEF ExchangeInv, ExchangeTypes
  <2>3. DataAreCopies'
    <3> SUFFICES ASSUME NEW d \in data'
                 PROVE  \E s \in Member, m \in Copying, l \in 1..MaxCalls :
                          Made(s, m, l)' /\ X!Target(s, m) # s /\ d = Record(s, m, l)
      BY DEF DataAreCopies
    <3>1. CASE d \in data
      <4>1. PICK s \in Member, m \in Copying, l \in 1..MaxCalls :
              Made(s, m, l) /\ X!Target(s, m) # s /\ d = Record(s, m, l)
        BY <3>1 DEF ExchangeInv, DataAreCopies
      <4>2. Made(s, m, l)'
        BY <1>4, <4>1
      <4> QED BY <4>1, <4>2
    <3>2. CASE d = Record(p, k, n)
      <4>1. Made(p, k, n)'
        BY <1>4
      <4> QED BY <1>6, <3>2, <4>1 DEF q
    <3> QED BY <2>1, <3>1, <3>2
  <2>4. CopiesArrive'
    BY <1>4, <2>1 DEF ExchangeInv, CopiesArrive
  <2>5. DestIsPart'
    BY <2>1 DEF ExchangeInv, DestIsPart
  <2>6. SignalsBehind'
    <3> SUFFICES ASSUME NEW d \in data', NEW j \in Round, To(d.from, j) = d.to
                 PROVE  /\ \A a \in Arrays : flag[a][d.to][j] < d.call
                        /\ Consumed(d.to, j) < d.call
      BY <1>1 DEF SignalsBehind, Consumed, To, Dist
    <3>1. CASE d \in data
      BY <3>1 DEF ExchangeInv, SignalsBehind
    <3>2. CASE d = Record(p, k, n)
      <4>1. d.from = p /\ d.to = q /\ d.call = n /\ To(p, j) = q
        BY <3>2 DEF Record, q
      <4>2. Sent(p, j) <= calls[p] /\ Sent(p, j) \in Int /\ Consumed(q, j) \in Int
        BY <1>2, ExchangeCalls DEF Sent, Consumed
      <4>3. Consumed(q, j) <= Sent(p, j)
        BY <4>1 DEF IInv, ConsumedWasSent
      <4>4. ASSUME NEW a \in Arrays PROVE flag[a][q][j] < n
        <5>1. flag[a][q][j] \in Nat /\ (flag[a][q][j] # 0 => flag[a][q][j] <= Sent(p, j))
          BY <1>2, <4>1, ExchangeCalls DEF IInv, TypeOK, FlagFresh, SYNC_VALUE
        <5> QED BY <1>2, <1>a, <4>2, <5>1
      <4> QED BY <1>2, <1>a, <4>1, <4>2, <4>3, <4>4
    <3> QED BY <2>1, <3>1, <3>2
  <2> QED BY <2>2, <2>3, <2>4, <2>5, <2>6 DEF ExchangeInv
<1> QED BY <1>5, <1>6

LEMMA DataTypes ==
  ASSUME ReachesAll, ExchangeInv, NEW d \in data
  PROVE  d.from \in Member /\ d.to \in Member /\ d.call \in 1..MaxCalls /\ d.call \in Nat
<1>1. PICK s \in Member, m \in Copying, l \in 1..MaxCalls : d = Record(s, m, l)
  BY DEF ExchangeInv, DataAreCopies
<1>2. X!Target(s, m) \in Member
  BY DEF ReachesAll
<1> QED BY <1>1, <1>2 DEF Record

\* As long as nothing is copied and nothing lands, all that matters is the signals.
LEMMA ExchangeSame ==
  ASSUME ExchangeInv, copied' \in [Member -> 0..X!Copies], data' = data, dest' = dest,
         \A s \in Member, m \in Copying, l \in 1..MaxCalls : Made(s, m, l)' = Made(s, m, l)
  PROVE  ExchangeTypes' /\ DataAreCopies' /\ CopiesArrive' /\ DestIsPart'
<1>1. ExchangeTypes'
  BY DEF ExchangeInv, ExchangeTypes
<1>2. DataAreCopies'
  BY DEF ExchangeInv, DataAreCopies
<1>3. CopiesArrive'
  BY DEF ExchangeInv, CopiesArrive
<1>4. DestIsPart'
  BY DEF ExchangeInv, DestIsPart
<1> QED BY <1>1, <1>2, <1>3, <1>4

\* With the last copy of a call shmem_sync is called.
LEMMA ExchangeEnter ==
  ASSUME Routine = "sync", ReachesAll, IInv, ExchangeInv, NEW p \in Member, X!Enter(p)
  PROVE  ExchangeInv'
<1>1. /\ copied[p] = X!Copies /\ copied' = [copied EXCEPT ![p] = 0]
      /\ data' = data /\ dest' = dest /\ Enter(p)
  BY ExchangeSync DEF X!Enter
<1>2. /\ pc[p] = "out" /\ calls' = [calls EXCEPT ![p] = @ + 1] /\ c' = [c EXCEPT ![p] = 0]
      /\ flag' = flag
  BY <1>1 DEF Enter
<1>3. X!Copies \in Nat
  BY SetAssumption DEF X!Copies
<1>4. copied' \in [Member -> 0..X!Copies]
  BY <1>1, <1>3 DEF ExchangeInv, ExchangeTypes
<1>5. \A s \in Member : /\ calls'[s] = IF s = p THEN calls[s] + 1 ELSE calls[s]
                        /\ copied'[s] = IF s = p THEN 0 ELSE copied[s]
                        /\ c'[s] = IF s = p THEN 0 ELSE c[s]
  BY <1>1, <1>2 DEF IInv, TypeOK, ExchangeInv, ExchangeTypes
<1>6. \A s \in Member, m \in Copying, l \in 1..MaxCalls : Made(s, m, l)' = Made(s, m, l)
  <2> SUFFICES ASSUME NEW s \in Member, NEW m \in Copying, NEW l \in 1..MaxCalls
               PROVE  Made(s, m, l)' = Made(s, m, l)
    OBVIOUS
  <2>1. m \in Nat /\ m < X!Copies /\ calls[s] \in Nat /\ l \in Nat
    BY <1>3, ExchangeCalls DEF Copying
  <2> QED BY <1>1, <1>5, <2>1 DEF Made
<1>7. \A s \in Member, j \in Round : Consumed(s, j)' = Consumed(s, j)
  <2> SUFFICES ASSUME NEW s \in Member, NEW j \in Round PROVE Consumed(s, j)' = Consumed(s, j)
    OBVIOUS
  <2>1. calls[s] \in Nat /\ j \in Nat /\ j < Rounds /\ Rounds \in Nat /\ (s = p => c[s] = Rounds)
    BY <1>2, ExchangeCalls, RoundsAssumption DEF Round, IInv, ControlOK
  <2> QED BY <1>5, <2>1 DEF Consumed
<1>8. SignalsBehind'
  <2> SUFFICES ASSUME NEW d \in data, NEW j \in Round, To(d.from, j) = d.to
               PROVE  /\ \A a \in Arrays : flag[a][d.to][j] < d.call
                      /\ Consumed(d.to, j)' < d.call
    BY <1>1, <1>2 DEF SignalsBehind, To, Dist
  <2> QED BY <1>7, DataTypes DEF ExchangeInv, SignalsBehind
<1> QED BY <1>1, <1>4, <1>6, <1>8, ExchangeSame DEF ExchangeInv

\* A flag that is taken is of a call whose copies have landed.
LEMMA ExchangeStep ==
  ASSUME Routine = "sync", ReachesAll, IInv, ExchangeInv, NEW p \in Member, X!SyncStep(p)
  PROVE  ExchangeInv'
<1>1. /\ copied' = copied /\ data' = data /\ dest' = dest
      /\ \/ Signal(p) \/ Wait(p) \/ Clear(p) \/ Leave(p)
         \/ TestsetSignal(p) /\ X!NothingBefore(p, To(p, 0))
  BY ExchangeSync DEF X!SyncStep
<1>2. calls' = calls
  BY <1>1 DEF Signal, Wait, Clear, Leave, TestsetSignal
<1>3. \A s \in Member, m \in Copying, l \in 1..MaxCalls : Made(s, m, l)' = Made(s, m, l)
  BY <1>1, <1>2 DEF Made
<1>4. SignalsBehind'
  <2> SUFFICES ASSUME NEW d \in data, NEW j \in Round, To(d.from, j) = d.to
               PROVE  /\ \A a \in Arrays : flag'[a][d.to][j] < d.call
                      /\ Consumed(d.to, j)' < d.call
    BY <1>1 DEF SignalsBehind, To, Dist
  <2>1. /\ \A a \in Arrays : flag[a][d.to][j] < d.call
        /\ Consumed(d.to, j) < d.call
    BY DEF ExchangeInv, SignalsBehind
  <2>2. d.from \in Member /\ d.to \in Member /\ d.call \in 1..MaxCalls /\ d.call \in Nat
    BY DataTypes
  <2>3. CASE Signal(p) \/ Wait(p) \/ Leave(p)
    <3>1. flag' = flag /\ c' = c
      BY <2>3 DEF Signal, Wait, Leave
    <3> QED BY <1>2, <2>1, <3>1 DEF Consumed
  <2>4. CASE TestsetSignal(p) /\ X!NothingBefore(p, To(p, 0))
    <3>1. c' = c
      BY <2>4 DEF TestsetSignal
    <3>2. c[p] = 0 /\ 0 \in Round
      <4>1. PE_size < 3 /\ c[p] < Rounds /\ c[p] \in Nat
        BY <2>4, RoundsAssumption DEF TestsetSignal, Testset, IInv, TypeOK
      <4>2. ~(1 < Rounds)
        <5>1. 1 < Rounds => 1 \in 0..Rounds /\ Pow2[1] = 2 /\ Pow2[1] < PE_size
          BY RoundsAssumption
        <5> QED BY <4>1, <5>1, SetAssumption
      <4> QED BY <4>1, <4>2, RoundsAssumption DEF Round
    <3>3. d.to # To(p, 0) \/ j # 0
      <4>1. d.from # p \/ d.to # To(p, 0)
        BY <2>4 DEF X!NothingBefore
      <4> QED BY <2>2, <3>2, <4>1, ToInjective
    <3>4. ASSUME NEW a \in Arrays PROVE flag'[a][d.to][j] = flag[a][d.to][j]
      <4>1. flag' = [flag EXCEPT ![ArrayOf[calls[p]]][To(p, 0)][0] = calls[p]]
        BY <2>4, <3>2 DEF TestsetSignal
      <4> QED BY <2>2, <3>2, <3>3, <4>1 DEF IInv, TypeOK
    <3> QED BY <1>2, <2>1, <3>1, <3>4 DEF Consumed
  <2>5. CASE Clear(p)
    <3>1. /\ pc[p] = "clear" /\ c' = [c EXCEPT ![p] = @ + 1]
          /\ flag' = [flag EXCEPT ![ArrayOf[calls[p]]][p][c[p]] = 0]
      BY <2>5 DEF Clear, SYNC_VALUE
    <3>2. ASSUME NEW a \in Arrays PROVE flag'[a][d.to][j] < d.call
      <4>1. flag'[a][d.to][j] \in {flag[a][d.to][j], 0}
        BY <2>2, <3>1 DEF IInv, TypeOK
      <4> QED BY <2>1, <2>2, <4>1
    <3>3. CASE d.to = p /\ j = c[p]
      <4> DEFINE f == flag[ArrayOf[calls[p]]][p][j]
      <4>1. ArrayOf[calls[p]] \in Arrays /\ calls[p] \in Nat
        BY <3>1, InCall, ExchangeCalls
      <4>2. f \in Nat /\ f # 0
        BY <3>1, <3>3, <4>1, ExchangeCalls DEF IInv, TypeOK, SeenStaysSet, SYNC_VALUE
      <4>3. Consumed(p, j) < f
        BY <2>2, <3>3, <4>1, <4>2 DEF IInv, FlagFresh, SYNC_VALUE
      <4>4. Consumed(p, j) = calls[p] - 1 /\ Consumed(p, j)' = calls[p]
        <5>1. c[p] \in Nat /\ c'[p] = c[p] + 1
          BY <3>1, RoundsAssumption DEF IInv, TypeOK
        <5> QED BY <1>2, <3>3, <5>1 DEF Consumed
      <4>5. f < d.call
        BY <2>1, <3>3, <4>1
      <4>6. calls[p] < d.call
        BY <2>2, <4>1, <4>2, <4>3, <4>4, <4>5
      <4> QED BY <3>2, <3>3, <4>4, <4>6
    <3>4. CASE ~(d.to = p /\ j = c[p])
      <4>1. c[d.to] \in Nat /\ j \in Nat /\ c'[d.to] = IF d.to = p THEN c[p] + 1 ELSE c[d.to]
        BY <2>2, <3>1, RoundsAssumption DEF IInv, TypeOK, Round
      <4>2. Consumed(d.to, j)' = Consumed(d.to, j)
        BY <1>2, <3>4, <4>1 DEF Consumed
      <4> QED BY <2>1, <3>2, <4>2
    <3> QED BY <3>3, <3>4
  <2> QED BY <1>1, <2>3, <2>4, <2>5
<1>5. copied' \in [Member -> 0..X!Copies]
  BY <1>1 DEF ExchangeInv, ExchangeTypes
<1> QED BY <1>1, <1>3, <1>4, <1>5, ExchangeSame DEF ExchangeInv

\* A signal lands behind the copies of its call.
LEMMA ExchangeLandSignal ==
  ASSUME Routine = "sync", ReachesAll, IInv, ExchangeInv, NEW p \in Member, NEW k \in Round,
         X!LandSignal(p, k)
  PROVE  ExchangeInv'
<1>1. /\ copied' = copied /\ data' = data /\ dest' = dest /\ Land(p, k)
      /\ \A d \in data : d.from = p /\ d.to = To(p, k) => \E n \in posted[p][k] : n < d.call
  BY ExchangeSync DEF X!LandSignal
<1>2. PICK n \in posted[p][k] :
        /\ \A m \in posted[p][k] : n <= m
        /\ flag' = [flag EXCEPT ![ArrayOf[n]][To(p, k)][k] = n]
        /\ UNCHANGED <<calls, c>>
  BY <1>1 DEF Land
<1>3. \A m \in posted[p][k] : m \in Nat
  BY ExchangeCalls DEF IInv, TypeOK
<1>4. \A s \in Member, m \in Copying, l \in 1..MaxCalls : Made(s, m, l)' = Made(s, m, l)
  BY <1>1, <1>2 DEF Made
<1>5. SignalsBehind'
  <2> SUFFICES ASSUME NEW d \in data, NEW j \in Round, To(d.from, j) = d.to
               PROVE  /\ \A a \in Arrays : flag'[a][d.to][j] < d.call
                      /\ Consumed(d.to, j)' < d.call
    BY <1>1 DEF SignalsBehind, To, Dist
  <2>1. /\ \A a \in Arrays : flag[a][d.to][j] < d.call
        /\ Consumed(d.to, j) < d.call
    BY DEF ExchangeInv, SignalsBehind
  <2>2. d.from \in Member /\ d.to \in Member /\ d.call \in 1..MaxCalls /\ d.call \in Nat
    BY DataTypes
  <2>3. ASSUME NEW a \in Arrays PROVE flag'[a][d.to][j] < d.call
    <3>1. CASE d.to = To(p, k) /\ j = k
      <4>1. d.from = p
        BY <2>2, <3>1, ToInjective
      <4>2. PICK m \in posted[p][k] : m < d.call
        BY <1>1, <3>1, <4>1
      <4>3. n < d.call
        BY <1>2, <1>3, <2>2, <4>2
      <4>4. flag'[a][d.to][j] \in {n, flag[a][d.to][j]}
        BY <1>2, <2>2 DEF IInv, TypeOK
      <4> QED BY <2>1, <4>3, <4>4
    <3>2. CASE ~(d.to = To(p, k) /\ j = k)
      <4>1. flag'[a][d.to][j] = flag[a][d.to][j]
        BY <1>2, <2>2, <3>2 DEF IInv, TypeOK
      <4> QED BY <2>1, <4>1
    <3> QED BY <3>1, <3>2
  <2> QED BY <1>2, <2>1, <2>3 DEF Consumed
<1>6. copied' \in [Member -> 0..X!Copies]
  BY <1>1 DEF ExchangeInv, ExchangeTypes
<1> QED BY <1>1, <1>4, <1>5, <1>6, ExchangeSame DEF ExchangeInv

\* A block lands.
LEMMA ExchangeLandData ==
  ASSUME ReachesAll, BlocksFit, IInv, ExchangeInv, X!LandData
  PROVE  ExchangeInv'
<1>1. PICK d \in data : /\ dest' = [dest EXCEPT ![d.call][d.to] = X!Written(@, d.block)]
                        /\ data' = data \ {d}
                        /\ UNCHANGED <<calls, pc, c, flag, posted, copied>>
  BY DEF X!LandData
<1>2. PICK p \in Member, k \in Copying, n \in 1..MaxCalls : Made(p, k, n) /\ d = Record(p, k, n)
  BY DEF ExchangeInv, DataAreCopies
<1> DEFINE q == X!Target(p, k)
           b == X!Block(p, k)
           f == dest[n][q]
           w == X!Written(f, b)
<1>3. q \in Member
  BY DEF ReachesAll
<1>4. dest' = [dest EXCEPT ![n][q] = w]
  BY <1>1, <1>2 DEF Record
<1>5. f \in [X!Place -> Datum] /\ \A i \in X!Place : f[i] \in {X!None, X!Expected(q)[i]}
  BY <1>3 DEF ExchangeInv, ExchangeTypes, DestIsPart
<1>6. /\ w \in [X!Place -> Datum]
      /\ \A i \in X!Place : /\ w[i] \in {X!None, X!Expected(q)[i]}
                            /\ i \in DOMAIN b \/ f[i] = X!Expected(q)[i] => w[i] = X!Expected(q)[i]
  BY <1>3, <1>5, WrittenIs
<1> HIDE DEF w, q, b
<1>7. \A l \in 1..MaxCalls, s \in Member :
        dest'[l][s] = IF l = n /\ s = q THEN w ELSE dest[l][s]
  BY <1>3, <1>4 DEF ExchangeInv, ExchangeTypes
<1>8. ExchangeTypes'
  <2>1. dest' \in [1..MaxCalls -> [Member -> [X!Place -> Datum]]]
    BY <1>3, <1>4, <1>6 DEF ExchangeInv, ExchangeTypes
  <2> QED BY <1>1, <2>1 DEF ExchangeInv, ExchangeTypes
<1>9. DataAreCopies'
  BY <1>1 DEF ExchangeInv, DataAreCopies, Made
<1>10. CopiesArrive'
  <2> SUFFICES ASSUME NEW s \in Member, NEW m \in Copying, NEW l \in 1..MaxCalls,
                      Made(s, m, l), Record(s, m, l) \notin data',
                      NEW i \in X!Place, i \in DOMAIN X!Block(s, m)
               PROVE  dest'[l][X!Target(s, m)][i] = X!Expected(X!Target(s, m))[i]
    BY <1>1 DEF CopiesArrive, Made
  <2>1. X!Target(s, m) \in Member
    BY DEF ReachesAll
  <2>2. CASE Record(s, m, l) \notin data
    <3>1. dest[l][X!Target(s, m)][i] = X!Expected(X!Target(s, m))[i]
      BY <2>2 DEF ExchangeInv, CopiesArrive
    <3> QED BY <1>6, <1>7, <2>1, <3>1
  <2>3. CASE Record(s, m, l) = d
    <3>1. X!Target(s, m) = q /\ X!Block(s, m) = b /\ l = n
      BY <1>2, <2>3 DEF Record, q, b
    <3> QED BY <1>3, <1>6, <1>7, <3>1
  <2> QED BY <1>1, <2>2, <2>3
<1>11. DestIsPart'
  BY <1>6, <1>7 DEF ExchangeInv, DestIsPart
<1>12. SignalsBehind'
  BY <1>1 DEF ExchangeInv, SignalsBehind, Consumed, To, Dist
<1> QED BY <1>8, <1>9, <1>10, <1>11, <1>12 DEF ExchangeInv

LEMMA ExchangeInit == ASSUME Routine = "sync", X!Init PROVE IInv /\ ExchangeInv
<1>1. /\ Init /\ copied = [p \in Member |-> 0] /\ data = {}
      /\ dest = [n \in 1..MaxCalls |-> [p \in Member |-> [i \in X!Place |-> X!None]]]
  BY ExchangeSync DEF X!Init
<1>2. X!Copies \in Nat /\ 0 \in 0..X!Copies
  BY SetAssumption DEF X!Copies
<1>3. ExchangeTypes
  BY <1>1, <1>2 DEF ExchangeTypes, Datum
<1>4. \A p \in Member, k \in Copying, n \in 1..MaxCalls : ~Made(p, k, n)
  <2>1. \A p \in Member : calls[p] = 0 /\ copied[p] = 0
    BY <1>1 DEF Init
  <2>2. \A k \in Copying : ~(k < 0)
    BY <1>2 DEF Copying
  <2> QED BY <2>1, <2>2, CallsAssumption DEF Made
<1>5. DataAreCopies /\ CopiesArrive /\ SignalsBehind
  BY <1>1, <1>4 DEF DataAreCopies, CopiesArrive, SignalsBehind
<1>6. DestIsPart
  BY <1>1 DEF DestIsPart
<1> QED BY <1>1, <1>3, <1>5, <1>6, InitIInv DEF ExchangeInv

LEMMA ExchangeNext ==
  ASSUME Routine = "sync", ReachesAll, BlocksFit, IInv, ExchangeInv, [X!Next]_(X!vars)
  PROVE  IInv' /\ ExchangeInv'
<1>1. IInv'
  <2>1. [Next]_vars
    <3>1. ASSUME NEW p \in Member, X!Step(p) PROVE [Next]_vars
      <4>1. Step(p) \/ UNCHANGED vars
        BY <3>1, ExchangeSync DEF X!Step, X!Copy, X!Enter, X!SyncStep, Step, vars
      <4> QED BY <4>1 DEF Next
    <3>2. ASSUME NEW p \in Member, NEW k \in Round, X!LandSignal(p, k) PROVE Next
      BY <3>2, ExchangeSync DEF X!LandSignal, Next
    <3>3. CASE X!LandData
      BY <3>3 DEF X!LandData, vars
    <3>4. CASE UNCHANGED X!vars
      BY <3>4 DEF X!vars, vars
    <3> QED BY <3>1, <3>2, <3>3, <3>4, ExchangeSync DEF X!Next, X!Land
  <2> QED BY <2>1, NextIInv
<1>2. ASSUME NEW p \in Member, X!Step(p) PROVE ExchangeInv'
  BY <1>2, ExchangeCopy, ExchangeEnter, ExchangeStep DEF X!Step
<1>3. ASSUME X!Land PROVE ExchangeInv'
  <2>1. CASE X!LandData
    BY <2>1, ExchangeLandData
  <2>2. ASSUME NEW p \in Member, NEW k \in Round, X!LandSignal(p, k) PROVE ExchangeInv'
    BY <2>2, ExchangeLandSignal
  <2> QED BY <1>3, <2>1, <2>2, ExchangeSync DEF X!Land
<1>4. ASSUME UNCHANGED X!vars PROVE ExchangeInv'
  <2>1. /\ copied' = copied /\ data' = data /\ dest' = dest
        /\ calls' = calls /\ flag' = flag /\ c' = c
    BY <1>4 DEF X!vars
  <2>2. SignalsBehind'
    BY <2>1 DEF ExchangeInv, SignalsBehind, Consumed, To, Dist
  <2>3. copied' \in [Member -> 0..X!Copies]
    BY <2>1 DEF ExchangeInv, ExchangeTypes
  <2>4. \A s \in Member, m \in Copying, l \in 1..MaxCalls : Made(s, m, l)' = Made(s, m, l)
    BY <2>1 DEF Made
  <2> QED BY <2>1, <2>2, <2>3, <2>4, ExchangeSame DEF ExchangeInv
<1> QED BY <1>1, <1>2, <1>3, <1>4, ExchangeSync DEF X!Next

\* A PE that is back from a call has taken a signal of that call from every PE that
\* copied to it: the copies are in dest.
LEMMA ExchangeGives ==
  ASSUME Routine = "sync", ReachesAll, BlocksFit, IInv, ExchangeInv PROVE X!DestIsExchanged
<1> SUFFICES ASSUME NEW q \in Member, pc[q] = "out", NEW n \in 1..calls[q]
             PROVE  dest[n][q] = X!Expected(q)
  BY ExchangeSync DEF X!DestIsExchanged
<1>1. n \in 1..MaxCalls /\ n \in Nat /\ calls[q] \in Nat
  BY ExchangeCalls
<1>2. \A s \in Member : calls[s] >= n
  <2>1. c[q] = Rounds /\ \A s \in Member : Behind(s, q) < Dist(Rounds)
    BY BehindAll DEF IInv, ControlOK
  <2>2. \A s \in Member : calls[s] >= calls[q] /\ calls[s] \in Nat
    BY <2>1, RoundsAssumption, ExchangeCalls DEF IInv, Dissemination
  <2> QED BY <1>1, <2>2
<1>3. ASSUME NEW i \in X!Place PROVE dest[n][q][i] = X!Expected(q)[i]
  <2>1. CASE \E s \in Member, m \in Copying : X!Target(s, m) = q /\ i \in DOMAIN X!Block(s, m)
    <3>1. PICK s \in Member, m \in Copying : X!Target(s, m) = q /\ i \in DOMAIN X!Block(s, m)
      BY <2>1
    <3>2. Made(s, m, n)
      <4>1. calls[s] \in Nat
        BY ExchangeCalls
      <4> QED BY <1>1, <1>2, <4>1 DEF Made
    <3>3. Record(s, m, n) \notin data
      <4> SUFFICES ASSUME Record(s, m, n) \in data PROVE FALSE
        OBVIOUS
      <4>1. q # s
        <5>1. PICK x \in Member, y \in Copying, z \in 1..MaxCalls :
                X!Target(x, y) # x /\ Record(s, m, n) = Record(x, y, z)
          BY DEF ExchangeInv, DataAreCopies
        <5> QED BY <3>1, <5>1 DEF Record
      <4>2. PICK j \in Round : To(s, j) = q
        BY <3>1, <4>1 DEF ReachesAll
      <4>3. Consumed(q, j) < n
        BY <3>1, <4>2 DEF ExchangeInv, SignalsBehind, Record
      <4>4. Consumed(q, j) = calls[q]
        BY RoundsAssumption DEF Consumed, IInv, ControlOK, Round
      <4> QED BY <1>1, <4>3, <4>4
    <3> QED BY <1>1, <3>1, <3>2, <3>3 DEF ExchangeInv, CopiesArrive
  <2>2. CASE ~\E s \in Member, m \in Copying : X!Target(s, m) = q /\ i \in DOMAIN X!Block(s, m)
    <3>1. X!Expected(q)[i] = X!None
      BY <2>2 DEF BlocksFit
    <3> QED BY <1>1, <3>1 DEF ExchangeInv, DestIsPart
  <2> QED BY <2>1, <2>2
<1>4. DOMAIN dest[n][q] = X!Place /\ dest[n][q] = [i \in X!Place |-> dest[n][q][i]]
  BY <1>1 DEF ExchangeInv, ExchangeTypes
<1>5. X!Expected(q) = [i \in X!Place |-> X!Expected(q)[i]]
  BY DEF X!Expected
<1> HIDE DEF X!Expected
<1> QED BY <1>3, <1>4, <1>5

\* What an exchange promises is in dest when it returns, if who copies to whom is partner
\* in a round of shmem_sync (def_shmem_fcollect_n.h:53, def_shmem_alltoall_x.h:54,
\* def_shmem_alltoalls.h:43).
THEOREM ExchangeIsComplete ==
  ASSUME Routine = "sync", ReachesAll, BlocksFit
  PROVE  X!Spec => []X!DestIsExchanged
<1>1. X!Init => IInv /\ ExchangeInv
  BY ExchangeInit
<1>2. IInv /\ ExchangeInv /\ [X!Next]_(X!vars) => IInv' /\ ExchangeInv'
  BY ExchangeNext
<1>3. IInv /\ ExchangeInv => X!DestIsExchanged
  BY ExchangeGives
<1> QED BY <1>1, <1>2, <1>3, PTL DEF X!Spec

\* Places in dest: a number of blocks and a rest have one quotient and remainder.
LEMMA Division ==
  ASSUME NEW d \in Nat \ {0}, NEW t \in Nat, NEW r \in 0..(d - 1)
  PROVE  d * t + r \in Nat /\ (d * t + r) \div d = t /\ (d * t + r) % d = r
<1>1. d * t \in Nat /\ d * t + r \in Nat
  OBVIOUS
<1> DEFINE x == d * t + r
<1>2. x \in Nat /\ x = d * t + r /\ t \in Int
  BY <1>1
<1> HIDE DEF x
<1>3. x % d = r
  BY <1>2, Remainder
<1>4. x = d * (x \div d) + (x % d) /\ x \div d \in Int
  BY <1>2
<1>5. d * (x \div d) = d * t
  BY <1>1, <1>2, <1>3, <1>4
<1>6. x \div d = t
  <2> DEFINE y == x \div d
  <2>1. y \in Int /\ d * y = d * t
    BY <1>4, <1>5
  <2> HIDE DEF y
  <2>2. d * (y - t) = d * y - d * t /\ y - t \in Int
    BY <2>1
  <2>3. d * (y - t) = 0
    BY <1>1, <2>1, <2>2
  <2>4. y - t = 0
    <3>1. y - t >= 1 => d * (y - t) >= d
      BY <2>2
    <3>2. y - t <= -1 => d * (y - t) <= -d
      BY <2>2
    <3> QED BY <2>2, <2>3, <3>1, <3>2
  <2>5. y = t
    BY <2>1, <2>4
  <2> QED BY <2>5 DEF y
<1> QED BY <1>2, <1>3, <1>6 DEF x

\* The members by their places in the active set.
LEMMA PlaceOf ==
  /\ \A p \in Member : X!Index(p) \in 0..(PE_size - 1) /\ X!PE(X!Index(p)) = p
  /\ \A m \in 0..(PE_size - 1) : X!PE(m) \in Member /\ X!Index(X!PE(m)) = m
<1> USE Rounding
<1>1. \A m \in 0..(PE_size - 1) : X!PE(m) \in Member
  BY DEF X!PE, Member
<1>2. ASSUME NEW m \in 0..(PE_size - 1) PROVE X!Index(X!PE(m)) = m
  <2>1. m \in Nat /\ Stride \in Nat \ {0} /\ 0 \in 0..(Stride - 1)
    OBVIOUS
  <2>2. (Stride * m + 0) \div Stride = m /\ Stride * m + 0 \in Nat
    BY <2>1, Division
  <2>3. X!PE(m) - PE_start = Stride * m + 0
    <3>1. m * Stride \in Int /\ Stride * m = m * Stride
      BY <2>1
    <3> QED BY <3>1 DEF X!PE
  <2> QED BY <2>2, <2>3 DEF X!Index
<1>3. ASSUME NEW p \in Member PROVE X!Index(p) \in 0..(PE_size - 1) /\ X!PE(X!Index(p)) = p
  <2>1. PICK m \in 0..(PE_size - 1) : p = X!PE(m)
    BY DEF Member, X!PE
  <2> QED BY <1>2, <2>1
<1> QED BY <1>1, <1>2, <1>3

\* The PE m places further on.
Ahead(p, m) == IF p + m * Stride >= PE_end THEN p + m * Stride - PE_size_stride ELSE p + m * Stride

LEMMA AheadIs ==
  ASSUME NEW a \in 0..(PE_size - 1), NEW m \in 0..(PE_size - 1)
  PROVE  Ahead(X!PE(a), m) = X!PE(IF a + m >= PE_size THEN a + m - PE_size ELSE a + m)
<1> USE Rounding
<1>1. /\ a * Stride \in Int /\ m * Stride \in Int /\ (a + m) * Stride = a * Stride + m * Stride
      /\ (a + m - PE_size) * Stride = (a + m) * Stride - PE_size_stride
      /\ a + m >= PE_size => PE_size_stride <= (a + m) * Stride
      /\ a + m < PE_size => (a + m) * Stride + Stride <= PE_size_stride
  BY Scale DEF PE_size_stride
<1>2. PE_end = PE_start + PE_size_stride /\ PE_size_stride \in Nat
  BY Numbers
<1> QED BY <1>1, <1>2 DEF Ahead, X!PE

LEMMA AheadReaches ==
  /\ \A p \in Member, m \in 0..(PE_size - 1) : Ahead(p, m) \in Member
  /\ \A p \in Member : Ahead(p, 0) = p
  /\ \A p, q \in Member : \E m \in 0..(PE_size - 1) : Ahead(p, m) = q
<1> USE Rounding
<1>1. ASSUME NEW p \in Member, NEW m \in 0..(PE_size - 1) PROVE Ahead(p, m) \in Member
  <2> DEFINE a == X!Index(p)
             s == IF a + m >= PE_size THEN a + m - PE_size ELSE a + m
  <2>1. a \in 0..(PE_size - 1) /\ X!PE(a) = p
    BY PlaceOf
  <2>2. s \in 0..(PE_size - 1)
    BY <2>1
  <2>3. Ahead(p, m) = X!PE(s)
    BY <2>1, AheadIs
  <2> HIDE DEF s
  <2> QED BY <2>2, <2>3, PlaceOf
<1>2. ASSUME NEW p \in Member PROVE Ahead(p, 0) = p
  <2>1. 0 * Stride = 0
    OBVIOUS
  <2> QED BY <2>1, Numbers DEF Ahead
<1>3. ASSUME NEW p \in Member, NEW q \in Member PROVE \E m \in 0..(PE_size - 1) : Ahead(p, m) = q
  <2> DEFINE a == X!Index(p)
             z == X!Index(q)
             m == IF z >= a THEN z - a ELSE z - a + PE_size
  <2>1. a \in 0..(PE_size - 1) /\ X!PE(a) = p /\ z \in 0..(PE_size - 1) /\ X!PE(z) = q
    BY PlaceOf
  <2>2. m \in 0..(PE_size - 1) /\ z = IF a + m >= PE_size THEN a + m - PE_size ELSE a + m
    BY <2>1
  <2> HIDE DEF m
  <2>3. Ahead(X!PE(a), m) = X!PE(z)
    BY <2>1, <2>2, AheadIs
  <2> QED BY <2>1, <2>2, <2>3
<1> QED BY <1>1, <1>2, <1>3

\* In a set of at most three PEs all are partners.
LEMMA ThreeArePartners ==
  ASSUME PE_size <= 3, NEW p \in Member, NEW m \in 0..(PE_size - 1), m # 0
  PROVE  \E j \in Round : To(p, j) = Ahead(p, m)
<1>1. PICK j \in Round : Pow2[j] = m
  <2> USE RoundsAssumption, SetAssumption DEF Round
  <2>1. 0 < Rounds /\ 0 \in Round /\ Pow2[0] = 1
    OBVIOUS
  <2>2. CASE m = 1
    BY <2>1, <2>2
  <2>3. CASE m = 2
    <3>1. 1 \in 0..Rounds /\ Pow2[1] = 2
      BY <2>1
    <3>2. 1 < Rounds
      BY <2>3, <3>1
    <3> QED BY <2>3, <3>1, <3>2
  <2> QED BY <2>2, <2>3
<1>2. Dist(j) = m * Stride
  BY <1>1 DEF Dist
<1> QED BY <1>1, <1>2 DEF To, Ahead

Exchanging == Routine = "sync" /\ nelems \in Nat \ {0} /\ dst \in Nat \ {0} /\ sst \in Nat

\* Everybody's block to everybody.
LEMMA FcollectFits ==
  ASSUME Collective = "fcollect", Exchanging, PE_size <= 3
  PROVE  ReachesAll /\ BlocksFit
<1> USE Rounding
<1>1. X!Copies = PE_size /\ Copying = 0..(PE_size - 1)
  BY DEF X!Copies, Copying
<1>2. \A p, k : X!Target(p, k) = Ahead(p, k) /\ X!Block(p, k) = X!fcollect_block(p, k)
  BY DEF X!Target, X!fcollect_to, Ahead, X!Block, X!Sync!PE_end, PE_end, X!Sync!PE_size_stride,
         PE_size_stride
<1>3. ReachesAll
  BY <1>1, <1>2, AheadReaches, ThreeArePartners DEF ReachesAll
<1>4. ASSUME NEW q \in Member, NEW i \in X!Place
      PROVE  X!Expected(q)[i] = IF i \div nelems < PE_size
                                THEN Source[X!PE(i \div nelems)][i % nelems] ELSE X!None
  BY DEF X!Expected
<1>5. \A p \in Member, k \in Copying, i \in X!Place :
        i \in DOMAIN X!Block(p, k) <=>
          i \in (X!Index(p) * nelems)..((X!Index(p) + 1) * nelems - 1)
  BY <1>2 DEF X!fcollect_block
<1>6. ASSUME NEW q \in Member, NEW i \in X!Place, NEW p \in Member, NEW k \in Copying,
             i \in DOMAIN X!Block(p, k)
      PROVE  X!Block(p, k)[i] = X!Expected(q)[i]
  <2> DEFINE a == X!Index(p)
             e == i - a * nelems
  <2>1. a \in 0..(PE_size - 1) /\ X!PE(a) = p
    BY PlaceOf
  <2>2. nelems \in Nat \ {0} /\ a * nelems \in Nat /\ (a + 1) * nelems = a * nelems + nelems
        /\ nelems * a = a * nelems
    BY <2>1 DEF Exchanging
  <2>3. i \in (a * nelems)..((a + 1) * nelems - 1)
    BY <1>5, <1>6
  <2>4. X!Block(p, k)[i] = Source[p][e]
    BY <1>2, <2>3 DEF X!fcollect_block
  <2> HIDE DEF a
  <2>5. e \in 0..(nelems - 1) /\ i = nelems * a + e
    BY <2>2, <2>3
  <2> HIDE DEF e
  <2>7. a \in Nat
    BY <2>1
  <2>6. i \div nelems = a /\ i % nelems = e
    <3>1. (nelems * a + e) \div nelems = a /\ (nelems * a + e) % nelems = e
      BY <2>2, <2>5, <2>7, Division
    <3> QED BY <2>5, <3>1
  <2> QED BY <1>4, <2>1, <2>4, <2>6
<1>7. ASSUME NEW q \in Member, NEW i \in X!Place, X!Expected(q)[i] # X!None
      PROVE  \E p \in Member, k \in Copying : X!Target(p, k) = q /\ i \in DOMAIN X!Block(p, k)
  <2> DEFINE a == i \div nelems
             p == X!PE(a)
  <2>1. i \in Nat /\ nelems \in Nat \ {0}
    <3>1. PE_size * nelems * dst \in Int
      BY DEF Exchanging
    <3> QED BY <3>1 DEF X!Place, Exchanging
  <2>2. a \in Nat /\ i = nelems * a + (i % nelems) /\ i % nelems \in 0..(nelems - 1) /\ a < PE_size
    BY <1>4, <1>7, <2>1
  <2>3. p \in Member /\ X!Index(p) = a
    BY <2>2, PlaceOf
  <2> HIDE DEF p, a
  <2>4. PICK k \in Copying : Ahead(p, k) = q
    BY <1>1, <2>3, AheadReaches
  <2>5. i \in (a * nelems)..((a + 1) * nelems - 1)
    <3>1. a * nelems \in Nat /\ (a + 1) * nelems = a * nelems + nelems /\ nelems * a = a * nelems
      BY <2>1, <2>2
    <3> QED BY <2>1, <2>2, <3>1
  <2> QED BY <1>2, <1>5, <2>3, <2>4, <2>5
<1>8. BlocksFit
  BY <1>6, <1>7 DEF BlocksFit
<1> QED BY <1>3, <1>8

\* The first block of source to everybody: what is meant, if all blocks of it are equal.
EqualBlocks ==
  \A p \in Member, m \in 0..(PE_size - 1), e \in 0..(nelems - 1) :
    Source[p][m * nelems + e] = Source[p][e]

LEMMA AlltoallFits ==
  ASSUME Collective = "alltoall", Exchanging, PE_size <= 3, EqualBlocks
  PROVE  ReachesAll /\ BlocksFit
<1> USE Rounding
<1>1. X!Copies = PE_size /\ Copying = 0..(PE_size - 1)
  BY DEF X!Copies, Copying
<1>2. \A p \in Member, k \in Copying :
        X!Target(p, k) = Ahead(p, k) /\ X!Block(p, k) = X!alltoall_block(p, k)
  <2>1. \A p, k : X!Target(p, k) = X!alltoall_to(p, k) /\ X!Block(p, k) = X!alltoall_block(p, k)
    BY DEF X!Target, X!Block
  <2>2. \A p \in Member, k \in Copying : X!alltoall_to(p, k) = Ahead(p, k)
    <3>1. X!Sync!PE_end = PE_end /\ X!Sync!PE_size_stride = PE_size_stride
      BY ExchangeSync DEF Exchanging
    <3>2. \A p \in Member, k \in Copying :
            p \in Int /\ k * Stride \in Int /\ PE_size_stride \in Int /\ PE_end \in Int
      BY <1>1, Numbers
    <3> QED BY <3>1, <3>2 DEF X!alltoall_to, Ahead
  <2> QED BY <2>1, <2>2
<1>3. ReachesAll
  <2> SUFFICES ASSUME NEW p \in Member, NEW k \in Copying
               PROVE  Ahead(p, k) \in Member /\ (Ahead(p, k) = p \/ \E j \in Round : To(p, j) = Ahead(p, k))
    BY <1>2 DEF ReachesAll
  <2> QED BY <1>1, AheadReaches, ThreeArePartners
<1>4. ASSUME NEW q \in Member, NEW i \in X!Place
      PROVE  X!Expected(q)[i] = IF i \div nelems < PE_size
               THEN Source[X!PE(i \div nelems)][X!Index(q) * nelems + (i % nelems)] ELSE X!None
  BY DEF X!Expected
<1>5. \A p \in Member, k \in Copying, i \in X!Place :
        i \in DOMAIN X!Block(p, k) <=>
          i \in (X!Index(p) * nelems)..(X!Index(p) * nelems + nelems - 1)
  BY <1>2 DEF X!alltoall_block
<1>6. ASSUME NEW q \in Member, NEW i \in X!Place, NEW p \in Member, NEW k \in Copying,
             i \in DOMAIN X!Block(p, k)
      PROVE  X!Block(p, k)[i] = X!Expected(q)[i]
  <2> DEFINE a == X!Index(p)
             e == i - a * nelems
  <2>1. a \in 0..(PE_size - 1) /\ a \in Nat /\ X!PE(a) = p /\ X!Index(q) \in 0..(PE_size - 1)
    BY PlaceOf
  <2>2. nelems \in Nat \ {0} /\ a * nelems \in Nat /\ nelems * a = a * nelems
    BY <2>1 DEF Exchanging
  <2>3. i \in (a * nelems)..(a * nelems + nelems - 1)
    BY <1>5, <1>6
  <2>4. X!Block(p, k)[i] = Source[p][e]
    BY <1>2, <2>3 DEF X!alltoall_block
  <2> HIDE DEF a
  <2>5. e \in 0..(nelems - 1) /\ i = nelems * a + e
    BY <2>2, <2>3
  <2> HIDE DEF e
  <2>6. i \div nelems = a /\ i % nelems = e
    <3>1. (nelems * a + e) \div nelems = a /\ (nelems * a + e) % nelems = e
      BY <2>1, <2>2, <2>5, Division
    <3> QED BY <2>5, <3>1
  <2>7. Source[p][X!Index(q) * nelems + e] = Source[p][e]
    BY <2>1, <2>5 DEF EqualBlocks
  <2>8. X!Expected(q)[i] = Source[p][X!Index(q) * nelems + e]
    BY <1>4, <2>1, <2>6
  <2> QED BY <2>4, <2>7, <2>8
<1>7. ASSUME NEW q \in Member, NEW i \in X!Place, X!Expected(q)[i] # X!None
      PROVE  \E p \in Member, k \in Copying : X!Target(p, k) = q /\ i \in DOMAIN X!Block(p, k)
  <2> DEFINE a == i \div nelems
             p == X!PE(a)
  <2>1. i \in Nat /\ nelems \in Nat \ {0}
    <3>1. PE_size * nelems * dst \in Int
      BY DEF Exchanging
    <3> QED BY <3>1 DEF X!Place, Exchanging
  <2>2. a \in Nat /\ i = nelems * a + (i % nelems) /\ i % nelems \in 0..(nelems - 1) /\ a < PE_size
    BY <1>4, <1>7, <2>1
  <2>3. p \in Member /\ X!Index(p) = a
    BY <2>2, PlaceOf
  <2> HIDE DEF p, a
  <2>4. PICK k \in Copying : Ahead(p, k) = q
    BY <1>1, <2>3, AheadReaches
  <2>5. i \in (a * nelems)..(a * nelems + nelems - 1)
    <3>1. a * nelems \in Nat /\ nelems * a = a * nelems
      BY <2>1, <2>2
    <3> QED BY <2>1, <2>2, <3>1
  <2> QED BY <1>2, <1>5, <2>3, <2>4, <2>5
<1>8. BlocksFit
  BY <1>6, <1>7 DEF BlocksFit
<1> QED BY <1>3, <1>8

\* Block k to the PE of number k, to the place of the sender's number.
LEMMA AlltoallsFits ==
  ASSUME Collective = "alltoalls", Exchanging, PE_size <= 3, PE_start = 0, Stride = 1
  PROVE  ReachesAll /\ BlocksFit
<1> USE Rounding
<1>1. X!Copies = PE_size /\ Copying = 0..(PE_size - 1)
  BY DEF X!Copies, Copying
<1>2. \A p, k : X!Target(p, k) = X!PE(k) /\ X!Block(p, k) = X!alltoalls_block(p, k)
  BY DEF X!Target, X!Block
<1>3. ReachesAll
  <2> SUFFICES ASSUME NEW p \in Member, NEW k \in Copying
               PROVE  X!PE(k) \in Member /\ (X!PE(k) = p \/ \E j \in Round : To(p, j) = X!PE(k))
    BY <1>2 DEF ReachesAll
  <2>1. X!PE(k) \in Member
    BY <1>1, PlaceOf
  <2>2. PICK m \in 0..(PE_size - 1) : Ahead(p, m) = X!PE(k)
    BY <2>1, AheadReaches
  <2>3. CASE m = 0
    BY <2>1, <2>2, <2>3, AheadReaches
  <2>4. CASE m # 0
    BY <2>1, <2>2, <2>4, ThreeArePartners
  <2> QED BY <2>3, <2>4
<1> DEFINE D == nelems * dst
<1>4. D \in Nat \ {0} /\ nelems \in Nat \ {0} /\ dst \in Nat \ {0} /\ sst \in Nat
      /\ D = dst * nelems
  BY DEF Exchanging
<1>5. \A p \in Member : p \in 0..(PE_size - 1) /\ X!PE(p) = p /\ X!Index(p) = p
  <2>1. \A p \in Int : 0 + p * 1 = p
    OBVIOUS
  <2>2. \A m \in 0..(PE_size - 1) : X!PE(m) = m
    BY <2>1 DEF X!PE
  <2> QED BY <2>2, PlaceOf
<1>6. ASSUME NEW q \in Member, NEW i \in X!Place
      PROVE  X!Expected(q)[i] = IF i \div D < PE_size /\ i % dst = 0
               THEN Source[X!PE(i \div D)][(X!Index(q) * nelems + ((i % D) \div dst)) * sst]
               ELSE X!None
  BY DEF X!Expected
<1>7. \A p \in Member : D * p \in Nat /\ nelems * dst * p = D * p
  BY <1>4, <1>5
<1>8. \A p \in Member, k \in Copying, i \in X!Place :
        i \in DOMAIN X!Block(p, k) <=> \E e \in 0..(nelems - 1) : i = D * p + dst * e
  BY <1>2, <1>7 DEF X!alltoalls_block
<1> HIDE DEF D
<1>9. ASSUME NEW e \in 0..(nelems - 1)
      PROVE  dst * e \in 0..(D - 1) /\ (dst * e) \div dst = e
  <2>1. e \in Nat /\ nelems - 1 - e \in Nat /\ 0 \in 0..(dst - 1) /\ dst * e \in Nat
        /\ dst * (nelems - 1 - e) \in Nat
    BY <1>4
  <2>2. dst * nelems = dst * e + dst * (nelems - 1 - e) + dst
    BY <1>4, <2>1
  <2>3. (dst * e + 0) \div dst = e
    BY <1>4, <2>1, Division
  <2> QED BY <1>4, <2>1, <2>2, <2>3
<1>10. ASSUME NEW q \in Member, NEW i \in X!Place, NEW p \in Member, NEW k \in Copying,
              X!PE(k) = q, i \in DOMAIN X!Block(p, k)
       PROVE  X!Block(p, k)[i] = X!Expected(q)[i]
  <2>1. PICK e \in 0..(nelems - 1) : i = D * p + dst * e
    BY <1>8, <1>10
  <2>2. /\ dst * e \in 0..(D - 1) /\ (dst * e) \div dst = e /\ p \in Nat /\ D * p \in Nat /\ e \in Nat
        /\ p < PE_size
    BY <1>5, <1>7, <1>9
  <2>3. (D * p + dst * e) \div D = p /\ (D * p + dst * e) % D = dst * e
    BY <1>4, <2>2, Division
  <2>4. i % dst = 0
    <3>1. nelems * p + e \in Nat /\ 0 \in 0..(dst - 1)
      BY <1>4, <2>2
    <3>2. (dst * (nelems * p + e) + 0) % dst = 0
      BY <1>4, <3>1, Division
    <3>3. dst * (nelems * p + e) = dst * (nelems * p) + dst * e
      BY <1>4, <2>2
    <3>4. dst * (nelems * p) = D * p
      BY <1>4, <2>2
    <3>5. dst * (nelems * p + e) + 0 = i
      BY <2>1, <2>2, <3>3, <3>4
    <3> QED BY <3>2, <3>5
  <2>5. k = q /\ X!Index(q) = q
    BY <1>1, <1>5, <1>10, PlaceOf
  <2>6. X!Expected(q)[i] = Source[p][(q * nelems + e) * sst]
    BY <1>5, <1>6, <2>1, <2>2, <2>3, <2>4, <2>5
  <2>7. X!Block(p, k)[i] = Source[p][nelems * sst * k + sst * e]
    <3>1. X!Block(p, k)[i] = Source[p][nelems * sst * k + sst * ((i - nelems * dst * p) \div dst)]
      <4>1. i \in {nelems * dst * p + dst * x : x \in 0..(nelems - 1)}
        BY <1>7, <2>1
      <4> QED BY <1>2, <4>1 DEF X!alltoalls_block
    <3>2. i - nelems * dst * p = dst * e
      BY <1>7, <2>1, <2>2
    <3> QED BY <2>2, <3>1, <3>2
  <2>8. (q * nelems + e) * sst = nelems * sst * k + sst * e
    <3>1. q \in Nat
      BY <1>5
    <3>2. (q * nelems + e) * sst = (q * nelems) * sst + e * sst
      BY <1>4, <2>2, <3>1
    <3>3. (q * nelems) * sst = nelems * sst * q /\ e * sst = sst * e
      BY <1>4, <2>2, <3>1
    <3> QED BY <2>5, <3>2, <3>3
  <2> QED BY <2>6, <2>7, <2>8
<1>11. ASSUME NEW q \in Member, NEW i \in X!Place, X!Expected(q)[i] # X!None
       PROVE  \E p \in Member, k \in Copying : X!Target(p, k) = q /\ i \in DOMAIN X!Block(p, k)
  <2> DEFINE p == i \div D
             x == i % D
             t == i \div dst
  <2>1. i \in Nat
    <3>1. PE_size * nelems * dst \in Int
      BY <1>4
    <3> QED BY <3>1 DEF X!Place
  <2>2. p < PE_size /\ i % dst = 0
    BY <1>6, <1>11
  <2>3. p \in Nat /\ x \in 0..(D - 1) /\ i = D * p + x
    <3>1. D \in Nat \ {0}
      BY <1>4
    <3> QED BY <2>1, <3>1
  <2>4. t \in Nat /\ i = dst * t
    BY <1>4, <2>1, <2>2
  <2> HIDE DEF p, x, t
  <2>5. p \in Member
    <3>1. X!PE(p) \in Member
      BY <2>2, <2>3, PlaceOf
    <3>2. X!PE(p) = p
      BY <2>3 DEF X!PE
    <3> QED BY <3>1, <3>2
  <2> DEFINE e == t - nelems * p
  <2>6. e \in Int /\ x = dst * e
    <3>1. nelems * p \in Nat /\ dst * (nelems * p) = D * p /\ D * p \in Nat
      BY <1>4, <2>3
    <3>2. dst * (t - nelems * p) = dst * t - dst * (nelems * p)
      BY <1>4, <2>4, <3>1
    <3> QED BY <2>3, <2>4, <3>1, <3>2
  <2> HIDE DEF e
  <2>7. e \in 0..(nelems - 1)
    <3>1. e >= nelems => dst * e >= dst * nelems
      BY <1>4, <2>6
    <3>2. e <= -1 => dst * e <= -dst
      BY <1>4, <2>6
    <3> QED BY <1>4, <2>3, <2>6, <3>1, <3>2
  <2>8. i = D * p + dst * e
    BY <2>3, <2>6
  <2>9. q \in Copying /\ X!PE(q) = q
    BY <1>1, <1>5
  <2> QED BY <1>2, <1>8, <2>5, <2>7, <2>8, <2>9
<1>12. BlocksFit
  BY <1>2, <1>10, <1>11 DEF BlocksFit
<1> QED BY <1>3, <1>12

\* To the next PE.
LEMMA RotateFits ==
  ASSUME Collective = "rotate", Exchanging, PE_start = 0, Stride = 1
  PROVE  ReachesAll /\ BlocksFit
<1> USE Rounding
<1>1. X!Copies = 1 /\ Copying = {0}
  BY DEF X!Copies, Copying
<1>2. \A p, k : X!Target(p, k) = (p + 1) % PE_size /\ X!Block(p, k) = X!rotate_block(p)
  BY DEF X!Target, X!Block, X!rotate_to
<1>3. Member = 0..(PE_size - 1)
  <2>1. \A m \in 0..(PE_size - 1) : 0 + m * 1 = m
    OBVIOUS
  <2> QED BY <2>1 DEF Member
<1>4. \A p \in Member : (p + 1) % PE_size = IF p + 1 = PE_size THEN 0 ELSE p + 1
  <2> SUFFICES ASSUME NEW p \in Member
               PROVE  (p + 1) % PE_size = IF p + 1 = PE_size THEN 0 ELSE p + 1
    OBVIOUS
  <2>1. p + 1 \in Nat /\ PE_size \in Nat \ {0}
    BY <1>3, SetAssumption
  <2>2. CASE p + 1 = PE_size
    <3>1. p + 1 = PE_size * 1 + 0 /\ 0 \in 0..(PE_size - 1)
      BY <2>1, <2>2
    <3> QED BY <2>1, <2>2, <3>1, Remainder
  <2>3. CASE p + 1 # PE_size
    <3>1. p + 1 = PE_size * 0 + (p + 1) /\ p + 1 \in 0..(PE_size - 1)
      BY <1>3, <2>1, <2>3
    <3> QED BY <2>1, <2>3, <3>1, Remainder
  <2> QED BY <2>2, <2>3
<1>5. \A q \in Member : (q + PE_size - 1) % PE_size = IF q = 0 THEN PE_size - 1 ELSE q - 1
  <2> SUFFICES ASSUME NEW q \in Member
               PROVE  (q + PE_size - 1) % PE_size = IF q = 0 THEN PE_size - 1 ELSE q - 1
    OBVIOUS
  <2>1. q + PE_size - 1 \in Nat /\ PE_size \in Nat \ {0}
    BY <1>3, SetAssumption
  <2>2. CASE q = 0
    <3>1. q + PE_size - 1 = PE_size * 0 + (PE_size - 1) /\ PE_size - 1 \in 0..(PE_size - 1)
      BY <2>1, <2>2
    <3> QED BY <2>1, <2>2, <3>1, Remainder
  <2>3. CASE q # 0
    <3>1. q + PE_size - 1 = PE_size * 1 + (q - 1) /\ q - 1 \in 0..(PE_size - 1)
      BY <1>3, <2>1, <2>3
    <3> QED BY <2>1, <2>3, <3>1, Remainder
  <2> QED BY <2>2, <2>3
<1>6. ReachesAll
  <2> SUFFICES ASSUME NEW p \in Member
               PROVE  LET q == (p + 1) % PE_size
                      IN  q \in Member /\ (q = p \/ \E j \in Round : To(p, j) = q)
    BY <1>1, <1>2 DEF ReachesAll
  <2>1. (p + 1) % PE_size \in Member
    BY <1>3, <1>4
  <2>2. CASE PE_size = 1
    BY <1>3, <1>4, <2>1, <2>2
  <2>3. CASE PE_size # 1
    <3>1. 0 \in Round /\ Dist(0) = 1 /\ PE_end = PE_size /\ PE_size_stride = PE_size
      <4>1. Rounds # 0
        BY <2>3, RoundsAssumption, SetAssumption
      <4> QED BY <4>1, RoundsAssumption, Numbers DEF Round, PE_size_stride
    <3>2. To(p, 0) = (p + 1) % PE_size
      BY <1>3, <1>4, <3>1 DEF To
    <3> QED BY <2>1, <3>1, <3>2
  <2> QED BY <2>2, <2>3
<1>7. ASSUME NEW q \in Member, NEW i \in X!Place
      PROVE  X!Expected(q)[i] = IF i \div nelems = 0
               THEN Source[(q + PE_size - 1) % PE_size][i % nelems] ELSE X!None
  BY DEF X!Expected
<1>8. ASSUME NEW i \in X!Place
      PROVE  /\ i \in Nat
             /\ i \in 0..(nelems - 1) => i \div nelems = 0 /\ i % nelems = i
             /\ i \div nelems = 0 => i \in 0..(nelems - 1)
  <2>1. nelems \in Nat \ {0} /\ PE_size * nelems * dst \in Int
    BY DEF Exchanging
  <2>2. i \in Nat
    BY <2>1 DEF X!Place
  <2>3. ASSUME i \in 0..(nelems - 1) PROVE i \div nelems = 0 /\ i % nelems = i
    <3>1. (nelems * 0 + i) \div nelems = 0 /\ (nelems * 0 + i) % nelems = i
      BY <2>1, <2>3, Division
    <3>2. nelems * 0 + i = i
      BY <2>1, <2>2
    <3> QED BY <3>1, <3>2
  <2>4. ASSUME i \div nelems = 0 PROVE i \in 0..(nelems - 1)
    <3>1. i = nelems * (i \div nelems) + (i % nelems) /\ i % nelems \in 0..(nelems - 1)
      BY <2>1, <2>2
    <3>2. nelems * 0 = 0
      BY <2>1
    <3> QED BY <2>1, <2>4, <3>1, <3>2
  <2> QED BY <2>2, <2>3, <2>4
<1>9. BlocksFit
  <2> SUFFICES ASSUME NEW q \in Member, NEW i \in X!Place
               PROVE  /\ \A p \in Member : (p + 1) % PE_size = q /\ i \in 0..(nelems - 1)
                           => Source[p][i] = X!Expected(q)[i]
                      /\ X!Expected(q)[i] # X!None =>
                           \E p \in Member : (p + 1) % PE_size = q /\ i \in 0..(nelems - 1)
    BY <1>1, <1>2 DEF BlocksFit, X!rotate_block
  <2>1. ASSUME NEW p \in Member, (p + 1) % PE_size = q, i \in 0..(nelems - 1)
        PROVE  Source[p][i] = X!Expected(q)[i]
    <3>1. (q + PE_size - 1) % PE_size = p
      <4>1. q = IF p + 1 = PE_size THEN 0 ELSE p + 1
        BY <1>4, <2>1
      <4>2. (q + PE_size - 1) % PE_size = IF q = 0 THEN PE_size - 1 ELSE q - 1
        BY <1>5
      <4>3. p \in Nat /\ PE_size \in Nat
        BY <1>3
      <4> QED BY <4>1, <4>2, <4>3
    <3> QED BY <1>7, <1>8, <2>1, <3>1
  <2>2. ASSUME X!Expected(q)[i] # X!None
        PROVE  \E p \in Member : (p + 1) % PE_size = q /\ i \in 0..(nelems - 1)
    <3>1. i \in 0..(nelems - 1)
      BY <1>7, <1>8, <2>2
    <3> DEFINE p == IF q = 0 THEN PE_size - 1 ELSE q - 1
    <3>2. p \in Member /\ (p + 1) % PE_size = q
      BY <1>3, <1>4, SetAssumption
    <3> QED BY <3>1, <3>2
  <2> QED BY <2>1, <2>2
<1> QED BY <1>6, <1>9

\* With two or three PEs, whatever the stride, every block of shmem_fcollect is in dest
\* when a call returns (def_shmem_fcollect_n.h:53): with four it may not be.
THEOREM FcollectOfThree ==
  ASSUME Collective = "fcollect", Exchanging, PE_size <= 3 PROVE X!Spec => []X!DestIsExchanged
BY FcollectFits, ExchangeIsComplete DEF Exchanging

\* shmem_alltoall of two or three PEs, if each sends the same block to all
\* (def_shmem_alltoall_x.h:52, where the source pointer is not advanced).
THEOREM AlltoallOfEqualBlocks ==
  ASSUME Collective = "alltoall", Exchanging, PE_size <= 3, EqualBlocks
  PROVE  X!Spec => []X!DestIsExchanged
BY AlltoallFits, ExchangeIsComplete DEF Exchanging

\* shmem_alltoalls of two or three PEs, for all strides, if the active set is the PEs
\* from 0 on (def_shmem_alltoalls.h:40).
THEOREM AlltoallsFromZero ==
  ASSUME Collective = "alltoalls", Exchanging, PE_size <= 3, PE_start = 0, Stride = 1
  PROVE  X!Spec => []X!DestIsExchanged
BY AlltoallsFits, ExchangeIsComplete DEF Exchanging

\* A rotation by one PE, of any number of PEs (c_dynamic_calls/main.c:53-55).
THEOREM RotationIsComplete ==
  ASSUME Collective = "rotate", Exchanging, PE_start = 0, Stride = 1
  PROVE  X!Spec => []X!DestIsExchanged
BY RotateFits, ExchangeIsComplete DEF Exchanging

==============================================================================

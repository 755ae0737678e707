--------------------------- MODULE CollectivesProof ---------------------------
(* Proofs about collective routines: ShmemReduce, for every active set, number *)
(* of elements, size of pWrk and number of calls; ShmemCollect, for every      *)
(* active set, lengths of the blocks and number of calls; and ShmemBroadcast,  *)
(* for every power of two of PEs, stride, roots and number of calls.           *)
EXTENDS ShmemReduce, Sequences, FiniteSetTheorems, WellFoundedInduction, TLAPS

------------------------------------------------------------------------------
(* The geometry of the active set *)

\* Scaling by the stride preserves sums and order.
LEMMA Scale ==
  ASSUME ReduceAssumption, NEW x \in Int, NEW y \in Int
  PROVE  /\ x * Stride \in Int
         /\ (x + y) * Stride = x * Stride + y * Stride
         /\ (x - y) * Stride = x * Stride - y * Stride
         /\ x < y => x * Stride + Stride <= y * Stride
         /\ x <= y => x * Stride <= y * Stride
         /\ 0 <= x => 0 <= x * Stride
<1> USE DEF ReduceAssumption
<1>1. x * Stride \in Int /\ (x + y) * Stride = x * Stride + y * Stride
  OBVIOUS
<1>2. (x - y) * Stride = x * Stride - y * Stride
  OBVIOUS
<1>3. 0 <= x => 0 <= x * Stride
  OBVIOUS
<1>4. x <= y => x * Stride <= y * Stride
  OBVIOUS
<1>5. x < y => x * Stride + Stride <= y * Stride
  OBVIOUS
<1> QED BY <1>1, <1>2, <1>3, <1>4, <1>5

\* A number of strides is one stride more than the number before.
LEMMA OneStride ==
  ASSUME ReduceAssumption, NEW m \in Int
  PROVE  (m - 1) * Stride \in Int /\ m * Stride = (m - 1) * Stride + Stride
BY DEF ReduceAssumption

\* The constants are numbers, and a member lies between PE_start and PE_end.
LEMMA Numbers ==
  ASSUME ReduceAssumption
  PROVE  /\ PE_start \in Nat /\ Stride \in Nat /\ Stride > 0
         /\ PE_size \in Nat /\ PE_size > 0
         /\ PE_size_stride \in Nat /\ Stride <= PE_size_stride
         /\ PE_end = PE_start + PE_size_stride
         /\ nreduce \in Nat /\ nreduce > 0 /\ nwrk \in Nat /\ nwrk > 0
         /\ \A p \in Member : p \in Nat /\ PE_start <= p /\ p < PE_end
<1> USE DEF ReduceAssumption
<1>1. PE_size_stride \in Nat /\ Stride <= PE_size_stride /\ PE_end = PE_start + PE_size_stride
  <2>1. 0 < PE_size /\ 0 \in Int /\ PE_size \in Int
    OBVIOUS
  <2>2. 0 * Stride + Stride <= PE_size * Stride /\ PE_size * Stride \in Int
    BY <2>1, Scale
  <2> QED BY <2>2 DEF PE_size_stride, PE_end
<1>2. nwrk \in Nat /\ nwrk > 0
  BY DEF nwrk
<1>3. ASSUME NEW p \in Member PROVE p \in Nat /\ PE_start <= p /\ p < PE_end
  <2>1. PICK m \in 0..(PE_size - 1) : p = PE_start + m * Stride
    BY DEF Member
  <2>2. m \in Int /\ PE_size \in Int /\ m < PE_size /\ 0 <= m
    OBVIOUS
  <2>3. m * Stride \in Int /\ m * Stride >= 0 /\ m * Stride + Stride <= PE_size * Stride
    BY <2>2, Scale
  <2> QED BY <1>1, <2>1, <2>3 DEF PE_size_stride
<1> QED BY <1>1, <1>2, <1>3

\* Going on by a number of strides, once around at most, ends at a member.
LEMMA ToMember ==
  ASSUME ReduceAssumption, NEW p \in Member, NEW k \in 0..PE_size
  PROVE  Next_to(p, k * Stride) \in Member
<1>1. PICK m \in 0..(PE_size - 1) : p = PE_start + m * Stride
  BY DEF Member
<1> DEFINE n == m + k
           o == n - PE_size
<1>2. m \in Int /\ k \in Int /\ n \in Int /\ o \in Int /\ PE_size \in Int /\ 0 \in Int
  BY Numbers
<1>3. /\ m * Stride \in Int /\ n * Stride \in Int /\ o * Stride \in Int
      /\ k * Stride \in Int
      /\ n * Stride = m * Stride + k * Stride
      /\ o * Stride = n * Stride - PE_size_stride
  BY <1>2, Scale DEF PE_size_stride
<1>4. CASE n < PE_size
  <2>1. n * Stride + Stride <= PE_size_stride
    BY <1>2, <1>4, Scale DEF PE_size_stride
  <2>2. Next_to(p, k * Stride) = PE_start + n * Stride
    BY <1>1, <1>3, <2>1, Numbers DEF Next_to
  <2>3. n \in 0..(PE_size - 1)
    BY <1>2, <1>4
  <2> QED BY <2>2, <2>3 DEF Member
<1>5. CASE ~(n < PE_size)
  <2>1. o \in 0..(PE_size - 1)
    BY <1>2, <1>5, Numbers
  <2>2. n * Stride >= PE_size_stride
    BY <1>2, <1>5, Scale DEF PE_size_stride
  <2>3. Next_to(p, k * Stride) = PE_start + o * Stride
    BY <1>1, <1>3, <2>2, Numbers DEF Next_to
  <2> QED BY <2>1, <2>3 DEF Member
<1> QED BY <1>4, <1>5

\* Two ways to go on, one after the other, are one, if it is not over a turn.
LEMMA GoOn ==
  ASSUME ReduceAssumption, NEW p \in Member, NEW j \in Nat, NEW k \in Nat,
         j + k <= PE_size_stride
  PROVE  Next_to(Next_to(p, j), k) = Next_to(p, j + k)
BY Numbers DEF Next_to

\* Different members that go on by the same distance end at different members.
LEMMA GoApart ==
  ASSUME ReduceAssumption, NEW p \in Member, NEW q \in Member, NEW k \in Nat,
         k <= PE_size_stride, Next_to(p, k) = Next_to(q, k)
  PROVE  p = q
BY Numbers DEF Next_to

------------------------------------------------------------------------------
(* The places of the loops *)

\* Places are closed, and the least such set.
LEMMA PlacesLeast ==
  /\ Closed(Places)
  /\ \A T \in SUBSET Box : Closed(T) => Places \subseteq T
<1>1. Places \subseteq Box
  BY DEF Places
<1>2. \A T \in SUBSET Box : Closed(T) => Places \subseteq T
  BY DEF Places
<1>3. Closed(Places)
  <2>1. <<1, 0>> \in Box => <<1, 0>> \in Places
    BY DEF Places, Closed
  <2>2. ASSUME NEW x \in Places, NextPlace(x) \in Box PROVE NextPlace(x) \in Places
    BY <2>2 DEF Places, Closed
  <2> QED BY <2>1, <2>2 DEF Closed
<1> QED BY <1>2, <1>3

\* A place is a pair of numbers.
LEMMA PlaceNumbers ==
  ASSUME ReduceAssumption, NEW x \in Places
  PROVE  /\ x = <<x[1], x[2]>> /\ x[1] \in Nat /\ x[2] \in Nat
         /\ x[1] > 0 /\ x[1] < PE_size_stride /\ x[2] \in Element
<1>1. x \in Box
  BY DEF Places
<1> QED BY <1>1, Numbers DEF Box, Element

\* The places are finitely many.
LEMMA PlacesFinite == ASSUME ReduceAssumption PROVE IsFiniteSet(Places)
<1>1. IsFiniteSet(1..(PE_size_stride - 1))
  BY FS_Interval, Numbers
<1>2. IsFiniteSet(Element)
  BY FS_Interval, Numbers DEF Element
<1>3. IsFiniteSet(Box)
  BY <1>1, <1>2, FS_Product DEF Box
<1>4. Places \in SUBSET Box
  BY DEF Places
<1> QED BY <1>3, <1>4, FS_Subset

\* At a place the next PE is a number of strides on, between one and PE_size.
LEMMA PlaceDistance ==
  ASSUME ReduceAssumption, NEW x \in Places
  PROVE  \E m \in 1..PE_size :
           /\ Offset(x) = m * Stride
           /\ x[1] = IF ring THEN (m - 1) * Stride + 1 ELSE 2 * ((m - 1) * Stride) + 1
<1> DEFINE R(m) == IF ring THEN (m - 1) * Stride + 1 ELSE 2 * ((m - 1) * Stride) + 1
           T == {y \in Box : \E m \in 1..PE_size : y[1] = R(m)}
<1> USE Numbers
<1>1. <<1, 0>> \in Box => <<1, 0>> \in T
  <2>1. R(1) = 1
    BY 1 - 1 = 0 /\ 0 * Stride = 0
  <2> QED BY <2>1
<1>2. ASSUME NEW y \in T, NextPlace(y) \in Box PROVE NextPlace(y) \in T
  <2>1. PICK m \in 1..PE_size : y[1] = R(m)
    OBVIOUS
  <2>2. m \in Int /\ 1 <= m /\ m <= PE_size /\ m - 1 \in Int /\ 0 <= m - 1
    OBVIOUS
  <2>3. y \in (1..(PE_size_stride - 1)) \X Element
    BY DEF Box
  <2>4. /\ (m - 1) * Stride \in Int /\ m * Stride = (m - 1) * Stride + Stride
        /\ (m - 1) * Stride >= 0
    BY <2>2, OneStride, Scale
  <2>5. CASE y[2] + nwrk < nreduce
    BY <1>2, <2>1, <2>5 DEF NextPlace
  <2>6. CASE ~(y[2] + nwrk < nreduce) /\ ring
    <3>1. NextPlace(y)[1] = m * Stride + 1 /\ m * Stride + 1 < PE_size_stride
      BY <1>2, <2>1, <2>3, <2>4, <2>6 DEF NextPlace, Box
    <3>2. m < PE_size
      <4>1. ~(PE_size <= m)
        <5>1. m \in Int /\ PE_size \in Int /\ m * Stride < PE_size * Stride
          BY <2>2, <2>4, <3>1 DEF PE_size_stride
        <5>2. PE_size <= m => PE_size * Stride <= m * Stride
          BY <5>1, Scale
        <5>3. m * Stride \in Int /\ PE_size * Stride \in Int
          BY <5>1, Scale
        <5> QED BY <5>1, <5>2, <5>3
      <4> QED BY <2>2, <4>1
    <3>3. m + 1 \in 1..PE_size /\ R(m + 1) = m * Stride + 1
      <4>1. (m + 1) - 1 = m
        BY <2>2
      <4> QED BY <2>2, <2>6, <3>2, <4>1
    <3> QED BY <1>2, <3>1, <3>3
  <2>7. CASE ~(y[2] + nwrk < nreduce) /\ ~ring
    <3>1. /\ NextPlace(y)[1] = 2 * ((m - 1) * Stride) + 2 * (m * Stride) + 1
          /\ NextPlace(y)[1] < PE_size_stride
      BY <1>2, <2>1, <2>3, <2>4, <2>7 DEF NextPlace, Box
    <3>2. m + m - 1 \in Int /\ m + m \in Int
          /\ (m + m) * Stride = m * Stride + m * Stride
          /\ (m + m - 1) * Stride = (m - 1) * Stride + m * Stride
      <4>1. m + m - 1 \in Int /\ m + m \in Int /\ m + m - 1 = (m - 1) + m
        BY <2>2
      <4>2. (m + m) * Stride = m * Stride + m * Stride
        BY <2>2, Scale
      <4>3. ((m - 1) + m) * Stride = (m - 1) * Stride + m * Stride
        BY <2>2, Scale
      <4> QED BY <4>1, <4>2, <4>3
    <3>3. m + m <= PE_size
      <4>1. ~(PE_size <= m + m - 1)
        <5>1. (m + m - 1) * Stride < PE_size * Stride
          BY <2>4, <3>1, <3>2 DEF PE_size_stride
        <5> DEFINE k == m + m - 1
        <5>2. k \in Int /\ PE_size \in Int
          BY <3>2
        <5> HIDE DEF k
        <5>3. PE_size <= k => PE_size * Stride <= k * Stride
          BY <5>2, Scale
        <5>4. PE_size * Stride \in Int /\ k * Stride \in Int
          BY <5>2, Scale
        <5>5. ~(PE_size <= k)
          BY <5>1, <5>3, <5>4 DEF k
        <5> QED BY <5>5 DEF k
      <4> QED BY <2>2, <4>1
    <3>4. m + m \in 1..PE_size
      BY <2>2, <3>3
    <3>5. R(m + m) = NextPlace(y)[1]
      BY <2>4, <2>7, <3>1, <3>2
    <3> QED BY <1>2, <3>4, <3>5
  <2> QED BY <2>5, <2>6, <2>7
<1>3. x \in T
  <2>1. Closed(T) /\ T \in SUBSET Box
    BY <1>1, <1>2 DEF Closed
  <2> HIDE DEF T
  <2> QED BY <2>1, PlacesLeast
<1>4. PICK m \in 1..PE_size : x[1] = R(m)
  BY <1>3
<1>5. (m - 1) * Stride \in Int /\ m * Stride = (m - 1) * Stride + Stride
  BY OneStride
<1>6. Offset(x) = m * Stride
  BY <1>4, <1>5 DEF Offset
<1> QED BY <1>4, <1>6

\* Where the distance is doubled, step is the distance of the place.
LEMMA PlaceStep ==
  ASSUME ReduceAssumption, NEW x \in Places, ~ring,
         NEW s \in Nat, x[1] = 2 * (s - Stride) + 1
  PROVE  /\ (x[1] - 1) \div 2 = s - Stride
         /\ \E m \in 0..PE_size : s = m * Stride
<1>1. PICK m \in 1..PE_size : x[1] = 2 * ((m - 1) * Stride) + 1
  BY PlaceDistance
<1> DEFINE b == (m - 1) * Stride
<1>2. b \in Int /\ m * Stride = b + Stride /\ x[1] = 2 * b + 1 /\ Stride \in Int
  BY <1>1, OneStride, Numbers
<1> HIDE DEF b
<1>3. s - Stride = b
  BY <1>2
<1>4. (x[1] - 1) \div 2 = b
  BY <1>2
<1>5. s = m * Stride
  BY <1>2, <1>3
<1>6. m \in 0..PE_size
  BY Numbers
<1> QED BY <1>3, <1>4, <1>5, <1>6

\* The partner at a place is a member, and nobody else has the same one.
LEMMA PartnerIsMember ==
  ASSUME ReduceAssumption, NEW p \in Member, NEW x \in Places
  PROVE  /\ Offset(x) \in Nat /\ Offset(x) <= PE_size_stride
         /\ Partner(p, x) \in Member
         /\ \A q \in Member : Partner(q, x) = Partner(p, x) => q = p
<1>1. PICK m \in 1..PE_size : Offset(x) = m * Stride
  BY PlaceDistance
<1>2. m \in Int /\ m \in 0..PE_size /\ PE_size \in Int /\ m <= PE_size /\ 0 <= m
  BY Numbers
<1>3. Offset(x) \in Nat /\ Offset(x) <= PE_size_stride
  BY <1>1, <1>2, Scale DEF PE_size_stride
<1>4. Partner(p, x) \in Member
  BY <1>1, <1>2, ToMember DEF Partner
<1>5. ASSUME NEW q \in Member, Partner(q, x) = Partner(p, x) PROVE q = p
  BY <1>3, <1>5, GoApart DEF Partner
<1> QED BY <1>3, <1>4, <1>5

------------------------------------------------------------------------------
(* The order of the places *)

\* Before is a strict total order of pairs of numbers.
LEMMA Order ==
  \A x, y, z \in Nat \X Nat :
    /\ ~Before(x, x)
    /\ Before(x, y) /\ Before(y, z) => Before(x, z)
    /\ Before(x, y) \/ x = y \/ Before(y, x)
<1> SUFFICES ASSUME NEW x \in Nat \X Nat, NEW y \in Nat \X Nat, NEW z \in Nat \X Nat
             PROVE  /\ ~Before(x, x)
                    /\ Before(x, y) /\ Before(y, z) => Before(x, z)
                    /\ Before(x, y) \/ x = y \/ Before(y, x)
  OBVIOUS
<1>1. ~Before(x, x)
  BY DEF Before
<1>2. Before(x, y) /\ Before(y, z) => Before(x, z)
  BY DEF Before
<1>3. Before(x, y) \/ x = y \/ Before(y, x)
  BY DEF Before
<1> QED BY <1>1, <1>2, <1>3

\* A place and the one after it.
LEMMA NextIsLater ==
  ASSUME ReduceAssumption, NEW x \in Places
  PROVE  /\ x \in Nat \X Nat /\ NextPlace(x) \in Nat \X Nat
         /\ Before(x, NextPlace(x))
<1>1. x = <<x[1], x[2]>> /\ x[1] \in Nat /\ x[2] \in Nat /\ x[1] > 0
  BY PlaceNumbers
<1>2. CASE x[2] + nwrk < nreduce
  BY <1>1, <1>2, Numbers DEF NextPlace, Before
<1>3. CASE ~(x[2] + nwrk < nreduce)
  <2> DEFINE r == IF ring THEN x[1] + Stride ELSE 2 * x[1] - 1 + 2 * Stride
  <2>1. r \in Nat /\ r > x[1]
    BY <1>1, Numbers
  <2>2. NextPlace(x) = <<r, 0>>
    BY <1>3 DEF NextPlace
  <2> HIDE DEF r
  <2> QED BY <1>1, <2>1, <2>2 DEF Before
<1> QED BY <1>2, <1>3

\* A place that all places are compared with, and what comes after it.
Comparable(y) == \A x \in Places : \/ x = y \/ Before(x, y)
                                   \/ x = NextPlace(y) \/ Before(NextPlace(y), x)
Follows(y) == \A x \in Places : Before(x, y) => NextPlace(x) = y \/ Before(NextPlace(x), y)

\* No place lies between one that the earlier ones lead to and its next one.
LEMMA NothingBetween ==
  ASSUME ReduceAssumption, NEW y \in Places, Follows(y)
  PROVE  Comparable(y)
<1> DEFINE T == {x \in Places : \/ x = y \/ Before(x, y)
                                \/ x = NextPlace(y) \/ Before(NextPlace(y), x)}
<1>1. <<1, 0>> \in Box => <<1, 0>> \in T
  <2>1. ASSUME <<1, 0>> \in Box PROVE <<1, 0>> \in T
    <3>1. <<1, 0>> \in Places
      BY <2>1, PlacesLeast DEF Closed
    <3>2. y = <<1, 0>> \/ Before(<<1, 0>>, y)
      BY PlaceNumbers DEF Before
    <3> QED BY <3>1, <3>2
  <2> QED BY <2>1
<1>2. ASSUME NEW x \in T, NextPlace(x) \in Box PROVE NextPlace(x) \in T
  <2>1. NextPlace(x) \in Places
    BY <1>2, PlacesLeast DEF Closed
  <2>2. /\ x \in Nat \X Nat /\ NextPlace(x) \in Nat \X Nat /\ Before(x, NextPlace(x))
        /\ y \in Nat \X Nat /\ NextPlace(y) \in Nat \X Nat
    BY NextIsLater
  <2>3. CASE x = y
    BY <2>1, <2>3
  <2>4. CASE Before(x, y)
    BY <2>1, <2>4 DEF Follows
  <2>5. CASE x = NextPlace(y) \/ Before(NextPlace(y), x)
    <3>1. Before(NextPlace(y), NextPlace(x))
      BY <2>2, <2>5, Order
    <3> QED BY <2>1, <3>1
  <2> QED BY <2>3, <2>4, <2>5
<1>3. Closed(T) /\ T \in SUBSET Box
  BY <1>1, <1>2 DEF Closed, Places
<1>4. Places \subseteq T
  <2> HIDE DEF T
  <2> QED BY <1>3, PlacesLeast
<1> QED BY <1>4 DEF Comparable

\* The places form a chain: the earlier ones lead to each.
LEMMA PlacesFollow == ASSUME ReduceAssumption, NEW y \in Places PROVE Follows(y)
<1> DEFINE T == {z \in Places : Follows(z)}
<1>1. <<1, 0>> \in Box => <<1, 0>> \in T
  <2>1. ASSUME <<1, 0>> \in Box PROVE <<1, 0>> \in T
    <3>1. <<1, 0>> \in Places
      BY <2>1, PlacesLeast DEF Closed
    <3>2. \A x \in Places : ~Before(x, <<1, 0>>)
      BY PlaceNumbers DEF Before
    <3> QED BY <3>1, <3>2 DEF Follows
  <2> QED BY <2>1
<1>2. ASSUME NEW z \in T, NextPlace(z) \in Box PROVE NextPlace(z) \in T
  <2>1. NextPlace(z) \in Places
    BY <1>2, PlacesLeast DEF Closed
  <2>2. Comparable(z)
    BY NothingBetween
  <2>3. ASSUME NEW x \in Places, Before(x, NextPlace(z))
        PROVE  NextPlace(x) = NextPlace(z) \/ Before(NextPlace(x), NextPlace(z))
    <3>1. /\ x \in Nat \X Nat /\ NextPlace(x) \in Nat \X Nat
          /\ z \in Nat \X Nat /\ NextPlace(z) \in Nat \X Nat
          /\ Before(z, NextPlace(z))
      BY NextIsLater
    <3>2. CASE x = z
      BY <3>2
    <3>3. CASE Before(x, z)
      <4>1. NextPlace(x) = z \/ Before(NextPlace(x), z)
        BY <3>3 DEF Follows
      <4> QED BY <3>1, <4>1, Order
    <3>4. ~(x = NextPlace(z) \/ Before(NextPlace(z), x))
      BY <2>3, <3>1, Order
    <3> QED BY <2>2, <3>2, <3>3, <3>4 DEF Comparable
  <2> QED BY <2>1, <2>3 DEF Follows
<1>3. Closed(T) /\ T \in SUBSET Box
  BY <1>1, <1>2 DEF Closed, Places
<1>4. Places \subseteq T
  <2> HIDE DEF T
  <2> QED BY <1>3, PlacesLeast
<1> QED BY <1>4

\* What is before the next place is before this one, or is this one.
LEMMA PassedAdvances ==
  ASSUME ReduceAssumption, NEW x \in Places
  PROVE  \A y \in Places : Before(y, NextPlace(x)) <=> Before(y, x) \/ y = x
<1> SUFFICES ASSUME NEW y \in Places
             PROVE  Before(y, NextPlace(x)) <=> Before(y, x) \/ y = x
  OBVIOUS
<1>1. /\ x \in Nat \X Nat /\ NextPlace(x) \in Nat \X Nat /\ Before(x, NextPlace(x))
      /\ y \in Nat \X Nat
  BY NextIsLater
<1>2. Comparable(x)
  BY PlacesFollow, NothingBetween
<1>3. Before(y, x) \/ y = x => Before(y, NextPlace(x))
  BY <1>1, Order
<1>4. Before(y, NextPlace(x)) => Before(y, x) \/ y = x
  BY <1>1, <1>2, Order DEF Comparable
<1> QED BY <1>3, <1>4

------------------------------------------------------------------------------
(* Types *)

\* The loop variables of a call, r and i at a place.
Loops == [r : Nat, step : Nat, to : Member, i : Element]

\* The next piece, or the next PE: the loops come to the next place, and to is the
\* partner there.
LEMMA LoopsAdvance ==
  ASSUME ReduceAssumption, TypeOK, InLoop, NEW p \in Member, pc[p] = "open"
  PROVE  LET l == it[p]
             m == Onward(it[p])
         IN  /\ Place(l) \in Places
             /\ m \in Loops /\ Place(m) = NextPlace(Place(l))
             /\ IF ring THEN m.step = Stride ELSE m.r = 2 * (m.step - Stride) + 1
             /\ m.r < PE_size_stride => Place(m) \in Places /\ m.to = Partner(p, Place(m))
<1> DEFINE l == it[p]
           m == Onward(it[p])
           x == Place(l)
<1>1. l \in Loops
  BY DEF TypeOK, Loops
<1>2. /\ x \in Places /\ l.to = Partner(p, x) /\ x[1] = l.r /\ x[2] = l.i
      /\ IF ring THEN l.step = Stride ELSE l.r = 2 * (l.step - Stride) + 1
  <2>1. x \in Places /\ x[1] = l.r /\ x[2] = l.i
    BY DEF InLoop, Place
  <2>2. l.r < PE_size_stride
    BY <2>1, PlaceNumbers
  <2> QED BY <2>1, <2>2 DEF InLoop
<1>3. l.r \in Nat /\ l.r > 0 /\ l.i \in Element /\ l.step \in Nat /\ l.to \in Member
  BY <1>1, <1>2, PlaceNumbers DEF Loops
<1>4. CASE l.i + nwrk < nreduce
  <2>1. m = [l EXCEPT !.i = @ + nwrk]
    BY <1>4 DEF Onward
  <2>2. m \in Loops /\ m.r = l.r /\ m.i = l.i + nwrk /\ m.step = l.step /\ m.to = l.to
    BY <1>1, <1>3, <1>4, <2>1, Numbers DEF Loops, Element
  <2>3. Place(m) = NextPlace(x)
    BY <1>2, <1>4, <2>2 DEF Place, NextPlace
  <2>4. Place(m) \in Places /\ m.to = Partner(p, Place(m))
    <3>1. Place(m) \in Box
      <4>1. l.r \in 1..(PE_size_stride - 1) /\ m.i \in Element
        BY <1>2, <2>2, PlaceNumbers, Numbers DEF Loops
      <4> QED BY <2>2, <4>1 DEF Box, Place
    <3>2. Offset(Place(m)) = Offset(x)
      BY <1>2, <2>2 DEF Offset, Place
    <3> QED BY <1>2, <2>2, <2>3, <3>1, <3>2, PlacesLeast DEF Closed, Partner
  <2> QED BY <1>2, <2>2, <2>3, <2>4
<1>5. CASE ~(l.i + nwrk < nreduce)
  <2> DEFINE k == IF ring THEN Stride ELSE l.step
  <2>1. m = After(l)
    BY <1>5 DEF Onward
  <2>2. /\ k \in Nat /\ 2 * l.step \in Nat
        /\ m = [r |-> IF ring THEN l.r + Stride ELSE l.r + 2 * l.step,
                step |-> IF ring THEN Stride ELSE 2 * l.step,
                to |-> Next_to(l.to, k), i |-> 0]
    <3>1. CASE ring
      BY <1>2, <2>1, <3>1, Numbers DEF After
    <3>2. CASE ~ring
      <4>1. Next_to(l.to - l.step, 2 * l.step) = Next_to(l.to, l.step)
        BY <1>3, Numbers DEF Next_to
      <4> QED BY <1>3, <2>1, <3>2, <4>1 DEF After
    <3> QED BY <3>1, <3>2
  <2>3. Place(m) = NextPlace(x) /\ m.i = 0 /\ m.r \in Nat /\ m.step \in Nat
    BY <1>2, <1>3, <1>5, <2>2, Numbers DEF Place, NextPlace
  <2>4. m.to \in Member
    <3>1. CASE ring
      <4>1. 1 \in 0..PE_size /\ 1 * Stride = Stride
        BY Numbers
      <4> QED BY <1>3, <2>2, <3>1, <4>1, ToMember
    <3>2. CASE ~ring
      <4>1. PICK n \in 0..PE_size : l.step = n * Stride
        BY <1>2, <1>3, <3>2, PlaceStep
      <4> QED BY <1>3, <2>2, <3>2, <4>1, ToMember
    <3> QED BY <3>1, <3>2
  <2>5. m \in Loops
    BY <1>3, <2>2, <2>3, <2>4, Numbers DEF Loops, Element
  <2>6. IF ring THEN m.step = Stride ELSE m.r = 2 * (m.step - Stride) + 1
    BY <1>2, <1>3, <2>2, Numbers
  <2>7. ASSUME m.r < PE_size_stride
        PROVE  Place(m) \in Places /\ m.to = Partner(p, Place(m))
    <3>1. Place(m) \in Box
      BY <1>3, <2>2, <2>3, <2>7, Numbers DEF Box, Place, Element
    <3>2. Place(m) \in Places
      BY <1>2, <2>3, <3>1, PlacesLeast DEF Closed
    <3>3. Offset(Place(m)) = Offset(x) + k
      <4>1. Place(m)[1] = m.r
        BY DEF Place
      <4>2. CASE ring
        BY <1>2, <1>3, <2>2, <4>1, <4>2, Numbers DEF Offset
      <4>3. CASE ~ring
        <5>1. (l.r - 1) \div 2 = l.step - Stride
          BY <1>2, <1>3, <4>3, PlaceStep
        <5>2. m.r - 1 = 2 * (2 * l.step - Stride)
          BY <1>2, <1>3, <2>2, <4>3, Numbers
        <5>3. (m.r - 1) \div 2 = 2 * l.step - Stride
          BY <1>3, <5>2, Numbers
        <5> QED BY <1>2, <1>3, <2>2, <4>1, <4>3, <5>1, <5>3, Numbers DEF Offset
      <4> QED BY <4>2, <4>3
    <3>4. Offset(x) \in Nat /\ Offset(x) + k <= PE_size_stride
      BY <1>2, <3>2, <3>3, PartnerIsMember
    <3>5. m.to = Next_to(Partner(p, x), k)
      BY <1>2, <2>2
    <3> QED BY <2>2, <3>2, <3>3, <3>4, <3>5, GoOn DEF Partner
  <2> QED BY <1>2, <2>3, <2>5, <2>6, <2>7
<1> QED BY <1>4, <1>5

\* Data in an element, and in a piece.
LEMMA PieceTypes ==
  ASSUME ReduceAssumption, TypeOK, NEW p \in Member
  PROVE  /\ Own(p) \in [Element -> TContribution]
         /\ data(p) \in [Element -> TContribution]
         /\ nrem(it[p].i) \in 1..nwrk
         /\ \A j \in 0..(nrem(it[p].i) - 1) : it[p].i + j \in Element
         /\ Piece(p) \in Pieces
<1>1. Own(p) \in [Element -> TContribution] /\ data(p) \in [Element -> TContribution]
  BY DEF TypeOK, Own, data, TContribution
<1>2. it[p].i \in Element
  BY DEF TypeOK
<1>3. /\ nrem(it[p].i) \in 1..nwrk
      /\ \A j \in 0..(nrem(it[p].i) - 1) : it[p].i + j \in Element
  BY <1>2, Numbers DEF nrem, Element
<1>4. Piece(p) \in Pieces
  <2> DEFINE n == nrem(it[p].i)
             d == [j \in 0..(n - 1) |-> data(p)[it[p].i + j]]
  <2>1. d \in [0..(n - 1) -> TContribution]
    BY <1>1, <1>3
  <2>2. Piece(p) = [call |-> calls[p], elements |-> d]
    BY DEF Piece
  <2>3. calls[p] \in 0..MaxCalls
    BY DEF TypeOK
  <2>4. n \in 1..nwrk
    BY <1>3
  <2> HIDE DEF n, d
  <2> QED BY <2>1, <2>2, <2>3, <2>4 DEF Pieces
<1> QED BY <1>1, <1>3, <1>4

\* Every step keeps the types.
LEMMA ReduceTypesOK ==
  ASSUME ReduceAssumption, TypeOK, InLoop, InStep, [Next]_vars
  PROVE  TypeOK'
<1> USE Numbers
<1>1. ASSUME NEW p \in Member, Enter(p) PROVE TypeOK'
  <2>1. First(p) \in Loops
    <3>1. 1 \in 0..PE_size /\ 1 * Stride = Stride
      OBVIOUS
    <3> QED BY <3>1, ToMember DEF First, Loops, Element
  <2>2. calls[p] + 1 \in 0..MaxCalls
    BY <1>1 DEF Enter, TypeOK, ReduceAssumption
  <2>3. Own(p) \in [Element -> TContribution] /\ Open \in [lock : 0..1, signal : 0..1]
    BY PieceTypes DEF Open
  <2>4. calls' \in [Member -> 0..MaxCalls] /\ synced' \in [Member -> 0..MaxCalls]
    BY <1>1, <2>2 DEF Enter, Sync!Enter, TypeOK
  <2>5. pc' \in [Member -> {"out", "sync", "send", "wait", "clear", "open"}]
    BY <1>1 DEF Enter, TypeOK
  <2>6. it' \in [Member -> [r : Nat, step : Nat, to : Member, i : Element]]
    BY <1>1, <2>1 DEF Enter, TypeOK, Loops
  <2>7. dest' \in [Member -> [Element -> TContribution]]
    BY <1>1, <2>3 DEF Enter, TypeOK
  <2>8. vSync' \in [Member -> [lock : 0..1, signal : 0..1]]
    BY <1>1, <2>3 DEF Enter, TypeOK
  <2> QED BY <1>1, <2>4, <2>5, <2>6, <2>7, <2>8 DEF Enter, TypeOK
<1>2. ASSUME NEW p \in Member, SyncReturns(p) PROVE TypeOK'
  <2>1. synced[p] + 1 \in 0..MaxCalls
    BY <1>2 DEF SyncReturns, Sync!Leave, TypeOK, ReduceAssumption
  <2> QED BY <1>2, <2>1 DEF SyncReturns, Sync!Leave, TypeOK, Goto
<1>3. ASSUME NEW p \in Member, Send(p) PROVE TypeOK'
  <2>1. Piece(p) \in Pieces /\ it[p].to \in Member
    BY PieceTypes DEF TypeOK
  <2>2. mail' \in [Member -> SUBSET Pieces]
    BY <1>3, <2>1 DEF Send, TypeOK
  <2>3. vSync' \in [Member -> [lock : 0..1, signal : 0..1]]
    <3>1. vSync[it[p].to] \in [lock : 0..1, signal : 0..1]
      BY <2>1 DEF TypeOK
    <3>2. [vSync[it[p].to] EXCEPT !.lock = 1] \in [lock : 0..1, signal : 0..1]
      BY <3>1
    <3> QED BY <1>3, <2>1, <3>2 DEF Send, TypeOK
  <2> QED BY <1>3, <2>2, <2>3 DEF Send, TypeOK
<1>4. ASSUME NEW p \in Member, Combine(p) PROVE TypeOK'
  <2> DEFINE i == it[p].i
             d == [e \in Element |->
                     IF e \in i..(i + nrem(i) - 1)
                     THEN [q \in Member |-> dest[p][e][q] + pWrk[p][e - i][q]]
                     ELSE dest[p][e]]
  <2>1. ASSUME NEW e \in Element, e \in i..(i + nrem(i) - 1), NEW q \in Member
        PROVE  dest[p][e][q] + pWrk[p][e - i][q] \in Nat
    <3>4. i \in Element
      BY DEF TypeOK
    <3>1. nrem(i) \in 1..nwrk /\ i \in Nat /\ e \in Nat
      BY <3>4, PieceTypes DEF Element
    <3>2. e - i \in 0..(nwrk - 1)
      BY <2>1, <3>1
    <3>3. dest[p][e] \in TContribution /\ pWrk[p][e - i] \in TContribution
      BY <3>2 DEF TypeOK
    <3> QED BY <3>3 DEF TContribution
  <2>2. d \in [Element -> TContribution]
    BY <2>1 DEF TypeOK, TContribution
  <2>3. dest' = [dest EXCEPT ![p] = d]
    BY <1>4 DEF Combine
  <2> HIDE DEF d
  <2>4. dest' \in [Member -> [Element -> TContribution]]
    BY <2>2, <2>3 DEF TypeOK
  <2> QED BY <1>4, <2>4 DEF Combine, TypeOK
<1>5. ASSUME NEW p \in Member, Clear(p) PROVE TypeOK'
  <2>1. vSync[p] \in [lock : 0..1, signal : 0..1]
    BY DEF TypeOK
  <2>2. [vSync[p] EXCEPT !.signal = 0] \in [lock : 0..1, signal : 0..1]
    BY <2>1
  <2>3. vSync' \in [Member -> [lock : 0..1, signal : 0..1]]
    BY <1>5, <2>2 DEF Clear, TypeOK
  <2> QED BY <1>5, <2>3 DEF Clear, TypeOK
<1>6. ASSUME NEW p \in Member, OpenLock(p) PROVE TypeOK'
  <2>1. Onward(it[p]) \in Loops
    BY <1>6, LoopsAdvance DEF OpenLock
  <2>2. vSync[p] \in [lock : 0..1, signal : 0..1]
    BY DEF TypeOK
  <2>3. [vSync[p] EXCEPT !.lock = 0] \in [lock : 0..1, signal : 0..1]
    BY <2>2
  <2>4. vSync' \in [Member -> [lock : 0..1, signal : 0..1]]
    BY <1>6, <2>3 DEF OpenLock, TypeOK
  <2>5. it' \in [Member -> Loops]
    BY <1>6, <2>1 DEF OpenLock, TypeOK, Loops
  <2> QED BY <1>6, <2>4, <2>5 DEF OpenLock, TypeOK, Loops, Goto
<1>7. ASSUME NEW p \in Member, Land(p) PROVE TypeOK'
  <2>1. PICK m \in mail[p] :
          /\ pWrk' = [pWrk EXCEPT ![p] = [j \in DOMAIN @ |->
               IF j \in DOMAIN m.elements THEN m.elements[j] ELSE @[j]]]
          /\ vSync' = [vSync EXCEPT ![p].signal = 1]
          /\ mail' = [mail EXCEPT ![p] = @ \ {m}]
          /\ UNCHANGED <<calls, synced, pc, it, dest>>
    BY <1>7 DEF Land
  <2>2. PICK n \in 1..nwrk : m.elements \in [0..(n - 1) -> TContribution]
    <3>1. m \in Pieces
      BY DEF TypeOK
    <3>2. PICK n \in 1..nwrk :
            m \in [call : 0..MaxCalls, elements : [0..(n - 1) -> TContribution]]
      BY <3>1 DEF Pieces
    <3> QED BY <3>2
  <2> DEFINE w == [j \in 0..(nwrk - 1) |->
                     IF j \in DOMAIN m.elements THEN m.elements[j] ELSE pWrk[p][j]]
  <2>3. w \in [0..(nwrk - 1) -> TContribution]
    BY <2>2 DEF TypeOK
  <2>4. pWrk' = [pWrk EXCEPT ![p] = w]
    BY <2>1 DEF TypeOK
  <2> HIDE DEF w
  <2>5. pWrk' \in [Member -> [0..(nwrk - 1) -> TContribution]]
    BY <2>3, <2>4 DEF TypeOK
  <2>6. vSync' \in [Member -> [lock : 0..1, signal : 0..1]]
    <3>1. vSync[p] \in [lock : 0..1, signal : 0..1]
      BY DEF TypeOK
    <3>2. [vSync[p] EXCEPT !.signal = 1] \in [lock : 0..1, signal : 0..1]
      BY <3>1
    <3> QED BY <2>1, <3>2 DEF TypeOK
  <2>7. mail' \in [Member -> SUBSET Pieces]
    BY <2>1 DEF TypeOK
  <2> QED BY <2>1, <2>5, <2>6, <2>7 DEF TypeOK
<1>8. CASE UNCHANGED vars
  BY <1>8 DEF vars, TypeOK
<1> QED BY <1>1, <1>2, <1>3, <1>4, <1>5, <1>6, <1>7, <1>8 DEF Next, Step, Finished

------------------------------------------------------------------------------
(* What has been sent and taken, in a call and out of it *)

\* A PE that is not in the loops of a call has sent nothing and taken nothing in it.
LEMMA NotYetInLoop ==
  ASSUME ReduceAssumption, InLoop, NEW p \in Member, pc[p] = "sync" \/ calls[p] = 0
  PROVE  Sent(p) = {} /\ Taken(p) = {}
<1>1. it[p] = First(p) /\ pc[p] \in {"sync", "out"}
  BY DEF InLoop
<1>2. Place(it[p]) = <<1, 0>>
  BY <1>1 DEF Place, First
<1>3. \A x \in Places : ~Before(x, <<1, 0>>)
  BY PlaceNumbers DEF Before
<1> QED BY <1>1, <1>2, <1>3 DEF Sent, Taken, Passed

\* The numbers of places are numbers.
LEMMA CountTypes ==
  ASSUME ReduceAssumption, InLoop, NEW p \in Member
  PROVE  /\ SentTo(p) \in SUBSET Places /\ Taken(p) \in SUBSET Places
         /\ Passed(p) \in SUBSET Places
         /\ Cardinality(SentTo(p)) \in Nat /\ Cardinality(Taken(p)) \in Nat
         /\ Cardinality(Places) \in Nat
         /\ IsFiniteSet(SentTo(p)) /\ IsFiniteSet(Taken(p)) /\ IsFiniteSet(Places)
<1>1. SentTo(p) \in SUBSET Places /\ Passed(p) \in SUBSET Places
  BY DEF SentTo, Passed
<1>2. Taken(p) \in SUBSET Places
  BY <1>1 DEF Taken, InLoop
<1> QED BY <1>1, <1>2, PlacesFinite, FS_Subset, FS_CardinalityType

\* Once the loops are over, all places are passed.
LEMMA AllPassed ==
  ASSUME ReduceAssumption, TypeOK, NEW p \in Member, it[p].r >= PE_size_stride
  PROVE  Passed(p) = Places
<1>1. it[p].r \in Nat
  BY DEF TypeOK
<1>2. \A x \in Places : Before(x, Place(it[p]))
  BY <1>1, PlaceNumbers, Numbers DEF Before, Place
<1> QED BY <1>2 DEF Passed

\* When a PE is out of a call nothing is waiting for it, and all has been sent.
LEMMA OutIsQuiet ==
  ASSUME ReduceAssumption, IInv, NEW p \in Member, pc[p] = "out"
  PROVE  /\ Waiting(p) = 0 /\ mail[p] = {} /\ vSync[p] = Open
         /\ calls[p] > 0 => SentTo(p) = Places /\ Sent(p) = Places /\ Taken(p) = Places
<1> USE DEF IInv
<1>1. /\ vSync[p] \in [lock : 0..1, signal : 0..1] /\ Waiting(p) \in 0..2
      /\ calls[p] \in Nat /\ \A q \in Member : calls[q] \in Nat
  BY DEF TypeOK, Waiting
<1>2. Cardinality(SentTo(p)) = Cardinality(Taken(p)) + Waiting(p)
  BY DEF Counted
<1>3. CASE calls[p] = 0
  <2>1. \A q \in Member, x \in Places : ~HasSent(q, p, x)
    BY <1>1, <1>3, NotYetInLoop DEF HasSent
  <2>2. SentTo(p) = {}
    BY <2>1 DEF SentTo
  <2>3. Waiting(p) = 0
    BY <1>1, <1>2, <1>3, <2>2, NotYetInLoop, FS_EmptySet
  <2> QED BY <1>1, <1>3, <2>3 DEF Waiting, LockIsHeld, Open
<1>4. CASE calls[p] # 0
  <2>1. it[p].r >= PE_size_stride
    BY <1>1, <1>4 DEF InLoop
  <2>2. Sent(p) = Places /\ Taken(p) = Places
    BY <2>1, AllPassed DEF Sent, Taken
  <2>3. Cardinality(SentTo(p)) <= Cardinality(Places)
    BY CountTypes, FS_Subset
  <2>4. Waiting(p) = 0 /\ Cardinality(SentTo(p)) = Cardinality(Places)
    BY <1>1, <1>2, <2>2, <2>3, CountTypes
  <2>5. SentTo(p) = Places
    BY <2>4, CountTypes, FS_Subset
  <2> QED BY <1>1, <2>2, <2>4, <2>5 DEF Waiting, LockIsHeld, Open
<1> QED BY <1>3, <1>4

\* A step that sends nothing and takes nothing keeps the accounts.
LEMMA AccountsKept ==
  ASSUME UNCHANGED calls, Counted, AllSent,
         \A q \in Member : /\ Sent(q)' = Sent(q) /\ Taken(q)' = Taken(q)
                           /\ Waiting(q)' = Waiting(q)
  PROVE  (Counted /\ AllSent)'
<1>1. \A p \in Member : SentTo(p)' = SentTo(p)
  BY DEF SentTo, HasSent
<1>2. Counted'
  BY <1>1 DEF Counted
<1>3. AllSent'
  BY DEF AllSent
<1> QED BY <1>2, <1>3

------------------------------------------------------------------------------
(* Every step keeps the accounts *)

\* When p enters a call nobody has sent to it in that call, and what p has sent to
\* the others in its last call is all that it owed them.
LEMMA EnterSends ==
  ASSUME ReduceAssumption, IInv, NEW p \in Member, Enter(p)
  PROVE  /\ SentTo(p)' = {}
         /\ \A r \in Member : r # p => SentTo(r)' = SentTo(r)
         /\ \A q \in Member : q # p => Sent(q)' = Sent(q) /\ Taken(q)' = Taken(q)
         /\ Sent(p)' = {} /\ Taken(p)' = {}
<1> USE DEF IInv
<1>1. /\ pc[p] = "out" /\ calls[p] = synced[p] /\ synced' = synced
      /\ calls' = [calls EXCEPT ![p] = @ + 1]
      /\ it' = [it EXCEPT ![p] = First(p)] /\ pc' = [pc EXCEPT ![p] = "sync"]
  BY DEF Enter, Sync!Enter
<1>2. /\ \A q \in Member : calls[q] \in Nat /\ synced[q] \in Nat
      /\ calls'[p] = calls[p] + 1 /\ it'[p] = First(p) /\ pc'[p] = "sync"
      /\ \A q \in Member : q # p => calls'[q] = calls[q] /\ it'[q] = it[q] /\ pc'[q] = pc[q]
  BY <1>1 DEF TypeOK
<1>3. \A q \in Member : q # p => Sent(q)' = Sent(q) /\ Taken(q)' = Taken(q)
  BY <1>2 DEF Sent, Taken, Passed
<1>4. Sent(p)' = {} /\ Taken(p)' = {}
  <2>1. \A x \in Places : ~Before(x, Place(it'[p]))
    BY <1>2, PlaceNumbers DEF Before, Place, First
  <2> QED BY <1>2, <2>1 DEF Sent, Taken, Passed
<1>5. \A q \in Member : calls[q] <= calls[p] + 1
  BY <1>1, <1>2 DEF InStep
<1>6. SentTo(p)' = {}
  <2>1. ASSUME NEW q \in Member, NEW x \in Places, HasSent(q, p, x)' PROVE FALSE
    <3>1. q # p /\ calls[q] = calls[p] + 1 /\ x \in Sent(q)
      BY <1>2, <1>3, <1>4, <1>5, <2>1 DEF HasSent
    <3>2. synced[q] <= calls[p]
      BY DEF InStep
    <3>3. pc[q] = "sync"
      BY <1>2, <3>1, <3>2 DEF InStep
    <3> QED BY <3>1, <3>3, NotYetInLoop
  <2> QED BY <2>1 DEF SentTo
<1>7. ASSUME NEW r \in Member, r # p PROVE SentTo(r)' = SentTo(r)
  <2>1. ASSUME NEW q \in Member, NEW x \in Places
        PROVE  HasSent(q, r, x)' <=> HasSent(q, r, x)
    <3>1. CASE q # p
      BY <1>2, <1>3, <1>7, <3>1 DEF HasSent
    <3>2. CASE q = p /\ calls[p] = calls[r]
      <4>1. CASE calls[p] = 0
        BY <1>2, <1>4, <1>7, <3>2, <4>1, NotYetInLoop DEF HasSent
      <4>2. CASE calls[p] > 0
        <5>1. Sent(p) = Places
          BY <1>1, <4>2, OutIsQuiet
        <5> QED BY <1>2, <1>4, <1>7, <3>2, <4>2, <5>1 DEF HasSent
      <4> QED BY <1>2, <4>1, <4>2
    <3>3. CASE q = p /\ calls[p] # calls[r]
      BY <1>2, <1>4, <1>7, <3>3 DEF HasSent
    <3> QED BY <3>1, <3>2, <3>3
  <2> QED BY <2>1 DEF SentTo
<1> QED BY <1>3, <1>4, <1>6, <1>7

LEMMA EnterKeeps ==
  ASSUME ReduceAssumption, IInv, NEW p \in Member, Enter(p)
  PROVE  (InStep /\ InLoop /\ LockIsHeld /\ Counted /\ AllSent)'
<1> USE DEF IInv
<1>1. /\ pc[p] = "out" /\ calls[p] = synced[p] /\ synced' = synced /\ mail' = mail
      /\ calls' = [calls EXCEPT ![p] = @ + 1] /\ vSync' = [vSync EXCEPT ![p] = Open]
      /\ it' = [it EXCEPT ![p] = First(p)] /\ pc' = [pc EXCEPT ![p] = "sync"]
  BY DEF Enter, Sync!Enter
<1>2. /\ \A q \in Member : calls[q] \in Nat /\ synced[q] \in Nat
      /\ calls'[p] = calls[p] + 1 /\ it'[p] = First(p) /\ pc'[p] = "sync"
      /\ vSync'[p] = Open
      /\ \A q \in Member : q # p => /\ calls'[q] = calls[q] /\ it'[q] = it[q]
                                    /\ pc'[q] = pc[q] /\ vSync'[q] = vSync[q]
  BY <1>1 DEF TypeOK
<1>3. mail[p] = {} /\ vSync[p] = Open
  BY <1>1, OutIsQuiet
<1>4. \A q \in Member : Waiting(q)' = Waiting(q)
  BY <1>1, <1>2, <1>3 DEF Waiting
<1>5. InStep'
  BY <1>1, <1>2 DEF InStep
<1>6. InLoop'
  <2>1. First(p).r = 1 /\ First(p).step = Stride /\ Place(First(p)) = <<1, 0>>
    BY DEF First, Place
  <2>2. First(p).to = Partner(p, <<1, 0>>)
    BY Numbers DEF First, Partner, Offset
  <2> QED BY <1>2, <2>1, <2>2, Numbers DEF InLoop
<1>7. LockIsHeld'
  <2>1. Waiting(p)' = 0
    BY <1>1, <1>4, OutIsQuiet
  <2> QED BY <1>1, <1>2, <1>3, <1>4, <2>1 DEF LockIsHeld, Open
<1>8. Counted'
  <2>1. Cardinality(SentTo(p))' = Cardinality(Taken(p))' + Waiting(p)'
    <3>1. Waiting(p)' = 0 /\ Cardinality({}) = 0
      BY <1>1, <1>4, OutIsQuiet, FS_EmptySet
    <3>2. SentTo(p)' = {} /\ Taken(p)' = {}
      BY EnterSends
    <3> QED BY <3>1, <3>2
  <2>2. ASSUME NEW r \in Member, r # p
        PROVE  Cardinality(SentTo(r))' = Cardinality(Taken(r))' + Waiting(r)'
    <3>1. SentTo(r)' = SentTo(r) /\ Taken(r)' = Taken(r)
      BY <2>2, EnterSends
    <3> QED BY <1>4, <3>1 DEF Counted
  <2> QED BY <2>1, <2>2 DEF Counted
<1>9. AllSent'
  <2> SUFFICES ASSUME NEW r \in Member, NEW q \in Member,
                      calls'[q] > 0, calls'[r] > calls'[q],
                      NEW x \in Places, Partner(q, x) = r
               PROVE  x \in Sent(q)'
    BY DEF AllSent
  <2>1. q # p
    <3>1. calls[r] <= calls[p] + 1
      BY <1>1, <1>2 DEF InStep
    <3> QED BY <1>2, <3>1
  <2>2. Sent(q)' = Sent(q)
    BY <2>1, EnterSends
  <2>3. CASE calls[r] > calls[q]
    BY <1>2, <2>1, <2>2, <2>3 DEF AllSent
  <2>4. CASE ~(calls[r] > calls[q])
    <3>1. r = p /\ calls[q] = calls[p] /\ calls[p] > 0
      BY <1>2, <2>1, <2>4
    <3>2. x \in SentTo(p)
      BY <1>1, <3>1, OutIsQuiet
    <3>3. PICK o \in Member : Partner(o, x) = p /\ HasSent(o, p, x)
      BY <3>2 DEF SentTo
    <3>4. o = q
      BY <3>1, <3>3, PartnerIsMember
    <3> QED BY <1>2, <2>2, <3>1, <3>3, <3>4 DEF HasSent
  <2> QED BY <2>3, <2>4
<1> QED BY <1>5, <1>6, <1>7, <1>8, <1>9

LEMMA SyncReturnsKeeps ==
  ASSUME ReduceAssumption, IInv, NEW p \in Member, SyncReturns(p)
  PROVE  (InStep /\ InLoop /\ LockIsHeld /\ Counted /\ AllSent)'
<1> USE DEF IInv
<1>1. /\ pc[p] = "sync" /\ \A q \in Member : calls[q] >= calls[p]
      /\ synced' = [synced EXCEPT ![p] = @ + 1]
      /\ pc' = [pc EXCEPT ![p] = Goto(it[p])]
      /\ calls' = calls /\ it' = it /\ vSync' = vSync /\ mail' = mail
  BY DEF SyncReturns, Sync!Leave
<1>2. /\ \A q \in Member : calls[q] \in Nat /\ synced[q] \in Nat
      /\ synced'[p] = synced[p] + 1 /\ pc'[p] = Goto(it[p])
      /\ \A q \in Member : q # p => synced'[q] = synced[q] /\ pc'[q] = pc[q]
  BY <1>1 DEF TypeOK
<1>3. /\ it[p] = First(p) /\ calls[p] = synced[p] + 1 /\ pc'[p] \in {"send", "out"}
      /\ pc'[p] = "send" <=> 1 < PE_size_stride
  BY <1>1, <1>2 DEF InLoop, InStep, Goto, First
<1>4. InStep'
  BY <1>1, <1>2, <1>3 DEF InStep
<1>5. InLoop'
  <2>1. pc'[p] = "send" => Place(it[p]) \in Places
    BY <1>3, PlacesLeast, Numbers DEF Closed, Box, Place, First, Element
  <2>2. pc'[p] = "out" => it[p].r >= PE_size_stride
    BY <1>3, Numbers DEF First
  <2> QED BY <1>1, <1>2, <1>3, <2>1, <2>2 DEF InLoop
<1>6. LockIsHeld'
  <2>1. \A q \in Member : Waiting(q)' = Waiting(q)
    BY <1>1 DEF Waiting
  <2> QED BY <1>1, <1>2, <1>3, <2>1 DEF LockIsHeld
<1>7. (Counted /\ AllSent)'
  <2>1. \A q \in Member : Sent(q)' = Sent(q) /\ Taken(q)' = Taken(q) /\ Waiting(q)' = Waiting(q)
    BY <1>1, <1>2, <1>3 DEF Sent, Taken, Passed, Waiting
  <2> QED BY <1>1, <2>1, AccountsKept
<1> QED BY <1>4, <1>5, <1>6, <1>7

\* The PE to which p can send is in p's call, and has not got a piece of this place.
LEMMA SendTarget ==
  ASSUME ReduceAssumption, IInv, NEW p \in Member, Send(p)
  PROVE  LET to == it[p].to
             x == Place(it[p])
         IN  /\ to \in Member /\ x \in Places /\ Partner(p, x) = to
             /\ calls[to] = calls[p] /\ calls[p] > 0
             /\ Waiting(to) = 0 /\ mail[to] = {} /\ pc[to] # "open"
             /\ x \notin Sent(p) /\ x \notin SentTo(to)
<1> DEFINE to == it[p].to
           x == Place(it[p])
<1> USE DEF IInv
<1>1. pc[p] = "send" /\ vSync[to].lock = 0 /\ to \in Member
  BY DEF Send, TypeOK
<1>2. /\ \A q \in Member : calls[q] \in Nat /\ synced[q] \in Nat
      /\ \A q \in Member : vSync[q].signal \in 0..1
  BY DEF TypeOK
<1>3. x \in Places /\ Partner(p, x) = to /\ calls[p] > 0
  <2>1. x \in Places /\ calls[p] > 0
    BY <1>1, <1>2 DEF InLoop
  <2>2. it[p].r < PE_size_stride
    BY <2>1, PlaceNumbers DEF Place
  <2> QED BY <2>1, <2>2 DEF InLoop
<1>4. Waiting(to) = 0 /\ mail[to] = {} /\ pc[to] # "open"
  <2>1. vSync[to].lock = Waiting(to) + (IF pc[to] = "open" THEN 1 ELSE 0)
    BY <1>1 DEF LockIsHeld
  <2>2. Waiting(to) \in 0..2
    BY <1>1, <1>2 DEF Waiting
  <2>3. Waiting(to) = 0 /\ pc[to] # "open"
    BY <1>1, <2>1, <2>2
  <2> QED BY <1>1, <1>2, <2>3 DEF Waiting
<1>5. x \notin Sent(p)
  <2>1. ~Before(x, x)
    BY <1>3, NextIsLater, Order
  <2> QED BY <1>1, <2>1 DEF Sent, Passed
<1>6. calls[to] = calls[p]
  <2>1. calls[p] = synced[p] /\ synced[p] <= calls[to]
    BY <1>1, <1>2 DEF InStep
  <2>2. ~(calls[to] > calls[p])
    BY <1>1, <1>3, <1>5 DEF AllSent
  <2> QED BY <1>1, <1>2, <2>1, <2>2
<1>7. x \notin SentTo(to)
  <2>1. ASSUME NEW q \in Member, Partner(q, x) = to, HasSent(q, to, x) PROVE FALSE
    <3>1. q = p
      BY <1>3, <2>1, PartnerIsMember
    <3> QED BY <1>2, <1>5, <1>6, <2>1, <3>1 DEF HasSent
  <2> QED BY <2>1 DEF SentTo
<1> QED BY <1>1, <1>3, <1>4, <1>5, <1>6, <1>7

\* A send adds one place to what has been sent to its target.
LEMMA SendSends ==
  ASSUME ReduceAssumption, IInv, NEW p \in Member, Send(p),
         NEW to \in Member, NEW x \in Places, to = it[p].to, x = Place(it[p])
  PROVE  /\ Sent(p)' = Sent(p) \cup {x}
         /\ \A q \in Member : q # p => Sent(q)' = Sent(q)
         /\ \A q \in Member : Taken(q)' = Taken(q)
         /\ SentTo(to)' = SentTo(to) \cup {x}
         /\ \A r \in Member : r # to => SentTo(r)' = SentTo(r)
<1>1. /\ pc[p] = "send" /\ pc' = [pc EXCEPT ![p] = "wait"] /\ calls' = calls /\ it' = it
      /\ pc'[p] = "wait" /\ \A q \in Member : q # p => pc'[q] = pc[q]
  BY DEF Send, IInv, TypeOK
<1>2. Partner(p, x) = to /\ calls[to] = calls[p]
  BY SendTarget
<1>3. /\ Sent(p)' = Sent(p) \cup {x}
      /\ \A q \in Member : q # p => Sent(q)' = Sent(q)
      /\ \A q \in Member : Taken(q)' = Taken(q)
  BY <1>1 DEF Sent, Taken, Passed
<1>4. \A q \in Member, y \in Places, r \in Member :
        HasSent(q, r, y)' <=> \/ HasSent(q, r, y)
                              \/ q = p /\ calls[p] = calls[r] /\ y = x
  BY <1>1, <1>3 DEF HasSent
<1>5. SentTo(to)' = SentTo(to) \cup {x}
  BY <1>2, <1>4 DEF SentTo
<1>6. \A r \in Member : r # to => SentTo(r)' = SentTo(r)
  BY <1>2, <1>4 DEF SentTo
<1> QED BY <1>3, <1>5, <1>6

LEMMA SendKeeps ==
  ASSUME ReduceAssumption, IInv, NEW p \in Member, Send(p)
  PROVE  (InStep /\ InLoop /\ LockIsHeld /\ Counted /\ AllSent)'
<1> USE DEF IInv
<1>0. PICK to \in Member, x \in Places : to = it[p].to /\ x = Place(it[p])
  BY SendTarget
<1>1. /\ pc[p] = "send" /\ vSync' = [vSync EXCEPT ![to].lock = 1]
      /\ mail' = [mail EXCEPT ![to] = @ \cup {Piece(p)}] /\ pc' = [pc EXCEPT ![p] = "wait"]
      /\ calls' = calls /\ synced' = synced /\ it' = it
  BY <1>0 DEF Send
<1>2. /\ to \in Member /\ x \in Places /\ Partner(p, x) = to
      /\ calls[to] = calls[p] /\ calls[p] > 0
      /\ Waiting(to) = 0 /\ mail[to] = {} /\ pc[to] # "open"
      /\ x \notin Sent(p) /\ x \notin SentTo(to)
  BY <1>0, SendTarget
<1>3. /\ pc'[p] = "wait" /\ \A q \in Member : q # p => pc'[q] = pc[q]
      /\ mail'[to] = {Piece(p)} /\ \A q \in Member : q # to => mail'[q] = mail[q]
      /\ vSync'[to].lock = 1 /\ \A q \in Member : vSync'[q].signal = vSync[q].signal
      /\ \A q \in Member : q # to => vSync'[q].lock = vSync[q].lock
      /\ vSync[to].signal \in 0..1
  BY <1>1, <1>2 DEF TypeOK
<1>4. Waiting(to)' = 1 /\ \A q \in Member : q # to => Waiting(q)' = Waiting(q)
  <2>1. mail[to] = {} /\ vSync[to].signal = 0
    BY <1>2, <1>3 DEF Waiting
  <2>2. mail'[to] # {} /\ vSync'[to].signal = 0
    BY <1>2, <1>3, <2>1
  <2>3. Waiting(to)' = 1
    BY <1>1, <2>2 DEF Waiting
  <2> QED BY <1>3, <2>3 DEF Waiting
<1>5. /\ Sent(p)' = Sent(p) \cup {x}
      /\ \A q \in Member : q # p => Sent(q)' = Sent(q)
      /\ \A q \in Member : Taken(q)' = Taken(q)
      /\ SentTo(to)' = SentTo(to) \cup {x}
      /\ \A r \in Member : r # to => SentTo(r)' = SentTo(r)
  BY <1>0, SendSends
<1>6. InStep'
  BY <1>1, <1>3 DEF InStep
<1>7. InLoop'
  BY <1>1, <1>3 DEF InLoop
<1>8. LockIsHeld'
  <2>1. Piece(p).call = calls[to]
    BY <1>2 DEF Piece
  <2>2. vSync'[to].signal = 0
    BY <1>2, <1>3 DEF Waiting
  <2>3. pc'[to] \notin {"open", "clear"}
    BY <1>1, <1>2, <1>3, <2>2 DEF LockIsHeld
  <2> QED BY <1>1, <1>2, <1>3, <1>4, <2>1, <2>3 DEF LockIsHeld
<1>9. Counted'
  <2>1. Cardinality(SentTo(to))' = Cardinality(SentTo(to)) + 1
    <3>1. Cardinality(SentTo(to) \cup {x}) = Cardinality(SentTo(to)) + 1
      BY <1>2, CountTypes, FS_AddElement
    <3> QED BY <1>5, <3>1
  <2>2. Cardinality(SentTo(to))' = Cardinality(Taken(to))' + Waiting(to)'
    <3>1. Cardinality(SentTo(to)) = Cardinality(Taken(to)) + Waiting(to)
      BY <1>2 DEF Counted
    <3>2. Taken(to)' = Taken(to)
      BY <1>2, <1>5
    <3> QED BY <1>2, <1>4, <2>1, <3>1, <3>2, CountTypes
  <2>3. ASSUME NEW r \in Member, r # to
        PROVE  Cardinality(SentTo(r))' = Cardinality(Taken(r))' + Waiting(r)'
    <3>1. SentTo(r)' = SentTo(r) /\ Taken(r)' = Taken(r) /\ Waiting(r)' = Waiting(r)
      BY <1>4, <1>5, <2>3
    <3> QED BY <3>1 DEF Counted
  <2> QED BY <2>2, <2>3 DEF Counted
<1>10. AllSent'
  BY <1>1, <1>5 DEF AllSent
<1> QED BY <1>6, <1>7, <1>8, <1>9, <1>10

LEMMA LandKeeps ==
  ASSUME ReduceAssumption, IInv, NEW p \in Member, Land(p)
  PROVE  (InStep /\ InLoop /\ LockIsHeld /\ Counted /\ AllSent)'
<1> USE DEF IInv
<1>1. PICK m \in mail[p] :
        /\ vSync' = [vSync EXCEPT ![p].signal = 1] /\ mail' = [mail EXCEPT ![p] = @ \ {m}]
        /\ calls' = calls /\ synced' = synced /\ pc' = pc /\ it' = it
  BY DEF Land
<1>2. mail[p] = {m} /\ vSync[p].lock = 1 /\ vSync[p].signal = 0
  <2>1. mail[p] = {m} /\ vSync[p].lock = Waiting(p) + (IF pc[p] = "open" THEN 1 ELSE 0)
    BY DEF LockIsHeld
  <2>2. vSync[p].lock \in 0..1 /\ vSync[p].signal \in 0..1
    BY DEF TypeOK
  <2> QED BY <2>1, <2>2 DEF Waiting
<1>3. /\ mail'[p] = {} /\ \A q \in Member : q # p => mail'[q] = mail[q]
      /\ vSync'[p].signal = 1 /\ \A q \in Member : vSync'[q].lock = vSync[q].lock
      /\ \A q \in Member : q # p => vSync'[q].signal = vSync[q].signal
  BY <1>1, <1>2 DEF TypeOK
<1>4. \A q \in Member : Waiting(q)' = Waiting(q)
  BY <1>2, <1>3 DEF Waiting
<1>5. InStep' /\ InLoop'
  BY <1>1 DEF InStep, InLoop
<1>6. LockIsHeld'
  BY <1>1, <1>3, <1>4 DEF LockIsHeld
<1>7. (Counted /\ AllSent)'
  <2>1. \A q \in Member : Sent(q)' = Sent(q) /\ Taken(q)' = Taken(q)
    BY <1>1 DEF Sent, Taken, Passed
  <2> QED BY <1>1, <1>4, <2>1, AccountsKept
<1> QED BY <1>5, <1>6, <1>7

LEMMA CombineKeeps ==
  ASSUME ReduceAssumption, IInv, NEW p \in Member, Combine(p)
  PROVE  (InStep /\ InLoop /\ LockIsHeld /\ Counted /\ AllSent)'
<1> USE DEF IInv
<1>1. /\ pc[p] = "wait" /\ vSync[p].signal # 0 /\ pc' = [pc EXCEPT ![p] = "clear"]
      /\ calls' = calls /\ synced' = synced /\ it' = it /\ vSync' = vSync /\ mail' = mail
  BY DEF Combine
<1>2. /\ pc'[p] = "clear" /\ \A q \in Member : q # p => pc'[q] = pc[q]
      /\ vSync[p].signal = 1
  BY <1>1 DEF TypeOK
<1>3. \A q \in Member : Waiting(q)' = Waiting(q)
  BY <1>1 DEF Waiting
<1>4. InStep' /\ InLoop'
  BY <1>1, <1>2 DEF InStep, InLoop
<1>5. LockIsHeld'
  BY <1>1, <1>2, <1>3 DEF LockIsHeld
<1>6. (Counted /\ AllSent)'
  <2>1. \A q \in Member : Sent(q)' = Sent(q) /\ Taken(q)' = Taken(q)
    BY <1>1, <1>2 DEF Sent, Taken, Passed
  <2> QED BY <1>1, <1>3, <2>1, AccountsKept
<1> QED BY <1>4, <1>5, <1>6

LEMMA ClearKeeps ==
  ASSUME ReduceAssumption, IInv, NEW p \in Member, Clear(p)
  PROVE  (InStep /\ InLoop /\ LockIsHeld /\ Counted /\ AllSent)'
<1> DEFINE x == Place(it[p])
<1> USE DEF IInv
<1>1. /\ pc[p] = "clear" /\ vSync' = [vSync EXCEPT ![p].signal = 0]
      /\ pc' = [pc EXCEPT ![p] = "open"]
      /\ calls' = calls /\ synced' = synced /\ it' = it /\ mail' = mail
  BY DEF Clear
<1>2. /\ pc'[p] = "open" /\ \A q \in Member : q # p => pc'[q] = pc[q]
      /\ vSync'[p].signal = 0 /\ \A q \in Member : vSync'[q].lock = vSync[q].lock
      /\ \A q \in Member : q # p => vSync'[q].signal = vSync[q].signal
  BY <1>1 DEF TypeOK
<1>3. vSync[p].signal = 1
  BY <1>1 DEF LockIsHeld
<1>4. mail[p] = {} /\ Waiting(p) = 1 /\ Waiting(p)' = 0
  <2>1. vSync[p].lock \in 0..1
    BY DEF TypeOK
  <2>2. vSync[p].lock = Waiting(p) + 0
    BY <1>1 DEF LockIsHeld
  <2> QED BY <1>1, <1>2, <1>3, <2>1, <2>2 DEF Waiting
<1>5. \A q \in Member : q # p => Waiting(q)' = Waiting(q)
  BY <1>1, <1>2 DEF Waiting
<1>6. InStep' /\ InLoop'
  BY <1>1, <1>2 DEF InStep, InLoop
<1>7. LockIsHeld'
  BY <1>1, <1>2, <1>4, <1>5 DEF LockIsHeld
<1>8. /\ \A q \in Member : Sent(q)' = Sent(q)
      /\ \A q \in Member : q # p => Taken(q)' = Taken(q)
      /\ Taken(p) = Passed(p) /\ Taken(p)' = Passed(p) \cup {x}
  BY <1>1, <1>2 DEF Sent, Taken, Passed
<1>9. \A q \in Member : SentTo(q)' = SentTo(q)
  BY <1>1, <1>8 DEF SentTo, HasSent
<1>10. Counted'
  <2>1. x \in Places /\ ~Before(x, x)
    BY <1>1, NextIsLater, Order DEF InLoop
  <2>2. Cardinality(Passed(p) \cup {x}) = Cardinality(Taken(p)) + 1
    BY <1>8, <2>1, CountTypes, FS_AddElement DEF Passed
  <2>3. Cardinality(SentTo(p)) = Cardinality(Taken(p)) + 1
    BY <1>4 DEF Counted
  <2>4. Cardinality(SentTo(p))' = Cardinality(Taken(p))' + Waiting(p)'
    BY <1>4, <1>8, <1>9, <2>2, <2>3, CountTypes
  <2>5. ASSUME NEW q \in Member, q # p
        PROVE  Cardinality(SentTo(q))' = Cardinality(Taken(q))' + Waiting(q)'
    <3>1. SentTo(q)' = SentTo(q) /\ Taken(q)' = Taken(q) /\ Waiting(q)' = Waiting(q)
      BY <1>5, <1>8, <1>9, <2>5
    <3> QED BY <3>1 DEF Counted
  <2> QED BY <2>4, <2>5 DEF Counted
<1>11. AllSent'
  BY <1>1, <1>8 DEF AllSent
<1> QED BY <1>6, <1>7, <1>10, <1>11

LEMMA OpenLockKeeps ==
  ASSUME ReduceAssumption, IInv, NEW p \in Member, OpenLock(p)
  PROVE  (InStep /\ InLoop /\ LockIsHeld /\ Counted /\ AllSent)'
<1> DEFINE x == Place(it[p])
           m == Onward(it[p])
<1> USE DEF IInv
<1>1. /\ pc[p] = "open" /\ vSync' = [vSync EXCEPT ![p].lock = 0]
      /\ it' = [it EXCEPT ![p] = m] /\ pc' = [pc EXCEPT ![p] = Goto(m)]
      /\ calls' = calls /\ synced' = synced /\ mail' = mail
  BY DEF OpenLock
<1>2. /\ it'[p] = m /\ \A q \in Member : q # p => it'[q] = it[q] /\ pc'[q] = pc[q]
      /\ pc'[p] = Goto(m) /\ Goto(m) \in {"send", "out"}
      /\ vSync'[p].lock = 0 /\ \A q \in Member : vSync'[q].signal = vSync[q].signal
      /\ \A q \in Member : q # p => vSync'[q].lock = vSync[q].lock
  BY <1>1 DEF TypeOK, Goto
<1>3. /\ x \in Places /\ m \in Loops /\ Place(m) = NextPlace(x)
      /\ IF ring THEN m.step = Stride ELSE m.r = 2 * (m.step - Stride) + 1
      /\ m.r < PE_size_stride => Place(m) \in Places /\ m.to = Partner(p, Place(m))
  BY <1>1, LoopsAdvance
<1>4. \A q \in Member : Waiting(q)' = Waiting(q)
  BY <1>1, <1>2 DEF Waiting
<1>5. calls[p] # 0 /\ calls[p] \in Nat
  BY <1>1 DEF InLoop, TypeOK
<1>6. InStep'
  BY <1>1, <1>2 DEF InStep
<1>7. InLoop'
  <2>1. Goto(m) = "send" => Place(m) \in Places
    BY <1>3 DEF Goto
  <2>2. Goto(m) = "out" => m.r >= PE_size_stride
    BY <1>3, Numbers DEF Goto, Loops
  <2> QED BY <1>1, <1>2, <1>3, <1>5, <2>1, <2>2 DEF InLoop
<1>8. LockIsHeld'
  <2>1. vSync[p].lock \in 0..1 /\ vSync[p].signal \in 0..1
    BY DEF TypeOK
  <2>3. vSync[p].lock = Waiting(p) + 1 /\ Waiting(p) \in 0..2
    BY <1>1, <2>1 DEF LockIsHeld, Waiting
  <2>2. Waiting(p)' = 0
    BY <1>4, <2>1, <2>3
  <2> QED BY <1>1, <1>2, <1>4, <2>2 DEF LockIsHeld
<1>9. (Counted /\ AllSent)'
  <2>1. Passed(p)' = Passed(p) \cup {x}
    BY <1>2, <1>3, PassedAdvances DEF Passed
  <2>2. \A q \in Member : q # p => Sent(q)' = Sent(q) /\ Taken(q)' = Taken(q)
    BY <1>2 DEF Sent, Taken, Passed
  <2>3. Sent(p)' = Sent(p) /\ Taken(p)' = Taken(p)
    BY <1>1, <1>2, <2>1 DEF Sent, Taken
  <2> QED BY <1>1, <1>4, <2>2, <2>3, AccountsKept
<1> QED BY <1>6, <1>7, <1>8, <1>9

------------------------------------------------------------------------------
(* The theorems *)

\* The invariant holds at the start.
LEMMA InitIInv == ASSUME ReduceAssumption, Init PROVE IInv
<1> USE Numbers
<1>1. /\ calls = [p \in Member |-> 0] /\ synced = [p \in Member |-> 0]
      /\ pc = [p \in Member |-> "out"] /\ it = [p \in Member |-> First(p)]
      /\ vSync = [p \in Member |-> Open] /\ mail = [p \in Member |-> {}]
  BY DEF Init, Sync!Init
<1>2. TypeOK
  <2>1. \A p \in Member : First(p) \in Loops
    <3>1. 1 \in 0..PE_size /\ 1 * Stride = Stride
      OBVIOUS
    <3> QED BY <3>1, ToMember DEF First, Loops, Element
  <2>2. dest \in [Member -> [Element -> TContribution]]
    BY DEF Init, Own, TContribution
  <2>3. pWrk \in [Member -> [0..(nwrk - 1) -> TContribution]]
    BY DEF Init, Nobody, TContribution
  <2>4. MaxCalls \in Nat
    BY DEF ReduceAssumption
  <2> QED BY <1>1, <2>1, <2>2, <2>3, <2>4 DEF TypeOK, Loops, Open
<1>3. InStep
  BY <1>1 DEF InStep
<1>4. InLoop
  <2>1. \A p \in Member : First(p).to = Partner(p, Place(First(p)))
    BY DEF First, Partner, Offset, Place
  <2> QED BY <1>1, <2>1 DEF InLoop, First
<1>5. \A p \in Member : Waiting(p) = 0
  BY <1>1 DEF Waiting, Open
<1>6. LockIsHeld
  BY <1>1, <1>5 DEF LockIsHeld, Open
<1>7. Counted
  <2>1. ASSUME NEW p \in Member PROVE SentTo(p) = {} /\ Taken(p) = {}
    <3>1. \A q \in Member : Sent(q) = {} /\ Taken(q) = {}
      BY <1>1, <1>4, NotYetInLoop
    <3> QED BY <1>1, <3>1 DEF SentTo, HasSent
  <2> QED BY <1>5, <2>1, FS_EmptySet DEF Counted
<1>8. AllSent
  BY <1>1 DEF AllSent
<1> QED BY <1>2, <1>3, <1>4, <1>6, <1>7, <1>8 DEF IInv

\* Every step keeps the invariant.
LEMMA NextIInv == ASSUME ReduceAssumption, IInv, [Next]_vars PROVE IInv'
<1>1. TypeOK'
  BY ReduceTypesOK DEF IInv
<1>2. CASE \E p \in Member : Step(p) \/ Land(p)
  BY <1>1, <1>2, EnterKeeps, SyncReturnsKeeps, SendKeeps, CombineKeeps, ClearKeeps,
     OpenLockKeeps, LandKeeps DEF Step, IInv
<1>3. CASE UNCHANGED vars
  <2>1. (InStep /\ InLoop /\ LockIsHeld)'
    BY <1>3 DEF IInv, vars, InStep, InLoop, LockIsHeld, Waiting
  <2>2. (Counted /\ AllSent)'
    <3>1. \A q \in Member : Sent(q)' = Sent(q) /\ Taken(q)' = Taken(q) /\ Waiting(q)' = Waiting(q)
      BY <1>3 DEF vars, Sent, Taken, Passed, Waiting
    <3> QED BY <1>3, <3>1, AccountsKept DEF IInv, vars
  <2> QED BY <1>1, <2>1, <2>2 DEF IInv
<1> QED BY <1>2, <1>3 DEF Next, Finished

\* What the invariant says of the lock of a PE and of the pieces sent to it.
LEMMA LockGuards ==
  ASSUME ReduceAssumption, IInv PROVE OnePieceAtATime /\ PieceOfThisCall
<1> SUFFICES ASSUME NEW p \in Member
             PROVE  /\ Cardinality(mail[p]) + vSync[p].signal <= 1
                    /\ mail[p] # {} \/ vSync[p].signal = 1 => vSync[p].lock = 1
                    /\ pc[p] = "open" => /\ mail[p] = {}
                                         /\ vSync[p] = [lock |-> 1, signal |-> 0]
                    /\ \A m \in mail[p] : m.call = calls[p]
                    /\ pc[p] = "out" => mail[p] = {} /\ vSync[p] = Open
  BY DEF OnePieceAtATime, PieceOfThisCall
<1>1. /\ mail[p] = {} \/ \E m \in mail[p] : mail[p] = {m} /\ m.call = calls[p]
      /\ vSync[p].lock = Waiting(p) + (IF pc[p] = "open" THEN 1 ELSE 0)
      /\ vSync[p] \in [lock : 0..1, signal : 0..1]
  BY DEF IInv, LockIsHeld, TypeOK
<1>2. Cardinality(mail[p]) = IF mail[p] = {} THEN 0 ELSE 1
  BY <1>1, FS_EmptySet, FS_Singleton
<1>3. pc[p] = "out" => mail[p] = {} /\ vSync[p] = Open
  BY OutIsQuiet
<1> QED BY <1>1, <1>2, <1>3 DEF Waiting

\* The accounts of the pieces sent and taken always agree: TypeOK, InStep, InLoop,
\* LockIsHeld, Counted and AllSent, for every active set, number of elements and
\* size of pWrk.
THEOREM AccountsAgree == ASSUME ReduceAssumption PROVE Spec => []IInv
<1>1. Init => IInv
  BY InitIInv
<1>2. IInv /\ [Next]_vars => IInv'
  BY NextIInv
<1> QED BY <1>1, <1>2, PTL DEF Spec

\* No piece in pWrk is overwritten before it is combined (def_shmem_x_to_all.h:68-74).
THEOREM OnePieceInPWrk == ASSUME ReduceAssumption PROVE Spec => []OnePieceAtATime
<1>1. IInv => OnePieceAtATime
  BY LockGuards
<1> QED BY <1>1, AccountsAgree, PTL

\* The reset of vSync at the next call wipes out no piece (def_shmem_x_to_all.h:52-53).
THEOREM NoPieceOfAnotherCall == ASSUME ReduceAssumption PROVE Spec => []PieceOfThisCall
<1>1. IInv => PieceOfThisCall
  BY LockGuards
<1> QED BY <1>1, AccountsAgree, PTL

------------------------------------------------------------------------------
(* The sum in a ring of single pieces *)

SingleRing == ring /\ Stride = 1 /\ nreduce <= nwrk

\* A set of numbers that is not empty has a least one.
LEMMA LeastNat ==
  ASSUME NEW T \in SUBSET Nat, T # {}
  PROVE  \E n \in T : \A m \in T : n <= m
<1> DEFINE R == OpToRel(<, Nat)
<1>1. IsWellFoundedOn(R, Nat)
  BY NatLessThanWellFounded
<1>2. \A x, y \in Nat : x < y => <<x, y>> \in R
  BY DEF OpToRel
<1> HIDE DEF R
<1>3. \E x \in T : \A y \in T : ~(<<y, x>> \in R)
  BY <1>1, WFMin
<1>4. PICK n \in T : \A y \in T : ~(<<y, n>> \in R)
  BY <1>3
<1>5. \A m \in T : ~(m < n) /\ m \in Nat /\ n \in Nat
  BY <1>2, <1>4
<1>6. \A m \in T : n <= m
  BY <1>5
<1> QED BY <1>6

\* The places of such a ring are one for each distance.
LEMMA RingPlaces ==
  ASSUME ReduceAssumption, SingleRing
  PROVE  /\ \A x \in Places : x = <<x[1], 0>> /\ Offset(x) = x[1]
         /\ \A r \in 1..(PE_size_stride - 1) : <<r, 0>> \in Places
<1> USE Numbers DEF SingleRing
<1>1. ASSUME NEW x \in Places PROVE x = <<x[1], 0>> /\ Offset(x) = x[1]
  <2> DEFINE T == {y \in Box : y[2] = 0}
  <2>1. Closed(T) /\ T \in SUBSET Box
    BY DEF Closed, NextPlace, Box, Element
  <2>2. x \in T
    <3> HIDE DEF T
    <3> QED BY <2>1, PlacesLeast
  <2> QED BY <2>2, PlaceNumbers DEF Offset
<1>2. ASSUME NEW r \in 1..(PE_size_stride - 1) PROVE <<r, 0>> \in Places
  <2> DEFINE D == {n \in 1..(PE_size_stride - 1) : <<n, 0>> \notin Places}
  <2>1. SUFFICES ASSUME D # {} PROVE FALSE
    OBVIOUS
  <2>2. PICK n \in D : \A m \in D : n <= m
    <3>1. D \in SUBSET Nat
      OBVIOUS
    <3> HIDE DEF D
    <3> QED BY <2>1, <3>1, LeastNat
  <2>3. 0 \in Element
    BY DEF Element
  <2>4. n # 1
    BY <2>2, <2>3, PlacesLeast DEF Closed, Box
  <2>5. n - 1 \in 1..(PE_size_stride - 1)
    BY <2>2, <2>4
  <2>6. <<n - 1, 0>> \in Places
    BY <2>2, <2>5
  <2>7. NextPlace(<<n - 1, 0>>) = <<n, 0>> /\ <<n, 0>> \in Box
    BY <2>2, <2>3, <2>5 DEF NextPlace, Box
  <2>8. <<n, 0>> \in Places
    BY <2>6, <2>7, PlacesLeast DEF Closed
  <2> QED BY <2>2, <2>8
<1> QED BY <1>1, <1>2

\* Every other PE is the partner at exactly one place.
LEMMA RingPartners ==
  ASSUME ReduceAssumption, SingleRing, NEW q \in Member
  PROVE  /\ \A x \in Places : Partner(q, x) # q
         /\ \A x, y \in Places : Partner(q, x) = Partner(q, y) => x = y
         /\ \A p \in Member : p # q => \E x \in Places : Partner(q, x) = p
<1> USE Numbers
<1>1. ASSUME NEW x \in Places PROVE Partner(q, x) # q
  <2>1. Offset(x) = x[1] /\ x[1] \in Nat /\ x[1] > 0 /\ x[1] < PE_size_stride
    BY RingPlaces, PlaceNumbers
  <2> QED BY <2>1 DEF Partner, Next_to
<1>2. ASSUME NEW x \in Places, NEW y \in Places, Partner(q, x) = Partner(q, y)
      PROVE  x = y
  <2>1. /\ Offset(x) = x[1] /\ x[1] \in Nat /\ x[1] > 0 /\ x[1] < PE_size_stride
        /\ Offset(y) = y[1] /\ y[1] \in Nat /\ y[1] > 0 /\ y[1] < PE_size_stride
    BY RingPlaces, PlaceNumbers
  <2>2. x[1] = y[1]
    BY <1>2, <2>1 DEF Partner, Next_to
  <2>3. x = <<x[1], 0>> /\ y = <<y[1], 0>>
    BY RingPlaces
  <2> QED BY <2>2, <2>3
<1>3. ASSUME NEW p \in Member, p # q PROVE \E x \in Places : Partner(q, x) = p
  <2> DEFINE d == IF p > q THEN p - q ELSE p - q + PE_size_stride
  <2>1. d \in 1..(PE_size_stride - 1)
    BY <1>3
  <2>2. <<d, 0>> \in Places
    BY <2>1, RingPlaces
  <2>3. Offset(<<d, 0>>) = d
    <3> HIDE DEF d
    <3>1. Offset(<<d, 0>>) = <<d, 0>>[1]
      BY <2>2, RingPlaces
    <3> QED BY <3>1
  <2>4. Partner(q, <<d, 0>>) = p
    BY <2>3 DEF Partner, Next_to
  <2> QED BY <2>2, <2>4
<1> QED BY <1>1, <1>2, <1>3

\* A piece is the whole of the sender's own data.
LEMMA RingPiece ==
  ASSUME ReduceAssumption, SingleRing, IInv, NEW p \in Member, Place(it[p]) \in Places
  PROVE  /\ it[p].i = 0 /\ nrem(0) = nreduce
         /\ Piece(p).elements = Own(p) /\ DOMAIN Own(p) = Element
<1>1. it[p].i = 0
  <2>1. Place(it[p])[2] = 0
    BY RingPlaces
  <2> QED BY <2>1 DEF Place
<1>2. nrem(0) = nreduce
  BY Numbers DEF nrem, SingleRing
<1>3. Own(p) = [j \in Element |-> Own(p)[j]] /\ DOMAIN Own(p) = Element
  BY DEF Own
<1>4. Piece(p).elements = [j \in Element |-> Own(p)[0 + j]]
  BY <1>1, <1>2 DEF Piece, data, SingleRing, Element
<1>5. \A j \in Element : 0 + j = j
  BY DEF Element
<1>6. Piece(p).elements = [j \in Element |-> Own(p)[j]]
  BY <1>4, <1>5
<1> QED BY <1>1, <1>2, <1>3, <1>6

\* Nothing is unread when nothing is waiting, and nothing after it is combined.
LEMMA NothingUnread ==
  /\ \A p \in Member : Waiting(p) = 0 /\ vSync[p].signal \in 0..1 =>
       Unread(p) = [e \in Element |-> Nobody]
  /\ \A p \in Member : mail[p] = {} /\ pc[p] = "clear" =>
       Unread(p) = [e \in Element |-> Nobody]
  /\ \A e \in Element, q \in Member : [d \in Element |-> Nobody][e][q] = 0
BY DEF Waiting, Unread, Nobody

\* The sum of a PE whose data, waiting piece and accounts stay.
LEMMA SumKept ==
  ASSUME NEW p \in Member, SumOf(p), mail'[p] = mail[p], dest'[p] = dest[p],
         Unread(p)' = Unread(p), SentTo(p)' = SentTo(p)
  PROVE  SumOf(p)'
BY DEF SumOf

LEMMA RingEnter ==
  ASSUME ReduceAssumption, SingleRing, IInv, RingSum, NEW p \in Member, Enter(p)
  PROVE  RingSum'
<1>1. /\ pc[p] = "out" /\ mail' = mail /\ pWrk' = pWrk
      /\ dest' = [dest EXCEPT ![p] = Own(p)] /\ vSync' = [vSync EXCEPT ![p] = Open]
      /\ pc' = [pc EXCEPT ![p] = "sync"]
  BY DEF Enter
<1>2. /\ dest'[p] = Own(p) /\ vSync'[p] = Open /\ mail'[p] = {}
      /\ \A q \in Member : q # p => /\ dest'[q] = dest[q] /\ vSync'[q] = vSync[q]
                                    /\ pc'[q] = pc[q]
  <2>1. mail[p] = {}
    BY <1>1, OutIsQuiet
  <2> QED BY <1>1, <2>1 DEF IInv, TypeOK
<1>3. ASSUME NEW r \in Member, r # p PROVE SumOf(r)'
  <2>1. SentTo(r)' = SentTo(r)
    BY <1>3, EnterSends
  <2>2. Unread(r)' = Unread(r) /\ mail'[r] = mail[r] /\ dest'[r] = dest[r]
    BY <1>1, <1>2, <1>3 DEF Unread
  <2>3. SumOf(r)
    BY DEF RingSum
  <2> QED BY <2>1, <2>2, <2>3, SumKept
<1>4. SumOf(p)'
  <2>1. SentTo(p)' = {}
    BY EnterSends
  <2>2. Unread(p)' = [e \in Element |-> Nobody]
    BY <1>2 DEF Unread, Open
  <2>3. \A e \in Element, q \in Member : Unread(p)'[e][q] = 0
    BY <2>2, NothingUnread
  <2>4. \A e \in Element, q \in Member : dest'[p][e][q] = IF q = p THEN 1 ELSE 0
    BY <1>2 DEF Own
  <2> QED BY <1>2, <2>1, <2>3, <2>4 DEF SumOf
<1> QED BY <1>3, <1>4 DEF RingSum

LEMMA RingSend ==
  ASSUME ReduceAssumption, SingleRing, IInv, RingSum, NEW p \in Member, Send(p)
  PROVE  RingSum'
<1>0. PICK to \in Member, x \in Places : to = it[p].to /\ x = Place(it[p])
  BY SendTarget
<1>1. /\ mail' = [mail EXCEPT ![to] = @ \cup {Piece(p)}] /\ pWrk' = pWrk /\ dest' = dest
      /\ pc' = [pc EXCEPT ![p] = "wait"] /\ pc[p] = "send"
      /\ vSync' = [vSync EXCEPT ![to].lock = 1]
  BY <1>0 DEF Send
<1>2. /\ Partner(p, x) = to /\ mail[to] = {} /\ Waiting(to) = 0 /\ x \notin SentTo(to)
      /\ to # p
  BY <1>0, SendTarget, RingPartners
<1>3. /\ mail'[to] = {Piece(p)} /\ \A q \in Member : q # to => mail'[q] = mail[q]
      /\ \A q \in Member : vSync'[q].signal = vSync[q].signal
      /\ \A q \in Member : pc'[q] = "clear" <=> pc[q] = "clear"
      /\ vSync[to].signal \in 0..1
  BY <1>1, <1>2 DEF IInv, TypeOK
<1>4. SentTo(to)' = SentTo(to) \cup {x} /\ \A r \in Member : r # to => SentTo(r)' = SentTo(r)
  BY <1>0, SendSends
<1>5. ASSUME NEW r \in Member, r # to PROVE SumOf(r)'
  <2>1. Unread(r)' = Unread(r) /\ mail'[r] = mail[r]
    BY <1>1, <1>3, <1>5 DEF Unread
  <2>2. SumOf(r)
    BY DEF RingSum
  <2> QED BY <1>1, <1>4, <1>5, <2>1, <2>2, SumKept
<1>6. SumOf(to)'
  <2>1. Piece(p).elements = Own(p) /\ DOMAIN Own(p) = Element
    BY <1>0, RingPiece
  <2>2. Unread(to)' = Own(p)
    <3>1. (CHOOSE m \in {Piece(p)} : TRUE) = Piece(p)
      OBVIOUS
    <3> QED BY <1>3, <2>1, <3>1 DEF Unread
  <2>3. ASSUME NEW e \in Element, NEW q \in Member
        PROVE  dest'[to][e][q] + Unread(to)'[e][q] =
                 IF q = to \/ \E y \in SentTo(to)' : Partner(q, y) = to THEN 1 ELSE 0
    <3>1. Unread(to)[e][q] = 0
      BY <1>2, <1>3, NothingUnread
    <3>2. dest[to][e][q] = IF q = to \/ \E y \in SentTo(to) : Partner(q, y) = to THEN 1 ELSE 0
      <4>1. dest[to][e][q] \in Nat
        BY DEF IInv, TypeOK, TContribution
      <4> QED BY <3>1, <4>1 DEF RingSum, SumOf
    <3>3. Own(p)[e][q] = IF q = p THEN 1 ELSE 0
      BY DEF Own
    <3>4. SentTo(to) \subseteq Places
      BY DEF SentTo
    <3>5. CASE q = p
      <4>1. \A y \in SentTo(to) : Partner(p, y) # to
        BY <1>2, <3>4, RingPartners
      <4> QED BY <1>1, <1>2, <1>4, <2>2, <3>2, <3>3, <3>5, <4>1
    <3>6. CASE q # p
      <4>1. Partner(q, x) # to
        BY <1>2, <3>6, PartnerIsMember
      <4> QED BY <1>1, <1>4, <2>2, <3>2, <3>3, <3>6, <4>1
    <3> QED BY <3>5, <3>6
  <2>4. \A m \in mail'[to] : DOMAIN m.elements = Element
    BY <1>3, <2>1
  <2> QED BY <2>3, <2>4 DEF SumOf
<1> QED BY <1>5, <1>6 DEF RingSum

LEMMA RingLand ==
  ASSUME ReduceAssumption, SingleRing, IInv, RingSum, NEW p \in Member, Land(p)
  PROVE  RingSum'
<1>1. PICK m \in mail[p] :
        /\ pWrk' = [pWrk EXCEPT ![p] = [j \in DOMAIN @ |->
             IF j \in DOMAIN m.elements THEN m.elements[j] ELSE @[j]]]
        /\ vSync' = [vSync EXCEPT ![p].signal = 1]
        /\ mail' = [mail EXCEPT ![p] = @ \ {m}]
        /\ calls' = calls /\ pc' = pc /\ it' = it /\ dest' = dest
  BY DEF Land
<1>2. mail[p] = {m} /\ vSync[p].signal = 0 /\ pc[p] # "clear"
  <2>1. mail[p] = {m} /\ vSync[p].lock = Waiting(p) + (IF pc[p] = "open" THEN 1 ELSE 0)
    BY DEF IInv, LockIsHeld
  <2>2. vSync[p].lock \in 0..1 /\ vSync[p].signal \in 0..1
    BY DEF IInv, TypeOK
  <2>3. vSync[p].signal = 0
    BY <2>1, <2>2 DEF Waiting
  <2> QED BY <2>1, <2>3 DEF IInv, LockIsHeld
<1>3. /\ mail'[p] = {} /\ vSync'[p].signal = 1
      /\ \A q \in Member : q # p => /\ mail'[q] = mail[q] /\ pWrk'[q] = pWrk[q]
                                    /\ vSync'[q].signal = vSync[q].signal
  BY <1>1, <1>2 DEF IInv, TypeOK
<1>4. \A r \in Member : SentTo(r)' = SentTo(r)
  BY <1>1 DEF SentTo, HasSent, Sent, Passed
<1>5. ASSUME NEW r \in Member, r # p PROVE SumOf(r)'
  <2>1. Unread(r)' = Unread(r) /\ mail'[r] = mail[r]
    BY <1>1, <1>3, <1>5 DEF Unread
  <2>2. SumOf(r)
    BY DEF RingSum
  <2> QED BY <1>1, <1>4, <2>1, <2>2, SumKept
<1>6. SumOf(p)'
  <2>1. Unread(p) = m.elements /\ DOMAIN m.elements = Element
    <3>1. (CHOOSE o \in {m} : TRUE) = m
      OBVIOUS
    <3> QED BY <1>2, <3>1 DEF Unread, RingSum, SumOf
  <2>2. Unread(p)' = pWrk'[p]
    BY <1>1, <1>2, <1>3 DEF Unread
  <2>3. \A e \in Element : pWrk'[p][e] = m.elements[e]
    <3>1. DOMAIN pWrk[p] = 0..(nwrk - 1) /\ Element \subseteq 0..(nwrk - 1)
      BY Numbers DEF IInv, TypeOK, SingleRing, Element
    <3> QED BY <1>1, <2>1, <3>1 DEF IInv, TypeOK
  <2>4. SumOf(p)
    BY DEF RingSum
  <2>5. \A e \in Element, q \in Member :
          dest'[p][e][q] + Unread(p)'[e][q] = dest[p][e][q] + Unread(p)[e][q]
    BY <1>1, <2>1, <2>2, <2>3
  <2>6. \A n \in mail'[p] : DOMAIN n.elements = Element
    BY <1>3
  <2>7. \A e \in Element, q \in Member :
          dest'[p][e][q] + Unread(p)'[e][q] =
            IF q = p \/ \E x \in SentTo(p)' : Partner(q, x) = p THEN 1 ELSE 0
    BY <1>4, <2>4, <2>5 DEF SumOf
  <2> QED BY <2>6, <2>7 DEF SumOf
<1> QED BY <1>5, <1>6 DEF RingSum

LEMMA RingCombine ==
  ASSUME ReduceAssumption, SingleRing, IInv, RingSum, NEW p \in Member, Combine(p)
  PROVE  RingSum'
<1>1. /\ pc[p] = "wait" /\ vSync[p].signal # 0 /\ pc' = [pc EXCEPT ![p] = "clear"]
      /\ calls' = calls /\ it' = it /\ vSync' = vSync /\ mail' = mail /\ pWrk' = pWrk
  BY DEF Combine
<1>2. /\ pc'[p] = "clear" /\ \A q \in Member : q # p => pc'[q] = pc[q]
      /\ vSync[p].signal = 1 /\ mail[p] = {}
  <2>1. vSync[p].lock = Waiting(p) + (IF pc[p] = "open" THEN 1 ELSE 0)
    BY DEF IInv, LockIsHeld
  <2>2. vSync[p].lock \in 0..1 /\ vSync[p].signal \in 0..1
    BY DEF IInv, TypeOK
  <2>3. vSync[p].signal = 1 /\ mail[p] = {}
    BY <1>1, <2>1, <2>2 DEF Waiting
  <2> QED BY <1>1, <2>3 DEF IInv, TypeOK
<1>3. it[p].i = 0 /\ nrem(0) = nreduce
  <2>1. Place(it[p]) \in Places
    BY <1>1 DEF IInv, InLoop
  <2> QED BY <2>1, RingPiece
<1>4. /\ \A q \in Member : q # p => dest'[q] = dest[q]
      /\ \A e \in Element, q \in Member : dest'[p][e][q] = dest[p][e][q] + pWrk[p][e][q]
  <2>1. \A e \in Element : e \in 0..(0 + nreduce - 1) /\ e - 0 = e
    BY Numbers DEF Element
  <2>2. dest' = [dest EXCEPT ![p] = [e \in Element |->
                   IF e \in 0..(0 + nreduce - 1)
                   THEN [q \in Member |-> dest[p][e][q] + pWrk[p][e - 0][q]]
                   ELSE dest[p][e]]]
    BY <1>3 DEF Combine, IInv, TypeOK
  <2> QED BY <2>1, <2>2 DEF IInv, TypeOK
<1>5. \A r \in Member : SentTo(r)' = SentTo(r)
  <2>1. \A q \in Member : Sent(q)' = Sent(q)
    BY <1>1, <1>2 DEF Sent, Passed
  <2> QED BY <1>1, <2>1 DEF SentTo, HasSent
<1>6. ASSUME NEW r \in Member, r # p PROVE SumOf(r)'
  <2>1. Unread(r)' = Unread(r) /\ mail'[r] = mail[r]
    BY <1>1, <1>2, <1>6 DEF Unread
  <2>2. SumOf(r)
    BY DEF RingSum
  <2> QED BY <1>4, <1>5, <1>6, <2>1, <2>2, SumKept
<1>7. SumOf(p)'
  <2>1. Unread(p) = pWrk[p] /\ Unread(p)' = [e \in Element |-> Nobody]
    BY <1>1, <1>2 DEF Unread
  <2>2. SumOf(p)
    BY DEF RingSum
  <2>3. ASSUME NEW e \in Element, NEW q \in Member
        PROVE  dest'[p][e][q] + Unread(p)'[e][q] = dest[p][e][q] + Unread(p)[e][q]
    <3>1. dest[p][e][q] \in Nat /\ pWrk[p][e][q] \in Nat
      <4>1. e \in 0..(nwrk - 1)
        BY Numbers DEF SingleRing, Element
      <4>2. dest[p][e] \in TContribution /\ pWrk[p][e] \in TContribution
        BY <4>1 DEF IInv, TypeOK
      <4> QED BY <4>2 DEF TContribution
    <3>2. Unread(p)'[e][q] = 0
      BY <2>1, NothingUnread
    <3> QED BY <1>4, <2>1, <3>1, <3>2
  <2> QED BY <1>1, <1>5, <2>2, <2>3 DEF SumOf
<1> QED BY <1>6, <1>7 DEF RingSum

\* The other steps of a PE change no data, and its waiting piece only when it is read.
LEMMA RingOther ==
  ASSUME ReduceAssumption, SingleRing, IInv, RingSum, NEW p \in Member,
         SyncReturns(p) \/ Clear(p) \/ OpenLock(p)
  PROVE  RingSum'
<1>1. /\ calls' = calls /\ dest' = dest /\ mail' = mail /\ pWrk' = pWrk
      /\ \A q \in Member : q # p => pc'[q] = pc[q] /\ vSync'[q] = vSync[q] /\ it'[q] = it[q]
  BY DEF SyncReturns, Sync!Leave, Clear, OpenLock, IInv, TypeOK
<1>2. \A q \in Member : Sent(q)' = Sent(q)
  <2>1. \A q \in Member : q # p => Sent(q)' = Sent(q)
    BY <1>1 DEF Sent, Passed
  <2>2. CASE SyncReturns(p)
    <3>1. pc[p] = "sync" /\ pc'[p] \in {"send", "out"} /\ it'[p] = it[p]
      BY <2>2 DEF SyncReturns, Goto, IInv, TypeOK
    <3> QED BY <2>1, <3>1 DEF Sent, Passed
  <2>3. CASE Clear(p)
    <3>1. pc[p] = "clear" /\ pc'[p] = "open" /\ it'[p] = it[p]
      BY <2>3 DEF Clear, IInv, TypeOK
    <3> QED BY <2>1, <3>1 DEF Sent, Passed
  <2>4. CASE OpenLock(p)
    <3>1. /\ pc[p] = "open" /\ pc'[p] \in {"send", "out"}
          /\ it'[p] = Onward(it[p])
      BY <2>4 DEF OpenLock, Goto, IInv, TypeOK
    <3>2. Place(it[p]) \in Places /\ Place(it'[p]) = NextPlace(Place(it[p]))
      BY <3>1, LoopsAdvance DEF IInv
    <3>3. Passed(p)' = Passed(p) \cup {Place(it[p])}
      BY <3>2, PassedAdvances DEF Passed
    <3> QED BY <2>1, <3>1, <3>3 DEF Sent
  <2> QED BY <2>2, <2>3, <2>4
<1>3. \A r \in Member : SentTo(r)' = SentTo(r)
  BY <1>1, <1>2 DEF SentTo, HasSent
<1>4. Unread(p)' = Unread(p)
  <2>1. vSync[p] \in [lock : 0..1, signal : 0..1]
    BY DEF IInv, TypeOK
  <2>2. CASE SyncReturns(p)
    <3>1. pc[p] = "sync" /\ pc'[p] \in {"send", "out"} /\ vSync'[p] = vSync[p]
      BY <2>2 DEF SyncReturns, Goto, IInv, TypeOK
    <3> QED BY <1>1, <3>1 DEF Unread
  <2>3. CASE Clear(p)
    <3>1. pc[p] = "clear" /\ pc'[p] = "open" /\ vSync'[p].signal = 0
      BY <2>3 DEF Clear, IInv, TypeOK
    <3> QED BY <1>1, <3>1 DEF Unread
  <2>4. CASE OpenLock(p)
    <3>1. /\ pc[p] = "open" /\ vSync'[p].signal = vSync[p].signal
          /\ vSync[p].lock = Waiting(p) + 1
      BY <2>4 DEF OpenLock, IInv, TypeOK, LockIsHeld
    <3>2. vSync[p].signal = 0 /\ mail[p] = {}
      BY <2>1, <3>1 DEF Waiting
    <3> QED BY <1>1, <3>1, <3>2 DEF Unread
  <2> QED BY <2>2, <2>3, <2>4
<1>5. ASSUME NEW r \in Member PROVE SumOf(r)'
  <2>1. Unread(r)' = Unread(r)
    <3>1. CASE r = p
      BY <1>4, <3>1
    <3>2. CASE r # p
      BY <1>1, <3>2 DEF Unread
    <3> QED BY <3>1, <3>2
  <2>2. SumOf(r)
    BY DEF RingSum
  <2> QED BY <1>1, <1>3, <2>1, <2>2, SumKept
<1> QED BY <1>5 DEF RingSum

LEMMA RingInit == ASSUME ReduceAssumption, SingleRing, Init PROVE RingSum
<1>1. /\ mail = [p \in Member |-> {}] /\ vSync = [p \in Member |-> Open]
      /\ dest = [p \in Member |-> Own(p)] /\ calls = [p \in Member |-> 0]
  BY DEF Init, Sync!Init
<1>2. \A p \in Member : SentTo(p) = {}
  <2>1. \A q \in Member : Sent(q) = {}
    BY <1>1, InitIInv, NotYetInLoop DEF IInv
  <2> QED BY <1>1, <2>1 DEF SentTo, HasSent
<1>3. ASSUME NEW p \in Member, NEW e \in Element, NEW q \in Member
      PROVE  dest[p][e][q] + Unread(p)[e][q] =
               IF q = p \/ \E x \in SentTo(p) : Partner(q, x) = p THEN 1 ELSE 0
  <2>1. Unread(p) = [d \in Element |-> Nobody]
    BY <1>1 DEF Unread, Open
  <2>2. Unread(p)[e][q] = 0
    BY <2>1, NothingUnread
  <2>3. dest[p][e][q] = IF q = p THEN 1 ELSE 0
    BY <1>1 DEF Own
  <2> QED BY <1>2, <2>2, <2>3
<1> QED BY <1>1, <1>3 DEF RingSum, SumOf

LEMMA RingNext ==
  ASSUME ReduceAssumption, SingleRing, IInv, RingSum, [Next]_vars PROVE RingSum'
<1>1. CASE \E p \in Member : Step(p) \/ Land(p)
  BY <1>1, RingEnter, RingSend, RingLand, RingCombine, RingOther DEF Step
<1>2. CASE UNCHANGED vars
  <2>1. \A q \in Member : SentTo(q)' = SentTo(q) /\ Unread(q)' = Unread(q)
    BY <1>2 DEF vars, SentTo, HasSent, Sent, Passed, Unread
  <2>2. mail' = mail /\ dest' = dest
    BY <1>2 DEF vars
  <2> QED BY <2>1, <2>2 DEF RingSum, SumOf
<1> QED BY <1>1, <1>2 DEF Next, Finished

LEMMA RingIsComplete ==
  ASSUME ReduceAssumption, SingleRing, IInv, RingSum PROVE SumIsComplete
<1> SUFFICES ASSUME NEW p \in Member, pc[p] = "out", calls[p] > 0,
                    NEW e \in Element, NEW q \in Member
             PROVE  dest[p][e][q] = 1
  BY DEF SumIsComplete
<1>1. SentTo(p) = Places /\ Waiting(p) = 0
  BY OutIsQuiet
<1>2. Unread(p)[e][q] = 0
  <2>1. vSync[p].signal \in 0..1
    BY DEF IInv, TypeOK
  <2> QED BY <1>1, <2>1, NothingUnread
<1>3. q = p \/ \E x \in SentTo(p) : Partner(q, x) = p
  BY <1>1, RingPartners
<1>4. dest[p][e][q] \in Nat
  BY DEF IInv, TypeOK, TContribution
<1> QED BY <1>2, <1>3, <1>4 DEF RingSum, SumOf

\* A reduction whose PEs form a ring without a stride, with a piece that fits into
\* pWrk, returns with the sum of all (test/reduce.c:98); for the other active sets the
\* pieces may arrive out of turn (run reduce4).
THEOREM RingSumIsComplete ==
  ASSUME ReduceAssumption, ring, Stride = 1, nreduce <= nwrk
  PROVE  Spec => []SumIsComplete
<1>1. SingleRing
  BY DEF SingleRing
<1>2. Init => IInv /\ RingSum
  BY <1>1, InitIInv, RingInit
<1>3. IInv /\ RingSum /\ [Next]_vars => (IInv /\ RingSum)'
  BY <1>1, NextIInv, RingNext
<1>4. IInv /\ RingSum => SumIsComplete
  BY <1>1, RingIsComplete
<1> QED BY <1>2, <1>3, <1>4, PTL DEF Spec

------------------------------------------------------------------------------
(* The sum of two PEs *)

\* Two is a power of two: the pair does not take the ring.
IsPair == ~ring /\ PE_size = 2

\* There are two members, each the partner of the other, and pieces at one distance.
LEMMA PairMembers ==
  ASSUME ReduceAssumption, IsPair
  PROVE  /\ PE_size_stride = 2 * Stride /\ Member = {PE_start, PE_start + Stride}
         /\ \A x \in Places : x = <<1, x[2]>> /\ Offset(x) = Stride
         /\ \A p \in Member, x \in Places : Partner(p, x) # p
<1> USE Numbers DEF IsPair
<1>1. PE_size_stride = 2 * Stride
  BY DEF PE_size_stride
<1>2. Member = {PE_start, PE_start + Stride}
  <2>1. 0..(PE_size - 1) = {0, 1} /\ 0 * Stride = 0 /\ 1 * Stride = Stride
    OBVIOUS
  <2>2. Member = {PE_start + m * Stride : m \in {0, 1}}
    BY <2>1 DEF Member
  <2> QED BY <2>1, <2>2
<1>3. ASSUME NEW x \in Places PROVE x = <<1, x[2]>> /\ Offset(x) = Stride
  <2>1. PICK m \in 1..2 : Offset(x) = m * Stride /\ x[1] = 2 * ((m - 1) * Stride) + 1
    BY PlaceDistance
  <2>2. x[1] < 2 * Stride /\ x = <<x[1], x[2]>> /\ x[1] \in Nat
    BY <1>1, PlaceNumbers
  <2>3. m # 2
    <3>1. m = 2 => x[1] = 2 * Stride + 1
      BY <2>1
    <3> QED BY <2>2, <3>1
  <2>4. m = 1
    BY <2>3
  <2>5. x[1] = 1 /\ Offset(x) = Stride
    BY <2>1, <2>4
  <2> QED BY <2>2, <2>5
<1>4. ASSUME NEW p \in Member, NEW x \in Places PROVE Partner(p, x) # p
  BY <1>1, <1>3 DEF Partner, Next_to
<1> QED BY <1>1, <1>2, <1>3, <1>4

\* No element is in the pieces of two places.
LEMMA PiecesApart ==
  ASSUME ReduceAssumption, IsPair, NEW x \in Places, NEW y \in Places, Before(x, y)
  PROVE  \A e \in Element : ~(e \in Elements(x) /\ e \in Elements(y))
<1> USE Numbers
<1>1. x = <<1, x[2]>> /\ y = <<1, y[2]>> /\ x[2] \in Nat /\ y[2] \in Nat
  BY PairMembers, PlaceNumbers
<1>2. NextPlace(x) = y \/ Before(NextPlace(x), y)
  BY PlacesFollow DEF Follows
<1>3. x[2] + nwrk <= y[2]
  <2>1. CASE x[2] + nwrk < nreduce
    <3>1. NextPlace(x) = <<x[1], x[2] + nwrk>>
      BY <2>1 DEF NextPlace
    <3> QED BY <1>1, <1>2, <3>1 DEF Before
  <2>2. CASE ~(x[2] + nwrk < nreduce)
    <3>1. x[1] = 1 /\ y[1] = 1
      BY <1>1
    <3>2. NextPlace(x)[1] = 1 + 2 * Stride
      BY <2>2, <3>1 DEF NextPlace, IsPair
    <3> QED BY <1>2, <3>1, <3>2 DEF Before
  <2> QED BY <2>1, <2>2
<1>4. nrem(x[2]) <= nwrk /\ nrem(x[2]) \in Int
  BY <1>1 DEF nrem
<1> QED BY <1>1, <1>3, <1>4 DEF Elements, Element

\* Every element is in the piece of a place.
LEMMA PiecesCover ==
  ASSUME ReduceAssumption, IsPair, NEW e \in Element
  PROVE  \E x \in Places : e \in Elements(x)
<1> USE Numbers
<1> DEFINE D == {d \in 0..e : \E x \in Places : x[2] = e - d}
<1>1. D \in SUBSET Nat /\ e \in Nat /\ e < nreduce
  BY DEF Element
<1>2. e \in D
  <2>1. <<1, 0>> \in Box
    BY PairMembers DEF Box, Element
  <2>2. <<1, 0>> \in Places
    BY <2>1, PlacesLeast DEF Closed
  <2> QED BY <1>1, <2>2
<1>3. PICK d \in D : \A c \in D : d <= c
  <2> HIDE DEF D
  <2> QED BY <1>1, <1>2, LeastNat
<1>4. PICK x \in Places : x[2] = e - d
  BY <1>3
<1>5. /\ x = <<1, x[2]>> /\ x[2] \in Nat /\ x[2] < nreduce /\ x[1] = 1 /\ x[2] <= e
      /\ d \in Nat
  <2>1. x[2] \in Element /\ x = <<1, x[2]>>
    BY PairMembers, PlaceNumbers
  <2> QED BY <1>1, <1>4, <2>1 DEF Element
<1>6. d < nwrk
  <2>1. SUFFICES ASSUME ~(d < nwrk) PROVE FALSE
    OBVIOUS
  <2>2. x[2] + nwrk <= e /\ x[2] + nwrk < nreduce
    BY <1>1, <1>4, <1>5, <2>1
  <2>3. NextPlace(x) = <<1, x[2] + nwrk>>
    BY <1>5, <2>2 DEF NextPlace
  <2>4. NextPlace(x) \in Box
    BY <1>5, <2>2, <2>3, PairMembers DEF Box, Element
  <2>5. NextPlace(x) \in Places
    BY <2>4, PlacesLeast DEF Closed
  <2>6. d - nwrk \in D
    BY <1>1, <1>4, <1>5, <2>1, <2>3, <2>5
  <2>7. d <= d - nwrk
    BY <1>3, <2>6
  <2> QED BY <1>5, <2>7
<1>7. e \in Elements(x)
  BY <1>1, <1>4, <1>5, <1>6 DEF Elements, nrem
<1> QED BY <1>7

\* The PE that p can send a piece to is at the place of that piece itself.
LEMMA PairSamePlace ==
  ASSUME ReduceAssumption, IsPair, IInv, NEW p \in Member, Send(p)
  PROVE  Place(it[it[p].to]) = Place(it[p])
<1>0. PICK to \in Member, x \in Places : to = it[p].to /\ x = Place(it[p])
  BY SendTarget
<1> DEFINE z == Place(it[to])
<1>1. /\ calls[to] = calls[p] /\ calls[p] > 0 /\ Waiting(to) = 0
      /\ pc[to] # "open" /\ pc[p] = "send" /\ Partner(p, x) = to
  BY <1>0, SendTarget DEF Send
<1>2. to # p /\ Member = {p, to}
  BY <1>1, PairMembers
<1>3. SentTo(to) = Passed(p)
  <2>1. \A y \in Places : Partner(p, y) = to /\ Partner(to, y) # to
    BY <1>1, PairMembers DEF Partner
  <2>2. \A y \in Places : HasSent(p, to, y) <=> y \in Sent(p)
    BY <1>1 DEF HasSent, IInv, TypeOK
  <2>3. SentTo(to) = {y \in Places : y \in Sent(p)}
    BY <1>2, <2>1, <2>2 DEF SentTo
  <2>4. Sent(p) = Passed(p)
    BY <1>1 DEF Sent
  <2> QED BY <2>3, <2>4 DEF Passed
<1>4. Taken(to) = Passed(to)
  BY <1>1 DEF Taken
<1>5. /\ Cardinality(Passed(p)) = Cardinality(Passed(to))
      /\ Passed(p) \in SUBSET Places /\ Passed(to) \in SUBSET Places
      /\ IsFiniteSet(Passed(p)) /\ IsFiniteSet(Passed(to))
  <2>1. InLoop
    BY DEF IInv
  <2>2. Cardinality(SentTo(to)) = Cardinality(Taken(to)) + Waiting(to)
    BY DEF IInv, Counted
  <2>3. Cardinality(Passed(p)) = Cardinality(Passed(to)) + 0
    BY <1>1, <1>3, <1>4, <2>2
  <2>4. Passed(p) \in SUBSET Places /\ Passed(to) \in SUBSET Places
    BY DEF Passed
  <2>5. IsFiniteSet(Passed(p)) /\ IsFiniteSet(Passed(to))
    BY <2>4, PlacesFinite, FS_Subset
  <2>6. Cardinality(Passed(to)) \in Nat
    BY <2>5, FS_CardinalityType
  <2> QED BY <2>3, <2>4, <2>5, <2>6
<1>6. it[to].r \in Nat /\ it[to].i \in Nat /\ z \in Nat \X Nat /\ x \in Nat \X Nat
  <2>1. it[to] \in Loops
    BY DEF IInv, TypeOK, Loops
  <2>2. it[to].r \in Nat /\ it[to].i \in Nat
    BY <2>1 DEF Loops, Element
  <2>3. x \in Nat \X Nat
    BY NextIsLater
  <2> QED BY <2>2, <2>3 DEF Place
<1>7. ~Before(x, z)
  <2> SUFFICES ASSUME Before(x, z) PROVE FALSE
    OBVIOUS
  <2>1. x \in Passed(to) /\ x \notin Passed(p)
    BY <1>0, <1>6, Order DEF Passed
  <2>2. \A y \in Passed(p) : y \in Nat \X Nat /\ Before(y, x)
    BY <1>0, NextIsLater DEF Passed
  <2>3. Passed(p) \in SUBSET Passed(to)
    BY <1>5, <1>6, <2>2, Order DEF Passed
  <2>4. Passed(p) = Passed(to)
    BY <1>5, <2>3, FS_Subset
  <2> QED BY <2>1, <2>4
<1>8. ~Before(z, x)
  <2> SUFFICES ASSUME Before(z, x) PROVE FALSE
    OBVIOUS
  <2>1. z \in Places
    <3>1. CASE pc[to] \in {"send", "wait", "clear", "open"}
      BY <3>1 DEF IInv, InLoop
    <3>2. CASE pc[to] = "sync"
      <4>1. z = <<1, 0>>
        <5>1. it[to] = First(to)
          BY <3>2 DEF IInv, InLoop
        <5> QED BY <5>1 DEF Place, First
      <4>2. <<1, 0>> \in Box
        BY PairMembers, Numbers DEF Box, Element
      <4> QED BY <4>1, <4>2, PlacesLeast DEF Closed
    <3>3. CASE pc[to] = "out"
      <4>1. it[to].r >= PE_size_stride
        BY <1>1, <3>3 DEF IInv, InLoop
      <4>2. x[1] < PE_size_stride /\ z[1] = it[to].r /\ x[1] \in Nat
        BY PlaceNumbers DEF Place
      <4> QED BY <1>6, <4>1, <4>2, Numbers DEF Before
    <3> QED BY <3>1, <3>2, <3>3 DEF IInv, TypeOK
  <2>2. z \in Passed(p) /\ z \notin Passed(to)
    BY <1>0, <1>6, <2>1, Order DEF Passed
  <2>3. \A y \in Passed(to) : y \in Nat \X Nat /\ Before(y, z)
    BY NextIsLater DEF Passed
  <2>4. Passed(to) \in SUBSET Passed(p)
    BY <1>0, <1>5, <1>6, <2>3, Order DEF Passed
  <2>5. Passed(to) = Passed(p)
    BY <1>5, <2>4, FS_Subset
  <2> QED BY <2>2, <2>5
<1> QED BY <1>0, <1>6, <1>7, <1>8, Order

\* A PE whose data, waiting piece and place stay.
LEMMA PairKept ==
  ASSUME NEW p \in Member, PairSumOf(p), mail'[p] = mail[p], dest'[p] = dest[p],
         pWrk'[p] = pWrk[p], vSync'[p].signal = vSync[p].signal, it'[p] = it[p],
         pc'[p] = "clear" <=> pc[p] = "clear", pc'[p] = "open" <=> pc[p] = "open"
  PROVE  PairSumOf(p)'
<1>1. Combined(p)' = Combined(p)
  BY DEF Combined, Passed
<1> QED BY <1>1 DEF PairSumOf

LEMMA PairEnter ==
  ASSUME ReduceAssumption, IsPair, IInv, PairSum, NEW p \in Member, Enter(p)
  PROVE  PairSum'
<1>1. /\ pc[p] = "out" /\ mail' = mail /\ pWrk' = pWrk
      /\ dest' = [dest EXCEPT ![p] = Own(p)] /\ vSync' = [vSync EXCEPT ![p] = Open]
      /\ pc' = [pc EXCEPT ![p] = "sync"] /\ it' = [it EXCEPT ![p] = First(p)]
  BY DEF Enter
<1>2. /\ dest'[p] = Own(p) /\ vSync'[p] = Open /\ mail'[p] = {} /\ pc'[p] = "sync"
      /\ it'[p] = First(p)
      /\ \A q \in Member : q # p => /\ dest'[q] = dest[q] /\ vSync'[q] = vSync[q]
                                    /\ pc'[q] = pc[q] /\ it'[q] = it[q]
  <2>1. mail[p] = {}
    BY <1>1, OutIsQuiet
  <2> QED BY <1>1, <2>1 DEF IInv, TypeOK
<1>3. ASSUME NEW r \in Member, r # p PROVE PairSumOf(r)'
  <2>1. PairSumOf(r)
    BY DEF PairSum
  <2> QED BY <1>1, <1>2, <1>3, <2>1, PairKept
<1>4. PairSumOf(p)'
  <2>1. Combined(p)' = {}
    <3>1. \A x \in Places : ~Before(x, Place(it'[p]))
      BY <1>2, PlaceNumbers DEF Before, Place, First
    <3> QED BY <1>2, <3>1 DEF Combined, Passed
  <2>2. \A e \in Element, q \in Member : dest'[p][e][q] = IF q = p THEN 1 ELSE 0
    BY <1>2 DEF Own
  <2> QED BY <1>2, <2>1, <2>2 DEF PairSumOf, Open
<1> QED BY <1>3, <1>4 DEF PairSum

LEMMA PairSend ==
  ASSUME ReduceAssumption, IsPair, IInv, PairSum, NEW p \in Member, Send(p)
  PROVE  PairSum'
<1>0. PICK to \in Member, x \in Places : to = it[p].to /\ x = Place(it[p])
  BY SendTarget
<1>1. /\ mail' = [mail EXCEPT ![to] = @ \cup {Piece(p)}] /\ pWrk' = pWrk /\ dest' = dest
      /\ pc' = [pc EXCEPT ![p] = "wait"] /\ pc[p] = "send" /\ it' = it
      /\ vSync' = [vSync EXCEPT ![to].lock = 1]
  BY <1>0 DEF Send
<1>2. /\ Partner(p, x) = to /\ mail[to] = {} /\ Waiting(to) = 0 /\ pc[to] # "open"
  BY <1>0, SendTarget
<1>3. to # p /\ Member = {p, to}
  BY <1>2, PairMembers
<1>4. /\ mail'[to] = {Piece(p)} /\ \A q \in Member : q # to => mail'[q] = mail[q]
      /\ \A q \in Member : vSync'[q].signal = vSync[q].signal
      /\ pc'[p] = "wait" /\ pc'[to] = pc[to]
      /\ vSync[to].signal = 0
  <2>1. vSync[to].signal \in 0..1
    BY DEF IInv, TypeOK
  <2>2. vSync[to].signal = 0
    BY <1>2, <2>1 DEF Waiting
  <2> QED BY <1>1, <1>2, <1>3, <2>2 DEF IInv, TypeOK
<1>5. PairSumOf(p)'
  <2>1. PairSumOf(p)
    BY DEF PairSum
  <2> QED BY <1>1, <1>3, <1>4, <2>1, PairKept
<1>6. PairSumOf(to)'
  <2>1. Combined(to)' = Combined(to)
    BY <1>1, <1>4 DEF Combined, Passed
  <2>2. it[to].i = it[p].i
    <3>1. Place(it[to]) = Place(it[p])
      BY <1>0, PairSamePlace
    <3> QED BY <3>1 DEF Place
  <2> DEFINE i == it[p].i
  <2>3. i \in Element /\ nrem(i) \in 1..nwrk
    BY PieceTypes DEF IInv, TypeOK
  <2>4. ASSUME NEW j \in 0..(nrem(i) - 1) PROVE i + j \in Element /\ dest[p][i + j] = NotOwn(to)
    <3>1. i + j \in Element
      BY PieceTypes DEF IInv
    <3>2. i + j \in Elements(x)
      BY <1>0, <2>3, <2>4 DEF Elements, Place, Element
    <3>3. Combined(p) = Passed(p)
      BY <1>1 DEF Combined
    <3>4. ~\E y \in Combined(p) : i + j \in Elements(y)
      BY <1>0, <3>1, <3>2, <3>3, PiecesApart DEF Passed
    <3>5. \A q \in Member : dest[p][i + j][q] = IF q = to THEN 0 ELSE 1
      BY <1>3, <3>1, <3>4 DEF PairSum, PairSumOf
    <3>6. dest[p][i + j] \in TContribution
      BY <3>1 DEF IInv, TypeOK
    <3> QED BY <3>1, <3>5, <3>6 DEF NotOwn, TContribution
  <2>5. Piece(p).elements = [j \in 0..(nrem(i) - 1) |-> NotOwn(to)]
    <3>1. Piece(p).elements = [j \in 0..(nrem(i) - 1) |-> dest[p][i + j]]
      BY DEF Piece, data, IsPair
    <3> QED BY <2>4, <3>1
  <2>6. \A e \in Element, q \in Member :
          dest'[to][e][q] =
            IF q = to \/ \E y \in Combined(to)' : e \in Elements(y) THEN 1 ELSE 0
    <3>1. \A e \in Element, q \in Member :
            dest[to][e][q] =
              IF q = to \/ \E y \in Combined(to) : e \in Elements(y) THEN 1 ELSE 0
      BY DEF PairSum, PairSumOf
    <3> QED BY <1>1, <2>1, <3>1
  <2>7. \A m \in mail'[to] :
          m.elements = [j \in 0..(nrem(it'[to].i) - 1) |-> NotOwn(to)]
    BY <1>1, <1>4, <2>2, <2>5
  <2> QED BY <1>4, <2>6, <2>7 DEF PairSumOf
<1> QED BY <1>3, <1>5, <1>6 DEF PairSum

LEMMA PairLand ==
  ASSUME ReduceAssumption, IsPair, IInv, PairSum, NEW p \in Member, Land(p)
  PROVE  PairSum'
<1>1. PICK m \in mail[p] :
        /\ pWrk' = [pWrk EXCEPT ![p] = [j \in DOMAIN @ |->
             IF j \in DOMAIN m.elements THEN m.elements[j] ELSE @[j]]]
        /\ vSync' = [vSync EXCEPT ![p].signal = 1]
        /\ mail' = [mail EXCEPT ![p] = @ \ {m}]
        /\ pc' = pc /\ it' = it /\ dest' = dest
  BY DEF Land
<1>2. mail[p] = {m}
  BY DEF IInv, LockIsHeld
<1>3. /\ mail'[p] = {}
      /\ \A q \in Member : q # p => /\ mail'[q] = mail[q] /\ pWrk'[q] = pWrk[q]
                                    /\ vSync'[q].signal = vSync[q].signal
  BY <1>1, <1>2 DEF IInv, TypeOK
<1>4. ASSUME NEW r \in Member, r # p PROVE PairSumOf(r)'
  <2>1. PairSumOf(r)
    BY DEF PairSum
  <2> QED BY <1>1, <1>3, <1>4, <2>1, PairKept
<1>5. PairSumOf(p)'
  <2>1. Combined(p)' = Combined(p)
    BY <1>1 DEF Combined, Passed
  <2>2. m.elements = [j \in 0..(nrem(it[p].i) - 1) |-> NotOwn(p)]
    BY DEF PairSum, PairSumOf
  <2>3. \A j \in 0..(nrem(it[p].i) - 1) : pWrk'[p][j] = NotOwn(p)
    <3>1. nrem(it[p].i) \in 1..nwrk
      BY PieceTypes DEF IInv
    <3>2. \A j \in 0..(nrem(it[p].i) - 1) : j \in 0..(nwrk - 1)
      BY <3>1, Numbers
    <3>3. DOMAIN pWrk[p] = 0..(nwrk - 1)
      BY DEF IInv, TypeOK
    <3>4. DOMAIN m.elements = 0..(nrem(it[p].i) - 1)
      BY <2>2
    <3>5. pWrk'[p] = [j \in 0..(nwrk - 1) |->
                        IF j \in DOMAIN m.elements THEN m.elements[j] ELSE pWrk[p][j]]
      BY <1>1, <3>3 DEF IInv, TypeOK
    <3>6. ASSUME NEW j \in 0..(nrem(it[p].i) - 1) PROVE pWrk'[p][j] = NotOwn(p)
      <4>1. j \in 0..(nwrk - 1) /\ j \in DOMAIN m.elements
        BY <3>2, <3>4
      <4>2. pWrk'[p][j] = m.elements[j]
        BY <3>5, <4>1
      <4> QED BY <2>2, <4>2
    <3> QED BY <3>6
  <2>4. \A e \in Element, q \in Member :
          dest'[p][e][q] =
            IF q = p \/ \E y \in Combined(p)' : e \in Elements(y) THEN 1 ELSE 0
    <3>1. \A e \in Element, q \in Member :
            dest[p][e][q] =
              IF q = p \/ \E y \in Combined(p) : e \in Elements(y) THEN 1 ELSE 0
      BY DEF PairSum, PairSumOf
    <3> QED BY <1>1, <2>1, <3>1
  <2>5. \A j \in 0..(nrem(it'[p].i) - 1) : pWrk'[p][j] = NotOwn(p)
    BY <1>1, <2>3
  <2> QED BY <1>3, <2>4, <2>5 DEF PairSumOf
<1> QED BY <1>4, <1>5 DEF PairSum

LEMMA PairCombine ==
  ASSUME ReduceAssumption, IsPair, IInv, PairSum, NEW p \in Member, Combine(p)
  PROVE  PairSum'
<1> DEFINE x == Place(it[p])
           i == it[p].i
<1>1. /\ pc[p] = "wait" /\ vSync[p].signal # 0 /\ pc' = [pc EXCEPT ![p] = "clear"]
      /\ it' = it /\ vSync' = vSync /\ mail' = mail /\ pWrk' = pWrk
  BY DEF Combine
<1>2. /\ pc'[p] = "clear" /\ \A q \in Member : q # p => pc'[q] = pc[q]
      /\ vSync[p].signal = 1 /\ mail[p] = {}
  <2>1. vSync[p].lock = Waiting(p) + (IF pc[p] = "open" THEN 1 ELSE 0)
    BY DEF IInv, LockIsHeld
  <2>2. vSync[p].lock \in 0..1 /\ vSync[p].signal \in 0..1
    BY DEF IInv, TypeOK
  <2>3. vSync[p].signal = 1 /\ mail[p] = {}
    BY <1>1, <2>1, <2>2 DEF Waiting
  <2> QED BY <1>1, <2>3 DEF IInv, TypeOK
<1>3. x \in Places /\ x[2] = i /\ i \in Element /\ nrem(i) \in 1..nwrk
  <2>1. x \in Places
    BY <1>1 DEF IInv, InLoop
  <2> QED BY <2>1, PieceTypes DEF Place, IInv, TypeOK
<1>4. /\ \A q \in Member : q # p => dest'[q] = dest[q]
      /\ \A e \in Element, q \in Member :
           dest'[p][e][q] = IF e \in Elements(x) THEN dest[p][e][q] + pWrk[p][e - i][q]
                            ELSE dest[p][e][q]
  <2>1. Elements(x) = i..(i + nrem(i) - 1)
    BY <1>3 DEF Elements
  <2>2. dest' = [dest EXCEPT ![p] = [e \in Element |->
                   IF e \in Elements(x)
                   THEN [q \in Member |-> dest[p][e][q] + pWrk[p][e - i][q]]
                   ELSE dest[p][e]]]
    BY <2>1 DEF Combine, IInv, TypeOK
  <2> QED BY <2>2 DEF IInv, TypeOK
<1>5. ASSUME NEW r \in Member, r # p PROVE PairSumOf(r)'
  <2>1. PairSumOf(r)
    BY DEF PairSum
  <2> QED BY <1>1, <1>2, <1>4, <1>5, <2>1, PairKept
<1>6. PairSumOf(p)'
  <2>1. Combined(p) = Passed(p) /\ Combined(p)' = Passed(p) \cup {x}
    BY <1>1, <1>2 DEF Combined, Passed
  <2>2. ASSUME NEW e \in Element, NEW q \in Member
        PROVE  dest'[p][e][q] =
                 IF q = p \/ \E y \in Combined(p)' : e \in Elements(y) THEN 1 ELSE 0
    <3>1. dest[p][e][q] = IF q = p \/ \E y \in Passed(p) : e \in Elements(y) THEN 1 ELSE 0
      <4>1. dest[p][e][q] =
              IF q = p \/ \E y \in Combined(p) : e \in Elements(y) THEN 1 ELSE 0
        <5>1. PairSumOf(p)
          BY DEF PairSum
        <5> QED BY <5>1 DEF PairSumOf
      <4> QED BY <2>1, <4>1
    <3>2. CASE e \in Elements(x)
      <4>1. ~\E y \in Passed(p) : e \in Elements(y)
        BY <1>3, <3>2, PiecesApart DEF Passed
      <4>2. e - i \in 0..(nrem(i) - 1)
        BY <1>3, <3>2 DEF Elements, Element
      <4>3. pWrk[p][e - i] = NotOwn(p)
        BY <1>1, <1>2, <4>2 DEF PairSum, PairSumOf
      <4>4. pWrk[p][e - i][q] = IF q = p THEN 0 ELSE 1
        BY <4>3 DEF NotOwn
      <4>5. dest'[p][e][q] = 1
        BY <1>4, <3>1, <3>2, <4>1, <4>4
      <4> QED BY <2>1, <3>2, <4>5
    <3>3. CASE e \notin Elements(x)
      <4>1. dest'[p][e][q] = dest[p][e][q]
        BY <1>4, <3>3
      <4> QED BY <2>1, <3>1, <3>3, <4>1
    <3> QED BY <3>2, <3>3
  <2> QED BY <1>1, <1>2, <2>2 DEF PairSumOf
<1> QED BY <1>5, <1>6 DEF PairSum

\* The other steps of a PE change no data, and its waiting piece only when it is read.
LEMMA PairOther ==
  ASSUME ReduceAssumption, IsPair, IInv, PairSum, NEW p \in Member,
         SyncReturns(p) \/ Clear(p) \/ OpenLock(p)
  PROVE  PairSum'
<1>1. /\ dest' = dest /\ mail' = mail /\ pWrk' = pWrk
      /\ \A q \in Member : q # p => pc'[q] = pc[q] /\ vSync'[q] = vSync[q] /\ it'[q] = it[q]
  BY DEF SyncReturns, Sync!Leave, Clear, OpenLock, IInv, TypeOK
<1>2. ASSUME NEW r \in Member, r # p PROVE PairSumOf(r)'
  <2>1. PairSumOf(r)
    BY DEF PairSum
  <2> QED BY <1>1, <1>2, <2>1, PairKept
<1>3. PairSumOf(p)
  BY DEF PairSum
<1>4. vSync[p] \in [lock : 0..1, signal : 0..1]
  BY DEF IInv, TypeOK
<1>5. CASE SyncReturns(p)
  <2>1. /\ pc[p] = "sync" /\ pc'[p] \in {"send", "out"} /\ it'[p] = it[p]
        /\ vSync'[p] = vSync[p]
    BY <1>5 DEF SyncReturns, Goto, IInv, TypeOK
  <2>2. PairSumOf(p)'
    BY <1>1, <1>3, <2>1, PairKept
  <2> QED BY <1>2, <2>2 DEF PairSum
<1>6. CASE Clear(p)
  <2>1. /\ pc[p] = "clear" /\ pc'[p] = "open" /\ it'[p] = it[p] /\ vSync'[p].signal = 0
        /\ mail[p] = {}
    <3>1. pc[p] = "clear" /\ pc'[p] = "open" /\ it'[p] = it[p] /\ vSync'[p].signal = 0
      BY <1>6 DEF Clear, IInv, TypeOK
    <3>2. vSync[p].signal = 1 /\ vSync[p].lock = Waiting(p) + 0
      BY <3>1 DEF IInv, LockIsHeld
    <3>3. mail[p] = {}
      BY <1>4, <3>2 DEF Waiting
    <3> QED BY <3>1, <3>3
  <2>2. Combined(p)' = Combined(p)
    BY <2>1 DEF Combined, Passed
  <2>3. PairSumOf(p)'
    BY <1>1, <1>3, <2>1, <2>2 DEF PairSumOf
  <2> QED BY <1>2, <2>3 DEF PairSum
<1>7. CASE OpenLock(p)
  <2>1. /\ pc[p] = "open" /\ pc'[p] \in {"send", "out"} /\ it'[p] = Onward(it[p])
        /\ vSync'[p].signal = 0 /\ mail[p] = {}
    <3>1. /\ pc[p] = "open" /\ pc'[p] \in {"send", "out"} /\ it'[p] = Onward(it[p])
          /\ vSync'[p].signal = vSync[p].signal
      BY <1>7 DEF OpenLock, Goto, IInv, TypeOK
    <3>2. vSync[p].lock = Waiting(p) + 1
      BY <3>1 DEF IInv, LockIsHeld
    <3>3. vSync[p].signal = 0 /\ mail[p] = {}
      BY <1>4, <3>2 DEF Waiting
    <3> QED BY <3>1, <3>3
  <2>2. Combined(p)' = Combined(p)
    <3>1. Place(it[p]) \in Places /\ Place(it'[p]) = NextPlace(Place(it[p]))
      BY <2>1, LoopsAdvance DEF IInv
    <3>2. Passed(p)' = Passed(p) \cup {Place(it[p])}
      BY <3>1, PassedAdvances DEF Passed
    <3> QED BY <2>1, <3>2 DEF Combined
  <2>3. PairSumOf(p)'
    BY <1>1, <1>3, <2>1, <2>2 DEF PairSumOf
  <2> QED BY <1>2, <2>3 DEF PairSum
<1> QED BY <1>5, <1>6, <1>7

LEMMA PairInit == ASSUME ReduceAssumption, IsPair, Init PROVE PairSum
<1>1. /\ mail = [p \in Member |-> {}] /\ vSync = [p \in Member |-> Open]
      /\ dest = [p \in Member |-> Own(p)] /\ it = [p \in Member |-> First(p)]
      /\ pc = [p \in Member |-> "out"]
  BY DEF Init
<1>2. ASSUME NEW p \in Member PROVE PairSumOf(p)
  <2>1. Combined(p) = {}
    <3>1. \A x \in Places : ~Before(x, Place(it[p]))
      BY <1>1, PlaceNumbers DEF Before, Place, First
    <3> QED BY <1>1, <3>1 DEF Combined, Passed
  <2>2. \A e \in Element, q \in Member : dest[p][e][q] = IF q = p THEN 1 ELSE 0
    BY <1>1 DEF Own
  <2> QED BY <1>1, <2>1, <2>2 DEF PairSumOf, Open
<1> QED BY <1>2 DEF PairSum

LEMMA PairNext ==
  ASSUME ReduceAssumption, IsPair, IInv, PairSum, [Next]_vars PROVE PairSum'
<1>1. CASE \E p \in Member : Step(p) \/ Land(p)
  BY <1>1, PairEnter, PairSend, PairLand, PairCombine, PairOther DEF Step
<1>2. CASE UNCHANGED vars
  <2>1. ASSUME NEW p \in Member PROVE PairSumOf(p)'
    <3>1. PairSumOf(p)
      BY DEF PairSum
    <3> QED BY <1>2, <3>1, PairKept DEF vars
  <2> QED BY <2>1 DEF PairSum
<1> QED BY <1>1, <1>2 DEF Next, Finished

LEMMA PairIsComplete ==
  ASSUME ReduceAssumption, IsPair, IInv, PairSum PROVE SumIsComplete
<1> SUFFICES ASSUME NEW p \in Member, pc[p] = "out", calls[p] > 0,
                    NEW e \in Element, NEW q \in Member
             PROVE  dest[p][e][q] = 1
  BY DEF SumIsComplete
<1>1. Combined(p) = Places
  <2>1. it[p].r >= PE_size_stride
    BY DEF IInv, InLoop
  <2> QED BY <2>1, AllPassed DEF Combined, IInv
<1>2. \E x \in Combined(p) : e \in Elements(x)
  BY <1>1, PiecesCover
<1>3. PairSumOf(p)
  BY DEF PairSum
<1>4. dest[p][e][q] = IF q = p \/ \E x \in Combined(p) : e \in Elements(x) THEN 1 ELSE 0
  BY <1>3 DEF PairSumOf
<1> QED BY <1>2, <1>4

\* A reduction over two PEs, in any number of pieces, returns with the sum of both
\* (test/reduce.c:98): the two PEs are always at the same piece.
THEOREM PairSumIsComplete ==
  ASSUME ReduceAssumption, ~ring, PE_size = 2 PROVE Spec => []SumIsComplete
<1>1. IsPair
  BY DEF IsPair
<1>2. Init => IInv /\ PairSum
  BY <1>1, InitIInv, PairInit
<1>3. IInv /\ PairSum /\ [Next]_vars => (IInv /\ PairSum)'
  BY <1>1, NextIInv, PairNext
<1>4. IInv /\ PairSum => SumIsComplete
  BY <1>1, PairIsComplete
<1> QED BY <1>2, <1>3, <1>4, PTL DEF Spec
------------------------------------------------------------------------------
(* The collect (ShmemCollect), for every active set, every length of the       *)
(* blocks and every number of calls: the word that holds an offset and the     *)
(* flag behind it serve call after call.                                       *)
(*                                                                             *)
(* A PE sets the flag of the next PE once in each call and takes its own once  *)
(* (Sets, Takes); shmem_sync keeps the two PEs in step.  So the flag is the    *)
(* difference of the two counts (FlagCounts), and the offset, stored before    *)
(* the flag is set, is not stored again until the flag is taken (OffsetStays). *)
(* That a PE uses the offset it finds is not so: see the run collect_offset.   *)

CONSTANT nelems
VARIABLES entered, left, my_offset, lsync

C == INSTANCE ShmemCollect

\* Neighbours in the active set.
LEMMA Neighbours ==
  ASSUME C!CollectAssumption
  PROVE  /\ C!Member \subseteq Nat /\ PE_start \in C!Member /\ C!pe_end \in C!Member
         /\ \A p \in C!Member \ {PE_start} : p - Stride \in C!Member \ {C!pe_end}
         /\ \A p \in C!Member \ {C!pe_end} : p + Stride \in C!Member \ {PE_start}
<1> USE DEF C!CollectAssumption
<1>2. \A m \in Nat : m * Stride \in Nat /\ (m + 1) * Stride = m * Stride + Stride
  OBVIOUS
<1>3. C!Member \subseteq Nat
  <2>1. ASSUME NEW m \in 0..(PE_size - 1) PROVE PE_start + m * Stride \in Nat
    <3>1. m \in Nat
      OBVIOUS
    <3> QED BY <3>1, <1>2
  <2> QED BY <2>1 DEF C!Member
<1>4. PE_start \in C!Member
  <2>1. PE_start = PE_start + 0 * Stride /\ 0 \in 0..(PE_size - 1)
    OBVIOUS
  <2> QED BY <2>1 DEF C!Member
<1>5. C!pe_end \in C!Member
  <2>1. PE_size - 1 \in 0..(PE_size - 1)
    OBVIOUS
  <2> QED BY <2>1 DEF C!Member, C!pe_end
<1>6. ASSUME NEW p \in C!Member \ {PE_start} PROVE p - Stride \in C!Member \ {C!pe_end}
  <2>1. PICK m \in 0..(PE_size - 1) : p = PE_start + m * Stride
    BY DEF C!Member
  <2>2. m # 0
    BY <2>1
  <2>3. m - 1 \in 0..(PE_size - 1) /\ m - 1 \in Nat /\ m = (m - 1) + 1
    BY <2>2
  <2>4. m * Stride = (m - 1) * Stride + Stride /\ (m - 1) * Stride \in Nat
    BY <2>3, <1>2
  <2>5. p - Stride = PE_start + (m - 1) * Stride
    BY <2>1, <2>4
  <2>6. p - Stride \in C!Member
    BY <2>3, <2>5 DEF C!Member
  <2>7. m * Stride <= (PE_size - 1) * Stride
    OBVIOUS
  <2>8. p <= C!pe_end /\ p \in Nat /\ C!pe_end \in Nat
    BY <2>1, <2>7, <1>3, <1>5 DEF C!pe_end
  <2> QED BY <2>6, <2>8
<1>7. ASSUME NEW p \in C!Member \ {C!pe_end} PROVE p + Stride \in C!Member \ {PE_start}
  <2>1. PICK m \in 0..(PE_size - 1) : p = PE_start + m * Stride
    BY DEF C!Member
  <2>2. m # PE_size - 1
    BY <2>1 DEF C!pe_end
  <2>3. m + 1 \in 0..(PE_size - 1) /\ m \in Nat
    BY <2>2
  <2>4. (m + 1) * Stride = m * Stride + Stride /\ m * Stride \in Nat
    BY <2>3, <1>2
  <2>5. p + Stride = PE_start + (m + 1) * Stride
    BY <2>1, <2>4
  <2>6. p + Stride \in C!Member
    BY <2>3, <2>5 DEF C!Member
  <2>7. p + Stride > PE_start
    BY <2>1, <2>4
  <2> QED BY <2>6, <2>7
<1> QED BY <1>3, <1>4, <1>5, <1>6, <1>7

\* The length of a PE's block in the call it is in.
LEMMA BlocksHaveLengths ==
  ASSUME C!CollectAssumption, C!TypeOK, C!InStep, NEW p \in C!Member
  PROVE  pc[p] \notin {"out", "sync"} => entered[p] + 1 \in 1..MaxCalls /\ C!Len(p) \in Nat
BY DEF C!CollectAssumption, C!TypeOK, C!InStep, C!Len

\* A step keeps the types.
LEMMA CollectTypes ==
  ASSUME C!CollectAssumption, C!TypeOK, C!InStep, [C!Next]_(C!vars)
  PROVE C!TypeOK'
<1>0. MaxCalls \in Nat
  BY DEF C!CollectAssumption
<1>1. ASSUME NEW p \in C!Member, C!Enter(p) PROVE C!TypeOK'
  BY <1>1 DEF C!Enter, C!TypeOK, C!Goto
<1>2. ASSUME NEW p \in C!Member, C!Look(p) PROVE C!TypeOK'
  BY <1>2 DEF C!Look, C!TypeOK, C!Goto
<1>3. ASSUME NEW p \in C!Member, C!Read(p) PROVE C!TypeOK'
  BY <1>3 DEF C!Read, C!TypeOK, C!Goto
<1>4. ASSUME NEW p \in C!Member, C!Got(p) PROVE C!TypeOK'
  BY <1>4 DEF C!Got, C!TypeOK, C!Goto
<1>5. ASSUME NEW p \in C!Member, C!TellOffset(p) PROVE C!TypeOK'
  <2>1. C!Len(p) \in Nat
    BY <1>5, BlocksHaveLengths DEF C!TellOffset
  <2>2. lsync' \in [C!Member -> [flag : 0..1, offset : Nat]]
    <3> DEFINE v == my_offset[p] + C!Len(p)
    <3>1. v \in Nat
      BY <2>1 DEF C!TypeOK
    <3> HIDE DEF v
    <3>2. lsync' = lsync \/ lsync' = [lsync EXCEPT ![p + Stride].offset = v]
      BY <1>5 DEF C!TellOffset, v
    <3> QED BY ZenonT(30), <3>1, <3>2 DEF C!TypeOK
  <2>3. /\ UNCHANGED <<entered, left, my_offset, dest>>
        /\ pc' = [pc EXCEPT ![p] = "copy"] \/ pc' = [pc EXCEPT ![p] = "lock"]
    BY <1>5 DEF C!TellOffset, C!Goto
  <2> QED BY <2>2, <2>3 DEF C!TypeOK
<1>6. ASSUME NEW p \in C!Member, C!SetFlag(p) PROVE C!TypeOK'
  <2>1. lsync' \in [C!Member -> [flag : 0..1, offset : Nat]]
    <3> DEFINE v == 1
               q == p + Stride
    <3>1. lsync' = [lsync EXCEPT ![q].flag = v] /\ v \in 0..1
      BY <1>6 DEF C!SetFlag
    <3> HIDE DEF v, q
    <3> QED BY <3>1 DEF C!TypeOK
  <2> QED BY <1>6, <2>1 DEF C!SetFlag, C!TypeOK, C!Goto
<1>7. ASSUME NEW p \in C!Member, C!Copy(p) PROVE C!TypeOK'
  <2>1. entered[p] < MaxCalls /\ pc[p] = "copy"
    BY <1>7 DEF C!Copy, C!InStep
  <2>2. dest' \in [C!Member -> [C!Place -> C!Member \cup {C!None}]]
    BY <1>7 DEF C!Copy, C!TypeOK
  <2> QED BY <1>0, <1>7, <2>1, <2>2 DEF C!Copy, C!TypeOK, C!Goto, C!Sync!Enter
<1>8. ASSUME NEW p \in C!Member, C!Return(p) PROVE C!TypeOK'
  <2>1. entered \in [C!Member -> 0..MaxCalls] /\ left[p] < entered[p]
    BY <1>8 DEF C!Return, C!Sync!Leave, C!TypeOK
  <2> QED BY <1>0, <1>8, <2>1 DEF C!Return, C!TypeOK, C!Goto, C!Sync!Leave
<1>9. ASSUME UNCHANGED C!vars PROVE C!TypeOK'
  BY <1>9 DEF C!vars, C!TypeOK
<1> QED BY <1>1, <1>2, <1>3, <1>4, <1>5, <1>6, <1>7, <1>8, <1>9 DEF C!Next, C!Step, C!Finished

------------------------------------------------------------------------------
\* shmem_sync keeps the PEs in step.
LEMMA CollectInStep ==
  ASSUME C!CollectAssumption, C!TypeOK, C!InStep, [C!Next]_(C!vars)
  PROVE C!InStep'
<1>1. ASSUME NEW p \in C!Member, NEW l \in {"look", "read", "got", "offset", "lock", "copy"},
             UNCHANGED <<entered, left>>, pc' = [pc EXCEPT ![p] = l],
             pc[p] # "sync", entered[p] < MaxCalls
      PROVE  C!InStep'
  BY <1>1 DEF C!TypeOK, C!InStep
<1>2. ASSUME NEW p \in C!Member, C!Copy(p) PROVE C!InStep'
  <2>1. /\ pc[p] = "copy" /\ entered[p] = left[p] /\ left' = left
        /\ entered' = [entered EXCEPT ![p] = @ + 1] /\ pc' = [pc EXCEPT ![p] = "sync"]
    BY <1>2 DEF C!Copy, C!Goto, C!Sync!Enter
  <2> QED BY <2>1 DEF C!TypeOK, C!InStep
<1>3. ASSUME NEW p \in C!Member, C!Return(p) PROVE C!InStep'
  <2>1. /\ pc[p] = "sync" /\ entered' = entered /\ \A q \in C!Member : entered[q] >= entered[p]
        /\ left' = [left EXCEPT ![p] = @ + 1] /\ pc' = [pc EXCEPT ![p] = "out"]
    BY <1>3 DEF C!Return, C!Goto, C!Sync!Leave
  <2>2. \A q \in C!Member : entered[q] \in Nat /\ left[q] \in Nat
    BY DEF C!TypeOK, C!CollectAssumption
  <2> QED BY <2>1, <2>2 DEF C!TypeOK, C!InStep
<1>4. ASSUME UNCHANGED C!vars PROVE C!InStep'
  BY <1>4 DEF C!vars, C!InStep
<1>5. ASSUME NEW p \in C!Member,
             \/ C!Enter(p) \/ C!Look(p) \/ C!Read(p) \/ C!Got(p) \/ C!TellOffset(p) \/ C!SetFlag(p)
      PROVE  C!InStep'
  <2>1. /\ UNCHANGED <<entered, left>> /\ pc[p] # "sync" /\ entered[p] < MaxCalls
        /\ \E l \in {"look", "read", "got", "offset", "lock", "copy"} :
             pc' = [pc EXCEPT ![p] = l]
    BY <1>5 DEF C!Enter, C!Look, C!Read, C!Got, C!TellOffset, C!SetFlag, C!Goto, C!InStep
  <2> QED BY <2>1, <1>1
<1> QED BY <1>2, <1>3, <1>4, <1>5 DEF C!Next, C!Step, C!Finished

\* A flag that is set was set in this call by a PE that waits in shmem_sync, or is
\* about to; a PE that is about to set it finds it clear.
LEMMA FlagIsOfThisCall ==
  ASSUME C!CollectAssumption, C!TypeOK, C!InStep, C!FlagCounts, NEW p \in C!Member \ {PE_start}
  PROVE  /\ lsync[p].flag = 1 => /\ pc[p - Stride] \in {"copy", "sync"}
                                 /\ pc[p] \notin {"offset", "lock", "copy"}
         /\ pc[p - Stride] \in {"offset", "lock"} =>
              lsync[p].flag = 0 /\ C!Takes(p) = entered[p] /\ entered[p - Stride] = entered[p]
<1> DEFINE b == p - Stride
<1>1. b \in C!Member
  BY Neighbours
<1>2. /\ entered[p] \in Nat /\ entered[b] \in Nat /\ left[p] \in Nat /\ left[b] \in Nat
      /\ lsync[p].flag \in {0, 1}
  BY <1>1 DEF C!TypeOK, C!CollectAssumption
<1>3. /\ entered[p] = left[p] + (IF pc[p] = "sync" THEN 1 ELSE 0)
      /\ entered[b] = left[b] + (IF pc[b] = "sync" THEN 1 ELSE 0)
      /\ left[p] <= entered[b] /\ left[b] <= entered[p]
  BY <1>1 DEF C!InStep
<1>4. lsync[p].flag = C!Sets(b) - C!Takes(p)
  BY DEF C!FlagCounts
<1> HIDE DEF b
<1> QED BY <1>2, <1>3, <1>4 DEF C!Sets, C!Takes, b

------------------------------------------------------------------------------
\* A step keeps the counts and the offsets.
LEMMA TakerKeeps ==
  ASSUME C!CollectAssumption, C!IInv, NEW p \in C!Member,
         C!Enter(p) \/ C!Look(p) \/ C!Read(p)
  PROVE  C!FlagCounts' /\ C!OffsetStays'
<1>1. C!TypeOK /\ C!InStep /\ C!FlagCounts /\ C!OffsetStays
  BY DEF C!IInv
<1>2. UNCHANGED <<entered, left, lsync>> /\ pc' = [pc EXCEPT ![p] = pc'[p]]
  BY <1>1 DEF C!Enter, C!Look, C!Read, C!Goto, C!TypeOK
<1>3. /\ pc[p] \in {"out", "look", "read"} /\ pc'[p] \in {"look", "read", "got", "offset"}
      /\ pc'[p] = "offset" <=> pc[p] = "out" /\ p = PE_start
      /\ pc'[p] = "got" => pc[p] = "look" /\ lsync[p].flag # 0
  BY <1>1 DEF C!Enter, C!Look, C!Read, C!Goto, C!TypeOK
<1>4. \A r \in C!Member : r # p => pc'[r] = pc[r]
  BY <1>1, <1>2 DEF C!TypeOK
<1>5. \A r \in C!Member : r # p => my_offset'[r] = my_offset[r]
  BY <1>1 DEF C!Enter, C!Look, C!Read, C!TypeOK
<1>6. C!FlagCounts'
  <2>1. \A r \in C!Member : C!Sets(r)' = C!Sets(r)
    BY <1>2, <1>3, <1>4 DEF C!Sets
  <2>2. \A r \in C!Member \ {PE_start} : C!Takes(r)' = C!Takes(r)
    BY <1>2, <1>3, <1>4 DEF C!Takes
  <2>3. \A r \in C!Member \ {PE_start} : r - Stride \in C!Member
    BY Neighbours
  <2>4. pc'[PE_start] \notin {"look", "read", "got"} /\ pc'[C!pe_end] # "lock"
    <3>1. pc[p] = "out" /\ p = PE_start => pc'[p] = "offset"
      BY <1>3
    <3> QED BY <3>1, <1>1, <1>3, <1>4, Neighbours DEF C!FlagCounts
  <2>5. \A r \in C!Member \ {PE_start} : pc'[r] = "got" => lsync[r].flag = 1
    BY <1>1, <1>3, <1>4 DEF C!FlagCounts, C!TypeOK
  <2> QED BY <1>1, <1>2, <2>1, <2>2, <2>3, <2>4, <2>5 DEF C!FlagCounts
<1>7. C!OffsetStays'
  <2> SUFFICES ASSUME NEW r \in C!Member \ {PE_start},
                      lsync'[r].flag = 1 \/ pc'[r - Stride] = "lock"
               PROVE  lsync'[r].offset
                        = my_offset'[r - Stride] + nelems[entered'[r] + 1][r - Stride]
    BY DEF C!OffsetStays
  <2>1. r - Stride \in C!Member
    BY Neighbours
  <2>2. r - Stride # p
    BY <1>1, <1>2, <1>3, <2>1, FlagIsOfThisCall
  <2> QED BY <1>1, <1>2, <1>4, <1>5, <2>1, <2>2 DEF C!OffsetStays
<1> QED BY <1>6, <1>7

\* The PE clears its flag.
LEMMA GotKeeps ==
  ASSUME C!CollectAssumption, C!IInv, NEW p \in C!Member, C!Got(p)
  PROVE C!FlagCounts' /\ C!OffsetStays'
<1>1. C!TypeOK /\ C!InStep /\ C!FlagCounts /\ C!OffsetStays /\ pc[p] = "got"
  BY DEF C!IInv, C!Got
<1>2. p # PE_start /\ lsync[p].flag = 1
  BY <1>1 DEF C!FlagCounts
<1>3. /\ UNCHANGED <<entered, left, my_offset>>
      /\ pc'[p] \in {"offset", "copy"} /\ (pc'[p] = "copy" <=> p = C!pe_end)
      /\ \A r \in C!Member : r # p => pc'[r] = pc[r]
      /\ lsync'[p].flag = 0
      /\ \A r \in C!Member : r # p => lsync'[r] = lsync[r]
  BY <1>1 DEF C!Got, C!Goto, C!TypeOK
<1>4. \A r \in C!Member \ {C!pe_end} : C!Sets(r)' = C!Sets(r)
  BY <1>1, <1>3 DEF C!Sets
<1>5. /\ C!Takes(p) = entered[p] /\ C!Takes(p)' = entered[p] + 1
      /\ \A r \in C!Member : r # p => C!Takes(r)' = C!Takes(r)
  BY <1>1, <1>3 DEF C!Takes, C!TypeOK, C!CollectAssumption
<1>6. \A r \in C!Member \ {PE_start} : r - Stride \in C!Member \ {C!pe_end}
  BY Neighbours
<1>7. C!FlagCounts'
  <2>1. lsync[p].flag = C!Sets(p - Stride) - C!Takes(p)
    BY <1>1, <1>2 DEF C!FlagCounts
  <2>2. C!Sets(p - Stride) \in Int /\ entered[p] \in Int
    BY <1>1, <1>6, <1>2 DEF C!Sets, C!TypeOK, C!CollectAssumption
  <2>3. lsync'[p].flag = C!Sets(p - Stride)' - C!Takes(p)'
    BY <1>2, <1>3, <1>4, <1>5, <1>6, <2>1, <2>2
  <2>4. \A r \in C!Member \ {PE_start} : r # p => lsync'[r].flag = C!Sets(r - Stride)' - C!Takes(r)'
    BY <1>1, <1>3, <1>4, <1>5, <1>6 DEF C!FlagCounts
  <2> QED BY <1>1, <1>2, <1>3, <2>3, <2>4, Neighbours DEF C!FlagCounts
<1>8. C!OffsetStays'
  <2> SUFFICES ASSUME NEW r \in C!Member \ {PE_start},
                      lsync'[r].flag = 1 \/ pc'[r - Stride] = "lock"
               PROVE  lsync'[r].offset
                        = my_offset'[r - Stride] + nelems[entered'[r] + 1][r - Stride]
    BY DEF C!OffsetStays
  <2>1. pc'[p - Stride] # "lock"
    <3>1. pc[p - Stride] # "lock" /\ p - Stride \in C!Member
      BY <1>1, <1>2, <1>6, FlagIsOfThisCall
    <3> QED BY <3>1, <1>3
  <2>2. r # p
    BY <1>3, <2>1
  <2>3. lsync[r].flag = 1 \/ pc[r - Stride] = "lock"
    BY <2>2, <1>3, <1>6
  <2> QED BY <1>1, <1>3, <2>2, <2>3 DEF C!OffsetStays
<1> QED BY <1>7, <1>8

\* The offset is stored while the flag is clear.
LEMMA TellOffsetKeeps ==
  ASSUME C!CollectAssumption, C!IInv, NEW p \in C!Member, C!TellOffset(p)
  PROVE  C!FlagCounts' /\ C!OffsetStays'
<1>1. C!TypeOK /\ C!InStep /\ C!FlagCounts /\ C!OffsetStays /\ pc[p] = "offset"
  BY DEF C!IInv, C!TellOffset
<1>2. UNCHANGED <<entered, left, my_offset>>
  BY DEF C!TellOffset
<1>3. \A r \in C!Member \ {PE_start} : r - Stride \in C!Member \ {C!pe_end}
  BY Neighbours
<1>4. \A r \in C!Member : C!Takes(r)' = C!Takes(r)
  BY <1>1, <1>2 DEF C!TellOffset, C!Goto, C!Takes, C!TypeOK
<1>5. CASE p = C!pe_end
  <2>1. lsync' = lsync /\ pc' = [pc EXCEPT ![p] = "copy"]
    BY <1>5 DEF C!TellOffset, C!Goto
  <2>2. \A r \in C!Member \ {C!pe_end} : C!Sets(r)' = C!Sets(r) /\ pc'[r] = pc[r]
    BY <1>2, <1>5, <2>1, <1>1 DEF C!Sets, C!TypeOK
  <2>3. C!FlagCounts'
    <3>1. /\ pc'[PE_start] \notin {"look", "read", "got"} /\ pc'[C!pe_end] # "lock"
          /\ \A r \in C!Member \ {PE_start} : pc'[r] = "got" => pc[r] = "got"
      BY <1>1, <1>5, <2>1, Neighbours DEF C!FlagCounts, C!TypeOK
    <3> QED BY <3>1, <1>1, <1>3, <1>4, <2>1, <2>2 DEF C!FlagCounts
  <2>4. C!OffsetStays'
    BY <1>1, <1>2, <1>3, <2>1, <2>2 DEF C!OffsetStays
  <2> QED BY <2>3, <2>4
<1>6. CASE p # C!pe_end
  <2> DEFINE q == p + Stride
  <2>1. q \in C!Member \ {PE_start} /\ q - Stride = p /\ Stride \in Nat /\ p \in Nat
    BY <1>6, Neighbours DEF C!CollectAssumption
  <2>2. /\ pc' = [pc EXCEPT ![p] = "lock"]
        /\ lsync' = [lsync EXCEPT ![q].offset = my_offset[p] + C!Len(p)]
    BY <1>6 DEF C!TellOffset, C!Goto
  <2>3. entered[p] = entered[q] /\ lsync[q].flag = 0
    BY <1>1, <2>1, FlagIsOfThisCall
  <2> HIDE DEF q
  <2>4. /\ \A r \in C!Member : lsync'[r].flag = lsync[r].flag
        /\ lsync'[q].offset = my_offset[p] + nelems[entered[q] + 1][p]
        /\ \A r \in C!Member \ {q} : lsync'[r] = lsync[r]
    BY <1>1, <2>1, <2>2, <2>3 DEF C!TypeOK, C!Len
  <2>5. \A r \in C!Member : C!Sets(r)' = C!Sets(r) /\ (r # p => pc'[r] = pc[r])
    BY <1>1, <1>2, <2>2 DEF C!Sets, C!TypeOK
  <2>6. C!FlagCounts'
    <3>1. /\ pc'[PE_start] \notin {"look", "read", "got"} /\ pc'[C!pe_end] # "lock"
          /\ \A r \in C!Member \ {PE_start} : pc'[r] = "got" => pc[r] = "got"
      BY <1>1, <1>6, <2>2, Neighbours DEF C!FlagCounts, C!TypeOK
    <3> QED BY <3>1, <1>1, <1>3, <1>4, <2>4, <2>5, Neighbours DEF C!FlagCounts
  <2>7. ASSUME NEW r \in C!Member \ {PE_start}, r # q PROVE r - Stride # p
    BY <2>1, <2>7, Neighbours DEF q, C!CollectAssumption
  <2>8. C!OffsetStays'
    <3> SUFFICES ASSUME NEW r \in C!Member \ {PE_start},
                        lsync'[r].flag = 1 \/ pc'[r - Stride] = "lock"
                 PROVE  lsync'[r].offset
                          = my_offset'[r - Stride] + nelems[entered'[r] + 1][r - Stride]
      BY DEF C!OffsetStays
    <3>1. CASE r = q
      BY <3>1, <1>2, <2>1, <2>4
    <3>2. CASE r # q
      <4>1. r - Stride # p /\ r - Stride \in C!Member
        BY <3>2, <2>7, <1>3
      <4> QED BY <3>2, <4>1, <1>1, <1>2, <2>4, <2>5 DEF C!OffsetStays
    <3> QED BY <3>1, <3>2
  <2> QED BY <2>6, <2>8
<1> QED BY <1>5, <1>6

\* The flag is set: the offset is there.
LEMMA SetFlagKeeps ==
  ASSUME C!CollectAssumption, C!IInv, NEW p \in C!Member, C!SetFlag(p)
  PROVE  C!FlagCounts' /\ C!OffsetStays'
<1> DEFINE q == p + Stride
<1>1. C!TypeOK /\ C!InStep /\ C!FlagCounts /\ C!OffsetStays /\ pc[p] = "lock"
  BY DEF C!IInv, C!SetFlag
<1>2. p # C!pe_end
  BY <1>1 DEF C!FlagCounts
<1>3. q \in C!Member \ {PE_start} /\ q - Stride = p /\ Stride \in Nat \ {0} /\ p \in Nat
  BY <1>2, Neighbours DEF C!CollectAssumption
<1>4. /\ UNCHANGED <<entered, left, my_offset>> /\ pc' = [pc EXCEPT ![p] = "copy"]
      /\ lsync' = [lsync EXCEPT ![q].flag = 1]
  BY DEF C!SetFlag, C!Goto
<1>5. \A r \in C!Member \ {PE_start} : r - Stride \in C!Member
  BY Neighbours
<1>6. /\ lsync[q].flag = 0 /\ lsync[q].flag = C!Sets(p) - C!Takes(q)
      /\ lsync[q].offset = my_offset[p] + nelems[entered[q] + 1][p]
  BY <1>1, <1>3, FlagIsOfThisCall DEF C!FlagCounts, C!OffsetStays
<1>7. ASSUME NEW r \in C!Member \ {PE_start}, r # q PROVE r - Stride # p
  BY <1>3, <1>7, Neighbours DEF C!CollectAssumption
<1> HIDE DEF q
<1>8. /\ \A r \in C!Member : lsync'[r].offset = lsync[r].offset
      /\ lsync'[q].flag = 1 /\ \A r \in C!Member \ {q} : lsync'[r].flag = lsync[r].flag
  BY <1>1, <1>3, <1>4 DEF C!TypeOK
<1>9. /\ \A r \in C!Member : C!Takes(r)' = C!Takes(r) /\ (r # p => pc'[r] = pc[r])
      /\ \A r \in C!Member : r # p => C!Sets(r)' = C!Sets(r)
      /\ C!Sets(p)' = C!Sets(p) + 1 /\ pc'[p] = "copy"
      /\ C!Sets(p) \in Int /\ C!Takes(q) \in Int
  BY SMTT(20), <1>1, <1>3, <1>4 DEF C!TypeOK, C!CollectAssumption, C!Sets, C!Takes
<1>10. C!FlagCounts'
  <2>1. lsync'[q].flag = C!Sets(q - Stride)' - C!Takes(q)'
    <3>1. C!Sets(q - Stride)' = C!Sets(p)'
      BY <1>3 DEF C!Sets
    <3>2. C!Takes(q)' = C!Takes(q) /\ C!Sets(p)' = C!Sets(p) + 1 /\ lsync'[q].flag = 1
      BY <1>3, <1>8, <1>9
    <3>3. C!Sets(p) - C!Takes(q) = 0 /\ C!Sets(p) \in Int /\ C!Takes(q) \in Int
      BY <1>6, <1>9
    <3> QED BY <3>1, <3>2, <3>3
  <2>2. \A r \in C!Member \ {PE_start} : r # q => lsync'[r].flag = C!Sets(r - Stride)' - C!Takes(r)'
    BY <1>1, <1>5, <1>7, <1>8, <1>9 DEF C!FlagCounts
  <2>3. /\ lsync'[PE_start].flag = 0 /\ pc'[PE_start] \notin {"look", "read", "got"}
        /\ pc'[C!pe_end] # "lock"
        /\ \A r \in C!Member \ {PE_start} : pc'[r] = "got" => lsync'[r].flag = 1
    BY <1>1, <1>2, <1>3, <1>8, <1>9, Neighbours DEF C!FlagCounts
  <2> QED BY <2>1, <2>2, <2>3 DEF C!FlagCounts
<1>11. C!OffsetStays'
  <2> SUFFICES ASSUME NEW r \in C!Member \ {PE_start},
                      lsync'[r].flag = 1 \/ pc'[r - Stride] = "lock"
               PROVE  lsync'[r].offset
                        = my_offset'[r - Stride] + nelems[entered'[r] + 1][r - Stride]
    BY DEF C!OffsetStays
  <2>1. CASE r = q
    BY <2>1, <1>3, <1>4, <1>6, <1>8
  <2>2. CASE r # q
    <3>1. lsync[r].flag = 1 \/ pc[r - Stride] = "lock"
      BY <2>2, <1>5, <1>7, <1>8, <1>9
    <3> QED BY <3>1, <1>1, <1>4, <1>8 DEF C!OffsetStays
  <2> QED BY <2>1, <2>2
<1> QED BY <1>10, <1>11

\* The blocks are copied, shmem_sync is called: the counts stay.
LEMMA CopyKeeps ==
  ASSUME C!CollectAssumption, C!IInv, NEW p \in C!Member, C!Copy(p)
  PROVE C!FlagCounts' /\ C!OffsetStays'
<1>1. C!TypeOK /\ C!InStep /\ C!FlagCounts /\ C!OffsetStays /\ pc[p] = "copy"
  BY DEF C!IInv, C!Copy
<1>2. /\ UNCHANGED <<my_offset, lsync>> /\ pc' = [pc EXCEPT ![p] = "sync"]
      /\ entered' = [entered EXCEPT ![p] = @ + 1]
  BY DEF C!Copy, C!Goto, C!Sync!Enter
<1>3. \A r \in C!Member \ {PE_start} : r - Stride \in C!Member
  BY Neighbours
<1>4. \A r \in C!Member : /\ C!Sets(r)' = C!Sets(r) /\ C!Takes(r)' = C!Takes(r)
                          /\ r # p => pc'[r] = pc[r] /\ entered'[r] = entered[r]
  BY <1>1, <1>2 DEF C!TypeOK, C!CollectAssumption, C!Sets, C!Takes
<1>5. C!FlagCounts'
  <2>1. /\ pc'[PE_start] \notin {"look", "read", "got"} /\ pc'[C!pe_end] # "lock"
        /\ \A r \in C!Member \ {PE_start} : pc'[r] = "got" => pc[r] = "got"
    BY <1>1, <1>2, Neighbours DEF C!FlagCounts, C!TypeOK
  <2> QED BY <2>1, <1>1, <1>2, <1>3, <1>4 DEF C!FlagCounts
<1>6. C!OffsetStays'
  <2> SUFFICES ASSUME NEW r \in C!Member \ {PE_start},
                      lsync'[r].flag = 1 \/ pc'[r - Stride] = "lock"
               PROVE  lsync'[r].offset
                        = my_offset'[r - Stride] + nelems[entered'[r] + 1][r - Stride]
    BY DEF C!OffsetStays
  <2>1. pc[r - Stride] = "lock" \/ lsync[r].flag = 1
    BY <1>1, <1>2, <1>3 DEF C!TypeOK
  <2>2. r # p
    <3>1. CASE lsync[r].flag = 1
      BY <3>1, <1>1, FlagIsOfThisCall
    <3>2. CASE pc[r - Stride] = "lock"
      <4>1. C!Takes(r) = entered[r] /\ entered[r] \in Int
        <5>1. C!Takes(r) = entered[r]
          BY <3>2, <1>1, FlagIsOfThisCall
        <5>2. entered[r] \in Int
          BY <1>1 DEF C!TypeOK, C!CollectAssumption
        <5> QED BY <5>1, <5>2
      <4>2. pc[r] # "copy"
        BY <4>1 DEF C!Takes
      <4> QED BY <4>2, <1>1
    <3> QED BY <2>1, <3>1, <3>2
  <2> QED BY <2>1, <2>2, <1>1, <1>2, <1>4 DEF C!OffsetStays
<1> QED BY <1>5, <1>6

\* A PE comes back from shmem_sync: its neighbours have taken their flags.
LEMMA ReturnKeeps ==
  ASSUME C!CollectAssumption, C!IInv, NEW p \in C!Member, C!Return(p)
  PROVE C!FlagCounts' /\ C!OffsetStays'
<1>1. C!TypeOK /\ C!InStep /\ C!FlagCounts /\ C!OffsetStays /\ pc[p] = "sync"
  BY DEF C!IInv, C!Return
<1>2. /\ UNCHANGED <<my_offset, lsync, entered>> /\ pc' = [pc EXCEPT ![p] = "out"]
  BY DEF C!Return, C!Goto, C!Sync!Leave
<1>3. \A r \in C!Member \ {PE_start} : r - Stride \in C!Member
  BY Neighbours
<1>4. \A r \in C!Member : C!Sets(r)' = C!Sets(r) /\ C!Takes(r)' = C!Takes(r)
  BY <1>1, <1>2 DEF C!TypeOK, C!CollectAssumption, C!Sets, C!Takes
<1>5. \A r \in C!Member : pc'[r] \in {"got", "lock", "look", "read"} => pc'[r] = pc[r]
  BY <1>1, <1>2 DEF C!TypeOK
<1>6. C!FlagCounts'
  BY <1>1, <1>2, <1>3, <1>4, <1>5, Neighbours DEF C!FlagCounts
<1>7. C!OffsetStays'
  BY <1>1, <1>2, <1>3, <1>5 DEF C!OffsetStays
<1> QED BY <1>6, <1>7

------------------------------------------------------------------------------
(* The invariant is inductive, and what it says of the flags. *)

LEMMA CollectInit == ASSUME C!CollectAssumption, C!Init PROVE C!IInv
<1>1. C!TypeOK
  BY DEF C!Init, C!Sync!Init, C!TypeOK, C!CollectAssumption
<1>2. C!InStep
  BY DEF C!Init, C!Sync!Init, C!InStep
<1>3. C!FlagCounts /\ C!OffsetStays
  BY Neighbours DEF C!Init, C!Sync!Init, C!FlagCounts, C!OffsetStays, C!Sets, C!Takes
<1> QED BY <1>1, <1>2, <1>3 DEF C!IInv

LEMMA CollectNext ==
  ASSUME C!CollectAssumption, C!IInv, [C!Next]_(C!vars) PROVE C!IInv'
<1>1. C!TypeOK' /\ C!InStep'
  BY CollectTypes, CollectInStep DEF C!IInv
<1>2. ASSUME UNCHANGED C!vars PROVE C!FlagCounts' /\ C!OffsetStays'
  BY <1>2 DEF C!IInv, C!vars, C!FlagCounts, C!OffsetStays, C!Sets, C!Takes
<1>3. C!FlagCounts' /\ C!OffsetStays'
  BY <1>2, TakerKeeps, GotKeeps, TellOffsetKeeps, SetFlagKeeps, CopyKeeps, ReturnKeeps
     DEF C!Next, C!Step, C!Finished
<1> QED BY <1>1, <1>3 DEF C!IInv

LEMMA OffsetIsThere == ASSUME C!CollectAssumption, C!IInv PROVE C!FlagMeansOffset
<1>1. C!TypeOK /\ C!InStep /\ C!FlagCounts /\ C!OffsetStays
  BY DEF C!IInv
<1> SUFFICES ASSUME NEW p \in C!Member, lsync[p].flag = 1
             PROVE  /\ p # PE_start /\ pc[p] \notin {"offset", "lock", "copy"}
                    /\ lsync[p].offset = my_offset[p - Stride] + nelems[entered[p] + 1][p - Stride]
  BY DEF C!FlagMeansOffset
<1>2. p # PE_start
  BY <1>1 DEF C!FlagCounts
<1>3. pc[p] \notin {"offset", "lock", "copy"}
  BY <1>1, <1>2, FlagIsOfThisCall
<1> QED BY <1>1, <1>2, <1>3 DEF C!OffsetStays

LEMMA FlagsAreClear == ASSUME C!CollectAssumption, C!IInv PROVE C!FlagsRestored
<1>1. C!TypeOK /\ C!InStep /\ C!FlagCounts
  BY DEF C!IInv
<1> SUFFICES ASSUME \A p, q \in C!Member : pc[p] = "out" /\ left[p] = left[q],
                    NEW p \in C!Member
             PROVE  lsync[p].flag = 0
  BY DEF C!FlagsRestored
<1>2. CASE p = PE_start
  BY <1>1, <1>2 DEF C!FlagCounts
<1>3. CASE p # PE_start
  <2>1. p - Stride \in C!Member /\ pc[p - Stride] = "out"
    BY <1>3, Neighbours
  <2>2. lsync[p].flag # 1
    BY <2>1, <1>1, <1>3, FlagIsOfThisCall
  <2> QED BY <2>2, <1>1 DEF C!TypeOK
<1> QED BY <1>2, <1>3

\* The flag of a PE is the difference of how often it was set and taken, and the
\* offset before it stays: TypeOK, InStep, FlagCounts and OffsetStays.
THEOREM OffsetsAreHandedOn == ASSUME C!CollectAssumption PROVE C!Spec => []C!IInv
<1>1. C!Init => C!IInv
  BY CollectInit
<1>2. C!IInv /\ [C!Next]_(C!vars) => C!IInv'
  BY CollectNext
<1> QED BY <1>1, <1>2, PTL DEF C!Spec

\* A PE that sees the flag finds behind it the offset of its call, and it stays
\* until the PE has taken the flag.
THEOREM FlagsMeanOffsets == ASSUME C!CollectAssumption PROVE C!Spec => []C!FlagMeansOffset
<1>1. C!IInv => C!FlagMeansOffset
  BY OffsetIsThere
<1> QED BY <1>1, OffsetsAreHandedOn, PTL

\* When all PEs are out of the same call, no flag is set.
THEOREM FlagsAreRestored == ASSUME C!CollectAssumption PROVE C!Spec => []C!FlagsRestored
<1>1. C!IInv => C!FlagsRestored
  BY FlagsAreClear
<1> QED BY <1>1, OffsetsAreHandedOn, PTL
------------------------------------------------------------------------------
(* ShmemBroadcast: the tree of a power of two of PEs *)

CONSTANT PE_root
VARIABLES mask, finished

B == INSTANCE ShmemBroadcast

------------------------------------------------------------------------------
(* Broadcast: powers of two *)

\* 2^n counts the subsets of a set of n elements: one more element doubles them.
LEMMA PowerStep == 2^0 = 1 /\ \A e \in Nat : 2^e \in Nat \ {0} /\ 2^(e + 1) = 2 * 2^e
<1>1. ASSUME NEW n \in Nat
      PROVE  /\ IsFiniteSet(SUBSET (1..n))
             /\ Cardinality(SUBSET (1..n)) = 2^n /\ 2^n \in Nat
  <2>1. IsFiniteSet(1..n) /\ Cardinality(1..n) = n
    BY FS_Interval
  <2> QED BY <2>1, FS_SUBSET, FS_CardinalityType
<1>2. 2^0 = 1
  <2>1. SUBSET (1..0) = {{}}
    OBVIOUS
  <2> QED BY <1>1, <2>1, FS_Singleton
<1>3. ASSUME NEW e \in Nat
      PROVE  2^e # 0 /\ 2^(e + 1) = 2 * 2^e
  <2> DEFINE T == SUBSET (1..e)
             With(X) == X \cup {e + 1}
             U == {With(X) : X \in T}
             f == [X \in T |-> With(X)]
  <2>1. SUBSET (1..(e + 1)) = T \cup U
    <3>1. 1..(e + 1) = (1..e) \cup {e + 1}
      OBVIOUS
    <3>2. ASSUME NEW X \in SUBSET ((1..e) \cup {e + 1}), e + 1 \in X
          PROVE  X \in U
      <4>1. X \ {e + 1} \in T /\ With(X \ {e + 1}) = X
        BY <3>2
      <4> QED BY <4>1
    <3>3. \A X \in SUBSET ((1..e) \cup {e + 1}) : e + 1 \notin X => X \in T
      OBVIOUS
    <3>4. T \subseteq SUBSET ((1..e) \cup {e + 1}) /\ U \subseteq SUBSET ((1..e) \cup {e + 1})
      OBVIOUS
    <3> QED BY <3>1, <3>2, <3>3, <3>4
  <2>2. T \cap U = {}
    <3>1. e + 1 \notin 1..e
      OBVIOUS
    <3> QED BY <3>1
  <2>3. ExistsBijection(T, U)
    <3>1. \A X, Y \in T : With(X) = With(Y) => X = Y
      <4>1. e + 1 \notin 1..e
        OBVIOUS
      <4> QED BY <4>1
    <3>2. f \in [T -> U]
      OBVIOUS
    <3>3. \A X, Y \in T : f[X] = f[Y] => X = Y
      BY <3>1
    <3>4. \A Y \in U : \E X \in T : f[X] = Y
      OBVIOUS
    <3> HIDE DEF f, T, U
    <3>5. f \in Injection(T, U)
      BY <3>2, <3>3 DEF Injection, IsInjective
    <3>6. f \in Surjection(T, U)
      BY <3>2, <3>4 DEF Surjection
    <3> QED BY <3>5, <3>6 DEF ExistsBijection, Bijection
  <2>4. IsFiniteSet(T) /\ Cardinality(T) = 2^e /\ 2^e \in Nat
    BY <1>1
  <2>5. IsFiniteSet(U) /\ Cardinality(U) = Cardinality(T)
    BY <2>3, <2>4, FS_Bijection
  <2>6. Cardinality(T \cup U) = Cardinality(T) + Cardinality(U) - Cardinality(T \cap U)
    BY <2>4, <2>5, FS_Union
  <2>7. Cardinality(T \cap U) = 0
    BY <2>2, FS_EmptySet
  <2>8. Cardinality(SUBSET (1..(e + 1))) = 2^(e + 1)
    <3>1. e + 1 \in Nat
      OBVIOUS
    <3> QED BY <1>1, <3>1
  <2>9. 2^e # 0
    <3>1. {} \in T /\ T # {}
      OBVIOUS
    <3> HIDE DEF T
    <3> QED BY <2>4, <3>1, FS_EmptySet
  <2> HIDE DEF T, U
  <2>10. 2^(e + 1) = Cardinality(T \cup U)
    BY <2>1, <2>8
  <2>11. Cardinality(T \cup U) = 2^e + 2^e - 0
    BY <2>4, <2>5, <2>6, <2>7
  <2>12. 2^e + 2^e - 0 = 2 * 2^e
    BY <2>4
  <2> QED BY Zenon, <2>9, <2>10, <2>11, <2>12
<1> QED BY <1>1, <1>2, <1>3

LEMMA PowerSum == \A a, b \in Nat : 2^(a + b) = 2^a * 2^b
<1> SUFFICES ASSUME NEW a \in Nat PROVE \A b \in Nat : 2^(a + b) = 2^a * 2^b
  OBVIOUS
<1> DEFINE T == {b \in Nat : 2^(a + b) # 2^a * 2^b}
<1>1. SUFFICES ASSUME T # {} PROVE FALSE
  OBVIOUS
<1>2. PICK b \in T : \A m \in T : b <= m
  BY <1>1, LeastNat
<1>3. b # 0
  <2>1. 2^a * 2^0 = 2^a /\ a + 0 = a
    BY PowerStep
  <2>2. 2^(a + 0) = 2^a * 2^0
    BY <2>1
  <2> QED BY <1>2, <2>2
<1>4. b - 1 \in Nat /\ a + b = (a + (b - 1)) + 1 /\ b = (b - 1) + 1 /\ a + (b - 1) \in Nat
  BY <1>2, <1>3
<1>5. 2^(a + (b - 1)) = 2^a * 2^(b - 1)
  BY <1>2, <1>4
<1>6. 2^(a + b) = 2 * 2^(a + (b - 1)) /\ 2^b = 2 * 2^(b - 1)
  BY <1>4, PowerStep
<1>7. 2^a \in Nat /\ 2^(b - 1) \in Nat
  BY <1>4, PowerStep
<1>8. \A x, y \in Nat : 2 * (x * y) = x * (2 * y)
  OBVIOUS
<1>9. 2^(a + b) = 2^a * 2^b
  <2>1. 2 * (2^a * 2^(b - 1)) = 2^a * (2 * 2^(b - 1))
    BY <1>7, <1>8
  <2> QED BY <1>5, <1>6, <2>1
<1> QED BY <1>2, <1>9

LEMMA PowerGrows == \A e \in Nat : 2^e > e
<1> DEFINE T == {e \in Nat : ~(2^e > e)}
<1>1. SUFFICES ASSUME T # {} PROVE FALSE
  OBVIOUS
<1>2. PICK e \in T : \A m \in T : e <= m
  BY <1>1, LeastNat
<1>3. e # 0
  BY <1>2, PowerStep
<1>4. e - 1 \in Nat /\ e = (e - 1) + 1
  BY <1>2, <1>3
<1>5. 2^(e - 1) > e - 1
  BY <1>2, <1>4
<1>6. 2^e = 2 * 2^(e - 1) /\ 2^(e - 1) \in Nat
  BY <1>4, PowerStep
<1>7. 2^e > e
  BY <1>4, <1>5, <1>6
<1> QED BY <1>2, <1>7

\* The greater of two powers of two is an even multiple of the other.
LEMMA PowerOrder ==
  \A a, b \in Nat :
    /\ a < b => \E t \in Nat \ {0} : 2^b = 2 * 2^a * t
    /\ a < b <=> 2^a < 2^b
    /\ a = b <=> 2^a = 2^b
<1>1. ASSUME NEW a \in Nat, NEW b \in Nat, a < b
      PROVE  (\E t \in Nat \ {0} : 2^b = 2 * 2^a * t) /\ 2^a < 2^b
  <2> DEFINE d == b - (a + 1)
  <2>1. d \in Nat /\ b = (a + 1) + d /\ a + 1 \in Nat
    BY <1>1
  <2> HIDE DEF d
  <2>2. 2^b = 2^(a + 1) * 2^d /\ 2^(a + 1) = 2 * 2^a
    BY <2>1, PowerSum, PowerStep
  <2>3. 2^a \in Nat \ {0} /\ 2^d \in Nat \ {0}
    BY <2>1, PowerStep
  <2>4. \A x, y \in Nat \ {0} : x < 2 * x * y
    OBVIOUS
  <2>5. 2^a < 2 * 2^a * 2^d
    BY <2>3, <2>4
  <2>6. 2^b = 2 * 2^a * 2^d
    BY <2>2
  <2> QED BY <2>3, <2>5, <2>6
<1>2. \A a \in Nat : 2^a \in Nat
  BY PowerStep
<1>3. ASSUME NEW a \in Nat, NEW b \in Nat, 2^a < 2^b PROVE a < b
  <2>1. CASE a = b
    BY <1>2, <1>3, <2>1
  <2>2. CASE b < a
    <3>1. 2^b < 2^a
      BY <1>1, <2>2
    <3> QED BY <1>2, <1>3, <3>1
  <2> QED BY <2>1, <2>2
<1>4. ASSUME NEW a \in Nat, NEW b \in Nat, 2^a = 2^b PROVE a = b
  <2>1. a < b => 2^a < 2^b
    BY <1>1
  <2>2. b < a => 2^b < 2^a
    BY <1>1
  <2>3. 2^a \in Nat
    BY <1>2
  <2> QED BY <1>4, <2>1, <2>2, <2>3
<1> QED BY <1>1, <1>3, <1>4
------------------------------------------------------------------------------
(* Broadcast: multiples *)

\* A power divides twice over the powers beyond it.
LEMMA PowerOver ==
  ASSUME NEW a \in Nat, NEW b \in Nat, a < b
  PROVE  \E t \in Nat \ {0} : 2^b = 2 * 2^a * t
BY PowerOrder

LEMMA Multiple == \A x \in Nat, d \in Nat \ {0} : x % d = 0 <=> \E t \in Nat : x = d * t
<1> SUFFICES ASSUME NEW x \in Nat, NEW d \in Nat \ {0}
             PROVE  x % d = 0 <=> \E t \in Nat : x = d * t
  OBVIOUS
<1>1. x = d * (x \div d) + (x % d) /\ x \div d \in Int /\ x % d \in 0..(d - 1)
  OBVIOUS
<1>2. x \div d \in Nat
  OBVIOUS
<1>3. ASSUME NEW t \in Nat, x = d * t PROVE x % d = 0
  <2>1. PICK k \in Int : d * k = x % d
    <3>1. PICK q \in Int : x = d * q + (x % d)
      BY <1>1
    <3>2. d * (t - q) = d * t - d * q /\ t - q \in Int
      OBVIOUS
    <3>3. d * t - d * q = x % d
      <4>1. d * t \in Int /\ d * q \in Int /\ x % d \in Int
        BY <1>1
      <4> QED BY <1>3, <3>1, <4>1
    <3> QED BY <3>2, <3>3
  <2>2. k >= 1 => d * k >= d
    OBVIOUS
  <2>3. k <= -1 => d * k < 0
    OBVIOUS
  <2>4. k = 0
    BY <1>1, <2>1, <2>2, <2>3
  <2> QED BY <2>1, <2>4
<1> QED BY <1>1, <1>2, <1>3
LEMMA OddMultiple ==
  \A x \in Nat, m \in Nat \ {0} :
    (x % m = 0 /\ x % (2 * m) # 0) <=> \E t \in Nat : x = m * (2 * t + 1)
<1> SUFFICES ASSUME NEW x \in Nat, NEW m \in Nat \ {0}
             PROVE (x % m = 0 /\ x % (2 * m) # 0) <=> \E t \in Nat : x = m * (2 * t + 1)
  OBVIOUS
<1>0. 2 * m \in Nat \ {0}
  OBVIOUS
<1>1. ASSUME x % m = 0, x % (2 * m) # 0
      PROVE  \E t \in Nat : x = m * (2 * t + 1)
  <2>1. PICK t \in Nat : x = m * t
    BY <1>1, Multiple
  <2>2. PICK u \in Nat : t = 2 * u \/ t = 2 * u + 1
    <3>1. t \div 2 \in Nat /\ (t = 2 * (t \div 2) \/ t = 2 * (t \div 2) + 1)
      OBVIOUS
    <3> QED BY <3>1
  <2>3. t = 2 * u => x = (2 * m) * u
    BY <2>1
  <2> QED BY <1>0, <1>1, <2>1, <2>2, <2>3, Multiple
<1>2. ASSUME NEW t \in Nat, x = m * (2 * t + 1)
      PROVE  x % m = 0 /\ x % (2 * m) # 0
  <2>1. x % m = 0
    <3>1. 2 * t + 1 \in Nat
      OBVIOUS
    <3> QED BY <1>2, <3>1, Multiple
  <2>2. ASSUME NEW u \in Nat, x = (2 * m) * u PROVE FALSE
    <3>1. m * (2 * t + 1) = m * (2 * u)
      BY <1>2, <2>2
    <3>2. \A a, b \in Nat : m * a = m * b => a = b
      OBVIOUS
    <3>3. 2 * t + 1 \in Nat /\ 2 * u \in Nat
      OBVIOUS
    <3>4. 2 * t + 1 = 2 * u
      BY <3>1, <3>2, <3>3
    <3> QED BY <3>4
  <2> QED BY <1>0, <2>1, <2>2, Multiple
<1> QED BY <1>1, <1>2

------------------------------------------------------------------------------
(* Broadcast: the masks and the places in the tree *)

LEMMA TreeSize ==
  ASSUME B!BroadcastAssumption, B!PowersOfTwo
  PROVE  \E s, k \in Nat : s < k /\ Stride = 2^s /\ B!PE_size_stride = 2^k
<1>1. PICK s \in Nat, e \in Nat \ {0} : Stride = 2^s /\ PE_size = 2^e
  BY DEF B!PowersOfTwo
<1>2. 2^(e + s) = 2^e * 2^s /\ e + s \in Nat /\ s < e + s
  BY PowerSum
<1> QED BY <1>1, <1>2 DEF B!PE_size_stride

LEMMA InPower2 ==
  ASSUME B!BroadcastAssumption, B!PowersOfTwo
  PROVE  /\ B!PE_size_stride \in Nat
         /\ \A m \in B!Power2 : m \in Nat \ {0} /\ \E k \in Nat : m = 2^k
         /\ \A k \in Nat : 2^k <= B!PE_size_stride => 2^k \in B!Power2
<1>1. PICK s, j \in Nat : s < j /\ Stride = 2^s /\ B!PE_size_stride = 2^j
  BY TreeSize
<1>2. B!PE_size_stride \in Nat
  BY <1>1, PowerStep
<1>3. \A m \in B!Power2 : m \in Nat \ {0} /\ \E k \in Nat : m = 2^k
  BY <1>2, PowerStep DEF B!Power2
<1>4. ASSUME NEW k \in Nat, 2^k <= B!PE_size_stride PROVE 2^k \in B!Power2
  <2>1. 2^k > k /\ 2^k \in Nat
    BY PowerGrows, PowerStep
  <2>2. k \in 0..B!PE_size_stride
    BY <1>2, <1>4, <2>1
  <2> QED BY <2>2 DEF B!Power2
<1> QED BY <1>2, <1>3, <1>4

\* A greater power of two divides what a smaller one and its double divide.
LEMMA Divides ==
  ASSUME B!BroadcastAssumption, B!PowersOfTwo,
         NEW x \in Nat, NEW m \in B!Power2, NEW m2 \in B!Power2, m < m2, x % m2 = 0
  PROVE  x % (2 * m) = 0
<1>1. PICK j \in Nat, k \in Nat : m = 2^j /\ m2 = 2^k
  BY InPower2
<1>2. PICK t \in Nat : m2 = 2 * m * t
  BY <1>1, PowerOrder
<1>3. m \in Nat \ {0} /\ m2 \in Nat \ {0}
  BY InPower2
<1>4. PICK u \in Nat : x = m2 * u
  BY <1>3, Multiple
<1>5. x = (2 * m) * (t * u)
  BY <1>2, <1>3, <1>4
<1>6. t * u \in Nat /\ 2 * m \in Nat \ {0}
  BY <1>3
<1> QED BY <1>5, <1>6, Multiple

LEMMA LowBitUnique ==
  ASSUME B!BroadcastAssumption, B!PowersOfTwo,
         NEW x \in Nat, NEW m \in B!Power2, x % m = 0, x % (2 * m) # 0
  PROVE  B!LowBit(x) = m
<1>1. B!LowBit(x) \in B!Power2 /\ x % B!LowBit(x) = 0 /\ x % (2 * B!LowBit(x)) # 0
  BY DEF B!LowBit
<1>2. B!LowBit(x) \in Nat /\ m \in Nat
  BY <1>1, InPower2
<1>3. ~(B!LowBit(x) < m)
  BY <1>1, Divides
<1>4. ~(m < B!LowBit(x))
  BY <1>1, Divides
<1> QED BY <1>2, <1>3, <1>4

LEMMA LowBitIs ==
  ASSUME B!BroadcastAssumption, B!PowersOfTwo,
         NEW x \in Nat \ {0}, x < B!PE_size_stride, x % Stride = 0
  PROVE  /\ B!LowBit(x) \in B!Power2 /\ x % B!LowBit(x) = 0 /\ x % (2 * B!LowBit(x)) # 0
         /\ Stride <= B!LowBit(x) /\ 2 * B!LowBit(x) <= B!PE_size_stride
<1>1. PICK s, j \in Nat : s < j /\ Stride = 2^s /\ B!PE_size_stride = 2^j
  BY TreeSize
<1> DEFINE T == {k \in Nat : x % 2^(k + 1) # 0}
<1>2. T # {}
  <2>1. x + 1 \in Nat /\ 2^(x + 1) \in Nat \ {0} /\ 2^(x + 1) > x + 1
    BY PowerStep, PowerGrows
  <2>2. ASSUME NEW t \in Nat, x = 2^(x + 1) * t PROVE FALSE
    <3>1. \A a \in Nat \ {0} : a * t = 0 \/ a * t >= a
      OBVIOUS
    <3> QED BY <2>1, <2>2, <3>1
  <2>3. x % 2^(x + 1) # 0
    BY <2>1, <2>2, Multiple
  <2> QED BY <2>3
<1>3. PICK k \in T : \A i \in T : k <= i
  BY <1>2, LeastNat
<1>4. k \in Nat /\ 2^k \in Nat \ {0} /\ 2^(k + 1) = 2 * 2^k
  BY <1>3, PowerStep
<1>5. x % 2^k = 0
  <2>1. CASE k = 0
    <3>1. 2^0 = 1 /\ x % 1 = 0
      BY PowerStep
    <3> QED BY <2>1, <3>1
  <2>2. CASE k # 0
    <3>1. k - 1 \in Nat /\ (k - 1) + 1 = k /\ ~(k <= k - 1)
      BY <1>3, <2>2
    <3>2. k - 1 \notin T
      BY <1>3, <3>1
    <3> QED BY <3>1, <3>2
  <2> QED BY <2>1, <2>2
<1>6. 2^k <= x
  <2>1. PICK t \in Nat : x = 2^k * t
    BY <1>4, <1>5, Multiple
  <2>2. \A a \in Nat \ {0} : a * t = 0 \/ a * t >= a
    OBVIOUS
  <2> QED BY <1>4, <2>1, <2>2
<1>7. 2^k \in B!Power2
  BY <1>3, <1>4, <1>6, InPower2
<1>8. B!LowBit(x) = 2^k
  BY <1>3, <1>4, <1>5, <1>7, LowBitUnique
<1>9. Stride <= 2^k
  <2>1. CASE s <= k
    <3>1. 2^s <= 2^k
      BY <1>1, <1>3, <2>1, PowerOrder, PowerStep
    <3> QED BY <1>1, <3>1
  <2>2. CASE k < s
    <3>0. k \in Nat /\ s \in Nat /\ k < s
      BY <1>1, <1>3, <2>2
    <3>1. PICK t \in Nat \ {0} : 2^s = 2 * 2^k * t
      BY <3>0, PowerOver
    <3>2. Stride \in Nat \ {0}
      BY DEF B!BroadcastAssumption
    <3>3. PICK u \in Nat : x = Stride * u
      BY <3>2, Multiple
    <3>4. x = (2 * 2^k) * (t * u) /\ t * u \in Nat
      BY <1>1, <1>4, <3>1, <3>3
    <3>5. x % (2 * 2^k) = 0
      BY <1>4, <3>4, Multiple
    <3> QED BY <1>3, <1>4, <3>5
  <2> QED BY <1>3, <2>1, <2>2
<1>10. 2 * 2^k <= B!PE_size_stride
  <2>1. 2^k < 2^j
    BY <1>1, <1>4, <1>6, PowerStep
  <2>2. k < j
    BY <1>3, <2>1, PowerOrder
  <2>3. PICK t \in Nat \ {0} : 2^j = 2 * 2^k * t
    BY <1>1, <1>4, <2>2, PowerOrder
  <2>4. \A a \in Nat : a <= a * t
    OBVIOUS
  <2> QED BY <1>1, <1>4, <2>3, <2>4
<1> QED BY <1>3, <1>4, <1>5, <1>7, <1>8, <1>9, <1>10

\* PE_size times the stride: sums and order are those of the factors.
LEMMA StrideScale ==
  ASSUME B!BroadcastAssumption
  PROVE  \A a, b \in Int : /\ a * Stride \in Int
                           /\ (a + b) * Stride = a * Stride + b * Stride
                           /\ (a - b) * Stride = a * Stride - b * Stride
                           /\ a < b <=> a * Stride < b * Stride
                           /\ a = b <=> a * Stride = b * Stride
<1> SUFFICES ASSUME NEW a \in Int, NEW b \in Int
             PROVE  /\ a * Stride \in Int
                    /\ (a + b) * Stride = a * Stride + b * Stride
                    /\ (a - b) * Stride = a * Stride - b * Stride
                    /\ a < b <=> a * Stride < b * Stride
                    /\ a = b <=> a * Stride = b * Stride
  OBVIOUS
<1>1. Stride \in Nat \ {0}
  BY DEF B!BroadcastAssumption
<1>2. a * Stride \in Int /\ (a + b) * Stride = a * Stride + b * Stride
      /\ (a - b) * Stride = a * Stride - b * Stride
  BY <1>1
<1>3. a < b => a * Stride < b * Stride
  BY <1>1
<1>4. b < a => b * Stride < a * Stride
  BY <1>1
<1> QED BY <1>1, <1>2, <1>3, <1>4

\* The place of PE p counted from the root: the root is 0, and the members have
\* the multiples of the stride one by one.
LEMMA TreePlaces ==
  ASSUME B!BroadcastAssumption, B!PowersOfTwo, NEW n \in 1..MaxCalls
  PROVE  /\ \A p \in B!Member : B!PEx(p, n) \in 0..(B!PE_size_stride - 1) /\ B!PEx(p, n) % Stride = 0
         /\ \A p, q \in B!Member : B!PEx(p, n) = B!PEx(q, n) => p = q
         /\ \A x \in 0..(B!PE_size_stride - 1) : x % Stride = 0 =>
              LET to == x + PE_start + B!PE_root_stride(n)
                  y == IF to >= B!PE_end THEN to - B!PE_size_stride ELSE to
              IN  y \in B!Member /\ B!PEx(y, n) = x
<1> DEFINE r == PE_root[n]
<1>1. /\ r \in 0..(PE_size - 1) /\ PE_size \in Nat \ {0} /\ PE_start \in Nat
      /\ Stride \in Nat \ {0}
  BY DEF B!BroadcastAssumption
<1>2. B!PE_root_stride(n) = r * Stride /\ B!PE_size_stride = PE_size * Stride
      /\ B!PE_end = PE_start + PE_size * Stride
  BY DEF B!PE_root_stride, B!PE_size_stride, B!PE_end
<1> HIDE DEF r
<1>3. \A j \in 0..(PE_size - 1) :
        j * Stride \in 0..(B!PE_size_stride - 1) /\ (j * Stride) % Stride = 0
  <2> SUFFICES ASSUME NEW j \in 0..(PE_size - 1)
               PROVE  j * Stride \in 0..(B!PE_size_stride - 1) /\ (j * Stride) % Stride = 0
    OBVIOUS
  <2>1. j * Stride < PE_size * Stride /\ j * Stride \in Int /\ PE_size * Stride \in Int
    BY <1>1, StrideScale
  <2>2. j * Stride \in Nat /\ j * Stride = Stride * j
    BY <1>1
  <2>3. (j * Stride) % Stride = 0
    BY <1>1, <2>2, Multiple
  <2> QED BY <1>2, <2>1, <2>2, <2>3
<1>4. ASSUME NEW i \in 0..(PE_size - 1), NEW p, p = PE_start + i * Stride
      PROVE  B!PEx(p, n) = (IF i < r THEN i - r + PE_size ELSE i - r) * Stride
  <2>1. p - PE_start - B!PE_root_stride(n) = (i - r) * Stride
    <3>1. i * Stride \in Int /\ r * Stride \in Int /\ (i - r) * Stride = i * Stride - r * Stride
      BY <1>1, StrideScale
    <3> QED BY <1>1, <1>2, <1>4, <3>1
  <2>2. (i - r) * Stride < 0 <=> i < r
    <3>1. i * Stride < r * Stride <=> i < r
      BY <1>1, StrideScale
    <3>2. i * Stride \in Int /\ r * Stride \in Int /\ (i - r) * Stride = i * Stride - r * Stride
      BY <1>1, StrideScale
    <3> QED BY <3>1, <3>2
  <2>3. (i - r) * Stride + B!PE_size_stride = (i - r + PE_size) * Stride
    <3>1. i - r \in Int /\ PE_size \in Int
      BY <1>1
    <3> QED BY <1>2, <3>1, StrideScale
  <2> QED BY <2>1, <2>2, <2>3 DEF B!PEx
<1>5. ASSUME NEW p \in B!Member
      PROVE  \E i \in 0..(PE_size - 1) :
               p = PE_start + i * Stride
               /\ B!PEx(p, n) = (IF i < r THEN i - r + PE_size ELSE i - r) * Stride
  BY <1>4 DEF B!Member
<1>6. \A i \in 0..(PE_size - 1) :
        (IF i < r THEN i - r + PE_size ELSE i - r) \in 0..(PE_size - 1)
  BY <1>1
<1>7. ASSUME NEW p \in B!Member
      PROVE  B!PEx(p, n) \in 0..(B!PE_size_stride - 1) /\ B!PEx(p, n) % Stride = 0
  BY <1>3, <1>5, <1>6
<1>8. ASSUME NEW p \in B!Member, NEW q \in B!Member, B!PEx(p, n) = B!PEx(q, n)
      PROVE  p = q
  <2>1. PICK i \in 0..(PE_size - 1) :
          p = PE_start + i * Stride
          /\ B!PEx(p, n) = (IF i < r THEN i - r + PE_size ELSE i - r) * Stride
    BY <1>5
  <2>2. PICK j \in 0..(PE_size - 1) :
          q = PE_start + j * Stride
          /\ B!PEx(q, n) = (IF j < r THEN j - r + PE_size ELSE j - r) * Stride
    BY <1>5
  <2> DEFINE a == IF i < r THEN i - r + PE_size ELSE i - r
             b == IF j < r THEN j - r + PE_size ELSE j - r
  <2>3. a \in Int /\ b \in Int /\ a * Stride = b * Stride
    BY <1>1, <1>8, <2>1, <2>2
  <2>4. a = b
    BY <2>3, StrideScale
  <2>5. i = j
    BY <1>1, <2>4
  <2> QED BY <2>1, <2>2, <2>5
<1>9. ASSUME NEW x \in 0..(B!PE_size_stride - 1), x % Stride = 0
      PROVE  LET to == x + PE_start + B!PE_root_stride(n)
                 y == IF to >= B!PE_end THEN to - B!PE_size_stride ELSE to
             IN  y \in B!Member /\ B!PEx(y, n) = x
  <2>1. PE_size * Stride \in Int
    BY <1>1, StrideScale
  <2>2. x \in Nat /\ x < PE_size * Stride
    BY <1>2, <2>1
  <2>3. PICK j \in Nat : x = Stride * j
    BY <1>1, <1>9, <2>2, Multiple
  <2>4. x = j * Stride
    BY <1>1, <2>3
  <2>5. j < PE_size
    BY <1>1, <2>2, <2>4, StrideScale
  <2>14. PICK v \in Nat : v = j + r
    BY <1>1
  <2> DEFINE to == x + PE_start + B!PE_root_stride(n)
             y == IF to >= B!PE_end THEN to - B!PE_size_stride ELSE to
             i == IF v >= PE_size THEN v - PE_size ELSE v
  <2>6. to = PE_start + v * Stride /\ v * Stride \in Int
    <3>1. (j + r) * Stride = j * Stride + r * Stride /\ j * Stride \in Int /\ r * Stride \in Int
      BY <1>1, StrideScale
    <3> QED BY <1>1, <1>2, <2>4, <2>14, <3>1
  <2>7. to >= B!PE_end <=> v >= PE_size
    <3>1. v < PE_size <=> v * Stride < PE_size * Stride
      BY <1>1, StrideScale
    <3> QED BY <1>1, <1>2, <2>1, <2>6, <3>1
  <2>8. (v - PE_size) * Stride = v * Stride - PE_size * Stride
    BY <1>1, <2>14, StrideScale
  <2>9. y = PE_start + i * Stride /\ i \in 0..(PE_size - 1)
    <3>1. CASE v >= PE_size
      <4>1. y = to - B!PE_size_stride /\ i = v - PE_size
        BY <2>7, <3>1
      <4>2. i \in 0..(PE_size - 1)
        BY <1>1, <2>5, <2>14, <3>1, <4>1
      <4>3. y = PE_start + i * Stride
        <5>1. i * Stride = v * Stride - PE_size * Stride
          BY <2>8, <4>1
        <5> HIDE DEF y, i, to
        <5> QED BY <1>1, <1>2, <2>1, <2>6, <4>1, <5>1
      <4> QED BY <4>2, <4>3
    <3>2. CASE ~(v >= PE_size)
      BY <1>1, <2>5, <2>14, <2>6, <2>7, <3>2
    <3> QED BY <3>1, <3>2
  <2>10. (IF i < r THEN i - r + PE_size ELSE i - r) = j
    BY <1>1, <2>5, <2>14
  <2> HIDE DEF y, i
  <2>11. y \in B!Member
    BY <2>9 DEF B!Member
  <2>12. B!PEx(y, n) = j * Stride
    BY <1>4, <2>9, <2>10
  <2> QED BY <2>4, <2>11, <2>12 DEF y
<1> QED BY <1>7, <1>8, <1>9

\* A power of two that is not below the stride is a multiple of it.
LEMMA StrideDivides ==
  ASSUME B!BroadcastAssumption, B!PowersOfTwo, NEW m \in B!Power2, Stride <= m
  PROVE  m % Stride = 0 /\ \A x \in Nat : x % m = 0 => x % Stride = 0
<1>1. PICK s, j \in Nat : s < j /\ Stride = 2^s /\ B!PE_size_stride = 2^j
  BY TreeSize
<1>2. PICK k \in Nat : m = 2^k
  BY InPower2
<1>3. Stride \in Nat \ {0} /\ m \in Nat \ {0}
  BY InPower2 DEF B!BroadcastAssumption
<1>4. PICK t \in Nat : m = Stride * t
  <2>1. CASE Stride = m
    BY <1>3, <2>1
  <2>2. CASE Stride # m
    <3>1. 2^s < 2^k
      BY <1>1, <1>2, <1>3, <2>2
    <3>2. s < k
      BY <1>1, <1>2, <3>1, PowerOrder
    <3>3. PICK u \in Nat \ {0} : 2^k = 2 * 2^s * u
      BY <1>1, <1>2, <3>2, PowerOrder
    <3>4. m = Stride * (2 * u) /\ 2 * u \in Nat
      BY <1>1, <1>2, <1>3, <3>3
    <3> QED BY <3>4
  <2> QED BY <2>1, <2>2
<1>5. ASSUME NEW x \in Nat, x % m = 0 PROVE x % Stride = 0
  <2>1. PICK u \in Nat : x = m * u
    BY <1>3, <1>5, Multiple
  <2>2. x = Stride * (t * u) /\ t * u \in Nat
    BY <1>3, <1>4, <2>1
  <2> QED BY <1>3, <2>2, Multiple
<1> QED BY <1>3, <1>4, <1>5, Multiple

\* The mask of the root is half of the set.
LEMMA RootMask ==
  ASSUME B!BroadcastAssumption, B!PowersOfTwo
  PROVE  B!maskx \in B!Power2 /\ 2 * B!maskx = B!PE_size_stride /\ Stride <= B!maskx
<1>1. PICK s, j \in Nat : s < j /\ Stride = 2^s /\ B!PE_size_stride = 2^j
  BY TreeSize
<1>2. j - 1 \in Nat /\ (j - 1) + 1 = j /\ s <= j - 1
  BY <1>1
<1>3. 2^j = 2 * 2^(j - 1) /\ 2^(j - 1) \in Nat \ {0}
  BY <1>2, PowerStep
<1>4. 2^(j - 1) \in B!Power2
  BY <1>1, <1>2, <1>3, InPower2
<1>5. B!maskx \in B!Power2 /\ B!maskx < B!PE_size_stride /\ B!PE_size_stride <= 2 * B!maskx
  <2>1. 2^(j - 1) < B!PE_size_stride /\ B!PE_size_stride <= 2 * 2^(j - 1)
    BY <1>1, <1>3
  <2> QED BY <1>4, <2>1 DEF B!maskx
<1>6. PICK k \in Nat : B!maskx = 2^k
  BY <1>5, InPower2
<1>7. 2^k < 2^j /\ 2^j <= 2^(k + 1) /\ 2^(k + 1) = 2 * 2^k /\ k + 1 \in Nat
  BY <1>1, <1>5, <1>6, PowerStep
<1>8. k < j
  BY <1>7, <1>1, PowerOrder
<1>9. ~(k + 1 < j)
  <2>1. 2^(k + 1) \in Nat /\ 2^j \in Nat
    BY <1>1, <1>7, PowerStep
  <2>2. ~(2^(k + 1) < 2^j)
    BY <1>7, <2>1
  <2> QED BY <1>1, <1>7, <2>2, PowerOrder
<1>10. k = j - 1
  BY <1>1, <1>8, <1>9
<1>11. 2^s <= 2^(j - 1)
  BY <1>1, <1>2, PowerOrder, PowerStep
<1> QED BY <1>1, <1>3, <1>5, <1>6, <1>10, <1>11

LEMMA FirstMaskIs ==
  ASSUME B!BroadcastAssumption, B!PowersOfTwo,
         NEW x \in 0..(B!PE_size_stride - 1), x % Stride = 0
  PROVE  LET m == B!FirstMask(x).mask2
         IN  /\ m \in B!Power2 /\ Stride <= m /\ 2 * m <= B!PE_size_stride
             /\ B!FirstMask(x) = [mask1 |-> 2 * m - 1, mask2 |-> m]
             /\ x # 0 => m = B!LowBit(x)
<1>1. CASE x = 0
  <2>1. B!FirstMask(x) = [mask1 |-> 2 * B!maskx - 1, mask2 |-> B!maskx]
    BY <1>1 DEF B!FirstMask
  <2>2. 2 * B!maskx <= B!PE_size_stride
    BY RootMask, InPower2
  <2> QED BY <1>1, <2>1, <2>2, RootMask
<1>2. CASE x # 0
  <2>1. B!FirstMask(x) = [mask1 |-> 2 * B!LowBit(x) - 1, mask2 |-> B!LowBit(x)]
    BY <1>2 DEF B!FirstMask
  <2>2. x \in Nat \ {0} /\ x < B!PE_size_stride
    BY <1>2, InPower2
  <2> QED BY <1>2, <2>1, <2>2, LowBitIs
<1> QED BY <1>1, <1>2

LEMMA Halving ==
  ASSUME B!BroadcastAssumption, B!PowersOfTwo,
         NEW m \in B!Power2, Stride <= m, 2 * m <= B!PE_size_stride,
         NEW h, h = B!Halved([mask1 |-> 2 * m - 1, mask2 |-> m])
  PROVE  /\ h \in [mask1 : Nat, mask2 : Nat] /\ h.mask2 < m
         /\ h.mask1 < Stride => h.mask2 < Stride
         /\ h.mask1 >= Stride => /\ h.mask2 \in B!Power2 /\ h.mask1 = 2 * h.mask2 - 1
                                 /\ Stride <= h.mask2 /\ 2 * h.mask2 <= B!PE_size_stride
<1>1. h = [mask1 |-> (2 * m - 1) \div 2, mask2 |-> m \div 2]
  BY DEF B!Halved
<1>2. PICK s, j \in Nat : s < j /\ Stride = 2^s /\ B!PE_size_stride = 2^j
  BY TreeSize
<1>3. PICK k \in Nat : m = 2^k
  BY InPower2
<1>4. m \in Nat \ {0} /\ Stride \in Nat \ {0} /\ B!PE_size_stride \in Nat
  BY InPower2 DEF B!BroadcastAssumption
<1>5. CASE k = 0
  <2>1. m = 1 /\ Stride = 1
    BY <1>3, <1>4, <1>5, PowerStep
  <2>2. h = [mask1 |-> 0, mask2 |-> 0]
    BY <1>1, <2>1
  <2> QED BY <2>1, <2>2
<1>6. CASE k # 0
  <2> DEFINE a == 2^(k - 1)
  <2>1. k - 1 \in Nat /\ (k - 1) + 1 = k
    BY <1>6
  <2>2. a \in Nat \ {0} /\ m = 2 * a
    BY <1>3, <2>1, PowerStep
  <2>3. a \in B!Power2
    <3>1. a <= B!PE_size_stride
      BY <1>4, <2>2
    <3> QED BY <2>1, <3>1, InPower2
  <2>4. Stride <= a \/ Stride = m
    <3>1. CASE s <= k - 1
      <4>1. 2^s <= 2^(k - 1)
        BY <1>2, <2>1, <3>1, PowerOrder, PowerStep
      <4> QED BY <1>2, <4>1
    <3>2. CASE ~(s <= k - 1)
      <4>1. ~(s < k)
        BY <1>2, <2>1, <3>2
      <4>2. ~(k < s)
        <5>1. 2^k \in Nat /\ 2^s \in Nat /\ 2^s <= 2^k
          BY <1>2, <1>3, <1>4
        <5>2. ~(2^k < 2^s)
          BY <5>1
        <5> QED BY <1>2, <1>3, <5>2, PowerOrder
      <4>3. s = k
        BY <1>2, <1>3, <4>1, <4>2
      <4> QED BY <1>2, <1>3, <4>3
    <3> QED BY <3>1, <3>2
  <2> HIDE DEF a
  <2>5. h = [mask1 |-> 2 * a - 1, mask2 |-> a]
    <3>1. (2 * m - 1) \div 2 = 2 * a - 1 /\ m \div 2 = a
      BY <2>2
    <3> QED BY <1>1, <3>1
  <2>6. h.mask1 = 2 * a - 1 /\ h.mask2 = a
    BY <2>5
  <2>7. h \in [mask1 : Nat, mask2 : Nat]
    BY <2>2, <2>5
  <2>8. h.mask1 < Stride => h.mask2 < Stride
    BY <1>4, <2>2, <2>6
  <2>9. h.mask1 >= Stride => Stride <= a
    BY <1>4, <2>2, <2>4, <2>6
  <2> QED BY <1>4, <2>2, <2>3, <2>6, <2>7, <2>8, <2>9
<1> QED BY <1>5, <1>6

\* The PE above y is one, and its mask is the least significant bit of y's place.
LEMMA AboveIsOne ==
  ASSUME B!BroadcastAssumption, B!PowersOfTwo, NEW n \in 1..MaxCalls,
         NEW q \in B!Member, NEW y \in B!Member, NEW m, B!Above(q, y, n, m)
  PROVE  /\ m \in B!Power2 /\ B!PEx(y, n) # 0 /\ m = B!LowBit(B!PEx(y, n)) /\ y # q
         /\ \A p \in B!Member : \A m2 : B!Above(p, y, n, m2) => p = q /\ m2 = m
<1>1. ASSUME NEW p \in B!Member, NEW m2, B!Above(p, y, n, m2)
      PROVE  m2 \in B!Power2 /\ m2 \in Nat \ {0} /\ B!PEx(y, n) # 0 /\ m2 = B!LowBit(B!PEx(y, n))
  <2>1. m2 \in B!Power2 /\ B!PEx(p, n) % (2 * m2) = 0 /\ B!PEx(y, n) = B!PEx(p, n) + m2
    BY <1>1 DEF B!Above
  <2>2. B!PEx(p, n) \in Nat /\ B!PEx(y, n) \in Nat
    BY TreePlaces, InPower2
  <2>3. m2 \in Nat \ {0} /\ 2 * m2 \in Nat \ {0}
    BY <2>1, InPower2
  <2>4. PICK t \in Nat : B!PEx(p, n) = (2 * m2) * t
    BY <2>1, <2>2, <2>3, Multiple
  <2>5. B!PEx(y, n) = m2 * (2 * t + 1)
    <3>1. (2 * m2) * t + m2 = m2 * (2 * t + 1)
      BY <2>3
    <3> QED BY <2>1, <2>4, <3>1
  <2>6. B!PEx(y, n) % m2 = 0 /\ B!PEx(y, n) % (2 * m2) # 0
    BY <2>2, <2>3, <2>5, OddMultiple
  <2>7. B!LowBit(B!PEx(y, n)) = m2
    BY <2>1, <2>2, <2>6, LowBitUnique
  <2> QED BY <2>1, <2>2, <2>3, <2>7
<1>2. m \in B!Power2 /\ m \in Nat \ {0} /\ B!PEx(y, n) # 0 /\ m = B!LowBit(B!PEx(y, n))
  BY <1>1
<1>3. \A p \in B!Member : B!PEx(p, n) \in Int
  BY TreePlaces, InPower2
<1>4. B!PEx(y, n) = B!PEx(q, n) + m
  BY DEF B!Above
<1>5. y # q
  <2>1. B!PEx(q, n) + m # B!PEx(q, n)
    BY <1>2, <1>3
  <2> QED BY <1>4, <2>1
<1>6. ASSUME NEW p \in B!Member, NEW m2, B!Above(p, y, n, m2) PROVE p = q /\ m2 = m
  <2>1. m2 = m
    BY <1>1, <1>2, <1>6
  <2>2. B!PEx(y, n) = B!PEx(p, n) + m2
    BY <1>6 DEF B!Above
  <2>3. B!PEx(p, n) + m = B!PEx(q, n) + m
    BY <1>4, <2>1, <2>2
  <2>4. B!PEx(p, n) \in Int /\ B!PEx(q, n) \in Int /\ m \in Int
    BY <1>2, <1>3
  <2>5. B!PEx(p, n) = B!PEx(q, n)
    <3>1. \A a, b, k \in Int : a + k = b + k => a = b
      OBVIOUS
    <3> QED BY <2>3, <2>4, <3>1
  <2> QED BY <2>1, <2>5, TreePlaces
<1> QED BY <1>2, <1>5, <1>6

\* A PE sends to the PE that is its mask away.
TreePartner(p, n, m) == LET to == B!PEx(p, n) + m + PE_start + B!PE_root_stride(n)
                    IN  IF to >= B!PE_end THEN to - B!PE_size_stride ELSE to

LEMMA SendsTo ==
  ASSUME B!BroadcastAssumption, B!PowersOfTwo,
         NEW p \in B!Member, NEW n \in 1..MaxCalls, NEW m \in B!Power2,
         Stride <= m, 2 * m <= B!PE_size_stride, B!PEx(p, n) % (2 * m) = 0
  PROVE  TreePartner(p, n, m) \in B!Member /\ B!Above(p, TreePartner(p, n, m), n, m)
<1> DEFINE x == B!PEx(p, n)
<1>1. x \in 0..(B!PE_size_stride - 1) /\ x % Stride = 0
  BY TreePlaces
<1>2. m \in Nat \ {0} /\ B!PE_size_stride \in Nat /\ Stride \in Nat \ {0}
  BY InPower2 DEF B!BroadcastAssumption
<1>3. x % (2 * m) = 0
  OBVIOUS
<1>4. PICK j, k \in Nat : B!PE_size_stride = 2^j /\ m = 2^k
  BY TreeSize, InPower2
<1>5. PICK u \in Nat \ {0} : B!PE_size_stride = 2 * m * u
  <2>1. 2^k < 2^j
    BY <1>2, <1>4
  <2>2. k < j
    BY <1>4, <2>1, PowerOrder
  <2>3. PICK u \in Nat \ {0} : 2^j = 2 * 2^k * u
    BY <2>2, PowerOrder
  <2> QED BY <1>4, <2>3
<1>6. PICK t \in Nat : x = (2 * m) * t
  <2>1. x \in Nat /\ 2 * m \in Nat \ {0}
    BY <1>1, <1>2
  <2> QED BY <1>3, <2>1, Multiple
<1>7. x + m < B!PE_size_stride
  <2>1. t < u
    <3>1. SUFFICES ASSUME u <= t PROVE FALSE
      BY <1>5, <1>6
    <3>2. (2 * m) * u <= (2 * m) * t
      BY <1>2, <1>5, <1>6, <3>1
    <3> QED BY <1>1, <1>2, <1>5, <1>6, <3>2
  <2>2. (2 * m) * (t + 1) <= (2 * m) * u
    BY <1>2, <1>5, <1>6, <2>1
  <2>3. (2 * m) * (t + 1) = x + 2 * m
    BY <1>2, <1>6
  <2> QED BY <1>1, <1>2, <1>5, <2>2, <2>3
<1>8. (x + m) % Stride = 0
  <2>1. x + m = m * (2 * t + 1) /\ 2 * t + 1 \in Nat
    BY <1>2, <1>6
  <2>2. x + m \in Nat
    BY <1>1, <1>2
  <2>3. (x + m) % m = 0
    BY <1>2, <2>1, <2>2, Multiple
  <2> QED BY <2>2, <2>3, StrideDivides
<1>9. x + m \in 0..(B!PE_size_stride - 1)
  BY <1>1, <1>2, <1>7
<1> DEFINE to == (x + m) + PE_start + B!PE_root_stride(n)
<1>10. TreePartner(p, n, m) = IF to >= B!PE_end THEN to - B!PE_size_stride ELSE to
  BY DEF TreePartner
<1>11. TreePartner(p, n, m) \in B!Member /\ B!PEx(TreePartner(p, n, m), n) = x + m
  BY <1>8, <1>9, <1>10, TreePlaces
<1> QED BY <1>3, <1>11 DEF B!Above
------------------------------------------------------------------------------
(* The broadcast: the inductive invariant *)

TreeTypes ==
  /\ calls \in [B!Member -> 0..MaxCalls] /\ synced \in [B!Member -> 0..MaxCalls]
  /\ pc \in [B!Member -> {"out", "sync", "loop", "reset"}]
  /\ mask \in [B!Member -> [mask1 : Nat, mask2 : Nat]]
  /\ dest \in [B!Member -> 0..MaxCalls]
  /\ finished \in [B!Member -> 0..1]
  /\ mail \in [B!Member -> [B!Member -> Seq(0..MaxCalls)]]
BroadcastInv == /\ TreeTypes /\ B!InStep /\ B!MasksOK /\ B!FlagOK
                /\ B!DataOK /\ B!SentBefore /\ B!MailOK

LEMMA BroadcastInvIs ==
  ASSUME B!BroadcastAssumption, B!PowersOfTwo
  PROVE  (BroadcastInv <=> B!IInv) /\ (BroadcastInv' <=> B!IInv')
<1>1. ASSUME NEW p \in B!Member, calls[p] \in 1..MaxCalls, NEW m \in B!Power2,
             mask[p].mask2 = m, mask[p].mask1 = 2 * m - 1,
             Stride <= m, 2 * m <= B!PE_size_stride, B!Sends(p)
      PROVE  B!PE_to(p) \in B!Member \ {p}
  <2>1. B!PE_to(p) = TreePartner(p, calls[p], m) /\ B!PEx(p, calls[p]) % (2 * m) = 0
    <3>1. (2 * m - 1) + 1 = 2 * m
      BY InPower2
    <3> QED BY <1>1, <3>1 DEF B!PE_to, TreePartner, B!Sends
  <2>2. B!PE_to(p) \in B!Member /\ B!Above(p, B!PE_to(p), calls[p], m)
    BY <1>1, <2>1, SendsTo
  <2> QED BY <1>1, <2>2, AboveIsOne
<1>2. ASSUME NEW p \in B!Member, calls'[p] \in 1..MaxCalls, NEW m \in B!Power2,
             mask'[p].mask2 = m, mask'[p].mask1 = 2 * m - 1,
             Stride <= m, 2 * m <= B!PE_size_stride, B!Sends(p)'
      PROVE  B!PE_to(p)' \in B!Member \ {p}
  <2>1. B!PE_to(p)' = TreePartner(p, calls'[p], m) /\ B!PEx(p, calls'[p]) % (2 * m) = 0
    <3>1. (2 * m - 1) + 1 = 2 * m
      BY InPower2
    <3> QED BY <1>2, <3>1 DEF B!PE_to, TreePartner, B!Sends
  <2>2. B!PE_to(p)' \in B!Member /\ B!Above(p, B!PE_to(p)', calls'[p], m)
    BY <1>2, <2>1, SendsTo
  <2> QED BY <1>2, <2>2, AboveIsOne
<1>3. ASSUME TreeTypes, B!MasksOK, NEW p \in B!Member, pc[p] = "loop", B!Sends(p)
      PROVE  B!PE_to(p) \in B!Member \ {p}
  <2> DEFINE m == mask[p].mask2
  <2>1. /\ calls[p] >= 1 /\ m \in B!Power2 /\ mask[p].mask1 = 2 * m - 1
        /\ Stride <= m /\ 2 * m <= B!PE_size_stride
    BY <1>3 DEF B!MasksOK
  <2>2. calls[p] \in 1..MaxCalls
    BY <1>3, <2>1 DEF TreeTypes
  <2> QED BY <1>1, <1>3, <2>1, <2>2
<1>4. ASSUME TreeTypes', B!MasksOK', NEW p \in B!Member, pc'[p] = "loop", B!Sends(p)'
      PROVE  B!PE_to(p)' \in B!Member \ {p}
  <2> DEFINE m == mask'[p].mask2
  <2>1. /\ calls'[p] >= 1 /\ m \in B!Power2 /\ mask'[p].mask1 = 2 * m - 1
        /\ Stride <= m /\ 2 * m <= B!PE_size_stride
    BY <1>4 DEF B!MasksOK
  <2>2. calls'[p] \in 1..MaxCalls
    BY <1>4, <2>1 DEF TreeTypes
  <2> QED BY <1>2, <1>4, <2>1, <2>2
<1>5. TreeTypes /\ B!MasksOK <=> B!TypeOK /\ B!MasksOK
  BY <1>3 DEF TreeTypes, B!TypeOK
<1>6. TreeTypes' /\ B!MasksOK' <=> B!TypeOK' /\ B!MasksOK'
  BY <1>4 DEF TreeTypes, B!TypeOK
<1> QED BY <1>5, <1>6 DEF BroadcastInv, B!IInv

LEMMA InitBroadcastInv ==
  ASSUME B!BroadcastAssumption, B!PowersOfTwo, B!Init PROVE BroadcastInv
<1>1. MaxCalls \in Nat /\ Stride \in Nat \ {0}
  BY DEF B!BroadcastAssumption
<1>2. /\ calls = [p \in B!Member |-> 0] /\ synced = [p \in B!Member |-> 0]
      /\ pc = [p \in B!Member |-> "out"]
      /\ mask = [p \in B!Member |-> [mask1 |-> 0, mask2 |-> 0]]
      /\ dest = [p \in B!Member |-> 0] /\ finished = [p \in B!Member |-> 0]
      /\ mail = [p \in B!Member |-> [q \in B!Member |-> << >>]]
  BY DEF B!Init, B!Sync!Init
<1>3. TreeTypes
  BY <1>1, <1>2 DEF TreeTypes
<1>4. B!InStep /\ B!MasksOK /\ B!FlagOK /\ B!DataOK /\ B!MailOK
  BY <1>1, <1>2 DEF B!InStep, B!MasksOK, B!FlagOK, B!DataOK, B!MailOK
<1>5. B!SentBefore
  BY <1>1, <1>2 DEF B!SentBefore, B!Received
<1> QED BY <1>3, <1>4, <1>5 DEF BroadcastInv

\* A PE that has returned has received; and nothing is in flight to it.
LEMMA ReturnedIsQuiet ==
  ASSUME B!BroadcastAssumption, B!PowersOfTwo,
         BroadcastInv, NEW p \in B!Member, pc[p] = "out"
  PROVE  /\ calls[p] >= 1 /\ ~B!IsRoot(p, calls[p]) => B!Received(p, calls[p])
         /\ \A q \in B!Member : mail[q][p] = << >>
<1>1. calls[p] \in 0..MaxCalls /\ mask[p].mask2 \in Nat /\ mask[p].mask2 < Stride
  BY DEF BroadcastInv, TreeTypes, B!MasksOK
<1>2. Stride \in Nat \ {0}
  BY DEF B!BroadcastAssumption
<1>3. ASSUME calls[p] >= 1, ~B!IsRoot(p, calls[p]) PROVE B!Received(p, calls[p])
  <2>1. calls[p] \in 1..MaxCalls
    BY <1>1, <1>3
  <2>2. B!PEx(p, calls[p]) \in Nat \ {0} /\ B!PEx(p, calls[p]) < B!PE_size_stride
        /\ B!PEx(p, calls[p]) % Stride = 0
    BY <1>3, <2>1, TreePlaces, InPower2 DEF B!IsRoot
  <2>3. Stride <= B!LowBit(B!PEx(p, calls[p])) /\ B!LowBit(B!PEx(p, calls[p])) \in Nat
    BY <2>2, LowBitIs, InPower2
  <2>4. mask[p].mask2 < B!LowBit(B!PEx(p, calls[p]))
    BY <1>1, <1>2, <2>3
  <2> QED BY <2>4 DEF B!Received
<1>4. ASSUME NEW q \in B!Member, mail[q][p] # << >> PROVE FALSE
  <2>1. /\ calls[p] \in 1..MaxCalls /\ ~B!Received(p, calls[p])
        /\ \E m \in B!Power2 : B!Above(q, p, calls[p], m)
    BY <1>4 DEF BroadcastInv, B!MailOK
  <2>2. PICK m \in B!Power2 : B!Above(q, p, calls[p], m)
    BY <2>1
  <2>3. ~B!IsRoot(p, calls[p])
    BY <2>1, <2>2, AboveIsOne DEF B!IsRoot
  <2> QED BY <1>3, <2>1, <2>3
<1> QED BY <1>3, <1>4

LEMMA EnterInv ==
  ASSUME B!BroadcastAssumption, B!PowersOfTwo, BroadcastInv, NEW p \in B!Member, B!Enter(p)
  PROVE  BroadcastInv'
<1>17. PICK k \in 1..MaxCalls : k = calls[p] + 1
  BY DEF B!Enter, BroadcastInv, TreeTypes, B!BroadcastAssumption
<1> DEFINE x == B!PEx(p, k)
<1>1. /\ pc[p] = "out" /\ calls[p] < MaxCalls /\ synced[p] = calls[p]
      /\ calls' = [calls EXCEPT ![p] = k] /\ synced' = synced
      /\ mask' = [mask EXCEPT ![p] = B!FirstMask(x)]
      /\ finished' = [finished EXCEPT ![p] = 0] /\ pc' = [pc EXCEPT ![p] = "sync"]
      /\ dest' = dest /\ mail' = mail
  BY <1>17 DEF B!Enter, B!Sync!Enter, BroadcastInv, B!InStep
<1>2. TreeTypes /\ MaxCalls \in Nat
  BY DEF BroadcastInv, B!BroadcastAssumption
<1>3. x \in 0..(B!PE_size_stride - 1) /\ x % Stride = 0
  BY <1>2, TreePlaces
<1>4. LET m == B!FirstMask(x).mask2
      IN  /\ m \in B!Power2 /\ m \in Nat \ {0} /\ Stride <= m /\ 2 * m <= B!PE_size_stride
          /\ B!FirstMask(x) = [mask1 |-> 2 * m - 1, mask2 |-> m]
          /\ x # 0 => m = B!LowBit(x)
  BY <1>3, FirstMaskIs, InPower2
<1> HIDE DEF x
<1>5. B!FirstMask(x) \in [mask1 : Nat, mask2 : Nat]
  BY <1>4
<1>6. /\ \A q \in B!Member : q # p => /\ calls'[q] = calls[q] /\ mask'[q] = mask[q]
                                      /\ finished'[q] = finished[q] /\ pc'[q] = pc[q]
      /\ calls'[p] = k /\ mask'[p] = B!FirstMask(x) /\ finished'[p] = 0 /\ pc'[p] = "sync"
  BY <1>1, <1>2 DEF TreeTypes
<1>7. TreeTypes'
  BY <1>1, <1>2, <1>5 DEF TreeTypes
<1>8. B!InStep'
  <2>1. \A q \in B!Member : calls[q] \in Nat /\ synced[q] \in Nat
    BY <1>2 DEF TreeTypes
  <2> QED BY <1>1, <1>6, <1>17, <2>1 DEF B!InStep, BroadcastInv
<1>9. B!MasksOK'
  <2>1. /\ mask'[p].mask2 = B!FirstMask(x).mask2 /\ mask'[p].mask1 = 2 * B!FirstMask(x).mask2 - 1
        /\ x = B!PEx(p, calls'[p])
    BY <1>4, <1>6 DEF x
  <2>2. B!FirstMask(x).mask2 \in Nat /\ k >= 1
    BY <1>2, <1>4
  <2> QED BY <1>4, <1>6, <2>1, <2>2 DEF B!MasksOK, BroadcastInv
<1>10. B!FlagOK'
  BY <1>6 DEF B!FlagOK, BroadcastInv
<1>11. \A y \in B!Member, n \in Nat : y # p => (B!Received(y, n)' <=> B!Received(y, n))
  BY <1>6 DEF B!Received
<1>12. \A q \in B!Member, n \in Nat, m \in B!Power2 : B!Sent(q, n, m) => B!Sent(q, n, m)'
  <2> SUFFICES ASSUME NEW q \in B!Member, NEW n \in Nat, NEW m \in B!Power2, B!Sent(q, n, m)
               PROVE  B!Sent(q, n, m)'
    OBVIOUS
  <2>1. CASE q = p
    <3>1. calls[p] >= n /\ calls[p] \in Nat
      BY <1>2, <2>1 DEF B!Sent, TreeTypes
    <3>2. calls'[p] > n
      BY <1>6, <1>17, <3>1
    <3> QED BY <2>1, <3>2 DEF B!Sent
  <2>2. CASE q # p
    BY <1>6, <2>2 DEF B!Sent
  <2> QED BY <2>1, <2>2
<1>13. x # 0 => ~B!Received(p, k)'
  BY <1>4, <1>6 DEF B!Received, x
<1>14. B!DataOK'
  <2> SUFFICES ASSUME NEW y \in B!Member, NEW n \in 1..MaxCalls, calls'[y] = n,
                      ~B!IsRoot(y, n), B!Received(y, n)'
               PROVE  dest'[y] = n
    BY DEF B!DataOK, B!IsRoot
  <2>1. y # p
    BY <1>6, <1>13 DEF B!IsRoot, x
  <2> QED BY <1>1, <1>6, <1>11, <2>1 DEF B!DataOK, BroadcastInv
<1>15. B!SentBefore'
  <2> SUFFICES ASSUME NEW q \in B!Member, NEW y \in B!Member, NEW n \in 1..MaxCalls,
                      NEW m \in B!Power2, B!Above(q, y, n, m), B!Received(y, n)'
               PROVE  B!Sent(q, n, m)'
    BY DEF B!SentBefore, B!Above
  <2>1. B!Received(y, n) => B!Sent(q, n, m)'
    BY <1>12 DEF B!SentBefore, BroadcastInv
  <2>2. CASE y # p
    BY <1>11, <2>1, <2>2
  <2>3. CASE y = p
    <3>1. n # k
      <4>1. B!PEx(p, n) # 0
        BY <2>3, AboveIsOne
      <4> QED BY <1>13, <2>3, <4>1 DEF x
    <3>2. n <= calls[p] /\ calls[p] \in Nat
      BY <1>2, <1>6, <1>17, <2>3, <3>1 DEF B!Received, TreeTypes
    <3>3. n < calls[p] => B!Received(p, n)
      BY DEF B!Received
    <3>4. n = calls[p] => B!Received(p, n)
      <4>1. ~B!IsRoot(p, n)
        BY <2>3, AboveIsOne DEF B!IsRoot
      <4> QED BY <1>1, <4>1, ReturnedIsQuiet
    <3> QED BY <2>1, <2>3, <3>2, <3>3, <3>4
  <2> QED BY <2>2, <2>3
<1>16. B!MailOK'
  <2> SUFFICES ASSUME NEW q \in B!Member, NEW y \in B!Member, mail'[q][y] # << >>
               PROVE  \E n \in 1..MaxCalls :
                        /\ calls'[y] = n /\ ~B!Received(y, n)' /\ mail'[q][y] = <<n>>
                        /\ \E m \in B!Power2 : B!Above(q, y, n, m) /\ B!Sent(q, n, m)'
    BY DEF B!MailOK, B!Above
  <2>1. y # p
    BY <1>1, ReturnedIsQuiet
  <2>2. PICK n \in 1..MaxCalls :
          /\ calls[y] = n /\ ~B!Received(y, n) /\ mail[q][y] = <<n>>
          /\ \E m \in B!Power2 : B!Above(q, y, n, m) /\ B!Sent(q, n, m)
    BY <1>1 DEF B!MailOK, BroadcastInv
  <2> QED BY <1>1, <1>6, <1>11, <1>12, <2>1, <2>2
<1> QED BY <1>7, <1>8, <1>9, <1>10, <1>14, <1>15, <1>16 DEF BroadcastInv

LEMMA SyncReturnsInv ==
  ASSUME B!BroadcastAssumption, B!PowersOfTwo,
         BroadcastInv, NEW p \in B!Member, B!SyncReturns(p)
  PROVE  BroadcastInv'
<1>1. /\ pc[p] = "sync" /\ \A q \in B!Member : calls[q] >= calls[p]
      /\ synced' = [synced EXCEPT ![p] = synced[p] + 1] /\ pc' = [pc EXCEPT ![p] = "loop"]
      /\ calls' = calls /\ mask' = mask /\ finished' = finished /\ dest' = dest /\ mail' = mail
  BY DEF B!SyncReturns, B!Sync!Leave
<1>2. TreeTypes /\ MaxCalls \in Nat /\ synced[p] + 1 = calls[p]
  BY <1>1 DEF BroadcastInv, B!InStep, B!BroadcastAssumption
<1>3. \A q \in B!Member : calls[q] \in 0..MaxCalls /\ synced[q] \in 0..MaxCalls
  BY <1>2 DEF TreeTypes
<1>4. /\ \A q \in B!Member : q # p => pc'[q] = pc[q] /\ synced'[q] = synced[q]
      /\ pc'[p] = "loop" /\ synced'[p] = calls[p]
  BY <1>1, <1>2 DEF TreeTypes
<1>5. TreeTypes'
  BY <1>1, <1>2, <1>3 DEF TreeTypes
<1>6. B!InStep'
  BY <1>1, <1>2, <1>3, <1>4 DEF B!InStep, BroadcastInv
<1>7. B!MasksOK'
  BY <1>1, <1>4 DEF B!MasksOK, BroadcastInv
<1>8. B!FlagOK'
  BY <1>1, <1>4 DEF B!FlagOK, BroadcastInv
<1>9. B!DataOK' /\ B!SentBefore' /\ B!MailOK'
  BY <1>1 DEF B!DataOK, B!SentBefore, B!MailOK, B!Received, B!Sent, BroadcastInv
<1> QED BY <1>5, <1>6, <1>7, <1>8, <1>9 DEF BroadcastInv

LEMMA AdvanceIs ==
  ASSUME B!BroadcastAssumption, B!PowersOfTwo, TreeTypes, B!MasksOK, NEW p \in B!Member,
         pc[p] # "out", B!Advance(p)
  PROVE  /\ mask' \in [B!Member -> [mask1 : Nat, mask2 : Nat]]
         /\ pc' \in [B!Member -> {"out", "sync", "loop", "reset"}]
         /\ \A q \in B!Member : q # p => mask'[q] = mask[q] /\ pc'[q] = pc[q]
         /\ pc'[p] \in {"out", "loop"}
         /\ LET m == mask'[p].mask2
            IN  /\ m \in Nat /\ m < mask[p].mask2
                /\ pc'[p] = "out" => m < Stride
                /\ pc'[p] = "loop" => /\ m \in B!Power2 /\ mask'[p].mask1 = 2 * m - 1
                                      /\ Stride <= m /\ 2 * m <= B!PE_size_stride
<1> DEFINE m == mask[p].mask2
           h == B!Halved(mask[p])
<1>1. m \in B!Power2 /\ mask[p].mask1 = 2 * m - 1 /\ Stride <= m /\ 2 * m <= B!PE_size_stride
  BY DEF B!MasksOK
<1>2. mask[p] = [mask1 |-> 2 * m - 1, mask2 |-> m]
  BY <1>1 DEF TreeTypes
<1>3. /\ h \in [mask1 : Nat, mask2 : Nat] /\ h.mask2 < m
      /\ h.mask1 < Stride => h.mask2 < Stride
      /\ h.mask1 >= Stride => /\ h.mask2 \in B!Power2 /\ h.mask1 = 2 * h.mask2 - 1
                              /\ Stride <= h.mask2 /\ 2 * h.mask2 <= B!PE_size_stride
  BY <1>1, <1>2, Halving
<1>4. mask' = [mask EXCEPT ![p] = h]
  BY DEF B!Advance
<1> HIDE DEF h
<1>5. mask'[p] = h
  BY <1>4 DEF TreeTypes
<1>6. pc' = [pc EXCEPT ![p] = IF h.mask1 >= Stride THEN "loop" ELSE "out"]
  BY <1>5 DEF B!Advance
<1>7. h.mask1 \in Nat /\ h.mask2 \in Nat /\ Stride \in Nat
  BY <1>3 DEF B!BroadcastAssumption
<1>8. \A q \in B!Member : q # p => mask'[q] = mask[q] /\ pc'[q] = pc[q]
  BY <1>4, <1>6 DEF TreeTypes
<1>9. pc'[p] = IF h.mask1 >= Stride THEN "loop" ELSE "out"
  BY <1>6 DEF TreeTypes
<1>10. mask' \in [B!Member -> [mask1 : Nat, mask2 : Nat]]
       /\ pc' \in [B!Member -> {"out", "sync", "loop", "reset"}]
  BY <1>3, <1>4, <1>6 DEF TreeTypes
<1> QED BY <1>3, <1>5, <1>7, <1>8, <1>9, <1>10

\* Whatever PE p does next in its loop, what it has sent stays sent, and what it
\* has received stays received.
LEMMA SentStays ==
  ASSUME TreeTypes, NEW p \in B!Member, calls' = calls,
         \A q \in B!Member : q # p => mask'[q] = mask[q],
         mask'[p].mask2 \in Nat, mask[p].mask2 \in Nat, mask'[p].mask2 <= mask[p].mask2,
         NEW q \in B!Member, NEW n, NEW m \in Nat, B!Sent(q, n, m)
  PROVE  B!Sent(q, n, m)'
<1>1. CASE q = p
  BY <1>1 DEF B!Sent
<1>2. CASE q # p
  BY <1>2 DEF B!Sent
<1> QED BY <1>1, <1>2

LEMMA SendInv ==
  ASSUME B!BroadcastAssumption, B!PowersOfTwo, BroadcastInv, NEW p \in B!Member, B!Send(p)
  PROVE  BroadcastInv'
<1>1. TreeTypes /\ B!MasksOK /\ B!InStep /\ B!FlagOK /\ B!DataOK /\ B!SentBefore /\ B!MailOK
  BY DEF BroadcastInv
<1>2. PICK n \in 1..MaxCalls, m \in B!Power2 :
        /\ n = calls[p] /\ m = mask[p].mask2 /\ mask[p].mask1 = 2 * m - 1
        /\ Stride <= m /\ 2 * m <= B!PE_size_stride
        /\ B!PEx(p, n) # 0 => m <= B!LowBit(B!PEx(p, n))
  <2>1. calls[p] \in 0..MaxCalls /\ calls[p] >= 1 /\ MaxCalls \in Nat
    BY <1>1 DEF B!Send, TreeTypes, B!MasksOK, B!BroadcastAssumption
  <2>2. calls[p] \in 1..MaxCalls
    BY <2>1
  <2> QED BY <1>1, <2>2 DEF B!Send, B!MasksOK
<1>3. m \in Nat \ {0}
  BY InPower2
<1>4. B!PEx(p, n) % (2 * m) = 0
  <2>1. (2 * m - 1) + 1 = 2 * m
    BY <1>3
  <2> QED BY <1>2, <2>1 DEF B!Send, B!Sends
<1>5. PICK y0 \in B!Member : y0 = B!PE_to(p) /\ B!Above(p, y0, n, m)
  <2>1. B!PE_to(p) = TreePartner(p, n, m)
    BY <1>2 DEF B!PE_to, TreePartner
  <2> QED BY <1>2, <1>4, <2>1, SendsTo
<1>6. ~B!IsRoot(p, n) => /\ B!Received(p, n) /\ mask[p].mask2 < B!LowBit(B!PEx(p, n))
                         /\ B!LowBit(B!PEx(p, n)) \in Nat
  <2> SUFFICES ASSUME ~B!IsRoot(p, n)
               PROVE  mask[p].mask2 < B!LowBit(B!PEx(p, n)) /\ B!LowBit(B!PEx(p, n)) \in Nat
    BY <1>2 DEF B!Received
  <2>1. B!PEx(p, n) \in Nat \ {0} /\ B!PEx(p, n) < B!PE_size_stride /\ B!PEx(p, n) % Stride = 0
    BY TreePlaces, InPower2 DEF B!IsRoot
  <2>2. B!LowBit(B!PEx(p, n)) \in B!Power2 /\ B!PEx(p, n) % (2 * B!LowBit(B!PEx(p, n))) # 0
    BY <2>1, LowBitIs
  <2>3. B!LowBit(B!PEx(p, n)) # m
    BY <1>4, <2>2
  <2>4. B!LowBit(B!PEx(p, n)) \in Nat
    BY <2>2, InPower2
  <2> QED BY <1>2, <1>3, <2>1, <2>3, <2>4
<1>7. (IF B!IsRoot(p, calls[p]) THEN calls[p] ELSE dest[p]) = n
  BY <1>1, <1>2, <1>6 DEF B!DataOK
<1>8. ~B!Sent(p, n, m)
  BY <1>2, <1>3 DEF B!Sent
<1>9. ~B!Received(y0, n)
  BY <1>1, <1>5, <1>8 DEF B!SentBefore
<1>10. calls[y0] = n
  <2>1. calls[y0] \in Nat /\ synced[p] = calls[p] /\ synced[p] <= calls[y0]
    BY <1>1 DEF TreeTypes, B!InStep, B!Send
  <2>2. ~(calls[y0] > n)
    BY <1>9 DEF B!Received
  <2> QED BY <1>2, <2>1, <2>2
<1>11. ASSUME NEW q \in B!Member PROVE mail[q][y0] = << >>
  <2> SUFFICES ASSUME mail[q][y0] # << >> PROVE FALSE
    OBVIOUS
  <2>1. PICK m2 \in B!Power2 : B!Above(q, y0, n, m2) /\ B!Sent(q, n, m2)
    BY <1>1, <1>10 DEF B!MailOK
  <2>2. q = p /\ m2 = m
    BY <1>5, <2>1, AboveIsOne
  <2> QED BY <1>8, <2>1, <2>2
<1>12. /\ calls' = calls /\ synced' = synced /\ dest' = dest /\ finished' = finished
       /\ mail' = [mail EXCEPT ![p][y0] = Append(@, n)]
  BY <1>5, <1>7 DEF B!Send
<1>13. /\ mail'[p][y0] = <<n>>
       /\ \A q, y \in B!Member : <<q, y>> # <<p, y0>> => mail'[q][y] = mail[q][y]
       /\ mail' \in [B!Member -> [B!Member -> Seq(0..MaxCalls)]]
  <2>1. mail \in [B!Member -> [B!Member -> Seq(0..MaxCalls)]] /\ n \in 0..MaxCalls
    BY <1>1 DEF TreeTypes
  <2>2. Append(mail[p][y0], n) = <<n>> /\ Append(mail[p][y0], n) \in Seq(0..MaxCalls)
    <3>1. mail[p][y0] = << >>
      BY <1>11
    <3>2. Append(<< >>, n) = <<n>> /\ <<n>> \in Seq(0..MaxCalls)
      BY <2>1
    <3> QED BY <3>1, <3>2
  <2> QED BY <1>12, <2>1, <2>2
<1>14. /\ mask' \in [B!Member -> [mask1 : Nat, mask2 : Nat]]
       /\ pc' \in [B!Member -> {"out", "sync", "loop", "reset"}]
       /\ \A q \in B!Member : q # p => mask'[q] = mask[q] /\ pc'[q] = pc[q]
       /\ pc'[p] \in {"out", "loop"} /\ mask'[p].mask2 \in Nat /\ mask'[p].mask2 < m
       /\ pc'[p] = "out" => mask'[p].mask2 < Stride
       /\ pc'[p] = "loop" => /\ mask'[p].mask2 \in B!Power2
                             /\ mask'[p].mask1 = 2 * mask'[p].mask2 - 1
                             /\ Stride <= mask'[p].mask2
                             /\ 2 * mask'[p].mask2 <= B!PE_size_stride
  BY <1>1, <1>2, AdvanceIs DEF B!Send
<1>15. TreeTypes'
  BY <1>1, <1>12, <1>13, <1>14 DEF TreeTypes
<1>16. B!InStep'
  BY <1>1, <1>12, <1>14 DEF B!InStep, B!Send
<1>17. B!FlagOK'
  <2>1. finished[p] # 1
    BY <1>1, <1>2, <1>3, <1>6 DEF B!FlagOK, B!IsRoot
  <2> QED BY <1>1, <1>12, <1>14, <2>1 DEF B!FlagOK
<1>18. B!MasksOK'
  <2>1. B!PEx(p, n) # 0 => mask'[p].mask2 <= B!LowBit(B!PEx(p, n))
    BY <1>2, <1>3, <1>6, <1>14 DEF B!IsRoot
  <2>2. \A q \in B!Member : q # p =>
          LET k == mask'[q].mask2  x == B!PEx(q, calls'[q])  IN
          IF pc'[q] = "out" THEN k < Stride
          ELSE /\ calls'[q] >= 1
               /\ k \in B!Power2 /\ mask'[q].mask1 = 2 * k - 1
               /\ Stride <= k /\ 2 * k <= B!PE_size_stride
               /\ x # 0 => k <= B!LowBit(x)
               /\ pc'[q] = "sync" => k = B!FirstMask(x).mask2
               /\ pc'[q] = "reset" => finished'[q] = 1
    BY <1>1, <1>12, <1>14 DEF B!MasksOK
  <2>3. calls'[p] = n /\ n >= 1
    BY <1>2, <1>12
  <2> QED BY <1>14, <2>1, <2>2, <2>3 DEF B!MasksOK
<1>19. ASSUME NEW y \in B!Member, NEW k \in 1..MaxCalls, ~B!IsRoot(y, k)
       PROVE  B!Received(y, k)' <=> B!Received(y, k)
  <2>1. CASE y # p
    BY <1>12, <1>14, <2>1 DEF B!Received
  <2>2. CASE y = p /\ k = n
    <3>1. mask'[p].mask2 < B!LowBit(B!PEx(p, n))
      BY <1>2, <1>3, <1>6, <1>14, <1>19, <2>2
    <3>2. B!Received(p, n)'
      BY <1>2, <1>12, <3>1 DEF B!Received
    <3> QED BY <1>6, <1>19, <2>2, <3>2
  <2>3. CASE y = p /\ k # n
    BY <1>2, <1>12, <2>3 DEF B!Received
  <2> QED BY <2>1, <2>2, <2>3
<1>20. ASSUME NEW q \in B!Member, NEW k, NEW m2 \in B!Power2, B!Sent(q, k, m2)
       PROVE  B!Sent(q, k, m2)'
  <2>1. m2 \in Nat /\ mask[p].mask2 \in Nat /\ mask'[p].mask2 <= mask[p].mask2
    BY <1>2, <1>3, <1>14, InPower2
  <2> QED BY <1>1, <1>12, <1>14, <1>20, <2>1, SentStays
<1>21. B!DataOK'
  BY <1>1, <1>12, <1>19 DEF B!DataOK, B!IsRoot
<1>22. \A q, y \in B!Member, k \in 1..MaxCalls : \A m2 : B!Above(q, y, k, m2) => ~B!IsRoot(y, k)
  BY AboveIsOne DEF B!IsRoot
<1>23. B!SentBefore'
  <2> SUFFICES ASSUME NEW q \in B!Member, NEW y \in B!Member, NEW k \in 1..MaxCalls,
                      NEW m2 \in B!Power2, B!Above(q, y, k, m2), B!Received(y, k)'
               PROVE  B!Sent(q, k, m2)'
    BY DEF B!SentBefore, B!Above
  <2> QED BY <1>1, <1>19, <1>20, <1>22 DEF B!SentBefore
<1>24. B!MailOK'
  <2> SUFFICES ASSUME NEW q \in B!Member, NEW y \in B!Member, mail'[q][y] # << >>
               PROVE  \E k \in 1..MaxCalls :
                        /\ calls'[y] = k /\ ~B!Received(y, k)' /\ mail'[q][y] = <<k>>
                        /\ \E m2 \in B!Power2 : B!Above(q, y, k, m2) /\ B!Sent(q, k, m2)'
    BY DEF B!MailOK, B!Above
  <2>1. CASE q = p /\ y = y0
    <3>1. B!Sent(p, n, m)'
      BY <1>2, <1>12, <1>14 DEF B!Sent
    <3>2. ~B!Received(y0, n)'
      BY <1>5, <1>9, <1>19, <1>22
    <3> QED BY <1>5, <1>10, <1>12, <1>13, <2>1, <3>1, <3>2
  <2>2. CASE ~(q = p /\ y = y0)
    <3>1. mail'[q][y] = mail[q][y]
      BY <1>13, <2>2
    <3>2. PICK k \in 1..MaxCalls :
            /\ calls[y] = k /\ ~B!Received(y, k) /\ mail[q][y] = <<k>>
            /\ \E m2 \in B!Power2 : B!Above(q, y, k, m2) /\ B!Sent(q, k, m2)
      BY <1>1, <3>1 DEF B!MailOK
    <3> QED BY <1>12, <1>19, <1>20, <1>22, <3>1, <3>2
  <2> QED BY <2>1, <2>2
<1> QED BY <1>15, <1>16, <1>17, <1>18, <1>21, <1>23, <1>24 DEF BroadcastInv

LEMMA LandInv ==
  ASSUME B!BroadcastAssumption, B!PowersOfTwo,
         BroadcastInv, NEW p \in B!Member, NEW y0 \in B!Member,
         B!Land(p, y0)
  PROVE  BroadcastInv'
<1>1. TreeTypes /\ B!MasksOK /\ B!InStep /\ B!FlagOK /\ B!DataOK /\ B!SentBefore /\ B!MailOK
  BY DEF BroadcastInv
<1>2. PICK n \in 1..MaxCalls :
        /\ calls[y0] = n /\ ~B!Received(y0, n) /\ mail[p][y0] = <<n>>
        /\ \E m \in B!Power2 : B!Above(p, y0, n, m) /\ B!Sent(p, n, m)
  BY <1>1 DEF B!Land, B!MailOK
<1>3. PICK m \in B!Power2 : B!Above(p, y0, n, m) /\ B!Sent(p, n, m)
  BY <1>2
<1>4. Head(<<n>>) = n /\ Tail(<<n>>) = << >>
  OBVIOUS
<1>5. /\ calls' = calls /\ synced' = synced /\ pc' = pc /\ mask' = mask
      /\ dest' = [dest EXCEPT ![y0] = n] /\ finished' = [finished EXCEPT ![y0] = 1]
      /\ mail' = [mail EXCEPT ![p][y0] = << >>]
  BY <1>1, <1>2, <1>4 DEF B!Land
<1>6. /\ \A y \in B!Member : y # y0 => dest'[y] = dest[y] /\ finished'[y] = finished[y]
      /\ dest'[y0] = n /\ finished'[y0] = 1
      /\ mail'[p][y0] = << >>
      /\ \A q, y \in B!Member : <<q, y>> # <<p, y0>> => mail'[q][y] = mail[q][y]
  BY <1>1, <1>5 DEF TreeTypes
<1>7. TreeTypes'
  <2>1. << >> \in Seq(0..MaxCalls) /\ n \in 0..MaxCalls
    OBVIOUS
  <2>2. dest' \in [B!Member -> 0..MaxCalls] /\ finished' \in [B!Member -> 0..1]
    BY <1>1, <1>5, <2>1 DEF TreeTypes
  <2>3. mail' \in [B!Member -> [B!Member -> Seq(0..MaxCalls)]]
    BY <1>1, <1>5, <2>1 DEF TreeTypes
  <2> QED BY <1>1, <1>5, <2>2, <2>3 DEF TreeTypes
<1>8. B!InStep'
  BY <1>1, <1>5 DEF B!InStep
<1>9. B!PEx(y0, n) # 0 /\ B!LowBit(B!PEx(y0, n)) = m /\ m \in Nat
  BY <1>3, AboveIsOne, InPower2
<1>10. pc[y0] # "out" /\ mask[y0].mask2 = m /\ finished[y0] # 1
  <2>1. pc[y0] # "out"
    BY <1>2, <1>9, ReturnedIsQuiet DEF B!IsRoot
  <2>2. mask[y0].mask2 <= m
    BY <1>1, <1>2, <1>9, <2>1 DEF B!MasksOK
  <2>3. ~(mask[y0].mask2 < m) /\ finished[y0] # 1
    BY <1>2, <1>9 DEF B!Received
  <2>4. mask[y0].mask2 \in Nat
    BY <1>1 DEF TreeTypes
  <2> QED BY <1>9, <2>1, <2>2, <2>3, <2>4
<1>11. B!MasksOK'
  BY <1>1, <1>5, <1>6, <1>10 DEF B!MasksOK
<1>12. B!FlagOK'
  BY <1>1, <1>2, <1>5, <1>6, <1>9, <1>10 DEF B!FlagOK
<1>13. \A y \in B!Member : \A k : y # y0 \/ k # n => (B!Received(y, k)' <=> B!Received(y, k))
  BY <1>2, <1>5, <1>6 DEF B!Received
<1>14. \A q \in B!Member : \A k, m2 : B!Sent(q, k, m2)' <=> B!Sent(q, k, m2)
  BY <1>5 DEF B!Sent
<1>15. B!DataOK'
  <2> SUFFICES ASSUME NEW y \in B!Member, NEW k \in 1..MaxCalls, calls'[y] = k,
                      ~B!IsRoot(y, k), B!Received(y, k)'
               PROVE  dest'[y] = k
    BY DEF B!DataOK, B!IsRoot
  <2>1. CASE y = y0
    BY <1>2, <1>5, <1>6, <2>1
  <2>2. CASE y # y0
    BY <1>1, <1>5, <1>6, <1>13, <2>2 DEF B!DataOK
  <2> QED BY <2>1, <2>2
<1>16. B!SentBefore'
  <2> SUFFICES ASSUME NEW q \in B!Member, NEW y \in B!Member, NEW k \in 1..MaxCalls,
                      NEW m2 \in B!Power2, B!Above(q, y, k, m2), B!Received(y, k)'
               PROVE  B!Sent(q, k, m2)'
    BY DEF B!SentBefore, B!Above
  <2>1. CASE y = y0 /\ k = n
    BY <1>3, <1>14, <2>1, AboveIsOne
  <2>2. CASE y # y0 \/ k # n
    BY <1>1, <1>13, <1>14, <2>2 DEF B!SentBefore
  <2> QED BY <2>1, <2>2
<1>17. B!MailOK'
  <2> SUFFICES ASSUME NEW q \in B!Member, NEW y \in B!Member, mail'[q][y] # << >>
               PROVE  \E k \in 1..MaxCalls :
                        /\ calls'[y] = k /\ ~B!Received(y, k)' /\ mail'[q][y] = <<k>>
                        /\ \E m2 \in B!Power2 : B!Above(q, y, k, m2) /\ B!Sent(q, k, m2)'
    BY DEF B!MailOK, B!Above
  <2>1. ~(q = p /\ y = y0) /\ mail'[q][y] = mail[q][y]
    BY <1>6
  <2>2. PICK k \in 1..MaxCalls :
          /\ calls[y] = k /\ ~B!Received(y, k) /\ mail[q][y] = <<k>>
          /\ \E m2 \in B!Power2 : B!Above(q, y, k, m2) /\ B!Sent(q, k, m2)
    BY <1>1, <2>1 DEF B!MailOK
  <2>3. y # y0
    <3> SUFFICES ASSUME y = y0 PROVE FALSE
      OBVIOUS
    <3>1. k = n /\ q = p
      BY <1>2, <1>3, <2>2, AboveIsOne
    <3> QED BY <2>1, <3>1
  <2> QED BY <1>5, <1>13, <1>14, <2>1, <2>2, <2>3
<1> QED BY <1>7, <1>8, <1>11, <1>12, <1>15, <1>16, <1>17 DEF BroadcastInv

LEMMA ReceiveInv ==
  ASSUME B!BroadcastAssumption, B!PowersOfTwo,
         BroadcastInv, NEW p \in B!Member, B!Receive(p)
  PROVE  BroadcastInv'
<1>1. TreeTypes /\ B!MasksOK /\ B!InStep /\ B!FlagOK /\ B!DataOK /\ B!SentBefore /\ B!MailOK
  BY DEF BroadcastInv
<1>2. /\ pc[p] = "loop" /\ finished[p] # 0 /\ pc' = [pc EXCEPT ![p] = "reset"]
      /\ calls' = calls /\ synced' = synced /\ mask' = mask /\ dest' = dest
      /\ finished' = finished /\ mail' = mail
  BY DEF B!Receive
<1>3. finished[p] = 1
  BY <1>1, <1>2 DEF TreeTypes
<1>4. pc'[p] = "reset" /\ \A q \in B!Member : q # p => pc'[q] = pc[q]
  BY <1>1, <1>2 DEF TreeTypes
<1>5. TreeTypes' /\ B!InStep' /\ B!FlagOK'
  BY <1>1, <1>2, <1>4 DEF TreeTypes, B!InStep, B!FlagOK
<1>6. B!MasksOK'
  BY <1>1, <1>2, <1>3, <1>4 DEF B!MasksOK
<1>7. B!DataOK' /\ B!SentBefore' /\ B!MailOK'
  BY <1>1, <1>2 DEF B!DataOK, B!SentBefore, B!MailOK, B!Received, B!Sent
<1> QED BY <1>5, <1>6, <1>7 DEF BroadcastInv

LEMMA ResetInv ==
  ASSUME B!BroadcastAssumption, B!PowersOfTwo, BroadcastInv, NEW p \in B!Member, B!Reset(p)
  PROVE  BroadcastInv'
<1>1. TreeTypes /\ B!MasksOK /\ B!InStep /\ B!FlagOK /\ B!DataOK /\ B!SentBefore /\ B!MailOK
  BY DEF BroadcastInv
<1>2. /\ pc[p] = "reset" /\ B!Advance(p) /\ finished' = [finished EXCEPT ![p] = 0]
      /\ calls' = calls /\ synced' = synced /\ dest' = dest /\ mail' = mail
  BY DEF B!Reset
<1>3. PICK n \in 1..MaxCalls, m \in B!Power2 :
        /\ n = calls[p] /\ m = mask[p].mask2 /\ finished[p] = 1
        /\ B!PEx(p, n) # 0 /\ m = B!LowBit(B!PEx(p, n))
  <2>1. calls[p] \in 0..MaxCalls /\ calls[p] >= 1 /\ MaxCalls \in Nat /\ finished[p] = 1
        /\ mask[p].mask2 \in B!Power2
    BY <1>1, <1>2 DEF TreeTypes, B!MasksOK, B!BroadcastAssumption
  <2>2. calls[p] \in 1..MaxCalls
    BY <2>1
  <2> QED BY <1>1, <2>1, <2>2 DEF B!FlagOK
<1>4. /\ mask' \in [B!Member -> [mask1 : Nat, mask2 : Nat]]
      /\ pc' \in [B!Member -> {"out", "sync", "loop", "reset"}]
      /\ \A q \in B!Member : q # p => mask'[q] = mask[q] /\ pc'[q] = pc[q]
      /\ pc'[p] \in {"out", "loop"} /\ mask'[p].mask2 \in Nat /\ mask'[p].mask2 < m
      /\ pc'[p] = "out" => mask'[p].mask2 < Stride
      /\ pc'[p] = "loop" => /\ mask'[p].mask2 \in B!Power2
                            /\ mask'[p].mask1 = 2 * mask'[p].mask2 - 1
                            /\ Stride <= mask'[p].mask2
                            /\ 2 * mask'[p].mask2 <= B!PE_size_stride
  BY <1>1, <1>2, <1>3, AdvanceIs
<1>5. finished'[p] = 0 /\ \A q \in B!Member : q # p => finished'[q] = finished[q]
  BY <1>1, <1>2 DEF TreeTypes
<1>6. m \in Nat
  BY InPower2
<1>7. TreeTypes'
  <2>1. finished' \in [B!Member -> 0..1]
    BY <1>1, <1>2 DEF TreeTypes
  <2> QED BY <1>1, <1>2, <1>4, <2>1 DEF TreeTypes
<1>8. B!InStep'
  BY <1>1, <1>2, <1>4 DEF B!InStep
<1>9. B!FlagOK'
  BY <1>1, <1>2, <1>4, <1>5 DEF B!FlagOK
<1>10. B!MasksOK'
  <2>1. mask'[p].mask2 <= B!LowBit(B!PEx(p, n))
    BY <1>3, <1>4, <1>6
  <2>2. \A q \in B!Member : q # p =>
          LET k == mask'[q].mask2  x == B!PEx(q, calls'[q])  IN
          IF pc'[q] = "out" THEN k < Stride
          ELSE /\ calls'[q] >= 1
               /\ k \in B!Power2 /\ mask'[q].mask1 = 2 * k - 1
               /\ Stride <= k /\ 2 * k <= B!PE_size_stride
               /\ x # 0 => k <= B!LowBit(x)
               /\ pc'[q] = "sync" => k = B!FirstMask(x).mask2
               /\ pc'[q] = "reset" => finished'[q] = 1
    BY <1>1, <1>2, <1>4, <1>5 DEF B!MasksOK
  <2>3. calls'[p] = n /\ n >= 1
    BY <1>2, <1>3
  <2> QED BY <1>4, <2>1, <2>2, <2>3 DEF B!MasksOK
<1>11. ASSUME NEW y \in B!Member, NEW k
       PROVE  B!Received(y, k)' <=> B!Received(y, k)
  <2>1. CASE y # p
    BY <1>2, <1>4, <1>5, <2>1 DEF B!Received
  <2>2. CASE y = p /\ k = n
    <3>1. B!Received(p, n)
      BY <1>3 DEF B!Received
    <3>2. mask'[p].mask2 < B!LowBit(B!PEx(p, n))
      BY <1>3, <1>4
    <3>3. B!Received(p, n)'
      BY <1>2, <1>3, <3>2 DEF B!Received
    <3> QED BY <2>2, <3>1, <3>3
  <2>3. CASE y = p /\ k # n
    BY <1>2, <1>3, <2>3 DEF B!Received
  <2> QED BY <2>1, <2>2, <2>3
<1>12. ASSUME NEW q \in B!Member, NEW k, NEW m2 \in B!Power2, B!Sent(q, k, m2)
       PROVE  B!Sent(q, k, m2)'
  <2>1. m2 \in Nat /\ mask[p].mask2 \in Nat /\ mask'[p].mask2 <= mask[p].mask2
    BY <1>3, <1>4, <1>6, InPower2
  <2> QED BY <1>1, <1>2, <1>4, <1>12, <2>1, SentStays
<1>13. B!DataOK'
  BY <1>1, <1>2, <1>11 DEF B!DataOK, B!IsRoot
<1>14. B!SentBefore'
  BY <1>1, <1>11, <1>12 DEF B!SentBefore, B!Above
<1>15. B!MailOK'
  <2> SUFFICES ASSUME NEW q \in B!Member, NEW y \in B!Member, mail'[q][y] # << >>
               PROVE  \E k \in 1..MaxCalls :
                        /\ calls'[y] = k /\ ~B!Received(y, k)' /\ mail'[q][y] = <<k>>
                        /\ \E m2 \in B!Power2 : B!Above(q, y, k, m2) /\ B!Sent(q, k, m2)'
    BY DEF B!MailOK, B!Above
  <2>1. PICK k \in 1..MaxCalls :
          /\ calls[y] = k /\ ~B!Received(y, k) /\ mail[q][y] = <<k>>
          /\ \E m2 \in B!Power2 : B!Above(q, y, k, m2) /\ B!Sent(q, k, m2)
    BY <1>1, <1>2 DEF B!MailOK
  <2> QED BY <1>2, <1>11, <1>12, <2>1
<1> QED BY <1>7, <1>8, <1>9, <1>10, <1>13, <1>14, <1>15 DEF BroadcastInv

LEMMA BroadcastNext ==
  ASSUME B!BroadcastAssumption, B!PowersOfTwo, B!IInv, [B!Next]_(B!vars) PROVE B!IInv'
<1>1. BroadcastInv
  BY BroadcastInvIs
<1>2. CASE \E p \in B!Member : B!Step(p) \/ \E q \in B!Member : B!Land(p, q)
  <2>1. PICK p \in B!Member : B!Step(p) \/ \E q \in B!Member : B!Land(p, q)
    BY <1>2
  <2>2. BroadcastInv'
    BY <1>1, <2>1, EnterInv, SyncReturnsInv, SendInv, ReceiveInv, ResetInv, LandInv
       DEF B!Step
  <2> QED BY <2>2, BroadcastInvIs
<1>3. CASE UNCHANGED B!vars
  <2> USE <1>3 DEF B!vars
  <2>1. TreeTypes' /\ B!InStep' /\ B!MasksOK' /\ B!FlagOK'
    BY <1>1 DEF BroadcastInv, TreeTypes, B!InStep, B!MasksOK, B!FlagOK
  <2>2. B!DataOK' /\ B!SentBefore' /\ B!MailOK'
    BY <1>1 DEF BroadcastInv, B!DataOK, B!SentBefore, B!MailOK, B!Received, B!Sent
  <2> QED BY <2>1, <2>2, BroadcastInvIs DEF BroadcastInv
<1> QED BY <1>2, <1>3 DEF B!Next, B!Finished

LEMMA BroadcastInit == ASSUME B!BroadcastAssumption, B!PowersOfTwo, B!Init PROVE B!IInv
BY InitBroadcastInv, BroadcastInvIs

LEMMA ReturnedHasData ==
  ASSUME B!BroadcastAssumption, B!PowersOfTwo, B!IInv PROVE B!DestIsSource
<1>1. BroadcastInv
  BY BroadcastInvIs
<1> SUFFICES ASSUME NEW p \in B!Member, pc[p] = "out", calls[p] > 0, ~B!IsRoot(p, calls[p])
             PROVE  dest[p] = calls[p]
  BY DEF B!DestIsSource
<1>2. calls[p] \in 1..MaxCalls
  BY <1>1 DEF BroadcastInv, TreeTypes, B!BroadcastAssumption
<1>3. B!Received(p, calls[p])
  BY <1>1, <1>2, ReturnedIsQuiet
<1> QED BY <1>1, <1>2, <1>3 DEF BroadcastInv, B!DataOK

LEMMA ReturnedIsLeftAlone ==
  ASSUME B!BroadcastAssumption, B!PowersOfTwo, B!IInv PROVE B!NothingComesLate
<1>1. BroadcastInv /\ TreeTypes
  BY BroadcastInvIs DEF BroadcastInv
<1> SUFFICES ASSUME NEW p \in B!Member, pc[p] = "out", NEW q \in B!Member
             PROVE  /\ mail[q][p] = << >>
                    /\ ~(/\ calls[q] = calls[p] /\ pc[q] = "loop" /\ B!Sends(q)
                         /\ B!PE_to(q) = p)
  BY DEF B!NothingComesLate, B!Until
<1>2. mail[q][p] = << >>
  BY <1>1, ReturnedIsQuiet
<1>3. ASSUME calls[q] = calls[p], pc[q] = "loop", B!Sends(q), B!PE_to(q) = p PROVE FALSE
  <2>1. PICK n \in 1..MaxCalls, m \in B!Power2 :
          /\ n = calls[q] /\ m = mask[q].mask2 /\ mask[q].mask1 = 2 * m - 1
          /\ Stride <= m /\ 2 * m <= B!PE_size_stride
    <3>1. calls[q] \in 0..MaxCalls /\ calls[q] >= 1 /\ MaxCalls \in Nat
      BY <1>1, <1>3 DEF BroadcastInv, TreeTypes, B!MasksOK, B!BroadcastAssumption
    <3>2. calls[q] \in 1..MaxCalls
      BY <3>1
    <3> QED BY <1>1, <1>3, <3>2 DEF BroadcastInv, B!MasksOK
  <2>2. m \in Nat /\ B!PEx(q, n) % (2 * m) = 0
    <3>1. m \in Nat /\ (2 * m - 1) + 1 = 2 * m
      BY InPower2
    <3> QED BY <1>3, <2>1, <3>1 DEF B!Sends
  <2>3. B!Above(q, p, n, m)
    <3>1. B!PE_to(q) = TreePartner(q, n, m)
      BY <2>1 DEF B!PE_to, TreePartner
    <3> QED BY <1>3, <2>1, <2>2, <3>1, SendsTo
  <2>4. B!Received(p, n)
    BY <1>1, <1>3, <2>1, <2>3, AboveIsOne, ReturnedIsQuiet DEF B!IsRoot
  <2>5. B!Sent(q, n, m)
    BY <1>1, <2>3, <2>4 DEF BroadcastInv, B!SentBefore
  <2> QED BY <2>1, <2>2, <2>5 DEF B!Sent
<1> QED BY <1>2, <1>3

LEMMA FlagIsForTheCall ==
  ASSUME B!BroadcastAssumption, B!PowersOfTwo, B!IInv PROVE B!FlagIsOfThisCall
<1>1. BroadcastInv
  BY BroadcastInvIs
<1> SUFFICES ASSUME NEW p \in B!Member, finished[p] = 1
             PROVE  pc[p] \in {"sync", "loop", "reset"} /\ dest[p] = calls[p]
  BY DEF B!FlagIsOfThisCall
<1>2. pc[p] # "out" /\ ~B!IsRoot(p, calls[p])
  BY <1>1 DEF BroadcastInv, B!FlagOK, B!IsRoot
<1>3. calls[p] \in 1..MaxCalls
  BY <1>1, <1>2 DEF BroadcastInv, TreeTypes, B!MasksOK, B!BroadcastAssumption
<1>4. B!Received(p, calls[p])
  BY DEF B!Received
<1> QED BY <1>1, <1>2, <1>3, <1>4 DEF BroadcastInv, TreeTypes, B!DataOK

\* The flag and the data of a PE are of its call, once received; what is in flight is
\* on its way from the PE above, once (def_shmem_broadcastx.h:57-76): MasksOK, FlagOK,
\* DataOK, SentBefore and MailOK.
THEOREM BroadcastGoesDown ==
  ASSUME B!BroadcastAssumption, B!PowersOfTwo PROVE B!Spec => []B!IInv
<1>1. B!Init => B!IInv
  BY BroadcastInit
<1>2. B!IInv /\ [B!Next]_(B!vars) => B!IInv'
  BY BroadcastNext
<1> QED BY <1>1, <1>2, PTL DEF B!Spec

\* On a power of two of PEs every call of a broadcast returns with the root's data
\* of that call in dest (test/broadcast32.c:100), whatever roots the calls have.
THEOREM BroadcastIsRight ==
  ASSUME B!BroadcastAssumption, B!PowersOfTwo PROVE B!Spec => []B!DestIsSource
<1>1. B!IInv => B!DestIsSource
  BY ReturnedHasData
<1> QED BY <1>1, BroadcastGoesDown, PTL

\* The data does not come late although the routine ends without a barrier
\* (def_shmem_broadcastx.h:76) ...
THEOREM BroadcastIsOver ==
  ASSUME B!BroadcastAssumption, B!PowersOfTwo PROVE B!Spec => []B!NothingComesLate
<1>1. B!IInv => B!NothingComesLate
  BY ReturnedIsLeftAlone
<1> QED BY <1>1, BroadcastGoesDown, PTL

\* ... and the one flag word is never up for another call
\* (def_shmem_broadcastx.h:57, 68-72).
THEOREM BroadcastFlagIsRight ==
  ASSUME B!BroadcastAssumption, B!PowersOfTwo PROVE B!Spec => []B!FlagIsOfThisCall
<1>1. B!IInv => B!FlagIsOfThisCall
  BY FlagIsForTheCall
<1> QED BY <1>1, BroadcastGoesDown, PTL

==============================================================================

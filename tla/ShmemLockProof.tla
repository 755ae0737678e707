---------------------------- MODULE ShmemLockProof ----------------------------
(* Proofs about ShmemLock: for every set of PEs and of locks, wherever the    *)
(* locks are, at most one PE holds a lock; and no update of a counter is lost *)
(* when the counter is on the PE with its lock.                               *)
EXTENDS ShmemLock, SequenceTheorems, TLAPS

\* The program goes in when shmem_test_lock returns 1, as the library means it.
OneMeansTaken == Taken = 1

------------------------------------------------------------------------------
(* The queues of posted stores *)

LEMMA QueueIsTyped ==
  ASSUME LockTypeOK, NEW p \in PE, NEW q \in PE
  PROVE  /\ sent[p][q] \in Seq(TStore) /\ Len(sent[p][q]) \in Nat
         /\ \A i \in 1..Len(sent[p][q]) : sent[p][q][i] \in TStore
BY DEF LockTypeOK

\* A posted store is the last one of its queue.
LEMMA PostAppends ==
  ASSUME LockTypeOK, NEW p \in PE, NEW q \in PE, NEW s \in TStore,
         sent' = [sent EXCEPT ![p][q] = Append(@, s)]
  PROVE  /\ sent' \in [PE -> [PE -> Seq(TStore)]]
         /\ \A a, b \in PE : a # p \/ b # q => sent'[a][b] = sent[a][b]
         /\ Len(sent'[p][q]) = Len(sent[p][q]) + 1
         /\ sent'[p][q][Len(sent[p][q]) + 1] = s
         /\ \A i \in 1..Len(sent[p][q]) : sent'[p][q][i] = sent[p][q][i]
<1>1. sent \in [PE -> [PE -> Seq(TStore)]]
  BY DEF LockTypeOK
<1>2. sent'[p][q] = Append(sent[p][q], s)
  BY <1>1
<1>3. sent[p][q] \in Seq(TStore)
  BY <1>1
<1>4. Append(sent[p][q], s) \in Seq(TStore)
  BY <1>3
<1>5. sent' \in [PE -> [PE -> Seq(TStore)]]
  BY <1>1, <1>4
<1> QED BY <1>1, <1>2, <1>3, <1>5

\* A store that lands was the first one of its queue.
LEMMA LandRemoves ==
  ASSUME LockTypeOK, NEW p \in PE, NEW q \in PE, sent[p][q] # << >>,
         sent' = [sent EXCEPT ![p][q] = Tail(@)]
  PROVE  /\ sent' \in [PE -> [PE -> Seq(TStore)]]
         /\ \A a, b \in PE : a # p \/ b # q => sent'[a][b] = sent[a][b]
         /\ Len(sent'[p][q]) = Len(sent[p][q]) - 1 /\ Len(sent[p][q]) > 0
         /\ \A i \in 1..(Len(sent[p][q]) - 1) : sent'[p][q][i] = sent[p][q][i + 1]
         /\ Head(sent[p][q]) = sent[p][q][1] /\ Head(sent[p][q]) \in TStore
<1>1. sent \in [PE -> [PE -> Seq(TStore)]]
  BY DEF LockTypeOK
<1>2. sent'[p][q] = Tail(sent[p][q])
  BY <1>1
<1>3. sent[p][q] \in Seq(TStore) /\ Len(sent[p][q]) > 0
  BY <1>1
<1>4. Tail(sent[p][q]) \in Seq(TStore) /\ Len(Tail(sent[p][q])) = Len(sent[p][q]) - 1
  BY <1>3
<1>5. sent' \in [PE -> [PE -> Seq(TStore)]]
  BY <1>1, <1>4
<1>6. \A i \in 1..(Len(sent[p][q]) - 1) : Tail(sent[p][q])[i] = sent[p][q][i + 1]
  BY <1>3
<1> QED BY <1>1, <1>2, <1>3, <1>4, <1>5, <1>6

LEMMA InitLockInv == LockInit => LockInv
<1> SUFFICES ASSUME LockInit PROVE LockInv OBVIOUS
<1>1. LockTypeOK
  <2>1. (CHOOSE l \in Lock : TRUE) \in Lock
    BY LockAssumption
  <2> QED BY <2>1 DEF LockInit, LockTypeOK
<1>2. \A p, q \in PE : Len(sent[p][q]) = 0
  BY DEF LockInit
<1>3. ReleasedOnce
  BY <1>2 DEF ReleasedOnce
<1>4. OneOwner
  <2>1. \A p \in PE, l \in Lock : ~Owns(p, l)
    BY <1>2, LockAssumption DEF LockInit, Owns, Holds, Releasing
  <2> QED BY <2>1 DEF OneOwner
<1> QED BY <1>1, <1>3, <1>4 DEF LockInv

------------------------------------------------------------------------------
(* Mutual exclusion *)

LEMMA StoreIsTyped ==
  ASSUME LockTypeOK, NEW p \in PE, NEW q \in PE, NEW s \in TStore, s.to = "word" => s.v = 0,
         Store(p, q, s)
  PROVE  /\ word' \in [Lock -> {0, 1}] /\ data' \in [Lock -> Nat]
         /\ sent' \in [PE -> [PE -> Seq(TStore)]]
<1>1. s.to \in {"word", "data"} /\ s.l \in Lock /\ s.v \in Nat
  BY DEF TStore
<1>2. CASE p = q /\ sent[p][q] = << >>
  <2>1. word' \in [Lock -> {0, 1}]
    BY <1>1, <1>2 DEF Store, LockTypeOK
  <2>2. data' \in [Lock -> Nat]
    BY <1>1, <1>2 DEF Store, LockTypeOK
  <2>3. sent' = sent
    BY <1>2 DEF Store
  <2> QED BY <2>1, <2>2, <2>3 DEF LockTypeOK
<1>3. CASE ~(p = q /\ sent[p][q] = << >>)
  <2>1. sent' = [sent EXCEPT ![p][q] = Append(@, s)] /\ word' = word /\ data' = data
    BY <1>3 DEF Store
  <2>2. sent' \in [PE -> [PE -> Seq(TStore)]]
    BY <2>1, PostAppends
  <2> QED BY <2>1, <2>2 DEF LockTypeOK
<1> QED BY <1>2, <1>3

LEMMA TypeStep == ASSUME LockTypeOK, ReleasedOnce, [LockNext]_lockVars PROVE LockTypeOK'
<1>1. ASSUME NEW p \in PE, Section(p) PROVE LockTypeOK'
  <2> DEFINE l == lock[p]
  <2>1. l \in Lock /\ DataOn[l] \in PE /\ HomeOf[l] \in PE /\ r[p] + 1 \in Nat
    <3>1. l \in Lock /\ r[p] \in Nat
      BY DEF LockTypeOK
    <3> QED BY <3>1, LockAssumption
  <2>2. CASE Acquire(p) \/ Load(p)
    BY <2>1, <2>2 DEF Acquire, Load, LockTypeOK
  <2>3. CASE Update(p)
    <3> DEFINE s == [to |-> "data", l |-> l, v |-> r[p] + 1]
    <3>1. s \in TStore /\ s.to # "word" /\ Store(p, DataOn[l], s)
      BY <2>1, <2>3 DEF Update, TStore
    <3>2. /\ word' \in [Lock -> {0, 1}] /\ data' \in [Lock -> Nat]
          /\ sent' \in [PE -> [PE -> Seq(TStore)]]
      BY <2>1, <3>1, StoreIsTyped
    <3>3. stage' = [stage EXCEPT ![p] = "clear"] /\ updates' = [updates EXCEPT ![l] = @ + 1]
          /\ UNCHANGED <<lock, r, tries>>
      BY <2>3 DEF Update
    <3> QED BY <3>2, <3>3 DEF LockTypeOK
  <2>4. CASE ClearLock(p)
    <3> DEFINE s == [to |-> "word", l |-> l, v |-> 0]
    <3>1. s \in TStore /\ s.v = 0 /\ Store(p, HomeOf[l], s)
      BY <2>1, <2>4 DEF ClearLock, TStore
    <3>2. /\ word' \in [Lock -> {0, 1}] /\ data' \in [Lock -> Nat]
          /\ sent' \in [PE -> [PE -> Seq(TStore)]]
      BY <2>1, <3>1, StoreIsTyped
    <3> QED BY <2>4, <3>2 DEF ClearLock, LockTypeOK
  <2> QED BY <1>1, <2>2, <2>3, <2>4 DEF Section
<1>2. ASSUME NEW p \in PE, NEW l \in Lock, SetLock(p, l) \/ TestLock(p, l) PROVE LockTypeOK'
  <2>1. CASE SetLock(p, l)
    BY <2>1 DEF SetLock, Try, LockTypeOK
  <2>2. CASE TestLock(p, l)
    <3>1. word' \in [Lock -> {0, 1}] /\ tries' \in [PE -> Nat] /\ lock' \in [PE -> Lock]
      BY <2>2 DEF TestLock, Try, LockTypeOK
    <3>2. stage' \in [PE -> {"idle", "set", "in", "write", "clear"}]
      BY <2>2 DEF TestLock, LockTypeOK
    <3> QED BY <2>2, <3>1, <3>2 DEF TestLock, LockTypeOK
  <2> QED BY <1>2, <2>1, <2>2
<1>3. ASSUME NEW p \in PE, NEW q \in PE, LandStore(p, q) PROVE LockTypeOK'
  <2> DEFINE s == Head(sent[p][q])
  <2>1. /\ sent' \in [PE -> [PE -> Seq(TStore)]]
        /\ s = sent[p][q][1] /\ s \in TStore /\ Len(sent[p][q]) > 0
    BY <1>3, LandRemoves DEF LandStore
  <2>2. s.to = "word" => s.v = 0
    <3>1. 1 \in 1..Len(sent[p][q])
      BY <2>1, QueueIsTyped
    <3> QED BY <2>1, <3>1 DEF ReleasedOnce
  <2>3. word' \in [Lock -> {0, 1}] /\ data' \in [Lock -> Nat]
    <3>1. s.l \in Lock /\ s.v \in Nat
      BY <2>1 DEF TStore
    <3>2. /\ word' = IF s.to = "word" THEN [word EXCEPT ![s.l] = s.v] ELSE word
          /\ data' = IF s.to = "data" THEN [data EXCEPT ![s.l] = s.v] ELSE data
      BY <1>3 DEF LandStore
    <3> HIDE DEF s
    <3> QED BY <2>2, <3>1, <3>2 DEF LockTypeOK
  <2> QED BY <1>3, <2>1, <2>3 DEF LandStore, LockTypeOK
<1>4. CASE AllTried \/ UNCHANGED lockVars
  BY <1>4 DEF AllTried, lockVars, LockTypeOK
<1> QED BY <1>1, <1>2, <1>3, <1>4 DEF LockNext

\* Steps that post nothing and take or give no lock.
LEMMA KeepsLocks ==
  ASSUME LockInv, sent' = sent, word' = word,
         \A p \in PE, l \in Lock : Holds(p, l)' => Holds(p, l)
  PROVE  ReleasedOnce' /\ OneOwner'
<1>1. ReleasedOnce'
  <2>1. \A p, q \in PE : \A i \in 1..Len(sent[p][q]) : sent[p][q][i].l \in Lock
    BY QueueIsTyped DEF LockInv, TStore
  <2> QED BY <2>1 DEF LockInv, ReleasedOnce, Posted
<1>2. \A p \in PE, l \in Lock : Owns(p, l)' => Owns(p, l)
  BY DEF Owns, Releasing, Posted
<1>3. OneOwner'
  BY <1>2 DEF LockInv, OneOwner
<1> QED BY <1>1, <1>3

\* A testset that finds 0 takes a lock that nobody owns.
LEMMA TakesLock ==
  ASSUME LockInv, NEW p \in PE, NEW l \in Lock,
         word[l] = 0, word' = [word EXCEPT ![l] = 1], sent' = sent,
         \A q \in PE, m \in Lock : Holds(q, m)' => Holds(q, m) \/ (q = p /\ m = l)
  PROVE  ReleasedOnce' /\ OneOwner'
<1>1. \A q \in PE : ~Owns(q, l)
  BY DEF LockInv, OneOwner
<1>2. ReleasedOnce'
  <2>1. ASSUME NEW a \in PE, NEW b \in PE, NEW i \in 1..Len(sent[a][b]),
               sent[a][b][i].to = "word"
        PROVE  sent[a][b][i].l \in Lock /\ sent[a][b][i].l # l
    <3>1. sent[a][b][i].l \in Lock
      BY QueueIsTyped DEF LockInv, TStore
    <3>2. sent[a][b][i].l = l => Releasing(a, l)
      <4>1. ASSUME sent[a][b][i].l = l PROVE b = HomeOf[l] /\ Posted(a, b, i, "word", l)
        BY <2>1, <4>1 DEF LockInv, ReleasedOnce, Posted
      <4> QED BY <4>1 DEF Releasing
    <3> QED BY <1>1, <3>1, <3>2 DEF Owns
  <2> QED BY <2>1 DEF LockInv, ReleasedOnce, Posted
<1>3. \A q \in PE, m \in Lock : Owns(q, m)' => Owns(q, m) \/ (q = p /\ m = l)
  BY DEF Owns, Releasing, Posted
<1>4. OneOwner'
  <2>1. word'[l] = 1 /\ \A m \in Lock : m # l => word'[m] = word[m]
    BY DEF LockInv, LockTypeOK
  <2> QED BY <1>1, <1>3, <2>1 DEF LockInv, OneOwner
<1> QED BY <1>2, <1>4

\* The update of the counter is posted behind the earlier stores.
LEMMA UpdateStep == ASSUME LockInv, NEW p \in PE, Update(p) PROVE ReleasedOnce' /\ OneOwner'
<1> DEFINE l == lock[p]
           q == DataOn[l]
           s == [to |-> "data", l |-> l, v |-> r[p] + 1]
<1>1. l \in Lock /\ r[p] \in Nat /\ LockTypeOK
  BY DEF LockInv, LockTypeOK
<1>2. q \in PE /\ s \in TStore
  BY <1>1, LockAssumption DEF TStore
<1>3. \A a \in PE, m \in Lock : Holds(a, m)' <=> Holds(a, m)
  BY <1>1 DEF Update, Holds, LockTypeOK
<1>4. Store(p, q, s)
  BY DEF Update
<1>5. CASE p = q /\ sent[p][q] = << >>
  <2>1. sent' = sent /\ word' = word
    BY <1>4, <1>5 DEF Store
  <2> QED BY <1>3, <2>1, KeepsLocks
<1>6. CASE ~(p = q /\ sent[p][q] = << >>)
  <2>1. sent' = [sent EXCEPT ![p][q] = Append(@, s)] /\ word' = word
    BY <1>4, <1>6 DEF Store
  <2>2. p # q
    <3>1. \A i \in 1..Len(sent[p][p]) : FALSE
      BY DEF LockInv, ReleasedOnce
    <3>2. sent[p][p] \in Seq(TStore)
      BY <1>1, QueueIsTyped
    <3> QED BY <1>6, <3>1, <3>2
  <2> DEFINE n == Len(sent[p][q])
  <2>3. /\ n \in Nat /\ Len(sent'[p][q]) = n + 1 /\ sent'[p][q][n + 1] = s
        /\ \A a, b \in PE : a # p \/ b # q => sent'[a][b] = sent[a][b]
        /\ \A i \in 1..n : sent'[p][q][i] = sent[p][q][i]
    <3>1. n \in Nat
      BY <1>1, <1>2, QueueIsTyped
    <3> HIDE DEF s, q
    <3>2. p \in PE /\ q \in PE /\ s \in TStore /\ LockTypeOK
      BY <1>1, <1>2
    <3>3. sent' = [sent EXCEPT ![p][q] = Append(@, s)]
      BY <2>1
    <3>4. sent \in [PE -> [PE -> Seq(TStore)]]
      BY <3>2 DEF LockTypeOK
    <3>5. \A a, b \in PE : a # p \/ b # q => sent'[a][b] = sent[a][b]
      BY <3>2, <3>3, <3>4
    <3>6. sent'[p][q] = Append(sent[p][q], s) /\ sent[p][q] \in Seq(TStore)
      BY <3>2, <3>3, <3>4
    <3> QED BY <3>1, <3>2, <3>5, <3>6
  <2>4. ASSUME NEW a \in PE, NEW b \in PE, NEW i, NEW m
        PROVE  Posted(a, b, i, "word", m)' <=> Posted(a, b, i, "word", m)
    <3>1. CASE a # p \/ b # q
      BY <2>3, <3>1 DEF Posted
    <3>2. CASE a = p /\ b = q
      <4>1. s.to # "word"
        OBVIOUS
      <4> HIDE DEF s, n, q
      <4>2. i \in 1..(n + 1) <=> i \in 1..n \/ i = n + 1
        BY <2>3
      <4>3. i \in 1..n => i # n + 1
        BY <2>3
      <4> QED BY <2>3, <3>2, <4>1, <4>2, <4>3 DEF Posted, n
    <3> QED BY <3>1, <3>2
  <2>5. ReleasedOnce'
    <3> SUFFICES ASSUME NEW a \in PE, NEW b \in PE, NEW i \in 1..Len(sent'[a][b]),
                        NEW m, sent'[a][b][i].l = m
                 PROVE  /\ a # b
                        /\ sent'[a][b][i].to = "word" =>
                             /\ b = HomeOf[m] /\ sent'[a][b][i].v = 0 /\ ~Holds(a, m)'
                             /\ \A k \in 1..Len(sent'[a][b]) : Posted(a, b, k, "word", m)' => k = i
      BY DEF ReleasedOnce, Posted, Holds
    <3>1. a # b
      BY <2>2, <2>3 DEF LockInv, ReleasedOnce
    <3>2. ASSUME sent'[a][b][i].to = "word"
          PROVE  i \in 1..Len(sent[a][b]) /\ sent'[a][b][i] = sent[a][b][i] /\ m \in Lock
      <4>1. i \in 1..Len(sent[a][b]) /\ sent'[a][b][i] = sent[a][b][i]
        <5>1. CASE a # p \/ b # q
          BY <2>3, <5>1
        <5>2. CASE a = p /\ b = q
          <6>1. s.to # "word"
            OBVIOUS
          <6> HIDE DEF s, q
          <6>2. i # n + 1
            BY <2>3, <3>2, <5>2, <6>1
          <6>3. i \in 1..n
            BY <2>3, <5>2, <6>2
          <6> QED BY <2>3, <5>2, <6>3
        <5> QED BY <5>1, <5>2
      <4> QED BY <1>1, <4>1, QueueIsTyped DEF TStore
    <3> HIDE DEF s, n, q
    <3>3. ASSUME sent'[a][b][i].to = "word", NEW k \in 1..Len(sent'[a][b]),
                 Posted(a, b, k, "word", m)'
          PROVE  k = i
      <4>1. Posted(a, b, k, "word", m)
        BY <2>4, <3>3
      <4> QED BY <3>2, <3>3, <4>1 DEF LockInv, ReleasedOnce, Posted
    <3> QED BY <1>3, <3>1, <3>2, <3>3 DEF LockInv, ReleasedOnce
  <2>6. OneOwner'
    <3>1. \A a \in PE, m \in Lock : Owns(a, m)' => Owns(a, m)
      <4> SUFFICES ASSUME NEW a \in PE, NEW m \in Lock, Releasing(a, m)' PROVE Releasing(a, m)
        BY <1>3 DEF Owns
      <4>1. HomeOf[m] \in PE
        BY LockAssumption
      <4>2. PICK i : Posted(a, HomeOf[m], i, "word", m)'
        BY DEF Releasing
      <4>3. Posted(a, HomeOf[m], i, "word", m)
        BY <2>4, <4>1, <4>2
      <4> QED BY <4>3 DEF Releasing, Posted
    <3> QED BY <2>1, <3>1 DEF LockInv, OneOwner
  <2> QED BY <2>5, <2>6
<1> QED BY <1>5, <1>6

\* shmem_clear_lock on its own PE opens the lock at once ...
LEMMA ClearAtHome ==
  ASSUME LockInv, NEW p \in PE, NEW l \in Lock, Holds(p, l),
         word' = [word EXCEPT ![l] = 0], sent' = sent, lock' = lock,
         stage' = [stage EXCEPT ![p] = "idle"]
  PROVE  ReleasedOnce' /\ OneOwner'
<1>1. /\ \A a \in PE, m \in Lock : Holds(a, m)' => Holds(a, m)
      /\ \A m \in Lock : ~Holds(p, m)'
  BY DEF LockInv, LockTypeOK, Holds
<1>2. ReleasedOnce'
  <2>1. \A a, b \in PE : \A i \in 1..Len(sent[a][b]) : sent[a][b][i].l \in Lock
    BY QueueIsTyped DEF LockInv, TStore
  <2> QED BY <1>1, <2>1 DEF LockInv, ReleasedOnce, Posted
<1>3. ~Releasing(p, l)
  BY LockAssumption DEF LockInv, ReleasedOnce, Releasing, Posted
<1>4. \A a \in PE, m \in Lock : Owns(a, m)' => Owns(a, m) /\ m # l
  <2>1. \A a \in PE, m \in Lock : Releasing(a, m)' <=> Releasing(a, m)
    BY DEF Releasing, Posted
  <2>2. \A a \in PE : Owns(a, l) => a = p
    BY DEF LockInv, OneOwner, Owns
  <2> QED BY <1>1, <1>3, <2>1, <2>2 DEF Owns
<1>5. OneOwner'
  BY <1>4 DEF LockInv, LockTypeOK, OneOwner
<1> QED BY <1>2, <1>5

\* ... and on another PE when its store lands.
LEMMA ClearPosted ==
  ASSUME LockInv, NEW p \in PE, NEW l \in Lock, Holds(p, l), p # HomeOf[l],
         sent' = [sent EXCEPT ![p][HomeOf[l]] = Append(@, [to |-> "word", l |-> l, v |-> 0])],
         word' = word, lock' = lock, stage' = [stage EXCEPT ![p] = "idle"]
  PROVE  ReleasedOnce' /\ OneOwner'
<1> DEFINE q == HomeOf[l]
           s == [to |-> "word", l |-> l, v |-> 0]
           n == Len(sent[p][q])
<1>1. q \in PE /\ s \in TStore /\ LockTypeOK
  BY LockAssumption DEF TStore, LockInv
<1>2. /\ \A a \in PE, m \in Lock : Holds(a, m)' => Holds(a, m)
      /\ \A m \in Lock : ~Holds(p, m)'
      /\ \A a \in PE, m \in Lock : a # p => (Holds(a, m)' <=> Holds(a, m))
  BY DEF LockInv, LockTypeOK, Holds
<1>3. /\ n \in Nat /\ Len(sent'[p][q]) = n + 1 /\ sent'[p][q][n + 1] = s
      /\ \A a, b \in PE : a # p \/ b # q => sent'[a][b] = sent[a][b]
      /\ \A i \in 1..n : sent'[p][q][i] = sent[p][q][i]
  <2>1. n \in Nat /\ sent' = [sent EXCEPT ![p][q] = Append(@, s)]
    BY <1>1, QueueIsTyped
  <2> HIDE DEF s, q
  <2>2. sent \in [PE -> [PE -> Seq(TStore)]]
    BY <1>1 DEF LockTypeOK
  <2>3. \A a, b \in PE : a # p \/ b # q => sent'[a][b] = sent[a][b]
    BY <1>1, <2>1, <2>2
  <2>4. sent'[p][q] = Append(sent[p][q], s) /\ sent[p][q] \in Seq(TStore)
    BY <1>1, <2>1, <2>2
  <2> QED BY <1>1, <2>1, <2>3, <2>4
<1>4. s.to = "word" /\ s.l = l /\ s.v = 0
  OBVIOUS
<1> HIDE DEF s, q, n
<1>5. \A i \in 1..(n + 1) : i \in 1..n \/ i = n + 1
  BY <1>3
<1>6. \A i \in 1..n : i # n + 1 /\ i \in 1..(n + 1)
  BY <1>3
<1>7. ASSUME NEW i, Posted(p, q, i, "word", l) PROVE FALSE
  <2>1. ~Holds(p, l)
    BY <1>1, <1>7 DEF LockInv, ReleasedOnce, Posted
  <2> QED BY <2>1
<1>8. ASSUME NEW a \in PE, NEW b \in PE, NEW i, NEW m
      PROVE  Posted(a, b, i, "word", m)' <=>
               Posted(a, b, i, "word", m) \/ (a = p /\ b = q /\ i = n + 1 /\ m = l)
  <2>1. CASE a # p \/ b # q
    BY <1>3, <2>1 DEF Posted
  <2>2. CASE a = p /\ b = q
    <3>1. i \in 1..Len(sent'[a][b]) <=> i \in 1..n \/ i = n + 1
      BY <1>3, <1>5, <1>6, <2>2
    <3>2. i \in 1..Len(sent[a][b]) <=> i \in 1..n
      BY <2>2 DEF n
    <3> QED BY <1>3, <1>4, <1>6, <2>2, <3>1, <3>2 DEF Posted
  <2> QED BY <2>1, <2>2
<1>9. ReleasedOnce'
  <2> SUFFICES ASSUME NEW a \in PE, NEW b \in PE, NEW i \in 1..Len(sent'[a][b]),
                      NEW m, sent'[a][b][i].l = m
               PROVE  /\ a # b
                      /\ sent'[a][b][i].to = "word" =>
                           /\ b = HomeOf[m] /\ sent'[a][b][i].v = 0 /\ ~Holds(a, m)'
                           /\ \A k \in 1..Len(sent'[a][b]) : Posted(a, b, k, "word", m)' => k = i
    BY SMTT(20) DEF ReleasedOnce, Posted, Holds
  <2>1. CASE a = p /\ b = q /\ i = n + 1
    <3>1. m = l /\ sent'[a][b][i].v = 0 /\ a # b
      BY <1>3, <1>4, <2>1 DEF q
    <3>2. \A k : Posted(a, b, k, "word", m)' => k = i
      BY <1>1, <1>7, <1>8, <2>1, <3>1
    <3> QED BY <1>2, <2>1, <3>1, <3>2 DEF q
  <2>2. CASE ~(a = p /\ b = q /\ i = n + 1)
    <3>1. i \in 1..Len(sent[a][b]) /\ sent'[a][b][i] = sent[a][b][i]
      <4>1. CASE a # p \/ b # q
        BY <1>3, <4>1
      <4>2. CASE a = p /\ b = q
        BY <1>3, <1>5, <2>2, <4>2 DEF n
      <4> QED BY <4>1, <4>2
    <3>2. m \in Lock /\ a # b
      BY <1>1, <3>1, QueueIsTyped DEF TStore, LockInv, ReleasedOnce
    <3>3. ASSUME sent[a][b][i].to = "word"
          PROVE  /\ b = HomeOf[m] /\ sent[a][b][i].v = 0 /\ ~Holds(a, m)
                 /\ Posted(a, b, i, "word", m)
                 /\ \A k : Posted(a, b, k, "word", m) => k = i
      BY <3>1, <3>3 DEF LockInv, ReleasedOnce, Posted
    <3>4. ASSUME sent[a][b][i].to = "word", NEW k, Posted(a, b, k, "word", m)'
          PROVE  k = i
      <4>1. ~(a = p /\ b = q /\ m = l)
        BY <1>7, <3>3, <3>4
      <4> QED BY <1>8, <3>3, <3>4, <4>1
    <3> QED BY <1>2, <3>1, <3>2, <3>3, <3>4
  <2> QED BY <2>1, <2>2
<1>10. \A a \in PE, m \in Lock : Owns(a, m)' => Owns(a, m)
  <2> SUFFICES ASSUME NEW a \in PE, NEW m \in Lock, Releasing(a, m)' PROVE Owns(a, m)
    BY <1>2 DEF Owns
  <2>1. HomeOf[m] \in PE
    BY LockAssumption
  <2>2. PICK i : Posted(a, HomeOf[m], i, "word", m)'
    BY DEF Releasing
  <2>3. CASE Posted(a, HomeOf[m], i, "word", m)
    BY <2>3 DEF Owns, Releasing, Posted
  <2>4. CASE a = p /\ m = l
    BY <2>4 DEF Owns
  <2> QED BY <1>8, <2>1, <2>2, <2>3, <2>4
<1>11. OneOwner'
  BY <1>10 DEF LockInv, OneOwner
<1> QED BY <1>9, <1>11

LEMMA ClearStep == ASSUME LockInv, NEW p \in PE, ClearLock(p) PROVE ReleasedOnce' /\ OneOwner'
<1> DEFINE l == lock[p]
           s == [to |-> "word", l |-> l, v |-> 0]
<1>1. l \in Lock /\ Holds(p, l) /\ HomeOf[l] \in PE
  BY LockAssumption DEF ClearLock, Holds, LockInv, LockTypeOK
<1>2. Store(p, HomeOf[l], s) /\ lock' = lock /\ stage' = [stage EXCEPT ![p] = "idle"]
  BY DEF ClearLock
<1>3. CASE p = HomeOf[l]
  <2>1. \A i \in 1..Len(sent[p][p]) : FALSE
    BY DEF LockInv, ReleasedOnce
  <2>2. sent[p][p] = << >>
    BY <2>1, QueueIsTyped DEF LockInv
  <2>3. word' = [word EXCEPT ![l] = 0] /\ sent' = sent
    BY <1>2, <1>3, <2>2 DEF Store
  <2> QED BY <1>1, <1>2, <2>3, ClearAtHome
<1>4. CASE p # HomeOf[l]
  <2>1. sent' = [sent EXCEPT ![p][HomeOf[l]] = Append(@, s)] /\ word' = word
    BY <1>2, <1>4 DEF Store
  <2> QED BY <1>1, <1>2, <1>4, <2>1, ClearPosted
<1> QED BY <1>3, <1>4

\* What is still on its way after the first store from p to q has landed.
LEMMA LandPosted ==
  ASSUME LockInv, NEW p \in PE, NEW q \in PE, LandStore(p, q)
  PROVE  /\ Posted(p, q, 1, sent[p][q][1].to, sent[p][q][1].l)
         /\ \A a, b \in PE : a # p \/ b # q => sent'[a][b] = sent[a][b]
         /\ \A i \in 1..Len(sent'[p][q]) :
              /\ i + 1 \in 1..Len(sent[p][q]) /\ i + 1 # 1 /\ i + 1 \in Nat
              /\ sent'[p][q][i] = sent[p][q][i + 1]
         /\ \A a, b \in PE : \A i \in 1..Len(sent'[a][b]) : sent'[a][b][i] \in TStore
<1> DEFINE n == Len(sent[p][q])
<1>1. LockTypeOK /\ sent[p][q] # << >> /\ sent' = [sent EXCEPT ![p][q] = Tail(@)]
  BY DEF LandStore, LockInv
<1>2. /\ n \in Nat /\ Len(sent'[p][q]) = n - 1 /\ n > 0
      /\ \A a, b \in PE : a # p \/ b # q => sent'[a][b] = sent[a][b]
      /\ \A i \in 1..(n - 1) : sent'[p][q][i] = sent[p][q][i + 1]
      /\ sent' \in [PE -> [PE -> Seq(TStore)]]
  BY <1>1, LandRemoves, QueueIsTyped
<1>3. \A i \in 1..(n - 1) : i + 1 \in 1..n /\ i + 1 # 1 /\ i + 1 \in Nat
  BY <1>2
<1>4. 1 \in 1..n
  BY <1>2
<1>5. \A a, b \in PE : \A i \in 1..Len(sent'[a][b]) : sent'[a][b][i] \in TStore
  BY <1>2
<1> QED BY <1>2, <1>3, <1>4, <1>5 DEF Posted

LEMMA LandStep ==
  ASSUME LockInv, NEW p \in PE, NEW q \in PE, LandStore(p, q) PROVE ReleasedOnce' /\ OneOwner'
<1> DEFINE s == sent[p][q][1]
<1>1. /\ Posted(p, q, 1, s.to, s.l) /\ s \in TStore
      /\ \A a, b \in PE : a # p \/ b # q => sent'[a][b] = sent[a][b]
      /\ \A i \in 1..Len(sent'[p][q]) :
           /\ i + 1 \in 1..Len(sent[p][q]) /\ i + 1 # 1 /\ i + 1 \in Nat
           /\ sent'[p][q][i] = sent[p][q][i + 1]
      /\ \A a, b \in PE : \A i \in 1..Len(sent'[a][b]) : sent'[a][b][i] \in TStore
  BY LandPosted, QueueIsTyped DEF LockInv, Posted
<1>2. \A a \in PE, m \in Lock : Holds(a, m)' <=> Holds(a, m)
  BY DEF LandStore, Holds
<1>3. ASSUME NEW a \in PE, NEW b \in PE, NEW i, NEW m, Posted(a, b, i, "word", m)'
      PROVE  IF a = p /\ b = q THEN i + 1 # 1 /\ Posted(a, b, i + 1, "word", m)
                               ELSE Posted(a, b, i, "word", m)
  BY <1>1, <1>3 DEF Posted
<1>4. word' = IF s.to = "word" THEN [word EXCEPT ![s.l] = s.v] ELSE word
  <2>1. sent[p][q] \in Seq(TStore) /\ sent[p][q] # << >>
    BY QueueIsTyped DEF LockInv, LandStore
  <2>2. Head(sent[p][q]) = s
    BY <2>1
  <2> QED BY <2>2 DEF LandStore
<1> HIDE DEF s
<1>5. ReleasedOnce'
  <2> SUFFICES ASSUME NEW a \in PE, NEW b \in PE, NEW i \in 1..Len(sent'[a][b]),
                      NEW m, sent'[a][b][i].l = m
               PROVE  /\ a # b
                      /\ sent'[a][b][i].to = "word" =>
                           /\ b = HomeOf[m] /\ sent'[a][b][i].v = 0 /\ ~Holds(a, m)'
                           /\ \A k \in 1..Len(sent'[a][b]) : Posted(a, b, k, "word", m)' => k = i
    BY DEF ReleasedOnce, Posted, Holds
  <2>1. m \in Lock
    BY <1>1 DEF TStore
  <2>2. CASE ~(a = p /\ b = q)
    <3>1. i \in 1..Len(sent[a][b]) /\ sent'[a][b][i] = sent[a][b][i]
      BY <1>1, <2>2
    <3>2. \A k : Posted(a, b, k, "word", m)' => Posted(a, b, k, "word", m)
      BY <1>3, <2>2
    <3>3. a # b
      BY <3>1 DEF LockInv, ReleasedOnce
    <3>4. ASSUME sent[a][b][i].to = "word"
          PROVE  /\ b = HomeOf[m] /\ sent[a][b][i].v = 0 /\ ~Holds(a, m)
                 /\ \A k : Posted(a, b, k, "word", m) => k = i
      BY <3>1, <3>4 DEF LockInv, ReleasedOnce, Posted
    <3> QED BY <1>2, <2>1, <3>1, <3>2, <3>3, <3>4
  <2>3. CASE a = p /\ b = q
    <3>1. i + 1 \in 1..Len(sent[a][b]) /\ sent'[a][b][i] = sent[a][b][i + 1]
      BY <1>1, <2>3
    <3>2. ASSUME sent'[a][b][i].to = "word", NEW k \in 1..Len(sent'[a][b]),
                 Posted(a, b, k, "word", m)'
          PROVE  k = i
      <4>1. Posted(a, b, k + 1, "word", m)
        BY <1>3, <2>3, <3>2
      <4>2. k + 1 = i + 1
        BY <3>1, <3>2, <4>1 DEF LockInv, ReleasedOnce, Posted
      <4> QED BY <4>2
    <3>3. /\ a # b
          /\ sent[a][b][i + 1].to = "word" =>
               b = HomeOf[m] /\ sent[a][b][i + 1].v = 0 /\ ~Holds(a, m)
      BY <3>1 DEF LockInv, ReleasedOnce
    <3> QED BY <1>2, <2>1, <3>1, <3>2, <3>3
  <2> QED BY <2>2, <2>3
<1>6. ASSUME NEW a \in PE, NEW m \in Lock, Owns(a, m)'
      PROVE  Owns(a, m) /\ ~(s.to = "word" /\ s.l = m)
  <2>1. HomeOf[m] \in PE
    BY LockAssumption
  <2>2. Owns(a, m)
    <3>1. CASE Holds(a, m)'
      BY <1>2, <3>1 DEF Owns
    <3>2. CASE Releasing(a, m)'
      <4>1. PICK i : Posted(a, HomeOf[m], i, "word", m)'
        BY <3>2 DEF Releasing
      <4>2. Posted(a, HomeOf[m], i, "word", m) \/ Posted(a, HomeOf[m], i + 1, "word", m)
        BY <1>3, <2>1, <4>1
      <4> QED BY <4>2 DEF Owns, Releasing, Posted
    <3> QED BY <1>6, <3>1, <3>2 DEF Owns
  <2>3. ASSUME s.to = "word", s.l = m PROVE FALSE
    <3>1. Posted(p, q, 1, "word", m) /\ q = HomeOf[m] /\ ~Holds(p, m)
      BY <1>1, <2>3 DEF LockInv, ReleasedOnce, Posted, s
    <3>2. Owns(p, m)
      BY <3>1 DEF Owns, Releasing, Posted
    <3>3. a = p
      BY <2>2, <3>2 DEF LockInv, OneOwner
    <3>4. PICK i : Posted(p, q, i, "word", m)'
      BY <1>2, <1>6, <3>1, <3>3 DEF Owns, Releasing
    <3>5. Posted(p, q, i + 1, "word", m) /\ i + 1 # 1
      BY <1>3, <3>4
    <3> QED BY <3>1, <3>5 DEF LockInv, ReleasedOnce, Posted
  <2> QED BY <2>2, <2>3
<1>7. OneOwner'
  <2>1. \A m \in Lock : ~(s.to = "word" /\ s.l = m) => word'[m] = word[m]
    BY <1>4 DEF LockInv, LockTypeOK
  <2> QED BY <1>6, <2>1 DEF LockInv, OneOwner
<1> QED BY <1>5, <1>7

\* Calling, looking and loading take no lock; what a testset found does.
LEMMA CallStep ==
  ASSUME LockInv, OneMeansTaken, NEW p \in PE, NEW l \in Lock, SetLock(p, l) \/ TestLock(p, l)
  PROVE  ReleasedOnce' /\ OneOwner'
<1>1. CASE SetLock(p, l)
  <2>1. \A a \in PE, m \in Lock : Holds(a, m)' => Holds(a, m)
    BY <1>1 DEF SetLock, Try, Holds, LockInv, LockTypeOK
  <2> QED BY <1>1, <2>1, KeepsLocks DEF SetLock
<1>2. CASE TestLock(p, l)
  <2>1. CASE word[l] = 0
    <3>1. word' = [word EXCEPT ![l] = 1] /\ sent' = sent
      BY <1>2, <2>1 DEF TestLock
    <3>2. \A a \in PE, m \in Lock : Holds(a, m)' => Holds(a, m) \/ (a = p /\ m = l)
      BY <1>2 DEF TestLock, Try, Holds, LockInv, LockTypeOK
    <3> QED BY <2>1, <3>1, <3>2, TakesLock
  <2>2. CASE word[l] # 0
    <3>1. word' = word /\ sent' = sent
      BY <1>2, <2>2 DEF TestLock, LockInv, LockTypeOK
    <3>2. Result(word[l]) # Taken
      BY <2>2 DEF Result, OneMeansTaken
    <3>3. \A a \in PE, m \in Lock : Holds(a, m)' => Holds(a, m)
      BY <1>2, <3>2 DEF TestLock, Try, Holds, LockInv, LockTypeOK
    <3> QED BY <3>1, <3>3, KeepsLocks
  <2> QED BY <2>1, <2>2
<1> QED BY <1>1, <1>2

LEMMA NextLockInv == ASSUME LockInv, OneMeansTaken, [LockNext]_lockVars PROVE LockInv'
<1>1. LockTypeOK'
  BY TypeStep DEF LockInv
<1>2. ASSUME NEW p \in PE, Acquire(p) PROVE ReleasedOnce' /\ OneOwner'
  <2>1. lock[p] \in Lock /\ word[lock[p]] = 0 /\ word' = [word EXCEPT ![lock[p]] = 1] /\ sent' = sent
    BY <1>2 DEF Acquire, LockInv, LockTypeOK
  <2>2. \A a \in PE, m \in Lock : Holds(a, m)' => Holds(a, m) \/ (a = p /\ m = lock[p])
    BY <1>2 DEF Acquire, Holds, LockInv, LockTypeOK
  <2> QED BY <2>1, <2>2, TakesLock
<1>3. ASSUME NEW p \in PE, Load(p) PROVE ReleasedOnce' /\ OneOwner'
  <2>1. \A a \in PE, m \in Lock : Holds(a, m)' => Holds(a, m)
    BY <1>3 DEF Load, Holds, LockInv, LockTypeOK
  <2> QED BY <1>3, <2>1, KeepsLocks DEF Load
<1>4. ASSUME AllTried \/ UNCHANGED lockVars PROVE ReleasedOnce' /\ OneOwner'
  <2>1. \A a \in PE, m \in Lock : Holds(a, m)' => Holds(a, m)
    BY <1>4 DEF AllTried, lockVars, Holds
  <2> QED BY <1>4, <2>1, KeepsLocks DEF AllTried, lockVars
<1>5. ReleasedOnce' /\ OneOwner'
  BY <1>2, <1>3, <1>4, UpdateStep, ClearStep, LandStep, CallStep DEF LockNext, Section
<1> QED BY <1>1, <1>5 DEF LockInv

\* Type correctness, and a lock has one owner until its release has landed.
THEOREM LocksAreOwned == ASSUME OneMeansTaken PROVE LockSpec => []LockInv
<1>1. LockInv /\ [LockNext]_lockVars => LockInv'
  BY NextLockInv
<1> QED BY <1>1, InitLockInv, PTL DEF LockSpec

\* Between having set a lock and clearing it there is at most one PE, for every
\* number of PEs and locks and wherever the locks are.
THEOREM LocksExclude == ASSUME OneMeansTaken PROVE LockSpec => []MutualExclusion
<1>1. LockInv => MutualExclusion
  BY DEF LockInv, OneOwner, Owns, MutualExclusion
<1> QED BY <1>1, LocksAreOwned, PTL

------------------------------------------------------------------------------
(* No update is lost *)

\* Counters are on the PE that their lock is on.
NextToLock == DataOn = HomeOf

\* The parts of UpdatedFirst: of a store to a counter on its way, ...
UpdateOnWay(p, q, i, m) ==
  /\ q = DataOn[m] /\ sent[p][q][i].v = updates[m] /\ Owns(p, m)
  /\ ~(stage[p] \in {"in", "write"} /\ lock[p] = m)
  /\ \A k \in 1..Len(sent[p][q]) : /\ Posted(p, q, k, "data", m) => k = i
                                   /\ Posted(p, q, k, "word", m) => i < k
\* ... of a counter with no store on its way, and of a PE that is about to store.
CounterIsUpToDate(m) == (\A p \in PE : ~Updating(p, m)) => data[m] = updates[m]
ReadIsUpToDate(p) == stage[p] = "write" => r[p] = updates[lock[p]]

LEMMA UpdatedParts ==
  UpdatedFirst <=>
    /\ \A p, q \in PE : \A i \in 1..Len(sent[p][q]) :
         sent[p][q][i].to = "data" => UpdateOnWay(p, q, i, sent[p][q][i].l)
    /\ \A m \in Lock : CounterIsUpToDate(m)
    /\ \A p \in PE : ReadIsUpToDate(p)
BY DEF UpdatedFirst, UpdateOnWay, CounterIsUpToDate, ReadIsUpToDate

LEMMA PostedParts ==
  ASSUME SectionInv, NEW p \in PE, NEW q \in PE, NEW i, NEW m, Posted(p, q, i, "data", m)
  PROVE  UpdateOnWay(p, q, i, m) /\ m \in Lock /\ i \in Nat
<1>1. i \in 1..Len(sent[p][q]) /\ sent[p][q][i].to = "data" /\ sent[p][q][i].l = m
  BY DEF Posted
<1>2. sent[p][q][i] \in TStore /\ Len(sent[p][q]) \in Nat
  BY <1>1, QueueIsTyped DEF SectionInv, LockInv
<1> QED BY <1>1, <1>2, UpdatedParts DEF SectionInv, TStore

LEMMA InitUpdated == LockInit => UpdatedFirst
<1> SUFFICES ASSUME LockInit PROVE UpdatedFirst OBVIOUS
<1>1. \A p, q \in PE : Len(sent[p][q]) = 0
  BY DEF LockInit
<1> QED BY <1>1 DEF LockInit, UpdatedFirst

\* What a step shows to have the parts of UpdatedFirst after it.
LEMMA UpdatedNext ==
  ASSUME \A p, q \in PE : \A i, m : Posted(p, q, i, "data", m)' => UpdateOnWay(p, q, i, m)',
         \A m \in Lock : CounterIsUpToDate(m)',
         \A p \in PE : ReadIsUpToDate(p)'
  PROVE  UpdatedFirst'
<1>1. ASSUME NEW p \in PE, NEW q \in PE, NEW i \in 1..Len(sent'[p][q]),
             NEW m, sent'[p][q][i].l = m, sent'[p][q][i].to = "data"
      PROVE  UpdateOnWay(p, q, i, m)'
  BY <1>1 DEF Posted
<1> QED BY <1>1 DEF UpdatedFirst, UpdateOnWay, CounterIsUpToDate, ReadIsUpToDate

\* Nobody else has a store to the counter of an owned lock on its way.
LEMMA OwnerUpdates ==
  ASSUME SectionInv, NextToLock, NEW p \in PE, NEW m \in Lock, Owns(p, m), NEW a \in PE, Updating(a, m)
  PROVE  a = p /\ ~(stage[p] \in {"in", "write"} /\ lock[p] = m)
<1>1. PICK i : Posted(a, DataOn[m], i, "data", m)
  BY DEF Updating
<1>2. UpdateOnWay(a, DataOn[m], i, m)
  BY <1>1, PostedParts, LockAssumption
<1>3. a = p
  BY <1>2 DEF UpdateOnWay, SectionInv, LockInv, OneOwner
<1> QED BY <1>2, <1>3 DEF UpdateOnWay

\* Steps that store nothing and give up no lock.
LEMMA KeepsUpdates ==
  ASSUME SectionInv, NextToLock, sent' = sent, data' = data, updates' = updates,
         \A a \in PE, m \in Lock : Owns(a, m) => Owns(a, m)',
         \A a \in PE, m \in Lock : stage'[a] \in {"in", "write"} /\ lock'[a] = m =>
           (stage[a] \in {"in", "write"} /\ lock[a] = m) \/ word[m] = 0,
         \A a \in PE : ReadIsUpToDate(a)'
  PROVE  UpdatedFirst'
<1>1. ASSUME NEW p \in PE, NEW q \in PE, NEW i, NEW m, Posted(p, q, i, "data", m)'
      PROVE  UpdateOnWay(p, q, i, m)'
  <2>1. Posted(p, q, i, "data", m)
    BY <1>1 DEF Posted
  <2>2. UpdateOnWay(p, q, i, m) /\ m \in Lock
    BY <2>1, PostedParts
  <2>3. Owns(p, m) /\ word[m] # 0 /\ Owns(p, m)'
    BY <2>2 DEF UpdateOnWay, SectionInv, LockInv, OneOwner
  <2>4. ~(stage'[p] \in {"in", "write"} /\ lock'[p] = m)
    BY <2>2, <2>3 DEF UpdateOnWay
  <2> QED BY <2>2, <2>3, <2>4 DEF UpdateOnWay, Posted
<1>2. \A m \in Lock : CounterIsUpToDate(m)'
  BY UpdatedParts DEF SectionInv, CounterIsUpToDate, Updating, Posted
<1> QED BY <1>1, <1>2, UpdatedNext

\* What holds of all steps that post nothing and give up no lock.
LEMMA KeepsOwners ==
  ASSUME sent' = sent, \A a \in PE, m \in Lock : Holds(a, m) => Holds(a, m)'
  PROVE  \A a \in PE, m \in Lock : Owns(a, m) => Owns(a, m)'
BY DEF Owns, Releasing, Posted

LEMMA TryUpdated ==
  ASSUME SectionInv, NextToLock, OneMeansTaken, NEW p \in PE, NEW l \in Lock,
         SetLock(p, l) \/ TestLock(p, l)
  PROVE  UpdatedFirst'
<1>1. sent' = sent /\ data' = data /\ updates' = updates /\ r' = r
  BY DEF SetLock, TestLock
<1>2. stage[p] = "idle" /\ lock' = [lock EXCEPT ![p] = l]
  BY DEF SetLock, TestLock, Try
<1>3. /\ \A a \in PE : a # p => stage'[a] = stage[a]
      /\ stage'[p] \in {"set", "idle"} \/ (stage'[p] = "in" /\ word[l] = 0)
  <2>1. CASE SetLock(p, l)
    BY <2>1 DEF SetLock, SectionInv, LockInv, LockTypeOK
  <2>2. CASE TestLock(p, l)
    BY <2>2 DEF TestLock, Result, OneMeansTaken, SectionInv, LockInv, LockTypeOK
  <2> QED BY <2>1, <2>2
<1>4. \A a \in PE, m \in Lock : Holds(a, m) => Holds(a, m)'
  BY <1>2, <1>3 DEF Holds, SectionInv, LockInv, LockTypeOK
<1>5. \A a \in PE, m \in Lock : stage'[a] \in {"in", "write"} /\ lock'[a] = m =>
        (stage[a] \in {"in", "write"} /\ lock[a] = m) \/ word[m] = 0
  BY <1>2, <1>3 DEF SectionInv, LockInv, LockTypeOK
<1>6. \A a \in PE : ReadIsUpToDate(a)'
  BY <1>1, <1>2, <1>3, UpdatedParts DEF ReadIsUpToDate, SectionInv, LockInv, LockTypeOK
<1> QED BY <1>1, <1>4, <1>5, <1>6, KeepsOwners, KeepsUpdates

LEMMA AcquireUpdated ==
  ASSUME SectionInv, NextToLock, NEW p \in PE, Acquire(p) PROVE UpdatedFirst'
<1>1. /\ sent' = sent /\ data' = data /\ updates' = updates /\ r' = r /\ lock' = lock
      /\ stage[p] = "set" /\ stage' = [stage EXCEPT ![p] = "in"] /\ word[lock[p]] = 0
  BY DEF Acquire
<1>2. \A a \in PE, m \in Lock : Holds(a, m) => Holds(a, m)'
  BY <1>1 DEF Holds, SectionInv, LockInv, LockTypeOK
<1>3. \A a \in PE, m \in Lock : stage'[a] \in {"in", "write"} /\ lock'[a] = m =>
        (stage[a] \in {"in", "write"} /\ lock[a] = m) \/ word[m] = 0
  BY <1>1 DEF SectionInv, LockInv, LockTypeOK
<1>4. \A a \in PE : ReadIsUpToDate(a)'
  BY <1>1, UpdatedParts DEF ReadIsUpToDate, SectionInv, LockInv, LockTypeOK
<1> QED BY <1>1, <1>2, <1>3, <1>4, KeepsOwners, KeepsUpdates

\* The holder finds the last update: none is on its way.
LEMMA LoadUpdated ==
  ASSUME SectionInv, NextToLock, NEW p \in PE, Load(p) PROVE UpdatedFirst'
<1> DEFINE l == lock[p]
<1>1. /\ sent' = sent /\ data' = data /\ updates' = updates /\ lock' = lock /\ word' = word
      /\ stage[p] = "in" /\ stage' = [stage EXCEPT ![p] = "write"] /\ r' = [r EXCEPT ![p] = data[l]]
  BY DEF Load
<1>2. \A a \in PE, m \in Lock : Holds(a, m) => Holds(a, m)'
  BY <1>1 DEF Holds, SectionInv, LockInv, LockTypeOK
<1>3. \A a \in PE, m \in Lock : stage'[a] \in {"in", "write"} /\ lock'[a] = m =>
        (stage[a] \in {"in", "write"} /\ lock[a] = m) \/ word[m] = 0
  BY <1>1 DEF SectionInv, LockInv, LockTypeOK
<1>4. l \in Lock /\ Owns(p, l)
  BY <1>1 DEF Owns, Holds, SectionInv, LockInv, LockTypeOK
<1>5. data[l] = updates[l]
  <2>1. \A a \in PE : ~Updating(a, l)
    BY <1>1, <1>4, OwnerUpdates
  <2> QED BY <1>4, <2>1, UpdatedParts DEF SectionInv, CounterIsUpToDate
<1>6. \A a \in PE : ReadIsUpToDate(a)'
  BY <1>1, <1>5, UpdatedParts DEF ReadIsUpToDate, SectionInv, LockInv, LockTypeOK
<1> QED BY <1>1, <1>2, <1>3, <1>6, KeepsOwners, KeepsUpdates

\* The release is posted behind the update, or there is none on its way.
LEMMA ClearUpdated ==
  ASSUME SectionInv, NextToLock, NEW p \in PE, ClearLock(p) PROVE UpdatedFirst'
<1> DEFINE l == lock[p]
           q == HomeOf[l]
           s == [to |-> "word", l |-> l, v |-> 0]
<1>1. l \in Lock /\ q \in PE /\ s \in TStore /\ LockTypeOK /\ q = DataOn[l]
  BY LockAssumption DEF SectionInv, LockInv, LockTypeOK, TStore, NextToLock
<1>2. /\ Store(p, q, s) /\ lock' = lock /\ r' = r /\ updates' = updates
      /\ stage[p] = "clear" /\ stage' = [stage EXCEPT ![p] = "idle"]
  BY DEF ClearLock
<1>3. data' = data
  BY <1>2 DEF Store
<1>4. /\ \A a \in PE : stage'[a] \in {"in", "write"} => stage[a] = stage'[a]
      /\ \A a \in PE, m \in Lock : Holds(a, m) /\ ~(a = p /\ m = l) => Holds(a, m)'
  BY <1>2 DEF Holds, SectionInv, LockInv, LockTypeOK
<1>5. \A a \in PE : ReadIsUpToDate(a)'
  BY <1>2, <1>4, UpdatedParts DEF ReadIsUpToDate, SectionInv
<1>6. CASE p = q
  <2>1. \A i \in 1..Len(sent[p][p]) : FALSE
    BY DEF SectionInv, LockInv, ReleasedOnce
  <2>2. sent[p][p] = << >>
    BY <1>1, <2>1, QueueIsTyped
  <2>3. sent' = sent
    BY <1>2, <1>6, <2>2 DEF Store
  <2>4. ASSUME NEW a \in PE, NEW b \in PE, NEW i, NEW m, Posted(a, b, i, "data", m)'
        PROVE  UpdateOnWay(a, b, i, m)'
    <3>1. Posted(a, b, i, "data", m)
      BY <2>3, <2>4 DEF Posted
    <3>2. UpdateOnWay(a, b, i, m) /\ m \in Lock
      BY <3>1, PostedParts
    <3>3. ~(a = p /\ m = l)
      BY <1>1, <1>6, <2>1, <3>1, <3>2 DEF UpdateOnWay, Posted
    <3>4. Owns(a, m)'
      BY <1>4, <2>3, <3>2, <3>3 DEF UpdateOnWay, Owns, Releasing, Posted
    <3> QED BY <1>2, <1>4, <2>3, <3>2, <3>4 DEF UpdateOnWay, Posted
  <2>5. \A m \in Lock : CounterIsUpToDate(m)'
    BY <1>2, <1>3, <2>3, UpdatedParts DEF SectionInv, CounterIsUpToDate, Updating, Posted
  <2> QED BY <1>5, <2>4, <2>5, UpdatedNext
<1>7. CASE p # q
  <2> DEFINE n == Len(sent[p][q])
  <2>1. sent' = [sent EXCEPT ![p][q] = Append(@, s)]
    BY <1>2, <1>7 DEF Store
  <2>2. /\ n \in Nat /\ Len(sent'[p][q]) = n + 1 /\ sent'[p][q][n + 1] = s
        /\ \A a, b \in PE : a # p \/ b # q => sent'[a][b] = sent[a][b]
        /\ \A i \in 1..n : sent'[p][q][i] = sent[p][q][i]
    <3> HIDE DEF s, q
    <3>1. sent \in [PE -> [PE -> Seq(TStore)]]
      BY <1>1 DEF LockTypeOK
    <3>2. \A a, b \in PE : a # p \/ b # q => sent'[a][b] = sent[a][b]
      BY <1>1, <2>1, <3>1
    <3>3. sent'[p][q] = Append(sent[p][q], s) /\ sent[p][q] \in Seq(TStore)
      BY <1>1, <2>1, <3>1
    <3> QED BY SMTT(20), <1>1, <3>2, <3>3
  <2>3. s.to = "word" /\ s.l = l
    OBVIOUS
  <2> HIDE DEF s, q, n
  <2>4. ASSUME NEW a \in PE, NEW b \in PE, NEW i, NEW to, NEW m
        PROVE  Posted(a, b, i, to, m)' <=>
                 Posted(a, b, i, to, m) \/ (a = p /\ b = q /\ i = n + 1 /\ to = "word" /\ m = l)
    <3>1. CASE a # p \/ b # q
      BY <2>2, <3>1 DEF Posted
    <3>2. CASE a = p /\ b = q
      <4>1. i \in 1..Len(sent'[a][b]) <=> i \in 1..n \/ i = n + 1
        BY <2>2, <3>2
      <4>2. (i \in 1..Len(sent[a][b]) <=> i \in 1..n) /\ (i = n + 1 => i \notin 1..n)
        BY <2>2, <3>2 DEF n
      <4> QED BY <2>2, <2>3, <3>2, <4>1, <4>2 DEF Posted
    <3> QED BY <3>1, <3>2
  <2>5. \A a \in PE, m \in Lock : Owns(a, m) => Owns(a, m)'
    <3>1. ASSUME NEW m \in Lock, m = l PROVE Releasing(p, m)'
      <4>1. PICK i : i = n + 1
        OBVIOUS
      <4>2. HomeOf[m] = q
        BY <3>1 DEF q
      <4>3. Posted(p, HomeOf[m], i, "word", m)'
        BY <1>1, <2>4, <3>1, <4>1, <4>2
      <4> QED BY <4>3 DEF Releasing, Posted
    <3>2. ASSUME NEW a \in PE, NEW m \in Lock, Releasing(a, m) PROVE Releasing(a, m)'
      <4>1. HomeOf[m] \in PE
        BY LockAssumption
      <4>2. PICK i : Posted(a, HomeOf[m], i, "word", m)
        BY <3>2 DEF Releasing
      <4>3. Posted(a, HomeOf[m], i, "word", m)'
        BY <2>4, <4>1, <4>2
      <4> QED BY <4>3 DEF Releasing, Posted
    <3> QED BY <1>4, <3>1, <3>2 DEF Owns
  <2>6. ASSUME NEW a \in PE, NEW b \in PE, NEW i, NEW m, Posted(a, b, i, "data", m)'
        PROVE  UpdateOnWay(a, b, i, m)'
    <3>1. Posted(a, b, i, "data", m)
      BY <2>4, <2>6
    <3>2. UpdateOnWay(a, b, i, m) /\ m \in Lock
      BY <3>1, PostedParts
    <3>3. i \in 1..Len(sent[a][b]) /\ sent'[a][b][i] = sent[a][b][i]
      <4>1. i \in 1..Len(sent[a][b])
        BY <3>1 DEF Posted
      <4> QED BY <2>2, <4>1 DEF n
    <3>4. ASSUME NEW k \in 1..Len(sent'[a][b])
          PROVE  /\ Posted(a, b, k, "data", m)' => k = i
                 /\ Posted(a, b, k, "word", m)' => i < k
      <4>1. \A to : Posted(a, b, k, to, m) => k \in 1..Len(sent[a][b])
        BY DEF Posted
      <4>2. a = p /\ b = q => i < n + 1
        BY <2>2, <3>3 DEF n
      <4> QED BY <2>4, <3>2, <4>1, <4>2 DEF UpdateOnWay
    <3>5. Owns(a, m)'
      BY <2>5, <3>2 DEF UpdateOnWay
    <3> QED BY <1>2, <1>4, <3>2, <3>3, <3>4, <3>5 DEF UpdateOnWay
  <2>7. ASSUME NEW m \in Lock PROVE CounterIsUpToDate(m)'
    <3>1. \A a \in PE : Updating(a, m) => Updating(a, m)'
      <4> SUFFICES ASSUME NEW a \in PE, Updating(a, m) PROVE Updating(a, m)'
        OBVIOUS
      <4>1. PICK i : Posted(a, DataOn[m], i, "data", m)
        BY DEF Updating
      <4>2. Posted(a, DataOn[m], i, "data", m)'
        BY <2>4, <4>1, LockAssumption
      <4> QED BY <4>2 DEF Updating, Posted
    <3> QED BY <1>2, <1>3, <3>1, UpdatedParts DEF SectionInv, CounterIsUpToDate
  <2> QED BY <1>5, <2>6, <2>7, UpdatedNext
<1> QED BY <1>6, <1>7

\* The update is the only one on its way to its counter, or it is there at once.
LEMMA UpdateUpdated ==
  ASSUME SectionInv, NextToLock, NEW p \in PE, Update(p) PROVE UpdatedFirst'
<1> SUFFICES ASSUME NEW l \in Lock, l = lock[p], NEW q \in PE, q = DataOn[l] PROVE UpdatedFirst'
  BY LockAssumption DEF SectionInv, LockInv, LockTypeOK
<1> DEFINE s == [to |-> "data", l |-> l, v |-> r[p] + 1]
<1>1. /\ Store(p, q, s) /\ lock' = lock /\ r' = r
      /\ updates' = [updates EXCEPT ![l] = @ + 1]
      /\ stage[p] = "write" /\ stage' = [stage EXCEPT ![p] = "clear"]
  BY DEF Update
<1>2. /\ r[p] = updates[l] /\ r[p] \in Nat /\ updates \in [Lock -> Nat] /\ LockTypeOK
      /\ s \in TStore /\ s.to = "data" /\ s.l = l /\ s.v = updates[l] + 1
  BY SMTT(20), <1>1, UpdatedParts DEF ReadIsUpToDate, SectionInv, LockInv, LockTypeOK, TStore
<1>3. updates'[l] = updates[l] + 1 /\ \A m \in Lock : m # l => updates'[m] = updates[m]
  BY <1>1, <1>2
<1>4. /\ \A a \in PE, m \in Lock : Holds(a, m)' <=> Holds(a, m)
      /\ \A a \in PE : stage'[a] \in {"in", "write"} => stage[a] = stage'[a] /\ a # p
  BY <1>1 DEF Holds, SectionInv, LockInv, LockTypeOK
<1>5. Owns(p, l) /\ \A a \in PE : Owns(a, l) => a = p
  BY <1>1 DEF Owns, Holds, SectionInv, LockInv, OneOwner
<1>6. \A a \in PE : ~Updating(a, l)
  BY <1>1, <1>5, OwnerUpdates
<1>7. \A a \in PE : ReadIsUpToDate(a)'
  <2>1. ASSUME NEW a \in PE, stage'[a] = "write" PROVE r'[a] = updates'[lock'[a]]
    <3>1. stage[a] = "write" /\ a # p /\ lock[a] \in Lock
      BY <1>4, <2>1 DEF SectionInv, LockInv, LockTypeOK
    <3>2. lock[a] # l
      BY <1>5, <3>1 DEF Owns, Holds
    <3> QED BY <1>1, <1>3, <3>1, <3>2, UpdatedParts DEF SectionInv, ReadIsUpToDate
  <2> QED BY <2>1 DEF ReadIsUpToDate
<1>8. ASSUME NEW a \in PE, NEW b \in PE, NEW i, NEW m, Posted(a, b, i, "data", m)
      PROVE  /\ UpdateOnWay(a, b, i, m) /\ m \in Lock /\ m # l /\ updates'[m] = updates[m]
             /\ i \in 1..Len(sent[a][b])
  <2>1. UpdateOnWay(a, b, i, m) /\ m \in Lock /\ i \in 1..Len(sent[a][b])
    BY <1>8, PostedParts DEF Posted
  <2>2. m # l
    BY <1>6, <1>8, <2>1 DEF UpdateOnWay, Updating, Posted
  <2> QED BY <1>3, <2>1, <2>2
<1>9. CASE p = q
  <2>1. \A i \in 1..Len(sent[p][p]) : FALSE
    BY DEF SectionInv, LockInv, ReleasedOnce
  <2>2. sent[p][p] = << >>
    BY <1>2, <2>1, QueueIsTyped
  <2>3. sent' = sent /\ data' = [data EXCEPT ![l] = updates[l] + 1]
    BY <1>1, <1>2, <1>9, <2>2 DEF Store
  <2>4. ASSUME NEW a \in PE, NEW b \in PE, NEW i, NEW m, Posted(a, b, i, "data", m)'
        PROVE  UpdateOnWay(a, b, i, m)'
    <3>1. Posted(a, b, i, "data", m)
      BY <2>3, <2>4 DEF Posted
    <3>2. UpdateOnWay(a, b, i, m) /\ m \in Lock /\ updates'[m] = updates[m]
      BY <1>8, <3>1
    <3>3. Owns(a, m)'
      BY <1>4, <2>3, <3>2 DEF UpdateOnWay, Owns, Releasing, Posted
    <3> QED BY <1>1, <1>4, <2>3, <3>2, <3>3 DEF UpdateOnWay, Posted
  <2>5. ASSUME NEW m \in Lock PROVE CounterIsUpToDate(m)'
    <3>1. \A a \in PE : Updating(a, m)' <=> Updating(a, m)
      BY <2>3 DEF Updating, Posted
    <3>2. m # l => data'[m] = data[m]
      BY <2>3 DEF SectionInv, LockInv, LockTypeOK
    <3>3. data'[l] = updates'[l]
      BY <1>3, <2>3 DEF SectionInv, LockInv, LockTypeOK
    <3> QED BY <1>3, <3>1, <3>2, <3>3, UpdatedParts DEF SectionInv, CounterIsUpToDate
  <2> QED BY <1>7, <2>4, <2>5, UpdatedNext
<1>10. CASE p # q
  <2> DEFINE n == Len(sent[p][q])
  <2>1. sent' = [sent EXCEPT ![p][q] = Append(@, s)] /\ data' = data
    BY <1>1, <1>10 DEF Store
  <2>2. /\ n \in Nat /\ Len(sent'[p][q]) = n + 1 /\ sent'[p][q][n + 1] = s
        /\ \A a, b \in PE : a # p \/ b # q => sent'[a][b] = sent[a][b]
        /\ \A i \in 1..n : sent'[p][q][i] = sent[p][q][i]
    <3> HIDE DEF s
    <3>1. sent \in [PE -> [PE -> Seq(TStore)]]
      BY <1>2 DEF LockTypeOK
    <3>2. \A a, b \in PE : a # p \/ b # q => sent'[a][b] = sent[a][b]
      BY <1>2, <2>1, <3>1
    <3>3. sent'[p][q] = Append(sent[p][q], s) /\ sent[p][q] \in Seq(TStore)
      BY <1>2, <2>1, <3>1
    <3> QED BY SMTT(20), <1>2, <3>2, <3>3
  <2> HIDE DEF s, n
  <2>3. ASSUME NEW a \in PE, NEW b \in PE, NEW i, NEW to, NEW m
        PROVE  Posted(a, b, i, to, m)' <=>
                 Posted(a, b, i, to, m) \/ (a = p /\ b = q /\ i = n + 1 /\ to = "data" /\ m = l)
    <3>1. CASE a # p \/ b # q
      BY <2>2, <3>1 DEF Posted
    <3>2. CASE a = p /\ b = q
      <4>1. i \in 1..Len(sent'[a][b]) <=> i \in 1..n \/ i = n + 1
        BY <2>2, <3>2
      <4>2. (i \in 1..Len(sent[a][b]) <=> i \in 1..n) /\ (i = n + 1 => i \notin 1..n)
        BY <2>2, <3>2 DEF n
      <4> QED BY <1>2, <2>2, <3>2, <4>1, <4>2 DEF Posted
    <3> QED BY <3>1, <3>2
  <2>4. \A a \in PE, m \in Lock : Owns(a, m) => Owns(a, m)'
    <3>1. ASSUME NEW a \in PE, NEW m \in Lock, Releasing(a, m) PROVE Releasing(a, m)'
      <4>1. HomeOf[m] \in PE
        BY LockAssumption
      <4>2. PICK i : Posted(a, HomeOf[m], i, "word", m)
        BY <3>1 DEF Releasing
      <4>3. Posted(a, HomeOf[m], i, "word", m)'
        BY <2>3, <4>1, <4>2
      <4> QED BY <4>3 DEF Releasing, Posted
    <3> QED BY <1>4, <3>1 DEF Owns
  <2>5. ASSUME NEW a \in PE, NEW b \in PE, NEW i, NEW m, Posted(a, b, i, "data", m)'
        PROVE  UpdateOnWay(a, b, i, m)'
    <3>1. CASE Posted(a, b, i, "data", m)
      <4>1. UpdateOnWay(a, b, i, m) /\ m \in Lock /\ m # l /\ updates'[m] = updates[m]
        BY <1>8, <3>1
      <4>2. i \in 1..Len(sent[a][b]) /\ sent'[a][b][i] = sent[a][b][i]
        <5>1. i \in 1..Len(sent[a][b])
          BY <3>1 DEF Posted
        <5> QED BY <2>2, <5>1 DEF n
      <4>3. ASSUME NEW k \in 1..Len(sent'[a][b])
            PROVE  /\ Posted(a, b, k, "data", m)' => k = i
                   /\ Posted(a, b, k, "word", m)' => i < k
        <5>1. \A to : Posted(a, b, k, to, m) => k \in 1..Len(sent[a][b])
          BY DEF Posted
        <5> QED BY <2>3, <4>1, <5>1 DEF UpdateOnWay
      <4>4. Owns(a, m)'
        BY <2>4, <4>1 DEF UpdateOnWay
      <4> QED BY <1>1, <1>4, <4>1, <4>2, <4>3, <4>4 DEF UpdateOnWay
    <3>2. CASE a = p /\ b = q /\ i = n + 1 /\ m = l
      <4>1. sent'[a][b][i].v = updates'[m] /\ b = DataOn[m]
        BY <1>2, <1>3, <2>2, <3>2
      <4>2. ASSUME NEW k \in 1..Len(sent'[a][b])
            PROVE  /\ Posted(a, b, k, "data", m)' => k = i
                   /\ ~Posted(a, b, k, "word", m)'
        <5>1. ~Posted(a, b, k, "data", m)
          BY <1>8, <3>2
        <5>2. ~Posted(a, b, k, "word", m)
          <6>1. Holds(p, l)
            BY <1>1 DEF Holds
          <6> QED BY <3>2, <6>1 DEF SectionInv, LockInv, ReleasedOnce, Posted
        <5> QED BY <2>3, <3>2, <5>1, <5>2
      <4>3. Owns(a, m)'
        BY <1>5, <2>4, <3>2
      <4>4. ~(stage'[a] \in {"in", "write"})
        BY <1>4, <3>2
      <4> QED BY <4>1, <4>2, <4>3, <4>4 DEF UpdateOnWay
    <3> QED BY <2>3, <2>5, <3>1, <3>2
  <2>6. ASSUME NEW m \in Lock PROVE CounterIsUpToDate(m)'
    <3>1. CASE m = l
      <4>1. PICK i : i = n + 1
        OBVIOUS
      <4>2. Posted(p, DataOn[m], i, "data", m)'
        BY <2>3, <3>1, <4>1
      <4>3. Updating(p, m)'
        BY <4>2 DEF Updating, Posted
      <4> QED BY <4>3 DEF CounterIsUpToDate
    <3>2. CASE m # l
      <4>1. ASSUME NEW a \in PE, Updating(a, m) PROVE Updating(a, m)'
        <5>1. PICK i : Posted(a, DataOn[m], i, "data", m)
          BY <4>1 DEF Updating
        <5>2. Posted(a, DataOn[m], i, "data", m)'
          BY <2>3, <5>1, LockAssumption
        <5> QED BY <5>2 DEF Updating, Posted
      <4> QED BY <1>3, <2>1, <3>2, <4>1, UpdatedParts DEF SectionInv, CounterIsUpToDate
    <3> QED BY <3>1, <3>2
  <2> QED BY <1>7, <2>5, <2>6, UpdatedNext
<1> QED BY <1>9, <1>10

\* A release that lands leaves no update behind it; an update that lands is the last one.
LEMMA LandUpdated ==
  ASSUME SectionInv, NextToLock, NEW p \in PE, NEW q \in PE, LandStore(p, q) PROVE UpdatedFirst'
<1> SUFFICES ASSUME NEW s, s = sent[p][q][1] PROVE UpdatedFirst'
  OBVIOUS
<1>1. /\ Posted(p, q, 1, s.to, s.l) /\ s \in TStore
      /\ \A a, b \in PE : a # p \/ b # q => sent'[a][b] = sent[a][b]
      /\ \A i \in 1..Len(sent'[p][q]) :
           /\ i + 1 \in 1..Len(sent[p][q]) /\ i + 1 # 1 /\ i + 1 \in Nat
           /\ sent'[p][q][i] = sent[p][q][i + 1]
  BY LandPosted, QueueIsTyped DEF SectionInv, LockInv, Posted
<1>2. UNCHANGED <<stage, lock, r, updates>>
  BY DEF LandStore
<1>3. data' = IF s.to = "data" THEN [data EXCEPT ![s.l] = s.v] ELSE data
  <2>1. sent[p][q] \in Seq(TStore) /\ sent[p][q] # << >>
    BY QueueIsTyped DEF SectionInv, LockInv, LandStore
  <2>2. Head(sent[p][q]) = s
    BY <2>1
  <2> QED BY <2>2 DEF LandStore
<1>4. ASSUME NEW a \in PE, NEW b \in PE, NEW i, NEW to, NEW m, Posted(a, b, i, to, m)'
      PROVE  IF a = p /\ b = q THEN i + 1 # 1 /\ i \in Nat /\ Posted(a, b, i + 1, to, m)
                               ELSE Posted(a, b, i, to, m)
  BY <1>1, <1>4 DEF Posted
\* Stores but the first one of p to q are still on their way.
<1>5. ASSUME NEW a \in PE, NEW b \in PE, NEW i, NEW to, NEW m, Posted(a, b, i, to, m),
             ~(a = p /\ b = q /\ i = 1)
      PROVE  \E k : Posted(a, b, k, to, m)'
  <2>1. CASE ~(a = p /\ b = q)
    BY <1>1, <1>5, <2>1 DEF Posted
  <2>2. CASE a = p /\ b = q
    <3>1. /\ Len(sent[p][q]) \in Nat /\ Len(sent'[p][q]) = Len(sent[p][q]) - 1
          /\ i \in 1..Len(sent[p][q]) /\ i # 1
      <4>1. sent[p][q] # << >> /\ sent' = [sent EXCEPT ![p][q] = Tail(@)]
        BY DEF LandStore
      <4> QED BY <1>5, <2>2, <4>1, LandRemoves, QueueIsTyped DEF SectionInv, LockInv, Posted
    <3>2. i - 1 \in 1..Len(sent'[p][q]) /\ (i - 1) + 1 = i
      BY <3>1
    <3>3. sent'[p][q][i - 1] = sent[p][q][i]
      BY <1>1, <3>2
    <3>4. PICK k : k = i - 1
      OBVIOUS
    <3>5. Posted(a, b, k, to, m)'
      BY <1>5, <2>2, <3>2, <3>3, <3>4 DEF Posted
    <3> QED BY <3>5
  <2> QED BY <2>1, <2>2
<1>6. ASSUME NEW a \in PE, NEW m \in Lock, Owns(a, m), ~(a = p /\ s.to = "word" /\ s.l = m)
      PROVE  Owns(a, m)'
  <2>1. CASE Holds(a, m)
    BY <1>2, <2>1 DEF Owns, Holds
  <2>2. CASE Releasing(a, m)
    <3>1. HomeOf[m] \in PE
      BY LockAssumption
    <3>2. PICK i : Posted(a, HomeOf[m], i, "word", m)
      BY <2>2 DEF Releasing
    <3>3. ~(a = p /\ HomeOf[m] = q /\ i = 1)
      BY <1>6, <3>2 DEF Posted
    <3>4. PICK k : Posted(a, HomeOf[m], k, "word", m)'
      BY <1>5, <3>1, <3>2, <3>3
    <3> QED BY <3>4 DEF Owns, Releasing, Posted
  <2> QED BY <1>6, <2>1, <2>2 DEF Owns
<1>7. ASSUME NEW a \in PE, NEW b \in PE, NEW i, NEW m, Posted(a, b, i, "data", m)'
      PROVE  UpdateOnWay(a, b, i, m)'
  <2>1. CASE a = p /\ b = q
    <3>1. i + 1 # 1 /\ i \in Nat /\ Posted(p, q, i + 1, "data", m)
      BY <1>4, <1>7, <2>1
    <3>2. UpdateOnWay(p, q, i + 1, m) /\ m \in Lock
      BY <3>1, PostedParts
    <3>3. ~(s.to = "word" /\ s.l = m)
      <4> SUFFICES ASSUME Posted(p, q, 1, "word", m) PROVE FALSE
        BY <1>1
      <4>1. i + 1 < 1
        BY <3>2 DEF UpdateOnWay, Posted
      <4> QED BY <3>1, <4>1
    <3>4. Owns(p, m)'
      BY <1>6, <3>2, <3>3 DEF UpdateOnWay
    <3>5. i \in 1..Len(sent'[p][q]) /\ sent'[p][q][i] = sent[p][q][i + 1]
      BY <1>1, <1>7, <2>1 DEF Posted
    <3>6. ASSUME NEW k \in 1..Len(sent'[p][q])
          PROVE  /\ Posted(p, q, k, "data", m)' => k = i
                 /\ Posted(p, q, k, "word", m)' => i < k
      <4>1. ASSUME NEW to, Posted(p, q, k, to, m)'
            PROVE  /\ Posted(p, q, k + 1, to, m) /\ k \in Nat
                   /\ k + 1 \in 1..Len(sent[p][q])
        BY SMTT(20), <1>4, <4>1 DEF Posted
      <4>2. ASSUME Posted(p, q, k, "data", m)' PROVE k = i
        <5>1. k + 1 = i + 1 /\ k \in Nat
          BY <3>2, <4>1, <4>2 DEF UpdateOnWay
        <5> QED BY <3>1, <5>1
      <4>3. ASSUME Posted(p, q, k, "word", m)' PROVE i < k
        <5>1. i + 1 < k + 1 /\ k \in Nat
          BY <3>2, <4>1, <4>3 DEF UpdateOnWay
        <5> QED BY <3>1, <5>1
      <4> QED BY <4>2, <4>3
    <3> QED BY <1>2, <2>1, <3>2, <3>4, <3>5, <3>6 DEF UpdateOnWay
  <2>2. CASE ~(a = p /\ b = q)
    <3>1. Posted(a, b, i, "data", m) /\ sent'[a][b] = sent[a][b]
      BY <1>1, <1>4, <1>7, <2>2
    <3>2. UpdateOnWay(a, b, i, m) /\ m \in Lock
      BY <3>1, PostedParts
    <3>3. ~(a = p /\ s.to = "word" /\ s.l = m)
      <4> SUFFICES ASSUME a = p, Posted(p, q, 1, "word", m) PROVE FALSE
        BY <1>1
      <4>1. q = HomeOf[m]
        BY <3>2 DEF SectionInv, LockInv, ReleasedOnce, Posted
      <4> QED BY <2>2, <3>2, <4>1 DEF UpdateOnWay, NextToLock
    <3>4. Owns(a, m)'
      BY <1>6, <3>2, <3>3 DEF UpdateOnWay
    <3> QED BY <1>2, <3>1, <3>2, <3>4 DEF UpdateOnWay, Posted
  <2> QED BY <2>1, <2>2
<1>8. ASSUME NEW m \in Lock PROVE CounterIsUpToDate(m)'
  <2>1. CASE s.to = "data" /\ s.l = m
    <3>1. UpdateOnWay(p, q, 1, m)
      BY <1>1, <2>1, PostedParts
    <3>2. data'[m] = updates[m]
      BY <1>1, <1>3, <2>1, <3>1 DEF UpdateOnWay, SectionInv, LockInv, LockTypeOK
    <3> QED BY <1>2, <3>2 DEF CounterIsUpToDate
  <2>2. CASE ~(s.to = "data" /\ s.l = m)
    <3>1. data'[m] = data[m]
      BY <1>3, <2>2 DEF SectionInv, LockInv, LockTypeOK
    <3>2. ASSUME NEW a \in PE, Updating(a, m) PROVE Updating(a, m)'
      <4>1. PICK i : Posted(a, DataOn[m], i, "data", m)
        BY <3>2 DEF Updating
      <4>2. ~(a = p /\ DataOn[m] = q /\ i = 1)
        BY <1>1, <2>2, <4>1 DEF Posted
      <4>3. PICK k : Posted(a, DataOn[m], k, "data", m)'
        BY <1>5, <4>1, <4>2, LockAssumption
      <4> QED BY <4>3 DEF Updating, Posted
    <3> QED BY <1>2, <3>1, <3>2, UpdatedParts DEF SectionInv, CounterIsUpToDate
  <2> QED BY <2>1, <2>2
<1>9. \A a \in PE : ReadIsUpToDate(a)'
  BY <1>2, UpdatedParts DEF SectionInv, ReadIsUpToDate
<1> QED BY <1>7, <1>8, <1>9, UpdatedNext

LEMMA NextUpdated ==
  ASSUME SectionInv, NextToLock, OneMeansTaken, [LockNext]_lockVars PROVE UpdatedFirst'
<1>1. CASE AllTried \/ UNCHANGED lockVars
  <2>1. /\ sent' = sent /\ data' = data /\ updates' = updates /\ stage' = stage /\ lock' = lock
        /\ r' = r
    BY <1>1 DEF AllTried, lockVars
  <2>2. \A a \in PE, m \in Lock : Owns(a, m) => Owns(a, m)'
    BY <2>1 DEF Owns, Holds, Releasing, Posted
  <2>3. \A a \in PE : ReadIsUpToDate(a)'
    BY <2>1, UpdatedParts DEF SectionInv, ReadIsUpToDate
  <2> QED BY <2>1, <2>2, <2>3, KeepsUpdates
<1> QED BY <1>1, TryUpdated, AcquireUpdated, LoadUpdated, UpdateUpdated, ClearUpdated,
           LandUpdated DEF LockNext, Section

\* The whole invariant: stores on their way are those of sections, in order.
THEOREM UpdatesComeFirst == ASSUME OneMeansTaken, NextToLock PROVE LockSpec => []SectionInv
<1>1. LockInit => SectionInv
  BY InitLockInv, InitUpdated DEF SectionInv
<1>2. SectionInv /\ [LockNext]_lockVars => SectionInv'
  BY NextLockInv, NextUpdated DEF SectionInv
<1> QED BY <1>1, <1>2, PTL DEF LockSpec

\* The next holder finds what the last one stored, although a PE does not wait
\* for its stores to land before it clears the lock.
THEOREM UpdatesAreSeen == ASSUME OneMeansTaken, NextToLock PROVE LockSpec => []NoLostUpdate
<1>1. SectionInv => NoLostUpdate
  BY DEF SectionInv, UpdatedFirst, NoLostUpdate
<1> QED BY <1>1, UpdatesComeFirst, PTL

==============================================================================

------------------------------- MODULE ShmemLock -------------------------------
(* The locks of the library's user: shmem_set_lock, shmem_test_lock and       *)
(* shmem_clear_lock, and the same on a given PE (shmemx_*_lock_pe).           *)
(*                                                                            *)
(* A lock is a word on one PE.  Setting it spins on a testset, testing it     *)
(* does one testset, clearing it calls shmem_quiet and stores 0.  The program *)
(* reads and updates a counter under each lock.  A store to another PE is     *)
(* posted; stores of one PE to one destination land in order.                 *)
EXTENDS Integers, Sequences

CONSTANTS
  PE,             \* the PEs that use the locks
  Lock,           \* the locks
  HomeOf,         \* HomeOf[l]: the PE that lock l is on (PE 0, or a given one)
  DataOn,         \* DataOn[l]: the PE that the counter under lock l is on
  Taken,          \* the result of shmem_test_lock that the program takes to
                  \* mean that it has set the lock
  MaxTries        \* bound: how often each PE tries to set a lock

ASSUME LockAssumption ==
  /\ Lock # {} /\ HomeOf \in [Lock -> PE] /\ DataOn \in [Lock -> PE]
  /\ Taken \in {0, 1} /\ MaxTries \in Nat

VARIABLES
  word,           \* word[l]: the lock word
  data,           \* data[l]: the counter under lock l
  stage,          \* stage[p]: where PE p is
  lock,           \* lock[p]: the lock that PE p uses
  r,              \* r[p]: the counter as PE p read it
  sent,           \* sent[p][q]: stores p has posted to q, in flight
  tries,          \* tries[p]: how often PE p has tried to set a lock
  updates         \* auxiliary, updates[l]: how often the counter was updated

lockVars == <<word, data, stage, lock, r, sent, tries, updates>>

LockInit == /\ word = [l \in Lock |-> 0]
            /\ data = [l \in Lock |-> 0]
            /\ stage = [p \in PE |-> "idle"]
            /\ lock = [p \in PE |-> CHOOSE l \in Lock : TRUE]
            /\ r = [p \in PE |-> 0]
            /\ sent = [p \in PE |-> [q \in PE |-> << >>]]
            /\ tries = [p \in PE |-> 0]
            /\ updates = [l \in Lock |-> 0]

\* A store of PE p to a word on PE q: at once on itself, posted to another.
Store(p, q, s) ==
  IF p = q /\ sent[p][q] = << >>
  THEN /\ word' = IF s.to = "word" THEN [word EXCEPT ![s.l] = s.v] ELSE word
       /\ data' = IF s.to = "data" THEN [data EXCEPT ![s.l] = s.v] ELSE data
       /\ UNCHANGED sent
  ELSE /\ sent' = [sent EXCEPT ![p][q] = Append(@, s)]
       /\ UNCHANGED <<word, data>>

------------------------------------------------------------------------------
Try(p, l) == /\ stage[p] = "idle" /\ tries[p] < MaxTries
             /\ tries' = [tries EXCEPT ![p] = @ + 1]
             /\ lock' = [lock EXCEPT ![p] = l]

\* shmem_set_lock is called ...
SetLock(p, l) == /\ Try(p, l)
                 /\ stage' = [stage EXCEPT ![p] = "set"]
                 /\ UNCHANGED <<word, data, r, sent, updates>>

\* (faulty variant) ... and does not look at what the testset returns.
AcquireBlind(p) == /\ stage[p] = "set"
                   /\ word' = [word EXCEPT ![lock[p]] = 1]
                   /\ stage' = [stage EXCEPT ![p] = "in"]
                   /\ UNCHANGED <<data, lock, r, sent, tries, updates>>

\* ... and its testset finds the word 0.
Acquire(p) == /\ stage[p] = "set"
              /\ word[lock[p]] = 0
              /\ word' = [word EXCEPT ![lock[p]] = 1]
              /\ stage' = [stage EXCEPT ![p] = "in"]
              /\ UNCHANGED <<data, lock, r, sent, tries, updates>>

\* return (r ? 0 : 1), where r is what the testset found.
Result(old) == IF old # 0 THEN 0 ELSE 1

\* shmem_test_lock: one testset, whose result tells the program to go in or not.
TestLock(p, l) == /\ Try(p, l)
                  /\ word' = [word EXCEPT ![l] = IF @ = 0 THEN 1 ELSE @]
                  /\ stage' = [stage EXCEPT ![p] =
                                 IF Result(word[l]) = Taken THEN "in" ELSE "idle"]
                  /\ UNCHANGED <<data, r, sent, updates>>

\* The program reads the counter ...
Load(p) == /\ stage[p] = "in"
           /\ r' = [r EXCEPT ![p] = data[lock[p]]]
           /\ stage' = [stage EXCEPT ![p] = "write"]
           /\ UNCHANGED <<word, data, lock, sent, tries, updates>>

\* ... and stores the next value.
Update(p) == LET l == lock[p] IN
  /\ stage[p] = "write"
  /\ Store(p, DataOn[l], [to |-> "data", l |-> l, v |-> r[p] + 1])
  /\ updates' = [updates EXCEPT ![l] = @ + 1]
  /\ stage' = [stage EXCEPT ![p] = "clear"]
  /\ UNCHANGED <<lock, r, tries>>

\* (faulty variant) The lock is cleared in the caller's own memory.
ClearOwn(p) == LET l == lock[p] IN
  /\ stage[p] = "clear"
  /\ word' = IF HomeOf[l] = p THEN [word EXCEPT ![l] = 0] ELSE word
  /\ stage' = [stage EXCEPT ![p] = "idle"]
  /\ UNCHANGED <<data, lock, r, sent, tries, updates>>

\* (faulty variant) The lock is cleared at once, ahead of the posted stores.
ClearAtOnce(p) == LET l == lock[p] IN
  /\ stage[p] = "clear"
  /\ word' = [word EXCEPT ![l] = 0]
  /\ stage' = [stage EXCEPT ![p] = "idle"]
  /\ UNCHANGED <<data, lock, r, sent, tries, updates>>

\* shmem_clear_lock: shmem_quiet (no copy is running), then *x = 0.
ClearLock(p) == LET l == lock[p] IN
  /\ stage[p] = "clear"
  /\ Store(p, HomeOf[l], [to |-> "word", l |-> l, v |-> 0])
  /\ stage' = [stage EXCEPT ![p] = "idle"]
  /\ UNCHANGED <<lock, r, tries, updates>>

\* The oldest store of p to q lands.
LandStore(p, q) ==
  /\ sent[p][q] # << >>
  /\ LET s == Head(sent[p][q]) IN
       /\ word' = IF s.to = "word" THEN [word EXCEPT ![s.l] = s.v] ELSE word
       /\ data' = IF s.to = "data" THEN [data EXCEPT ![s.l] = s.v] ELSE data
  /\ sent' = [sent EXCEPT ![p][q] = Tail(@)]
  /\ UNCHANGED <<stage, lock, r, tries, updates>>

Section(p) == Acquire(p) \/ Load(p) \/ Update(p) \/ ClearLock(p)

AllTried == /\ \A p \in PE : stage[p] = "idle" /\ tries[p] = MaxTries
            /\ UNCHANGED lockVars

LockNext == \/ \E p \in PE : \/ Section(p)
                             \/ \E l \in Lock : SetLock(p, l) \/ TestLock(p, l)
                             \/ \E q \in PE : LandStore(p, q)
            \/ AllTried

LockSpec == LockInit /\ [][LockNext]_lockVars

\* A PE that has called goes on, the mesh delivers; nobody has to call.
LockFairSpec ==
  LockSpec /\ \A p \in PE :
    WF_lockVars(Section(p)) /\ \A q \in PE : WF_lockVars(LandStore(p, q))

------------------------------------------------------------------------------
(* Properties *)

TStore == [to : {"word", "data"}, l : Lock, v : Nat]
LockTypeOK ==
  /\ word \in [Lock -> {0, 1}] /\ data \in [Lock -> Nat]
  /\ stage \in [PE -> {"idle", "set", "in", "write", "clear"}]
  /\ lock \in [PE -> Lock] /\ r \in [PE -> Nat]
  /\ sent \in [PE -> [PE -> Seq(TStore)]]
  /\ tries \in [PE -> Nat] /\ updates \in [Lock -> Nat]

Holds(p, l) == stage[p] \in {"in", "write", "clear"} /\ lock[p] = l

\* The i-th store from p to q is one to the lock word, or the counter, of l.
Posted(p, q, i, to, l) ==
  i \in 1..Len(sent[p][q]) /\ sent[p][q][i].to = to /\ sent[p][q][i].l = l
Releasing(p, l) == \E i \in 1..Len(sent[p][HomeOf[l]]) : Posted(p, HomeOf[l], i, "word", l)

\* A PE owns a lock until its release has landed; meanwhile the word is set.
Owns(p, l) == Holds(p, l) \/ Releasing(p, l)
OneOwner ==
  \A l \in Lock, p \in PE : Owns(p, l) =>
    word[l] = 1 /\ \A q \in PE : Owns(q, l) => p = q

\* A PE that holds a lock has not released it, and it releases it once.
ReleasedOnce ==
  \A p, q \in PE : \A i \in 1..Len(sent[p][q]) : LET s == sent[p][q][i] IN
    /\ p # q
    /\ s.to = "word" =>
         /\ q = HomeOf[s.l] /\ s.v = 0 /\ ~Holds(p, s.l)
         /\ \A k \in 1..Len(sent[p][q]) : Posted(p, q, k, "word", s.l) => k = i

\* An update in flight is the last one, is its owner's, and lands before the
\* release; with none in flight the counter holds the last update.
Updating(p, l) == \E i \in 1..Len(sent[p][DataOn[l]]) : Posted(p, DataOn[l], i, "data", l)
UpdatedFirst ==
  /\ \A p, q \in PE : \A i \in 1..Len(sent[p][q]) : LET s == sent[p][q][i] IN
       s.to = "data" =>
         /\ q = DataOn[s.l] /\ s.v = updates[s.l] /\ Owns(p, s.l)
         /\ ~(stage[p] \in {"in", "write"} /\ lock[p] = s.l)
         /\ \A k \in 1..Len(sent[p][q]) : /\ Posted(p, q, k, "data", s.l) => k = i
                                          /\ Posted(p, q, k, "word", s.l) => i < k
  /\ \A l \in Lock : (\A p \in PE : ~Updating(p, l)) => data[l] = updates[l]
  /\ \A p \in PE : stage[p] = "write" => r[p] = updates[lock[p]]

\* The inductive invariant; its last part when the counters are next to the locks.
LockInv == LockTypeOK /\ ReleasedOnce /\ OneOwner
SectionInv == LockInv /\ UpdatedFirst

\* At most one PE is between having set a lock and clearing it.  With Taken = 1 the
\* program reads the result of shmem_test_lock as the code gives it, 1 for a lock
\* that it has set; with Taken = 0 as the comment says, "return 0 if the lock was
\* originally cleared" (__shmem_test_lock.c:47-48): run test_lock shows what then
\* comes of it.
MutualExclusion ==
  \A l \in Lock : \A p, q \in PE : Holds(p, l) /\ Holds(q, l) => p = q

\* __shmem_clear_lock.c:42-43: the next holder finds what the last one stored,
\* and no update is lost.
NoLostUpdate ==
  \A l \in Lock : \A p \in PE : stage[p] = "write" /\ lock[p] = l => r[p] = updates[l]

\* A PE that calls shmem_set_lock gets the lock, the only way out of its spin
\* (__shmem_set_lock.c:43-46); calls being bounded, there comes a time when no PE
\* waits for one.
LockIsGranted == (\E p \in PE : stage[p] = "set") ~> (\A p \in PE : stage[p] # "set")

==============================================================================

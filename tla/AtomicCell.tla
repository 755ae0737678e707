----------------------------- MODULE AtomicCell -----------------------------
(* What the atomic memory operations promise for the words of one PE: the    *)
(* read-modify-write operations of all PEs take effect one at a time, each on *)
(* the result of the one before, and a plain fetch misses at most the last of *)
(* them.  ShmemAtomic is shown to implement it.                               *)
CONSTANTS PE, Cell, Value, Op,
          CellOf,           \* CellOf[o]: the word that operation o is about
          Effect,           \* Effect[o][v]: what o makes of the value v
          Start             \* the words' initial value

VARIABLES serial,           \* serial[x]: word x after all operations so far
          visible,          \* visible[x]: word x as a fetch sees it
          result            \* result[p]: what the last operation of p read

vars == <<serial, visible, result>>

Init == /\ serial = [x \in Cell |-> Start]
        /\ visible = [x \in Cell |-> Start]
        /\ result = [p \in PE |-> Start]

\* A read-modify-write operation sees the effect of all earlier ones.
Apply(p, o) == LET x == CellOf[o] IN
                 /\ visible[x] = serial[x]
                 /\ result' = [result EXCEPT ![p] = serial[x]]
                 /\ serial' = [serial EXCEPT ![x] = Effect[o][serial[x]]]
                 /\ UNCHANGED visible

Settle(x) == /\ visible' = [visible EXCEPT ![x] = serial[x]]
             /\ UNCHANGED <<serial, result>>

Fetch(p, o) == /\ result' = [result EXCEPT ![p] = visible[CellOf[o]]]
               /\ UNCHANGED <<serial, visible>>

Next == \/ \E p \in PE, o \in Op : Apply(p, o) \/ Fetch(p, o)
        \/ \E x \in Cell : Settle(x)

Spec == Init /\ [][Next]_vars

=============================================================================

------------------------------- MODULE Barrier -------------------------------
(* What a barrier promises to the PEs of its active set, whatever the flags   *)
(* and rounds it is built from: nobody leaves its n-th call before everybody  *)
(* has started its own n-th call.  ShmemSync is shown to implement it.        *)
EXTENDS Naturals

CONSTANT PE                 \* the active set

VARIABLES entered,          \* entered[p]: calls PE p has started
          left              \* left[p]: calls PE p has returned from

vars == <<entered, left>>

Init == /\ entered = [p \in PE |-> 0]
        /\ left = [p \in PE |-> 0]

Enter(p) == /\ entered[p] = left[p]
            /\ entered' = [entered EXCEPT ![p] = @ + 1]
            /\ UNCHANGED left

Leave(p) == /\ left[p] < entered[p]
            /\ \A q \in PE : entered[q] >= entered[p]
            /\ left' = [left EXCEPT ![p] = @ + 1]
            /\ UNCHANGED entered

Next == \E p \in PE : Enter(p) \/ Leave(p)

Spec == Init /\ [][Next]_vars

==============================================================================

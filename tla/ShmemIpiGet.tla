----------------------------- MODULE ShmemIpiGet -----------------------------
(* shmem_get built with SHMEM_USE_IPI_GET.  Few elements are read from the    *)
(* remote PE directly.  For more, the PE that has the data is interrupted and *)
(* asked to write them: the caller takes the lock of the remote PE's          *)
(* shmem_ipi_args, fills it in, raises the user interrupt there and spins on  *)
(* its own word complete; the interrupt routine copies, sets complete, and    *)
(* opens the lock.                                                            *)
(*                                                                            *)
(* The arguments and the interrupt are posted stores of one PE to one other,  *)
(* so that they arrive in order and are one message here.                     *)
EXTENDS Integers, FiniteSets

CONSTANTS
  PE,
  Sizes,          \* the numbers of elements that programs ask for
  Threshold,      \* 1024 / S
  MaxCalls        \* bound: how often each PE calls shmem_get

VARIABLES
  pc, calls,      \* where PE p is in shmem_get; its calls
  remote,         \* remote[p]: the PE it gets from
  dest,           \* dest[p]: whose source is in the symmetric array dest of p
  args,           \* args[q]: shmem_ipi_args of PE q
  requests,       \* arguments and interrupts on their way
  ilat,           \* ilat[q]: the user interrupt is latched at PE q
  isr,            \* isr[q]: where PE q is in the interrupt routine
  completes,      \* stores to complete on their way
  served          \* auxiliary: served[p]: copies made for p's requests

vars == <<pc, calls, remote, dest, args, requests, ilat, isr, completes, served>>

None == -1
NoArgs == [lock |-> 0, pcomplete |-> None, complete |-> 0]

Init == /\ pc = [p \in PE |-> "out"] /\ calls = [p \in PE |-> 0]
        /\ remote = [p \in PE |-> None] /\ dest = [p \in PE |-> None]
        /\ args = [p \in PE |-> NoArgs]
        /\ requests = {} /\ ilat = [p \in PE |-> FALSE]
        /\ isr = [p \in PE |-> "none"]
        /\ completes = {} /\ served = [p \in PE |-> 0]

Goto(p, l) == pc' = [pc EXCEPT ![p] = l]
\* The interrupt routine suspends what its PE was doing.
Runs(p) == isr[p] = "none"

------------------------------------------------------------------------------
\* A call; few elements are copied straight away.
Get(p, q, nelems) ==
  /\ Runs(p) /\ pc[p] = "out" /\ calls[p] < MaxCalls
  /\ calls' = [calls EXCEPT ![p] = @ + 1]
  /\ remote' = [remote EXCEPT ![p] = q]
  /\ IF nelems < Threshold
     THEN /\ dest' = [dest EXCEPT ![p] = q]
          /\ served' = [served EXCEPT ![p] = @ + 1] /\ UNCHANGED pc
     ELSE Goto(p, "lock") /\ UNCHANGED <<dest, served>>
  /\ UNCHANGED <<args, requests, ilat, isr, completes>>

\* (faulty variant) The arguments are written without the lock.
LockBlind(p) ==
  /\ Runs(p) /\ pc[p] = "lock"
  /\ args' = [args EXCEPT ![remote[p]].lock = 1]
  /\ Goto(p, "ask")
  /\ UNCHANGED <<calls, remote, dest, requests, ilat, isr, completes, served>>

\* __shmem_set_lock(&remote_args->lock) finds it open.
Lock(p) ==
  /\ Runs(p) /\ pc[p] = "lock"
  /\ args[remote[p]].lock = 0
  /\ args' = [args EXCEPT ![remote[p]].lock = 1]
  /\ Goto(p, "ask")
  /\ UNCHANGED <<calls, remote, dest, requests, ilat, isr, completes, served>>

\* remote_args->... = ...; *remote_ilatst = 0x0200
Ask(p) ==
  /\ Runs(p) /\ pc[p] = "ask"
  /\ requests' = requests \cup {[to |-> remote[p], pcomplete |-> p]}
  /\ Goto(p, "wait")
  /\ UNCHANGED <<calls, remote, dest, args, ilat, isr, completes, served>>

LandRequest == \E m \in requests :
  /\ args' = [args EXCEPT ![m.to].pcomplete = m.pcomplete]
  /\ ilat' = [ilat EXCEPT ![m.to] = TRUE]
  /\ requests' = requests \ {m}
  /\ UNCHANGED <<pc, calls, remote, dest, isr, completes, served>>

\* The interrupt is taken.
Interrupt(q) == /\ Runs(q) /\ ilat[q]
                /\ ilat' = [ilat EXCEPT ![q] = FALSE]
                /\ isr' = [isr EXCEPT ![q] = "copy"]
                /\ UNCHANGED <<pc, calls, remote, dest, args, requests, completes, served>>

\* pmemcpy(dest, source, nelems): both addresses are local ones.
IsrCopy(q) == /\ isr[q] = "copy"
              /\ dest' = [dest EXCEPT ![q] = q]
              /\ served' = [served EXCEPT ![args[q].pcomplete] = @ + 1]
              /\ isr' = [isr EXCEPT ![q] = "complete"]
              /\ UNCHANGED <<pc, calls, remote, args, requests, ilat, completes>>

\* (faulty variant) The lock is opened before the caller is told.
IsrFreeFirst(q) == /\ isr[q] = "copy"
                   /\ args' = [args EXCEPT ![q].lock = 0]
                   /\ isr' = [isr EXCEPT ![q] = "complete"]
                   /\ UNCHANGED <<pc, calls, remote, dest, requests, ilat, completes, served>>

\* *pcomplete = 1: a posted store to the caller.
IsrComplete(q) == /\ isr[q] = "complete"
                  /\ completes' = completes \cup {args[q].pcomplete}
                  /\ isr' = [isr EXCEPT ![q] = "free"]
                  /\ UNCHANGED <<pc, calls, remote, dest, args, requests, ilat, served>>

\* (faulty variant) The lock stays set.
IsrFreeNot(q) == /\ isr[q] = "free"
                 /\ isr' = [isr EXCEPT ![q] = "none"]
                 /\ UNCHANGED <<pc, calls, remote, dest, args, requests, ilat, completes, served>>

\* lock = 0, and the routine returns.
IsrFree(q) == /\ isr[q] = "free"
              /\ args' = [args EXCEPT ![q].lock = 0]
              /\ isr' = [isr EXCEPT ![q] = "none"]
              /\ UNCHANGED <<pc, calls, remote, dest, requests, ilat, completes, served>>

LandComplete == \E p \in completes :
  /\ args' = [args EXCEPT ![p].complete = 1]
  /\ completes' = completes \ {p}
  /\ UNCHANGED <<pc, calls, remote, dest, requests, ilat, isr, served>>

\* while (!complete)
Wait(p) == /\ Runs(p) /\ pc[p] = "wait" /\ args[p].complete # 0
           /\ Goto(p, "reset")
           /\ UNCHANGED <<calls, remote, dest, args, requests, ilat, isr, completes, served>>

\* complete = 0, and shmem_get returns.
Reset(p) == /\ Runs(p) /\ pc[p] = "reset"
            /\ args' = [args EXCEPT ![p].complete = 0]
            /\ Goto(p, "out")
            /\ UNCHANGED <<calls, remote, dest, requests, ilat, isr, completes, served>>

Step(p) == \/ Lock(p) \/ Ask(p) \/ Wait(p) \/ Reset(p)
           \/ Interrupt(p) \/ IsrCopy(p) \/ IsrComplete(p) \/ IsrFree(p)
Land == LandRequest \/ LandComplete
Calls == \E p, q \in PE, nelems \in Sizes : p # q /\ Get(p, q, nelems)

Finished == /\ \A p \in PE : pc[p] = "out" /\ calls[p] = MaxCalls /\ isr[p] = "none"
            /\ UNCHANGED vars

Next == (\E p \in PE : Step(p)) \/ Land \/ Calls \/ Finished
Spec == Init /\ [][Next]_vars

------------------------------------------------------------------------------
(* Properties *)

Args == [lock : {0, 1}, pcomplete : PE \cup {None}, complete : {0, 1}]
TypeOK ==
  /\ pc \in [PE -> {"out", "lock", "ask", "wait", "reset"}] /\ calls \in [PE -> Nat]
  /\ remote \in [PE -> PE \cup {None}] /\ dest \in [PE -> PE \cup {None}]
  /\ args \in [PE -> Args]
  /\ requests \subseteq [to : PE, pcomplete : PE] /\ ilat \in [PE -> BOOLEAN]
  /\ isr \in [PE -> {"none", "copy", "complete", "free"}]
  /\ completes \subseteq PE /\ served \in [PE -> Nat]
  /\ \A q \in PE : ilat[q] \/ isr[q] \in {"copy", "complete"} => args[q].pcomplete \in PE
  /\ \A p \in PE : pc[p] \in {"lock", "ask", "wait"} => remote[p] \in PE

\* Where the request of p to q is, from the lock to the end of the copy.
Stage == {"ask", "request", "latched", "copy", "complete"}
At(q, s, p) ==
  \/ s = "ask" /\ pc[p] = "ask" /\ remote[p] = q
  \/ s = "request" /\ [to |-> q, pcomplete |-> p] \in requests
  \/ s = "latched" /\ ilat[q] /\ args[q].pcomplete = p
  \/ s \in {"copy", "complete"} /\ isr[q] = s /\ args[q].pcomplete = p

\* One request is with q, in one place, and then the lock of q is set.
OneIsHere == \A q \in PE :
  /\ \A s \in Stage, p \in PE : At(q, s, p) =>
       \A t \in Stage, r \in PE : At(q, t, r) => s = t /\ p = r
  /\ args[q].lock = 0 \/ isr[q] = "free" =>
       \A s \in Stage, p \in PE : ~At(q, s, p)
  /\ args[q].lock = 0 => isr[q] = "none"

\* A PE that waits has a request out that is not answered, or has its answer.
OneAnswer ==
  /\ \A q, p \in PE, s \in Stage \ {"ask"} : At(q, s, p) =>
       /\ pc[p] = "wait" /\ remote[p] = q /\ p \notin completes /\ args[p].complete = 0
       /\ served[p] = IF s = "complete" THEN calls[p] ELSE calls[p] - 1
  /\ \A p \in PE :
       /\ p \in completes =>
            pc[p] = "wait" /\ args[p].complete = 0 /\ served[p] = calls[p]
       /\ args[p].complete = 1 => pc[p] \in {"wait", "reset"} /\ served[p] = calls[p]
       /\ pc[p] = "out" => served[p] = calls[p]
       /\ pc[p] \in {"lock", "ask"} => served[p] = calls[p] - 1
       /\ pc[p] = "reset" => args[p].complete = 1

\* The inductive invariant.
IInv == TypeOK /\ OneIsHere /\ OneAnswer

Served(q) == {m \in requests : m.to = q}

\* The arguments of one request at a time are with a PE (def_shmem_x_get.h:68,
\* "spin until prior transfers complete"): a second one would overwrite them
\* before the interrupt routine has read them.
OneRequestAtATime == \A q \in PE :
  Cardinality(Served(q)) + (IF ilat[q] THEN 1 ELSE 0)
    + (IF isr[q] \in {"copy", "complete"} THEN 1 ELSE 0) <= 1

\* A PE is told that its get is complete only when a copy was made for it, and only
\* while it waits for that (def_shmem_x_get.h:75, shmem_init.c:113-115): complete,
\* one word for all calls, never answers the next call.
CompletedWasServed == \A p \in PE :
  p \in completes \/ args[p].complete = 1 =>
    pc[p] \in {"wait", "reset"} /\ served[p] = calls[p]

\* Both together: what a PE asks for is done once, for it and before it goes on.
GetIsServed == OneRequestAtATime /\ CompletedWasServed

\* shmem_get returns with the remote PE's data in dest (test/get_ipi.c:100,
\* "if (target[i] != source[i]) err++").
DestHasData == \A p \in PE : pc[p] = "out" /\ calls[p] > 0 => dest[p] = remote[p]

==============================================================================

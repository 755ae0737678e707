------------------------------- MODULE ShmemNbi -------------------------------
(* Non-blocking copies (shmem_put*_nbi, shmem_get*_nbi: shmemx_memcpy_nbi) and *)
(* shmem_quiet on one PE with its DMA engine 0.                               *)
(*                                                                            *)
(* The core describes a copy in dma_desc, waits for the copy before it, marks *)
(* the last byte of the destination and starts the engine, which moves the    *)
(* copy byte after byte on its own.  The stores of core and engine to another *)
(* PE land later, but in the order they were made.  Quiet waits for the       *)
(* engine.  The bytes of the n-th copy have the value 2n, its mark 2n - 1:    *)
(* a greater value is a later one.                                            *)
EXTENDS Integers, Sequences

CONSTANTS
  DestPE,         \* the PEs that own destinations
  my_pe,          \* the PE whose copies these are
  Copies,         \* the copies it may ask for: the destination PE, the address
                  \* of the first byte and the number of bytes
  MaxCopies       \* bound: copies it asks for in all

ASSUME CopiesAssumption ==
  /\ my_pe \in DestPE /\ MaxCopies \in Nat
  /\ Copies # {} /\ Copies \subseteq [pe : DestPE, dst : Nat, nbytes : Nat \ {0}]

VARIABLES
  core,           \* where the core is: "run", in a copy or in quiet
  dma_desc,       \* the descriptor in memory: the copy and its number
  engine,         \* the engine's copy of it, and the bytes it has moved
  cdst0,          \* address of the mark of the latest copy, or None
  dma_used,       \* a copy was started since the last quiet
  sent,           \* sent[q]: the stores to q so far, in order
  landed,         \* landed[q]: how many of them have landed
  memory,         \* memory[q][a]: the byte at a, memory[q][Flag]: a flag word of q
  asked,          \* auxiliary: the copies asked for so far
  fenced          \* auxiliary: how many of them before the last quiet

nbiVars == <<core, dma_desc, engine, cdst0, dma_used, sent, landed, memory, asked, fenced>>

None == -1
Flag == -2         \* the address of a flag word
Bytes(x) == x.dst..(x.dst + x.nbytes - 1)
Last(x) == x.dst + x.nbytes - 1
Addr == {Flag} \cup UNION {Bytes(x) : x \in Copies}

NoCopy == [copy |-> CHOOSE x \in Copies : TRUE, n |-> 0]
Idle == [copy |-> NoCopy.copy, n |-> 0, moved |-> 0]
Busy == engine.n # 0

NbiInit == /\ core = "run" /\ dma_desc = NoCopy /\ engine = Idle
           /\ cdst0 = None /\ dma_used = FALSE
           /\ sent = [q \in DestPE |-> << >>] /\ landed = [q \in DestPE |-> 0]
           /\ memory = [q \in DestPE |-> [a \in Addr |-> 0]]
           /\ asked = << >> /\ fenced = 0

\* A store of v to address a of q: at once on this PE, posted to another.
Store(q, a, v) ==
  /\ sent' = [sent EXCEPT ![q] = Append(@, [a |-> a, v |-> v])]
  /\ IF q = my_pe
     THEN /\ memory' = [memory EXCEPT ![q][a] = v]
          /\ landed' = [landed EXCEPT ![q] = @ + 1]
     ELSE UNCHANGED <<memory, landed>>
NoStores == UNCHANGED <<sent, landed, memory>>

------------------------------------------------------------------------------
\* shmemx_memcpy_nbi, up to the wait: the descriptor is written.
Memcpy_nbi(x) == /\ core = "run" /\ Len(asked) < MaxCopies
                 /\ asked' = Append(asked, x)
                 /\ dma_desc' = [copy |-> x, n |-> Len(asked) + 1]
                 /\ core' = "wait"
                 /\ UNCHANGED <<engine, cdst0, dma_used, fenced>> /\ NoStores

\* (faulty variant) The engine is started over the copy before.
WaitBlind == /\ core = "wait"
             /\ core' = "mark"
             /\ UNCHANGED <<dma_desc, engine, cdst0, dma_used, asked, fenced>> /\ NoStores

\* (faulty variant) The branch on the engine's status is inverted.
WaitInverted == /\ core = "wait"
                /\ cdst0 = None \/ Busy
                /\ core' = "mark"
                /\ UNCHANGED <<dma_desc, engine, cdst0, dma_used, asked, fenced>> /\ NoStores

\* It waits for the copy before it, if there is one since the last quiet.
Wait == /\ core = "wait"
        /\ cdst0 = None \/ ~Busy
        /\ core' = "mark"
        /\ UNCHANGED <<dma_desc, engine, cdst0, dma_used, asked, fenced>> /\ NoStores

\* *cdst = value: the last byte is marked.
Mark == LET x == dma_desc.copy IN
          /\ core = "mark"
          /\ Store(x.pe, Last(x), 2 * dma_desc.n - 1)
          /\ cdst0' = Last(x)
          /\ core' = "start"
          /\ UNCHANGED <<dma_desc, engine, dma_used, asked, fenced>>

\* (faulty variant) The copy is not noted for quiet.
StartUnnoted == /\ core = "start"
                /\ engine' = [copy |-> dma_desc.copy, n |-> dma_desc.n, moved |-> 0]
                /\ core' = "run"
                /\ UNCHANGED <<dma_desc, cdst0, dma_used, asked, fenced>> /\ NoStores

\* The engine is started and has read the descriptor before the next call.
StartEngine == /\ core = "start"
               /\ engine' = [copy |-> dma_desc.copy, n |-> dma_desc.n, moved |-> 0]
               /\ dma_used' = TRUE
               /\ core' = "run"
               /\ UNCHANGED <<dma_desc, cdst0, asked, fenced>> /\ NoStores

CallQuiet == /\ core = "run"
             /\ core' = "quiet"
             /\ UNCHANGED <<dma_desc, engine, cdst0, dma_used, asked, fenced>> /\ NoStores

\* shmem_quiet (and shmem_fence): nothing to do.
QuietNothing == /\ core = "quiet" /\ ~dma_used
                /\ fenced' = Len(asked)
                /\ core' = "run"
                /\ UNCHANGED <<dma_desc, engine, cdst0, dma_used, asked>> /\ NoStores

\* shmem_quiet: the engine has stopped.
Quiet == /\ core = "quiet" /\ dma_used /\ ~Busy
         /\ cdst0' = None
         /\ dma_used' = FALSE
         /\ fenced' = Len(asked)
         /\ core' = "run"
         /\ UNCHANGED <<dma_desc, engine, asked>> /\ NoStores

\* The program sets a flag on q: it has asked for, and quieted, `fenced' copies.
SetFlag(q) == /\ core = "run" /\ fenced > 0
              /\ \A i \in 1..Len(sent[q]) : sent[q][i] # [a |-> Flag, v |-> fenced]
              /\ Store(q, Flag, fenced)
              /\ UNCHANGED <<core, dma_desc, engine, cdst0, dma_used, asked, fenced>>

\* The engine moves a byte, and stops after the last.
Move == LET x == engine.copy IN
          /\ Busy
          /\ Store(x.pe, x.dst + engine.moved, 2 * engine.n)
          /\ engine' = IF engine.moved + 1 = x.nbytes THEN Idle
                       ELSE [engine EXCEPT !.moved = @ + 1]
          /\ UNCHANGED <<core, dma_desc, cdst0, dma_used, asked, fenced>>

\* The oldest store to q that is in flight lands.
LandOldest(q) == /\ landed[q] < Len(sent[q])
                 /\ landed' = [landed EXCEPT ![q] = @ + 1]
                 /\ LET s == sent[q][landed[q] + 1] IN memory' = [memory EXCEPT ![q][s.a] = s.v]
                 /\ UNCHANGED <<core, dma_desc, engine, cdst0, dma_used, sent, asked, fenced>>

Core == Wait \/ Mark \/ StartEngine \/ QuietNothing \/ Quiet

AllAsked == core = "run" /\ Len(asked) = MaxCopies /\ UNCHANGED nbiVars

NbiNext == \/ \E x \in Copies : Memcpy_nbi(x)
           \/ CallQuiet \/ Core \/ Move
           \/ \E q \in DestPE : SetFlag(q) \/ LandOldest(q)
           \/ AllAsked

NbiSpec == NbiInit /\ [][NbiNext]_nbiVars

\* Core and engine run on, the mesh delivers; nothing has to be called.
NbiFairSpec == /\ NbiSpec /\ WF_nbiVars(Core) /\ WF_nbiVars(Move)
               /\ \A q \in DestPE : WF_nbiVars(LandOldest(q))

------------------------------------------------------------------------------
(* Properties *)

TStore == [a : Addr, v : Nat]
NbiTypeOK ==
  /\ core \in {"run", "wait", "mark", "start", "quiet"}
  /\ dma_desc \in [copy : Copies, n : Nat]
  /\ engine \in [copy : Copies, n : Nat, moved : Nat]
  /\ cdst0 \in Nat \cup {None} /\ dma_used \in BOOLEAN
  /\ sent \in [DestPE -> Seq(TStore)] /\ landed \in [DestPE -> Nat]
  /\ memory \in [DestPE -> [Addr -> Nat]]
  /\ asked \in Seq(Copies) /\ fenced \in 0..Len(asked)

InCopy == core \in {"wait", "mark", "start"}

\* A running engine is known to quiet and to the next copy: its copy is the
\* latest one to have been started, and neither flag says that it is done.
EngineIsKnown ==
  /\ InCopy => /\ Len(asked) > 0
               /\ dma_desc = [copy |-> asked[Len(asked)], n |-> Len(asked)]
  /\ core = "start" => cdst0 # None
  /\ Busy => /\ cdst0 # None /\ dma_used
             /\ engine.n \in 1..Len(asked) /\ engine.copy = asked[engine.n]
             /\ engine.moved < engine.copy.nbytes
             /\ engine.n = IF core = "wait" THEN Len(asked) - 1 ELSE Len(asked)
             /\ core \notin {"mark", "start"}

\* Byte j of copy n has been stored, before the i-th store to its destination.
StoredBefore(n, j, i) ==
  \E k \in 1..(i - 1) :
    sent[asked[n].pe][k] = [a |-> asked[n].dst + j, v |-> 2 * n]
Stored(n, j) == StoredBefore(n, j, Len(sent[asked[n].pe]) + 1)

\* A copy that is neither waiting for the engine nor in it has been made
\* (shmemx_memcpy_nbi.c:106-121, the wait for the copy before).
NothingIsLost ==
  \A n \in 1..Len(asked) :
    (InCopy /\ n = Len(asked)) \/
    \A j \in 0..(asked[n].nbytes - 1) :
      (engine.n = n /\ j >= engine.moved) \/ Stored(n, j)

\* Later stores to an address are of later copies.
LaterIsGreater ==
  \A q \in DestPE : \A i \in 1..Len(sent[q]), k \in 1..Len(sent[q]) :
    k <= i /\ sent[q][k].a = sent[q][i].a => sent[q][k].v <= sent[q][i].v

\* Nothing is stored of copies to come, flags are of what is quieted.
StoresAreOfThePast ==
  \A q \in DestPE : \A i \in 1..Len(sent[q]) :
    /\ sent[q][i].a = Flag => sent[q][i].v <= fenced
    /\ sent[q][i].a # Flag =>
         /\ sent[q][i].v <= 2 * Len(asked)
         /\ core \in {"wait", "mark"} => sent[q][i].v <= 2 * Len(asked) - 2
         /\ Busy => sent[q][i].v <= 2 * engine.n

\* Memory is what has landed.
MemoryOf(q) ==
  /\ landed[q] <= Len(sent[q])
  /\ \A i \in 1..landed[q] : memory[q][sent[q][i].a] >= sent[q][i].v
  /\ \A b \in Addr : memory[q][b] = 0 \/
       \E i \in 1..landed[q] : sent[q][i] = [a |-> b, v |-> memory[q][b]]
MemoryIsWhatLanded ==
  landed[my_pe] = Len(sent[my_pe]) /\ \A q \in DestPE : MemoryOf(q)

\* A flag is stored after the bytes of the copies quieted before it.
FlagIsLast ==
  /\ \A n \in 1..fenced : \A j \in 0..(asked[n].nbytes - 1) : Stored(n, j)
  /\ \A q \in DestPE : \A i \in 1..Len(sent[q]) : sent[q][i].a = Flag =>
       \A n \in 1..sent[q][i].v : asked[n].pe = q =>
         \A j \in 0..(asked[n].nbytes - 1) : StoredBefore(n, j, i)

\* No copy is lost, and stores are made and land in the order of the copies.
OrderInv == /\ NbiTypeOK /\ EngineIsKnown /\ NothingIsLost
            /\ LaterIsGreater /\ StoresAreOfThePast
            /\ MemoryIsWhatLanded /\ FlagIsLast

\* Every store but a flag is the mark or a byte of a copy that was asked for.
IsOfCopy(q, s, n) == /\ asked[n].pe = q /\ s.a \in Bytes(asked[n])
                     /\ s.v \in {2 * n - 1, 2 * n}
StoresAreOfCopies ==
  \A q \in DestPE : \A i \in 1..Len(sent[q]) : sent[q][i].a # Flag =>
    \E n \in 1..Len(asked) : IsOfCopy(q, sent[q][i], n)

\* The inductive invariant.
NbiInv == OrderInv /\ StoresAreOfCopies

\* shmem_fence (shmem.h:116, it is shmem_quiet): a PE that sees a flag set after
\* a quiet sees the bytes of all copies to it before that quiet, or later ones.
FenceOrders ==
  \A q \in DestPE, n \in 1..Len(asked) : n <= memory[q][Flag] /\ asked[n].pe = q =>
    \A a \in Bytes(asked[n]) : memory[q][a] >= 2 * n

\* After shmem_quiet the bytes of a get are there (test/get_nb.c:86-101).
QuietCompletesGets ==
  \A n \in 1..fenced : asked[n].pe = my_pe =>
    \A a \in Bytes(asked[n]) : memory[my_pe][a] >= 2 * n

\* After shmem_quiet, once its stores have landed, every destination byte is
\* that of the latest copy to it: no mark is left (test/put_nb.c:85-104).
LatestCopy(q, a) == {0} \cup {2 * n : n \in {k \in 1..Len(asked) :
                                  asked[k].pe = q /\ a \in Bytes(asked[k])}}
NoMarkIsLeft ==
  \A q \in DestPE : fenced = Len(asked) /\ landed[q] = Len(sent[q]) =>
    \A a \in Addr \ {Flag} :
      memory[q][a] \in LatestCopy(q, a) /\ \A v \in LatestCopy(q, a) : v <= memory[q][a]

\* shmemx_memcpy_nbi and shmem_quiet return.
CallsReturn == core # "run" ~> core = "run"

==============================================================================

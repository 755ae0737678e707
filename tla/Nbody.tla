--------------------------------- MODULE Nbody ---------------------------------
(* The n-body program, which uses the library as its README recommends: PEs   *)
(* read each other's particles in place through shmem_ptr, between barriers.  *)
(*                                                                            *)
(* With s = 1 (shmem_tfunc.c) the particles stay on the cores, and a PE shows *)
(* the others the array that it updates.  With more segments (shmem_tfunc2.c) *)
(* the particles are in DRAM, p to read and pn to write, and a PE shows a     *)
(* working copy.  A particle is the number of its last update; the velocities *)
(* are left out.  shmem_barrier_all is the abstract barrier.                  *)
EXTENDS Integers, Sequences

CONSTANTS
  npes,
  s,              \* segments of the particles
  iter,           \* updates to make
  Chunks          \* npart / NCACHE: chunks in which ComputeAccel reads a PE

NbodyAssumption == {npes, s, Chunks} \subseteq Nat \ {0} /\ iter \in Nat

VARIABLES
  pc,
  loop,           \* loop[p]: the updates made, and the loop variables
  dram,           \* dram[p][b][g]: PE p's particles of segment g in buffer b
  buffer,         \* buffer[p]: the buffer that p, the pointer, points to
  my_particles, work_particles,   \* their segment and the last update
  read,           \* read[p]: what ComputeAccel has read for PE p's particles
  entered, left   \* of the barrier

vars == <<pc, loop, dram, buffer, my_particles, work_particles, read, entered, left>>

PE == 0..(npes - 1)
Barrier_all == INSTANCE Barrier

Part(seg, update) == [seg |-> seg, update |-> update]
Nothing == Part(s, 0)

Init == /\ pc = [p \in PE |-> "load"]
        /\ loop = [p \in PE |-> [done |-> 0, j |-> 0, k |-> 0, i |-> 0, c |-> 0]]
        /\ dram = [p \in PE |-> [b \in {0, 1} |-> [g \in 0..(s - 1) |-> 0]]]
        /\ buffer = [p \in PE |-> 0]
        /\ my_particles = [p \in PE |-> Nothing]
        /\ work_particles = [p \in PE |-> Nothing]
        /\ read = [p \in PE |-> << >>]
        /\ Barrier_all!Init

Goto(p, l) == pc' = [pc EXCEPT ![p] = l]
InDram(p, seg) == Part(seg, dram[p][buffer[p]][seg])

------------------------------------------------------------------------------
\* The particles to update; with s = 1 once, before the iteration loop.
Load(p) == /\ pc[p] = "load"
           /\ my_particles' = [my_particles EXCEPT ![p] = InDram(p, loop[p].j)]
           /\ Goto(p, IF iter = 0 THEN "done" ELSE IF s = 1 THEN "first" ELSE "work")
           /\ UNCHANGED <<loop, dram, buffer, work_particles, read, entered, left>>

\* A new working set.
LoadWork(p) == /\ pc[p] = "work"
               /\ work_particles' = [work_particles EXCEPT ![p] = InDram(p, loop[p].k)]
               /\ Goto(p, "first")
               /\ UNCHANGED <<loop, dram, buffer, my_particles, read, entered, left>>

\* (faulty variant) The second barrier is left out.
EnterFirst(p) ==
  \/ /\ pc[p] = "first" /\ Goto(p, "inFirst") /\ Barrier_all!Enter(p)
     /\ UNCHANGED <<loop, dram, buffer, my_particles, work_particles, read>>
  \/ /\ pc[p] = "second"
     /\ Goto(p, IF loop[p].k + 1 < s THEN "work" ELSE "update")
     /\ loop' = [loop EXCEPT ![p].k = IF @ + 1 < s THEN @ + 1 ELSE 0]
     /\ UNCHANGED <<dram, buffer, my_particles, work_particles, read, entered, left>>

\* shmem_barrier_all is called, before the accelerations and behind them.
Enter(p) ==
  /\ \/ pc[p] = "first" /\ Goto(p, "inFirst")
     \/ pc[p] = "second" /\ Goto(p, "inSecond")
  /\ Barrier_all!Enter(p)
  /\ UNCHANGED <<loop, dram, buffer, my_particles, work_particles, read>>

\* It returns: to the accelerations, to the next working set or to the update.
Leave(p) ==
  /\ \/ pc[p] = "inFirst" /\ Goto(p, "accel") /\ UNCHANGED loop
     \/ /\ pc[p] = "inSecond"
        /\ Goto(p, IF loop[p].k + 1 < s THEN "work" ELSE "update")
        /\ loop' = [loop EXCEPT ![p].k = IF @ + 1 < s THEN @ + 1 ELSE 0]
  /\ Barrier_all!Leave(p)
  /\ UNCHANGED <<dram, buffer, my_particles, work_particles, read>>

\* What shmem_ptr(..., q) points to.
others(q) == IF s = 1 THEN my_particles[q] ELSE work_particles[q]

\* ComputeAccel caches the next chunk of PE i's particles.
ComputeAccel(p) == LET l == loop[p] IN
  /\ pc[p] = "accel"
  /\ read' = [read EXCEPT ![p] = Append(@, [pe |-> l.i, chunk |-> l.c, part |-> others(l.i)])]
  /\ IF l.c + 1 < Chunks THEN loop' = [loop EXCEPT ![p].c = @ + 1] /\ UNCHANGED pc
     ELSE IF l.i + 1 < npes
     THEN loop' = [loop EXCEPT ![p].c = 0, ![p].i = @ + 1] /\ UNCHANGED pc
     ELSE loop' = [loop EXCEPT ![p].c = 0, ![p].i = 0] /\ Goto(p, "second")
  /\ UNCHANGED <<dram, buffer, my_particles, work_particles, entered, left>>

\* ComputeNewPos, in place; with s = 1 back to DRAM after the last update.
UpdateOnChip(p) == LET new == my_particles[p].update + 1
                       more == loop[p].done + 1 < iter IN
  /\ pc[p] = "update" /\ s = 1
  /\ my_particles' = [my_particles EXCEPT ![p].update = new]
  /\ dram' = IF more THEN dram ELSE [dram EXCEPT ![p][0][0] = new]
  /\ loop' = [loop EXCEPT ![p].done = @ + 1]
  /\ read' = [read EXCEPT ![p] = << >>]
  /\ Goto(p, IF more THEN "first" ELSE "done")
  /\ UNCHANGED <<buffer, work_particles, entered, left>>

\* With more segments to pn, and after the last one p and pn are swapped.
UpdateOffChip(p) == LET l == loop[p]
                        new == my_particles[p].update + 1
                        last == l.j + 1 = s IN
  /\ pc[p] = "update" /\ s > 1
  /\ my_particles' = [my_particles EXCEPT ![p].update = new]
  /\ dram' = [dram EXCEPT ![p][1 - buffer[p]][l.j] = new]
  /\ buffer' = IF last THEN [buffer EXCEPT ![p] = 1 - @] ELSE buffer
  /\ loop' = [loop EXCEPT ![p].j = IF last THEN 0 ELSE @ + 1,
                          ![p].done = IF last THEN @ + 1 ELSE @]
  /\ read' = [read EXCEPT ![p] = << >>]
  /\ Goto(p, IF last /\ l.done + 1 = iter THEN "done" ELSE "load")
  /\ UNCHANGED <<work_particles, entered, left>>

Step(p) == \/ Load(p) \/ LoadWork(p) \/ Enter(p) \/ Leave(p) \/ ComputeAccel(p)
           \/ UpdateOnChip(p) \/ UpdateOffChip(p)
Finished == (\A p \in PE : pc[p] = "done") /\ UNCHANGED vars

Next == (\E p \in PE : Step(p)) \/ Finished
Spec == Init /\ [][Next]_vars

\* The host: where it reads the result from.
p_mem_switch == IF s > 1 /\ (iter + 2) % 2 # 0 THEN 1 ELSE 0

------------------------------------------------------------------------------
(* Properties *)

InFirst == {"inFirst", "accel", "second"}
InRound == {"first", "inSecond"} \cup InFirst
Counters == [done : 0..iter, j : 0..(s - 1), k : 0..(s - 1),
             i : 0..(npes - 1), c : 0..(Chunks - 1)]
Segments == 0..(s - 1)
Particles == [seg : Nat, update : Nat]
InPlace(p) ==
  /\ pc[p] \notin {"accel"} => loop[p].i = 0 /\ loop[p].c = 0
  /\ pc[p] \in {"load", "update", "done"} => loop[p].k = 0
  /\ pc[p] = "done" => loop[p].done = iter /\ loop[p].j = 0
  /\ pc[p] \notin {"load", "done"} => loop[p].done < iter
  /\ pc[p] = "load" => loop[p].done < iter \/ (iter = 0 /\ loop[p].j = 0)
  /\ s = 1 => pc[p] # "work" /\ (pc[p] = "load" => loop[p].done = 0)
TypeOK ==
  /\ pc \in [PE -> {"load", "work", "update", "done"} \cup InRound]
  /\ loop \in [PE -> Counters]
  /\ dram \in [PE -> [{0, 1} -> [Segments -> Nat]]] /\ buffer \in [PE -> {0, 1}]
  /\ my_particles \in [PE -> Particles] /\ work_particles \in [PE -> Particles]
  /\ read \in [PE -> Seq([pe : PE, chunk : 0..(Chunks - 1), part : Particles])]
  /\ entered \in [PE -> Nat] /\ left \in [PE -> Nat]
  /\ \A p \in PE : InPlace(p)

\* The barriers that a PE has called: two for each pair of segments.
First(d, j) == (d * s + j) * s
Round(p) == First(loop[p].done, loop[p].j) + (IF pc[p] = "update" THEN s ELSE loop[p].k)
InStep == \A p \in PE :
  /\ entered[p] = 2 * Round(p) + (IF pc[p] \in InFirst THEN 1
                                  ELSE IF pc[p] = "inSecond" THEN 2 ELSE 0)
  /\ left[p] = IF pc[p] \in {"inFirst", "inSecond"} THEN entered[p] - 1 ELSE entered[p]
  /\ \A q \in PE : left[p] <= entered[q]

\* A PE's particles are those of its last update.
UpToDateAt(p) == LET l == loop[p] IN
  /\ pc[p] \notin {"load", "done"} => my_particles[p] = Part(l.j, l.done)
  /\ s > 1 /\ pc[p] \in InRound => work_particles[p] = Part(l.k, l.done)
  /\ IF s = 1
     THEN buffer[p] = 0 /\ dram[p][0][0] = IF pc[p] = "done" THEN iter ELSE 0
     ELSE /\ buffer[p] = l.done % 2
          /\ \A g \in Segments : dram[p][buffer[p]][g] = l.done
          /\ \A g \in 0..(l.j - 1) : dram[p][1 - buffer[p]][g] = l.done + 1
UpToDate == \A p \in PE : UpToDateAt(p)

\* What a PE has read since its last update: chunk c of segment g of PE q.
HasRead(p, q, c, g) == LET l == loop[p] IN
  \/ pc[p] = "update" \/ g < l.k
  \/ g = l.k /\ pc[p] \in {"second", "inSecond"}
  \/ g = l.k /\ pc[p] = "accel" /\ (q < l.i \/ (q = l.i /\ c < l.c))
ReadCount(p) == LET l == loop[p] IN
  CASE pc[p] = "update" -> npes * s * Chunks
    [] pc[p] \in {"second", "inSecond"} -> npes * (l.k + 1) * Chunks
    [] OTHER -> npes * l.k * Chunks + l.i * Chunks + l.c
Chunk(p, q, c, g) == [pe |-> q, chunk |-> c, part |-> Part(g, loop[p].done)]
ReadInOrderAt(p) ==
  /\ Len(read[p]) = ReadCount(p)
  /\ \A m \in 1..Len(read[p]) : \E q \in PE, c \in 0..(Chunks - 1), g \in Segments :
       HasRead(p, q, c, g) /\ read[p][m] = Chunk(p, q, c, g)
  /\ \A q \in PE, c \in 0..(Chunks - 1), g \in Segments : HasRead(p, q, c, g) =>
       \E m \in 1..Len(read[p]) : read[p][m] = Chunk(p, q, c, g)
ReadInOrder == \A p \in PE : ReadInOrderAt(p)

\* The inductive invariant.
IInv == TypeOK /\ InStep /\ UpToDate /\ ReadInOrder

\* The accelerations of an update come from all particles of all PEs, each once and
\* all as the update before left them, though nothing but the two barriers keeps a
\* PE from overwriting what another still reads; and the host reads the result
\* where the last update has left it (c_nbody/main.c:183).
NbodySeesAll ==
  /\ \A p \in PE : pc[p] = "update" =>
       /\ my_particles[p] = Part(loop[p].j, loop[p].done)
       /\ Len(read[p]) = npes * s * Chunks
       /\ {read[p][i] : i \in DOMAIN read[p]} =
            {[pe |-> q, chunk |-> c, part |-> Part(g, loop[p].done)] :
               q \in PE, c \in 0..(Chunks - 1), g \in 0..(s - 1)}
  /\ (\A p \in PE : pc[p] = "done") =>
       \A p \in PE, g \in 0..(s - 1) : dram[p][p_mem_switch][g] = iter

==============================================================================

# Specifications of ARL OpenSHMEM for Epiphany

This directory holds TLA+ models of the run-time library under `src/src/`: an
OpenSHMEM 1.4 implementation for the Epiphany-III, a chip with up to 16 cores
(processing elements, PEs) and a flat address space in which every core can read
and write the memory of every other core. There is no cache, no operating system
and no thread inside a PE. All concurrency is between cores, their DMA engines,
one interrupt (the IPI get) and the stores in flight on the mesh.

## 1. The system

### 1.1 The machine the code runs on (external)

* A core's load or store to its own memory takes effect at once. A store to
  another core is *posted*: the instruction retires and the store lands later.
  Stores of one core to one destination land in the order they were issued;
  stores to different destinations are unordered.
* `testset` is atomic at the destination: it reads the word and writes the
  given value if the word was 0.
* A DMA engine runs beside its core from a descriptor in the core's memory.

### 1.2 Components

| Component | Source (`src/src/`) | State | Operations |
| --- | --- | --- | --- |
| Start-up | `shmem_init.c`, `shmem_finalize.c`, `shmem_init_thread.c` | `__shmem` (PE number, number of PEs, log2), ISR table, heap base | init (with a linear barrier in the eSDK build), finalize |
| Synchronization | `shmem_sync.c`, `shmem_sync_all.c`, `shmem_barrier*.c` | `barrier_sync[]`, `barrier_psync[]`, the program's `pSync` arrays | dissemination barrier over an active set or all PEs; `testset` form for two PEs; WAND hardware form |
| Locks | `__shmem_*_lock.c`, `__shmem_lock_ptr.c`, `shmem_*_lock.c`, `shmemx_*_lock_pe.c` | one word per lock, on PE 0 or on a given PE | set (spin on `testset`), test, clear (quiet, then store 0) |
| Atomics | `def_shmem_x_atomic_*.h` and their instances | the target word, one lock per type and PE | 14 operations; all but fetch and set under the type's lock on the target PE |
| Copies | `shmemx_memcpy{8,16,32,64,128}.c`, `def_shmem_x_{put,get,iput,iget}.h` | memory | blocking contiguous and strided copies |
| Non-blocking copies | `shmemx_memcpy_nbi.c`, `shmem_quiet.c`, `shmem_ctx_quiet.c`, `*_nbi.c` | DMA descriptor, `cdst0/1`, `csrc0/1`, `dma_used` | start a DMA copy, quiet |
| IPI get | `def_shmem_x_get.h`, `shmem_init.c` | `shmem_ipi_args` on each PE (lock, arguments, complete) | interrupt another PE and have it put the data |
| Collectives | `def_shmem_{broadcastx,collect_n,fcollect_n,alltoall_x,alltoalls,x_to_all}.h` | `pSync`, `pWrk`, `lock_receive_finished` | tree broadcast, collect with running offset, linear fcollect and alltoall, recursive-doubling or ring reduction |
| Symmetric heap | `shmem_align.c`, `shmem_malloc.c`, `shmem_calloc.c`, `shmem_realloc.c`, `shmem_free.c`, `shmem_mman.c` | `free_mem` (the break) | allocate, free in stack order |
| Point-to-point waits | `def_shmem_x_{wait,wait_until,test}.h` | one word | spin until a comparison holds |
| Example programs | `src/example/` | the program's own arrays | n-body (reads other PEs' particles in place), random updates (`c_gups`), rotation (`c_dynamic_calls`), conjugate gradient, sparse matrix |
| Addressing, queries, contexts, exit | `shmem_ptr.c`, `shmem.h`, `shmem_ctx_*.c`, `shmem_info_*.c`, `shmem_query_thread.c`, `shmem_global_exit.c` | none | pure, or a single store |

### 1.3 How they interact

A barrier is `shmem_quiet` followed by the synchronization rounds. Atomics and
the user locks are built on the lock primitives; clearing a lock calls
`shmem_quiet` first. Every collective is built from blocking copies, plain flag
stores and, at its start or end, `shmem_barrier` on the same `pSync`. The IPI get
uses a lock and a completion flag. All of them communicate through plain words in
the receiver's memory which are stored by one PE, polled by another and reset by
the receiver; none of them uses sequence numbers. That is where the hard
behaviours are: a flag is a one-bit message without acknowledgement, so a
sender that is one phase ahead may overwrite it or have it wiped out, and a
receiver cannot tell which phase a set flag belongs to.

### 1.4 What makes each component correct

* Synchronization: nobody leaves before everybody has entered; everybody leaves;
  the flags are restored; no signal is lost or taken for another call's.
* Locks and atomics: mutual exclusion; operations on a word take effect one at a
  time; a lock that was set is cleared.
* Non-blocking copies: a transfer that was started is completed with its own
  arguments; after quiet none is outstanding.
* Collectives: every member ends with exactly the specified data, also when calls
  follow each other; all types and operations give the right values; the flags are
  restored; everybody returns.
* Heap: live blocks are disjoint, aligned and inside the heap, the PEs' heaps stay
  symmetric, freeing in reverse order gives the space back.
* Copies and waits: pure functions against a reference definition.
* IPI get: one request at a time, nobody is told of another's end, the data is in the
  caller's `dest`.
* Start-up: nobody uses another PE before that PE has been initialised.
* The example programs: nobody reads what is being overwritten, no update is lost.

## 2. Modules

Every module translates the code it names; external parts (the mesh, `testset`,
the DMA engine, the program that calls the library) are modelled from how the code
uses them. Operators marked "(faulty variant)" are never part of a
specification: each is a definition with a plausible bug in it, put in place of
the right one to see that a property notices.

### Synchronization, locks, atomics

| Module | Models | State and actions |
| --- | --- | --- |
| `Barrier` | the promise of a barrier | `entered`, `left`; nobody leaves call n before all have entered it |
| `ShmemSync` | `shmem_sync.c`, `shmem_sync_all.c`, with `shmem_init`'s table of partners | `flag` is pSync or `barrier_sync`, `posted` the signals in flight. One action for each of: entering, `*remote_lock = 1` (or the `testset` loop for two PEs), leaving the spin loop, clearing the flag, returning; `Land` is the mesh |
| `ShmemInit` | the chain at the end of `shmem_init` and the barrier that the program calls next | an `INSTANCE` of `ShmemSync`, whose flag word `barrier_sync[0]` the chain uses too; `at` and the stores of the chain |
| `ShmemLock` | `__shmem_{set,test,clear}_lock.c` and the user's lock routines | `word`, stores in flight per pair of PEs, a counter of the program under each lock |
| `ShmemAtomic`, `AtomicCell` | `def_shmem_x_atomic_*.h` with `__shmem_set_lock`, `__shmem_clear_lock` | `mem`, `lock`, the local `r`, stores in flight. Actions: call, `testset`, load, store, release, landing, return. `AtomicCell` is the abstract word that changes in one step |
| `AtomicOps`, `AtomicTypes` | what each operation makes of a word; the 142 routines `shmem_<type>_atomic_<op>.c`, the type-generic macros of `shmem.h` and the deprecated names | functions; a routine is a call record with its operation and the type's lock |

### Copies and memory

| Module | Models | State and actions |
| --- | --- | --- |
| `ShmemNbi` | `shmemx_memcpy_nbi.c`, `shmem_quiet.c` (`shmem_fence` is the same routine) | `dma_desc`, `engine`, `cdst0`, `dma_used`, and the bytes at every destination. One action for each loop and each assignment that the engine can come between |
| `ShmemCopy` | `shmemx_memcpy{8,16,32,64,128}.c`, `def_shmem_x_{put,get,iput,iget}.h`, all their instances, the wrappers by type and the type-generic macros of `shmem.h`; the copies of the ten collective routines by size (`shmem_fcollect32` to `shmem_alltoalls64`); `shmem_ptr.c`, the PE number, the number of PEs and its logarithm of `shmem_init.c`, `shmem_pe_accessible` | functions: the pairs of elements a call moves, and between which cores |
| `ShmemIpiGet` | `def_shmem_x_get.h` with `SHMEM_USE_IPI_GET`, `__shmem_user_isr` | the lock, the argument record, the latched interrupt, the routine's progress, the word `complete` |
| `ShmemHeap` | `shmem_{malloc,align,calloc,realloc,free,finalize}.c`, `shmem_mman.c` | the break `free_mem`, the program's blocks, and which bytes are not 0 |
| `WaitTypes` | `def_shmem_x_{wait,wait_until,test}.h` and their instances; the type-generic `shmem_wait_until` and `shmem_test` | functions: whether a wait spins, what a test returns |

### Collectives

| Module | Models | State and actions |
| --- | --- | --- |
| `ShmemReduce` | `def_shmem_x_to_all.h` | `vSync` (signal and lock), `pWrk`, `dest`, the posted pieces. Ring and power-of-two forms, several pieces |
| `ReduceTypes` | the 44 routines `shmem_<type>_<op>_to_all.c` | functions: one element of `dest` on every PE, in the order in which that PE combines, in two's complement words |
| `ShmemBroadcast` | `def_shmem_broadcastx.h` | `mask`, `finished` (`lock_receive_finished`), `dest`, stores in flight |
| `ShmemCollect` | `def_shmem_collect_n.h` | the two padded words of pSync (`lsync`), `my_offset`, `dest`; the spin loop read by read |
| `ShmemExchange` | `def_shmem_{fcollect_n,alltoall_x,alltoalls}.h`, the put of `c_dynamic_calls` | posted copies and the rounds of `ShmemSync` (an `INSTANCE`): what is in order with what |

### Programs, and the modules for TLC

| Module | Models | State and actions |
| --- | --- | --- |
| `Nbody` | `c_nbody`: `shmem_tfunc.c`, `shmem_tfunc2.c`, `nbody.h` | particles as the number of their last update, on the cores or in segments in DRAM; the two barriers |
| `Gups` | `c_gups`: `shmem_tfunc.c`, `gups.h`, `main.c` | the table's parts, updates by atomic xor or by load and posted store; the host's own loop |
| `MCCollectives` | | one job per behaviour: three reductions, two broadcasts, a collect, five exchanges, a start-up |
| `MCMemory` | | one job per behaviour: the heap, a copy, a collective's copies, a reduction's value, a wait, the IPI get, the two programs |
| `MCSynchronization` | | one job per behaviour: a barrier, the user's locks, or the atomic routines of one type or of two |
| `MCOneSided` | | one job per behaviour: the non-blocking copies of a PE, or the atomic operations of three |
| `MCShmemSync`, `MCShmemLock` | | the values of the constants of a component; the two above extend them |
| other `MC*` | | constants for TLC |
| `*Proof` | | theorems (section 5); `ShmemSyncProof` is also about `ShmemInit` and `ShmemExchange`, `CollectivesProof` about `ShmemReduce`, `ShmemCollect` and `ShmemBroadcast`, `ShmemNbiProof` also about `ShmemIpiGet`, `MCCollectivesProof` about the jobs of `MCCollectives` |

`MCSynchronization` and `MCOneSided` extend two components each; for that reason the names
in `ShmemLock` and `ShmemNbi` say whose they are (`LockInit`, `NbiSpec`).

`ShmemSync` and `ShmemAtomic` are shown to implement `Barrier` and `AtomicCell`
(`INSTANCE ... WITH` and the abstract specification as a property). Where only the
promise matters the abstract one is used: `ShmemReduce`, `ShmemBroadcast`,
`ShmemCollect`, `Nbody` and `Gups` have a `Barrier`, and an atomic xor of `Gups` is
one step. Where the timing of the signals matters `ShmemSync` itself is part of the
module: in `ShmemExchange` and `ShmemInit`.

A value in a model often says more than the bit in the code: a signal is the
number of the call that sent it, a reduced value is the bag of contributions
in it, a piece of data is the call and the block it belongs to. The actions only
ever test what the code can test (0 or not 0); the rest is for the properties.

### Assumptions about the machine and the program

* Posted stores of one PE to one other PE land in the order in which they were
  issued. Stores to different PEs, and of different PEs, are not ordered. A
  `testset` does not overtake an earlier store to the same destination. The stores of
  a core and of its engine take the same way, in the order in which they leave. A
  load may overtake stores.
* The engine reads its descriptor when it is started.
* `ShmemAtomic`: a PE waits for the result of its own operation before the next, so
  that at most one store of it to a word is in flight with the release behind it;
  one word is used with one type (`OneTypeAssumption`; `int` and `int32` operations
  have different locks, `internals.h:130`).
* `ShmemLock`: the data under a lock is on the PE of the lock (`DataOn = HomeOf` in
  the run). `shmem_quiet` does not wait for posted stores, and with data on
  another PE `NoLostUpdate` fails in the model; the repository promises nothing here.
* `ShmemNbi`: copies have at least one byte (for `nbytes = 0` the routine reads
  `src[-1]` and starts the engine with a count of 0).
* `ReduceTypes`: the pieces of the power-of-two form come in the order of its steps; the run
  `reduce4` shows that they need not.
* `ShmemReduce`, `ReduceTypes`: `source` and `dest` are different arrays; floating-point
  values are small integers, so that rounding plays no part.
* `ShmemCollect`: the copy of a block to all PEs lands at once.
* `ShmemExchange`: `dest` of a call is not the `dest` of the call before it.
* `ShmemCopy`: a group of cores as wide as `SHMEM_ROW_SHIFT` says, and square; source
  and destination do not overlap.
* `ShmemIpiGet`: the arguments and the interrupt, stores of one PE to one other,
  arrive in order and are one message; the interrupt routine is not interrupted.
* `ShmemHeap`: all PEs make the same calls, so that one heap stands for all; the
  rules of `src/src/README.md` (free in reverse order, reallocate the last block,
  alignments that are powers of two) are kept; blocks have at least one byte and
  `shmem_calloc` is asked for multiples of 8. The break is never compared with the
  stack in the code; `Limit` keeps the model finite.
* `Gups`: more words than PEs. With as many, the mask is shifted by 32, which C leaves
  undefined.

## 3. Runs

`tlc -config <run>.cfg <module>`; each ends within three and a half minutes on two cores.

| Run | Module | Shows |
| --- | --- | --- |
| `synchronization` | `MCSynchronization` | five PEs (the wrap, three rounds, not a power of two), stride 2 from PE 3, three calls of `shmem_sync` with two pSync arrays in turn: it implements `Barrier`; no signal is lost or merged; arrays are restored; every call returns; the proof's invariant holds. Three PEs, one lock on PE 0 and one on PE 1, the result of `shmem_test_lock` read as the code gives it (`Taken = 1`): mutual exclusion, no lost update, the proof's invariant, `shmem_set_lock` returns. Two PEs that call each of the atomic routines on a word of each type, and on an `int` and a `long` side by side: the operations serialize, and every lock is given back, also after a compare-and-swap that fails. There is a routine for each operation that `shmem.h` declares (an assumption that TLC evaluates) |
| `onesided` | `MCOneSided` | three PEs, eight operations on one word of 2 bits, called through the routine, the type-generic macro or the deprecated name: memory and results are those of some serial order of the operations, and the word behaves as `AtomicCell`. Sets are called in `synchronization`. Three overlapping puts and gets of one PE (of two bytes and of one) with quiets and flags between: no copy is lost, a flag behind a fence is seen after the bytes, gets are complete after quiet, no mark is left, the busy-waits end |
| `collectives` | `MCCollectives` | two calls of each of: a ring reduction of three PEs, a two-PE reduction in three pieces, a four-PE reduction (use of locks and pieces only; its sum is the run `reduce4`), broadcasts over eight PEs and over every other PE of eight with changing roots, a collect of three PEs with blocks of 0 to 2 elements. `shmem_fcollect` on two PEs (three calls, one array: also the `testset` barrier looped, with the invariant of `ShmemSync`) and on three (two calls), `shmem_alltoall` and `shmem_alltoalls` on three, the rotation of five PEs: the blocks are where they belong when a call returns. `shmem_init` on four PEs and a `shmem_sync` behind it |
| `memory` | `MCMemory` | up to three blocks of 5, 8 and 16 bytes, alignments 8, 16 and 32, all orders of the six heap routines; every size of copy at every alignment of both ends and every count up to past the unrolled loop, strided copies, every routine by type and by type-generic name; the copies that each collective of 32 and 64 bits makes for each PE; every reduction for all sources of two and three PEs of three bits, and for those of four PEs made of -4, -1, 2 and 3, where the power-of-two form has two steps; every wait and test, the type-generic ones too, for all words of three bits; three PEs that get from each other by interrupt, twice each; n-body on three PEs with the particles on chip, on two with two segments; random updates on two PEs |

In `CopyIsExact`, `OperationsAreRight` and part of `GupsIsRight` the model is compared
with a definition that does not look at how the code does it: what a `put` or a
collective moves, bit by bit what an `and` of all sources is, what the host's table is.

Eight runs end in a violation, each of one property; the findings in `PROJECT.json`
quote what the repository says to the contrary.

| Run | The code |
| --- | --- |
| `sync_all2` | `shmem_sync_all` on two PEs, called back to back as in `test/barrier.c`: the second signal lands before the first is cleared, one of them is lost and a PE waits for ever. `shmem_sync` has a `testset` form for this; `shmem_sync_all` has not. Not only two PEs: with one array any number except 2^k - 1 loses signals (`PE_size = 4`, `Arrays = {"A"}`) |
| `reduce4` | the power-of-two reduction on four PEs: a piece of the second step is taken for one of the first |
| `ring5` | a ring reduction of five PEs, called once, may not return. A PE opens its lock only after it has sent its own piece (`def_shmem_x_to_all.h:68-74`); two PEs that send to each other next wait for each other's lock while both hold a piece they have not read. `test/atomic_set.c` sums over every number of PEs |
| `bcast5` | a broadcast to five PEs sends twice to a PE, and the second flag releases it too early in the next call |
| `collect_offset` | the collect reads the offset before it looks at the flag and uses it after |
| `init` | the "linear barrier" of `shmem_init` is a chain: a PE may return before the PEs behind it have come |
| `test_lock` | `shmem_test_lock` returns 1 if it has set the lock; the comments in `__shmem_test_lock.c:47-48` say 0. A program that goes by them (`Taken = 0`) enters the section of another PE |
| `ipi_get` | the interrupt get gives the remote PE a local address: the data never comes to the caller |

Further disagreements found while modelling. Those that a change of constants shows:

* A ring reduction with stride 2, or with two pieces, of three PEs: `SumIsComplete`
  fails in `ShmemReduce` (`PE_size = 3, Stride = 2` or `nreduce = 2`).
* `shmem_fcollect` on four PEs: a block for a PE that is no partner in the rounds may
  land after that PE has returned; `DestIsExchanged` fails. The code relies on the mesh
  being faster than a chain of flags.
* `shmem_alltoall` with blocks that are not all equal: the pointer into `source` is
  never advanced, and `DestIsExchanged` fails with `Source = Blocks(2)`.
* `shmem_alltoalls` with `PE_start = 1`: the place in `dest` is computed from the PE
  number and not from the place in the active set; `DestIsExchanged` fails.
* An `atomic_set` among the operations: `SectionsSerialize` without its condition fails,
  since set takes no lock.
* `shmem_malloc(0)` and then `shmem_free(0)` move the break to 0: with 0 in `Sizes`
  `BlocksAreDisjoint` fails.
* `shmem_calloc` of a size that is not a multiple of 8: with 12 in `ZeroedSizes`
  (and `Sizes`) `CallocIsZeroed` fails.

Those that are seen at a glance, outside of the models:

* `shmem_ctx_quiet` and `shmem_ctx_fence` do nothing for any context: the condition
  `!(ctx | SHMEM_CTX_NOSTORE)` is never true.
* The macro for `shmem_ctx_getmem_nbi` (`shmem.h:449`) has no parameter for the context,
  and that for `shmem_ctx_<type>_g` (`shmem.h:476`) takes none although
  the type-generic `shmem_g` passes one.
* `DECL_GENERIC_BITWISE_AMO` ends with a comma (`shmem.h:218`) and
  `DECL_GENERIC_P2P_DEPRECATED` gives eight types to `DECL_ARG14` (`shmem.h:242`): the
  type-generic bitwise operations and `shmem_wait` do not preprocess. The generic
  `shmem_wait_until` and `shmem_test` compile with the GNU builtins only (in `_Generic`
  the fixed-width types are given twice); `WaitTypes` takes the first type that matches.
* `long double` is reduced in elements of 64 bits (`shmem_longdouble_sum_to_all.c:38`)
  and put in elements of 128 (`shmem.h:489`).
* `e_hello/e_task.c:71` reduces with `source = dest`, which the ring form does not
  allow for: it sends what has been combined already.
* `c_conjugate_gradient/shmem_tfunc.c` reuses one pSync for sums over a column, a row and
  all cores without a barrier between (lines 64, 122, 130, 146). It also multiplies the
  block of row `row` and column `col` with the piece of `p` that belongs to `row`
  (lines 61, 111): for d > 1 that is not A times p.
* `n_pes_log2` is counted up from its former value in a second `shmem_init`
  (`shmem_init.c:156`); `ShmemCopy` has the first.

### Bounds, and why they are enough

* `MaxCalls` (1 to 3): the hazards of the flags are between a call and the next. A
  PE can be at most one call ahead of another, so that three calls show every
  combination of early signals and a reuse of the first array. In `ShmemLock` two
  tries per PE make each lock be released and taken again by another.
* Numbers of PEs: 5 has a wrap in each round and a last round that overlaps the
  ones before; 2 is the special form; 3 is the smallest ring; 4 the smallest with
  two steps; 8 a tree of depth three. Every lock hazard needs two PEs, the order of
  three adds a bystander; so do the interrupt gets, where a third PE competes for
  the argument record.
* `Width = 2` for atomics: the sum of three operations wraps around. `Width = 3` for
  reductions and comparisons: sums and products overflow, signed and unsigned order
  differ, and -4 is its own negative.
* Copies: counts go past one unrolled block of double words with a head and a rest on
  each side; addresses repeat with the double word, so that their low bits are enough.
* `Limit = 64`, `MaxLive = 3` for the heap: a block of odd size, the gap behind it
  and a third block fit with each alignment.
* `Nbody`: two updates make the particles be overwritten and read again; with
  segments three make both buffers be read and written. `Gups`: INDEX on six bits hits each
  word several times from each PE; one store of a PE in flight (`MaxSent`).
* `CHECK_DEADLOCK FALSE` is set in `sync_all2`, where the system stops because of the
  lost signal, and in `ring5`, where two PEs wait for each other. Everywhere else the end of the program is an explicit
  stuttering step (or cannot occur) and TLC checks for deadlock.

## 4. Fairness

A core executes its next instruction; the mesh delivers; the engine moves bytes.
So the fairness is weak, on each PE's step, each landing and each engine step. No
fairness is put on a call: a program need not call again. Spin loops are guards that
become true, so that weak fairness says that a core that can leave its loop and
goes on being able to will leave it. Some places need more care:

* `ShmemLock`: there is no queue, and a PE that keeps taking the lock can starve
  another for ever. `LockIsGranted` holds because the other PEs stop calling after
  `MaxTries`; it says that no release is lost, not that the lock is fair. The same is
  true of `LocksAreReleased` for the locks of the atomic operations.
* `MCSynchronization`: the numbers of calls and tries are bounded and no step of its jobs
  is a spin, so that no behaviour has infinitely many of them, and fairness of the
  disjunction of all steps (`Goes`) is the same as fairness of each one. A call of a
  lock routine is not among them: nobody has to try. In `MCOneSided` the core, the engine
  and the landings have fairness of their own.
* `MCCollectives`: the same holds of all jobs but the collect.
  `ShmemCollect` models the spin read by read, and each PE has fairness of its own.

`memory` has safety properties only.

## 5. Proofs

`tlapm <module>` proves each of the eight modules with no gaps. The theorems hold for
every value of the constants that satisfies the module's assumptions and, where a
theorem says `ASSUME` something more, that hypothesis; every one of those is a rule
that the library states for programs, or holds in the runs.

| Module | Inductive invariant | Theorems for the properties |
| --- | --- | --- |
| `ShmemSyncProof`: barrier | `IInv`, `TakenBehind` | `ImplementsBarrier`, `NoLostSignal`, `FlagsRestored` |
| `ShmemSyncProof`: start-up | `IInv`, `ChainInv` | `InitIsChain`, `InitIsOver` |
| `ShmemSyncProof`: exchanges | `IInv`, `ExchangeInv` | `DestIsExchanged` |
| `ShmemLockProof` | `LockInv`, `SectionInv` | `MutualExclusion`, `NoLostUpdate` |
| `ShmemAtomicProof` | `IInv`, `OneCallInv` | `ImplementsAtomicCell`, `Serializable` |
| `ShmemNbiProof` | `OrderInv`, `NbiInv` | `FenceOrders`, `QuietCompletesGets`, `NoMarkIsLeft` |
| `CollectivesProof`: reductions | `IInv`, `RingSum`, `PairSum` | `OnePieceAtATime`, `PieceOfThisCall`, `SumIsComplete` |
| `CollectivesProof`: collect | `IInv` | `FlagMeansOffset`, `FlagsRestored` |
| `CollectivesProof`: broadcast | `IInv` | `DestIsSource`, `NothingComesLate`, `FlagIsOfThisCall` |
| `MCCollectivesProof` | those of its jobs | eleven properties of the run `collectives` |
| `ShmemHeapProof` | `InOrder`, `IInv` | `BlocksAreDisjoint`, `BlocksAreAligned`, `MemoryIsGivenBack`, `CallocIsZeroed` |
| `ShmemNbiProof`: IPI get | `IInv` | `OneRequestAtATime`, `CompletedWasServed` (`GetIsServed`) |
| `NbodyProof` | `IInv` | `NbodySeesAll` |

The collectives, `ShmemIpiGet` and `Nbody` are instances in the runs `collectives` and
`memory`, where a property is that of some jobs (`job = "row" => Row!FlagMeansOffset`).
`MCCollectivesProof` carries the theorems of `CollectivesProof` and `ShmemSyncProof` over
to the jobs, so that the properties of the run follow from what holds for all active sets.
TLC checks the inductive invariants of `ShmemCollect`, `ShmemIpiGet` and `Nbody` along with
these properties; those of `ShmemReduce` and `ShmemBroadcast` are checked by adding them to
a configuration of the module itself. Those of `ShmemLock` and
`ShmemNbi` are part of `SectionsSerialize` and of the run `onesided`.

* `ShmemSyncProof`: that all have entered when one leaves is not inductive: a PE knows
  only of its partner. `IInv` says what d rounds mean: when a PE has finished round d of
  call n, the 2^d PEs up to itself have entered call n; and that a signal in flight
  or in a flag is of a call its sender has reached and its receiver has not
  passed, so that it cannot be taken for another one. The last round closes
  the circle: 2^Rounds >= PE_size (`RoundsAssumption`). Sets of PEs are
  arithmetic modulo PE_size; the lemmas about wrapping come first.
  `NoLostSignal` needs that consecutive calls use different arrays, or that PE_size is
  2^k - 1 (`OneArrayIsEnough`). In the second case a signal of round k for call n + 1 must
  find that its receiver has taken the one of call n. The rounds other than k reach from
  the receiver back to the sender, since PE_size - 2^k is the sum of the other powers:
  those behind k in call n, those before it in call n + 1. `TakenBehind` says what a PE
  knows of the PEs behind it by the rounds other than k; TLC checks it when it is added to
  the configuration.
* `ShmemSyncProof`, start-up (`InitIsOverAfterSync`): for every number of PEs and calls.
  The 1 of the chain is in one place, on its way or in the word of the PE it has come
  to (`ChainInv`), and a PE that has passed it on has all before it in `shmem_init`. `shmem_sync` then says that all
  have entered, hence left `shmem_init`. The barrier has an array of its own (`AllPEs`):
  with `barrier_sync` the run `init` shows what goes wrong.
* `ShmemSyncProof`, exchanges (`ExchangeIsComplete`): for every active set, size of block,
  `source` and number of calls. A copy that was made is in flight or in `dest`; while it
  is in flight, no signal behind it to the same PE has landed (`SignalsBehind`, in
  `ExchangeInv`). So when the
  receiver has seen the flag of the sender the copy is there, provided that each
  receiver is a partner of the sender in some round (`ReachesAll`): this holds for up to
  three PEs and for the rotation by one, and not for four PEs (section 3). The second
  condition, `BlocksFit`, is about arithmetic only: the blocks sent to a PE cover what
  `Expected` says, without conflict. Both are proved for each routine:
  `FcollectOfThree`, `AlltoallOfEqualBlocks`, `AlltoallsFromZero` (all strides in
  `source` and `dest`) and `RotationIsComplete` (any number of PEs).
* `ShmemLockProof`: mutual exclusion alone is not kept by the landing of a release,
  which may come long after the PE that posted it has gone on, even to set another
  lock. So a PE *owns* a lock until its release has landed (`Owns`), the word is set
  as long as somebody owns it, there is one owner (`OneOwner`), and a lock is released
  once (`ReleasedOnce`), so that no second release opens the next owner's lock.
  `OneMeansTaken`: the program takes 1 from `shmem_test_lock` for success, as the
  library means it. For `NoLostUpdate` the counter is on the PE of its lock
  (`NextToLock`): then the update and the release are in one queue, the update ahead
  (`UpdatedFirst`). Without this hypothesis it is false (section 2).
* `ShmemAtomicProof`: the refinement of `AtomicCell`, without `atomic_set`.
  The invariant: a set lock has one holder or one release in flight; while a PE is
  between its load and its store, what it loaded is the word; stores in flight
  come before the release behind them. In `AtomicCell` a word has two values: what
  all operations so far have made of it (`serial`) and what a fetch sees (`visible`,
  the memory), at most one operation behind; the invariant says that the two agree
  whenever a read-modify-write operation reads. The results are part of `AtomicCell`.
  `Serializable` asks for one order of the calls, one of each PE, behind memory and
  results. `OneCallInv` carries such an order of the operations that have read (`Explained`). A
  read-modify-write operation reads what all before it left and becomes the last. A fetch
  may miss the operation in progress; then it is put right before that one, where the word
  is what the memory still holds: each pending operation has read what is in memory.
  `After`, a recursive function, is equal to the words of that order by a least
  counterexample.
* `ShmemNbiProof`: for every set of copies and PEs. `OrderInv` relates the descriptor,
  the engine, `cdst0` and `dma_used`: the engine never runs unknown to `dma_used`, and
  the stores to an address are made and land in the order of the copies. That no mark
  stays behind needs also that every store is the mark or a byte of a copy that was
  asked for (`StoresAreOfCopies`): then the latest store to a byte that has any
  belongs to the latest copy over it, and the byte comes after the mark.
* `CollectivesProof`, reductions: for every active set, number of elements, size of `pWrk` and
  number of calls (`ReduceAssumption`). A piece, a signal and a lock are one bit each; what
  they are about is told by accounts per pair of neighbours: the pieces a PE has sent to
  the next, those in flight, in `pWrk` and combined, the locks set and opened
  (`IInv`, theorem `AccountsAgree`). With them a lock that is set stands for exactly
  one piece, and a piece for the call of its receiver, since a PE does not return before
  it has taken as many pieces as it sends. What is summed needs more. In the ring
  with stride 1 and single pieces (`RingSum`) the piece number r that a PE gets is the
  contribution of the PE r places before it: the invariant ties each piece in
  flight or in `pWrk` to the number of pieces taken. For two PEs (`PairSum`) every element
  has one contribution or two as the running index has passed it. Larger power-of-two
  sets (`reduce4`) and other rings do not keep `SumIsComplete`, so that there is no
  theorem for them; and all of them are about a call *that returns*: a ring of five may
  not (section 3).
* `CollectivesProof`, collect: for every active set, lengths of blocks and number of calls
  (`CollectAssumption`). In a call a PE sets the next one's flag once and takes its own
  once, and `shmem_sync`, here its promise `Barrier`, keeps two PEs within one call: the
  flag is the difference of two counts (`FlagCounts`), and the offset is not stored
  again before the flag is taken (`OffsetStays`). That `dest` is the concatenation
  does not follow: the run `collect_offset` refutes it, since the loop uses the
  offset of the read before the flag was seen.
* `CollectivesProof`, broadcast: for every stride and number of PEs that are powers of two
  (`PowersOfTwo`; the stride is one by the routine's interface, `1 << logPE_stride`, and the
  run `bcast5` shows that another number of PEs is not served), all roots and numbers of calls.
  The place of a PE behind the root, in strides, is a number whose lowest bit says at
  which step it is sent the data, and the number without that bit who sends it: `Above` is a
  function (`AboveIsOne`), the rotation by the root does not disturb it (`TreePlaces`).
  `IInv`: who has the data was sent it by the one above (`SentBefore`); a store in
  flight is to a PE that has not received, in the call it is in (`MailOK`); the flag says
  that the data has landed (`FlagOK`, `DataOK`). The powers of two need an
  arithmetic of their own (sums, order, divisibility), proved by least counterexamples with
  `WellFoundedInduction` and `FiniteSetTheorems`, since 2^k has no definition the
  provers could unfold.
* `MCCollectivesProof`: each job of `MCCollectives` is an instance of a component and of its
  proof with the same constants (`...IsTheSame`); a step of the composition is a step of
  its job or changes nothing (`Jobs`). `TwoPEsAreSynchronized` is about the barrier inside
  `shmem_fcollect` on two PEs: from the invariant of `ShmemSyncProof`, no signal is lost
  in the `testset` form although the calls use one array. `InitIsOverOnFourPEs` has one more
  step, since `flag` of `ShmemInit` holds the words of the chain and of the barrier
  (`TwoArrays`); for the exchanges the conditions of the theorems are shown for each job.
  The obligations of this module are simple, but each has all instances in its context,
  which is why some have time limits of their own.
* `ShmemHeapProof`: for requests of at least one byte (`Positive`; `shmem_malloc(0)`
  is a disagreement of section 3) blocks follow each other in the order of allocation
  and the break is behind the last one (`InOrder`). `BlocksAreDisjoint` alone is not kept
  by `shmem_free`, which moves the break without knowing the blocks. Alignment and
  `MemoryIsGivenBack` need `NoGaps`: a block, and the break, is at the end of the block
  before or at the next address with some alignment from there. An alignment on top of
  another does not add up when one divides the other (`Chained`; the library
  asks for powers of two). `CallocIsZeroed` is for sizes of whole double words
  (`WholeWords`).
* `ShmemNbiProof`, IPI get: for every set of PEs, sizes and number of calls. A request is
  followed through the lock, the mesh, the interrupt latch and the two stages of the
  interrupt routine (`At`): at most one request is with a PE, in one of these places,
  and its lock is set (`OneIsHere`); a waiting PE has one request out or its answer
  (`OneAnswer`). The count of the requests in `OneRequestAtATime` is a cardinality; the
  lemma about it comes from the library's `FiniteSetTheorems`.
* `NbodyProof`: for every number of PEs, segments, chunks and updates
  (`NbodyAssumption`), from the promise of `Barrier`. The number of barriers that a PE
  has called is a function of its place in the program (`InStep`); one barrier apart,
  nobody can be overwriting what another reads, so that what is read is of the present
  update and in the buffer that its number says (`UpToDate`); the read pointer runs
  through the chunks of all PEs and segments and leaves none out (`ReadInOrder`).
  The barrier itself is what `ShmemSyncProof` shows `shmem_sync` to be.

What TLC alone checks, and why:

* Liveness (`EveryCallReturns`, `EveryBarrierReturns`, `LockIsGranted`, `LocksAreReleased`, `CallsReturn`):
  the prover does not handle `ENABLED`, which weak fairness needs.
* `Gups`, `ShmemCopy`, `ReduceTypes`, `WaitTypes`: bitwise operators and recursive
  functions over data; what they compute for every input would be an induction.
* `SectionsSerialize` as a whole: its first part is the inductive invariant of
  `ShmemLockProof`, its second is `Serializable`; both are proved for every instance of
  `ShmemLock` and `ShmemAtomic` (`UpdatesComeFirst`, `OperationsSerialize`). The module that
  puts the two together gives the operations their effects with `Bitwise`, which a
  module with theorems cannot reach.

## 6. Not modelled

`PROJECT.json` lists every component and the hazards with the properties that cover
them. Left out, and why:

* The WAND form of `shmem_sync_all`: four machine instructions and an interrupt
  routine; whether an interrupt can come between `gie` and `idle` is a question of
  the processor that the source does not answer.
* Contexts: no state (see the disagreements above).
* The COPRTHR branch and the interrupt set-up of `shmem_init`;
  `shmem_global_exit`, which calls `exit`; name and version of the library.
* In `ShmemNbi` the second DMA channel (`SHMEM_USE_UNSAFE`, marked possibly broken in the
  source), and the element size and 16-bit count of the descriptor.
* In `ShmemCollect` the copies as posted stores: `ShmemExchange` has that question for
  the other routines.
* The `shmem_quiet` in `shmem_barrier` and in the release of a lock is `ShmemNbi`'s: no
  module has both a running engine and the rounds of a barrier.
* The sparse matrix example, the conjugate gradient (its floating-point order and its
  reuse of pSync over three kinds of active sets), the host programs but for what they
  compare with, tests, build files, library code of COPRTHR and the eSDK.

## 7. What could follow

* A model of the conjugate gradient, for the hazard that no property covers: sums over
  a column, a row and all of the cores with one pSync and one pWrk. Its theorem would need
  the accounts of `ShmemReduce` per active set.
* `Serializable` with several calls per PE: the order would have to respect
  the order of each PE's calls, for which the invariant carries nothing yet.
* A barrier on top of a running DMA engine (`ShmemSync` with `ShmemNbi`), whose promise
  would be that everything copied before the barrier is in place after it.

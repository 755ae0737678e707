------------------------------ MODULE ShmemCopy ------------------------------
(* The blocking copies as functions: shmem_put, shmem_get, shmem_iput and     *)
(* shmem_iget of all sizes, the copy loops shmemx_memcpy* under them, and the *)
(* address computation of shmem_ptr.                                          *)
(*                                                                            *)
(* An address on a core is counted in elements of the routine's size (in      *)
(* double words for 64 and 128 bits).  A copy yields the set of all           *)
(* <<destination, source>> pairs of elements that it moves, and whether all   *)
(* its double word accesses were aligned, which the core demands.             *)
EXTENDS Integers, Bitwise

CONSTANTS
  ROW_SHIFT,      \* SHMEM_ROW_SHIFT: log2 of the cores in a row
  ROW_MASK,       \* SHMEM_ROW_MASK
  BASE_COREID,    \* SHMEM_BASE_COREID
  group_rows      \* rows of the group of cores that runs the program

CopyAssumption == /\ ROW_SHIFT \in Nat /\ ROW_MASK = 2^ROW_SHIFT - 1
                  /\ BASE_COREID \in Nat /\ group_rows \in Nat \ {0}

------------------------------------------------------------------------------
(* Addresses *)

\* The core whose memory shmem_ptr(dest, pe) points into.
shmem_ptr(pe) == LET row == shiftR(pe, ROW_SHIFT)
                     col == pe & ROW_MASK
                 IN  row * 64 + col + BASE_COREID

\* shmem_init: the PE's number from the core's, in a group that begins at the
\* base core.
my_pe(coreid) == LET id == coreid - BASE_COREID
                     row == shiftR(id, 6) & 63
                     col == id & 63
                 IN  row * group_rows + col

\* shmem_init: the number of PEs, in a group as wide as a row, and its logarithm,
\* rounded up.
n_pes == group_rows * (ROW_MASK + 1)
n_pes_log2 == LET shifts[x \in 0..n_pes] == IF x = 0 THEN 0 ELSE 1 + shifts[shiftR(x, 1)]
              IN  shifts[n_pes - 1]
shmem_pe_accessible(pe) == pe >= 0 /\ pe < n_pes

------------------------------------------------------------------------------
(* The copy loops.  A copy in progress: the two pointers and what is moved. *)

Begin(dst, src) == [dst |-> dst, src |-> src, moved |-> {}, aligned |-> TRUE]

\* k elements, one at a time.
Elements(s, k) ==
  [s EXCEPT !.dst = @ + k, !.src = @ + k,
            !.moved = @ \cup {<<s.dst + i, s.src + i>> : i \in 0..(k - 1)}]

\* k double words of per elements each.
Dwords(s, k, per) ==
  [Elements(s, k * per) EXCEPT
     !.aligned = @ /\ (k > 0 => s.dst % per = 0 /\ s.src % per = 0)]

\* (faulty variant) The prefix is per elements long when there is one.
HeadLong(per, dst, src, n) ==
  IF n \div per = 0 THEN n
  ELSE IF (dst | src) % per = 0 THEN 0
  ELSE IF (dst ^^ src) % per # 0 THEN n
  ELSE per - ((dst | src) % per) + 1

\* How many elements come before the double words: none if both ends are
\* aligned, all if they can never be aligned together or are too few.
Head(per, dst, src, n) ==
  IF n \div per = 0 THEN n
  ELSE IF (dst | src) % per = 0 THEN 0
  ELSE IF (dst ^^ src) % per # 0 THEN n
  ELSE per - ((dst | src) % per)

\* Elements up to an aligned address, blocks of four double words, single
\* double words, the elements that are left.
Memcpy(per, dst, src, n) ==
  LET head == Head(per, dst, src, n)
      left == n - head
      s1 == Elements(Begin(dst, src), head)
      s2 == Dwords(s1, 4 * (left \div (4 * per)), per)
      s3 == Dwords(s2, (left \div per) % 4, per)
  IN  Elements(s3, left % per)

shmemx_memcpy8(dst, src, nbytes) == Memcpy(8, dst, src, nbytes)
shmemx_memcpy16(dst, src, nelem) == Memcpy(4, dst, src, nelem)
shmemx_memcpy32(dst, src, nelem) == Memcpy(2, dst, src, nelem)
\* Four double words at a time, then one at a time.
shmemx_memcpy64(dst, src, nelem) ==
  Dwords(Dwords(Begin(dst, src), 4 * (nelem \div 4), 1), nelem % 4, 1)
\* Two elements at a time, then the odd one.
shmemx_memcpy128(dst, src, nelem) ==
  Dwords(Dwords(Begin(dst, src), 4 * (nelem \div 2), 1), 2 * (nelem % 2), 1)

memcpy(S, dst, src, n) == CASE S = 8   -> shmemx_memcpy8(dst, src, n)
                            [] S = 16  -> shmemx_memcpy16(dst, src, n)
                            [] S = 32  -> shmemx_memcpy32(dst, src, n)
                            [] S = 64  -> shmemx_memcpy64(dst, src, n)
                            [] S = 128 -> shmemx_memcpy128(dst, src, n)

\* The loops of the strided copies over it and is, up to n = dst * nelems; an
\* element is width units long.
Strided(dest, source, dst, sst, nelems, width) ==
  LET its == {it \in 0..(dst * nelems - 1) : it % dst = 0}
  IN  [moved |-> {<<dest + width * it + w, source + width * ((it \div dst) * sst) + w>> :
                    it \in its, w \in 0..(width - 1)},
       aligned |-> TRUE]

------------------------------------------------------------------------------
(* The routines.  A call is a record of the caller's core, dest, source, dst   *)
(* and sst (strides), nelems and pe.  It yields the cores at both ends and the *)
(* copy.                                                                       *)

Put(a, copy) == [to |-> shmem_ptr(a.pe), from |-> a.my,
                 moved |-> copy.moved, aligned |-> copy.aligned]
Get(a, copy) == [to |-> a.my, from |-> shmem_ptr(a.pe),
                 moved |-> copy.moved, aligned |-> copy.aligned]

SHMEM_X_PUT(S, a) == Put(a, memcpy(S, a.dest, a.source, a.nelems))
SHMEM_X_GET(S, a) == Get(a, memcpy(S, a.dest, a.source, a.nelems))
\* shmemx_memcpy_nbi (module ShmemNbi) is given a number of bytes.
SHMEM_X_PUT_NBI(shift, a) == Put(a, Elements(Begin(a.dest, a.source), a.nelems * 2^shift))
SHMEM_X_GET_NBI(shift, a) == Get(a, Elements(Begin(a.dest, a.source), a.nelems * 2^shift))
SHMEM_X_IPUT(width, a) == Put(a, Strided(a.dest, a.source, a.dst, a.sst, a.nelems, width))
SHMEM_X_IGET(width, a) == Get(a, Strided(a.dest, a.source, a.dst, a.sst, a.nelems, width))

shmem_put8(a) == SHMEM_X_PUT(8, a)
shmem_put16(a) == SHMEM_X_PUT(16, a)
shmem_put32(a) == SHMEM_X_PUT(32, a)
shmem_put64(a) == SHMEM_X_PUT(64, a)
shmem_put128(a) == SHMEM_X_PUT(128, a)
shmem_get8(a) == SHMEM_X_GET(8, a)
shmem_get16(a) == SHMEM_X_GET(16, a)
shmem_get32(a) == SHMEM_X_GET(32, a)
shmem_get64(a) == SHMEM_X_GET(64, a)
shmem_get128(a) == SHMEM_X_GET(128, a)
shmem_put8_nbi(a) == SHMEM_X_PUT_NBI(0, a)
shmem_put16_nbi(a) == SHMEM_X_PUT_NBI(1, a)
shmem_put32_nbi(a) == SHMEM_X_PUT_NBI(2, a)
shmem_put64_nbi(a) == SHMEM_X_PUT_NBI(3, a)
shmem_put128_nbi(a) == SHMEM_X_PUT_NBI(4, a)
shmem_get8_nbi(a) == SHMEM_X_GET_NBI(0, a)
shmem_get16_nbi(a) == SHMEM_X_GET_NBI(1, a)
shmem_get32_nbi(a) == SHMEM_X_GET_NBI(2, a)
shmem_get64_nbi(a) == SHMEM_X_GET_NBI(3, a)
shmem_get128_nbi(a) == SHMEM_X_GET_NBI(4, a)
shmem_iput8(a) == SHMEM_X_IPUT(1, a)
shmem_iput16(a) == SHMEM_X_IPUT(1, a)
shmem_iput32(a) == SHMEM_X_IPUT(1, a)
shmem_iput64(a) == SHMEM_X_IPUT(1, a)
shmem_iput128(a) == SHMEM_X_IPUT(2, a)
shmem_iget8(a) == SHMEM_X_IGET(1, a)
shmem_iget16(a) == SHMEM_X_IGET(1, a)
shmem_iget32(a) == SHMEM_X_IGET(1, a)
shmem_iget64(a) == SHMEM_X_IGET(1, a)
shmem_iget128(a) == SHMEM_X_IGET(2, a)

\* The routines by size: what DECL_SHMEM_SIZE_RMAS declares, with or without a
\* context, which is dropped.
put(S, a) ==
  CASE S = 8 -> shmem_put8(a) [] S = 16 -> shmem_put16(a)
    [] S = 32 -> shmem_put32(a) [] S = 64 -> shmem_put64(a)
    [] S = 128 -> shmem_put128(a)
get(S, a) ==
  CASE S = 8 -> shmem_get8(a) [] S = 16 -> shmem_get16(a)
    [] S = 32 -> shmem_get32(a) [] S = 64 -> shmem_get64(a)
    [] S = 128 -> shmem_get128(a)
put_nbi(S, a) ==
  CASE S = 8 -> shmem_put8_nbi(a) [] S = 16 -> shmem_put16_nbi(a)
    [] S = 32 -> shmem_put32_nbi(a) [] S = 64 -> shmem_put64_nbi(a)
    [] S = 128 -> shmem_put128_nbi(a)
get_nbi(S, a) ==
  CASE S = 8 -> shmem_get8_nbi(a) [] S = 16 -> shmem_get16_nbi(a)
    [] S = 32 -> shmem_get32_nbi(a) [] S = 64 -> shmem_get64_nbi(a)
    [] S = 128 -> shmem_get128_nbi(a)
iput(S, a) ==
  CASE S = 8 -> shmem_iput8(a) [] S = 16 -> shmem_iput16(a)
    [] S = 32 -> shmem_iput32(a) [] S = 64 -> shmem_iput64(a)
    [] S = 128 -> shmem_iput128(a)
iget(S, a) ==
  CASE S = 8 -> shmem_iget8(a) [] S = 16 -> shmem_iget16(a)
    [] S = 32 -> shmem_iget32(a) [] S = 64 -> shmem_iget64(a)
    [] S = 128 -> shmem_iget128(a)

DECL_SHMEM_SIZE_RMAS(name, S, a) ==
  CASE name = "put" -> put(S, a)         [] name = "get" -> get(S, a)
    [] name = "put_nbi" -> put_nbi(S, a) [] name = "get_nbi" -> get_nbi(S, a)
    [] name = "iput" -> iput(S, a)       [] name = "iget" -> iget(S, a)

\* The size by which the routines of a type copy.
TypeSize(TYPENAME) ==
  CASE TYPENAME \in {"char", "schar", "uchar", "int8", "uint8"} -> 8
    [] TYPENAME \in {"short", "ushort", "int16", "uint16"} -> 16
    [] TYPENAME \in {"float", "int", "long", "uint", "ulong", "int32", "uint32",
                     "size", "ptrdiff"} -> 32
    [] TYPENAME \in {"double", "longlong", "ulonglong", "int64", "uint64"} -> 64
    [] TYPENAME = "longdouble" -> 128

\* shmem_<TYPENAME>_put and so on; p and g are a store and a load.
DECL_SHMEM_TYPE_RMA(TYPENAME, name, a) ==
  CASE name = "p" -> Put(a, Elements(Begin(a.dest, a.source), 1))
    [] name = "g" -> Get(a, Elements(Begin(a.dest, a.source), 1))
    [] OTHER -> DECL_SHMEM_SIZE_RMAS(name, TypeSize(TYPENAME), a)

\* shmem_put(dest, ...) and so on choose the routine by the type of *dest.
DECL_GENERIC_STANDARD_RMA(A) ==
  CASE A = "long double" -> "longdouble" [] A = "signed char" -> "schar"
    [] A = "long long" -> "longlong"     [] A = "unsigned char" -> "uchar"
    [] A = "unsigned short" -> "ushort"  [] A = "unsigned int" -> "uint"
    [] A = "unsigned long" -> "ulong"    [] A = "unsigned long long" -> "ulonglong"
    [] A \in {"float", "double", "char", "short", "int", "long"} -> A
shmem_rma(name, A, a) == DECL_SHMEM_TYPE_RMA(DECL_GENERIC_STANDARD_RMA(A), name, a)

------------------------------------------------------------------------------
(* The collective routines by size: the copy to PE pe of an active set that    *)
(* starts at PE 0 with stride 1, whose PE a.own calls.  All PEs ask for blocks *)
(* of the same length.                                                         *)

\* A number of bytes in elements of N bits.
InElements(N, nbytes) == (8 * nbytes) \div N

\* nbytes = nelems << S
SHMEM_FCOLLECT_N(N, S, a) ==
  Put(a, memcpy(N, a.dest + InElements(N, a.nelems * 2^S * a.own), a.source, a.nelems))
SHMEM_COLLECT_N(N, T, a) == LET my_offset == a.own * a.nelems IN
  Put(a, memcpy(N, a.dest + (my_offset * TypeSize(T)) \div N, a.source, a.nelems))
SHMEM_BROADCASTX(N, T, a) == Put(a, memcpy(N, a.dest, a.source, a.nelems))
SHMEM_ALLTOALL_X(N, T, a) == LET dst_offset == a.own * a.nelems IN
  Put(a, memcpy(N, a.dest + (dst_offset * TypeSize(T)) \div N, a.source, a.nelems))
SHMEM_ALLTOALLS_X(N, T, a) == LET size == TypeSize(T) \div 8 IN
  SHMEM_X_IPUT(1, [a EXCEPT !.dest = @ + InElements(N, size * a.nelems * a.dst * a.own),
                            !.source = @ + InElements(N, size * a.nelems * a.sst * a.pe)])

shmem_fcollect32(a) == SHMEM_FCOLLECT_N(32, 2, a)
shmem_fcollect64(a) == SHMEM_FCOLLECT_N(64, 3, a)
shmem_collect32(a) == SHMEM_COLLECT_N(32, "int", a)
shmem_collect64(a) == SHMEM_COLLECT_N(64, "longlong", a)
shmem_broadcast32(a) == SHMEM_BROADCASTX(32, "int", a)
shmem_broadcast64(a) == SHMEM_BROADCASTX(64, "longlong", a)
shmem_alltoall32(a) == SHMEM_ALLTOALL_X(32, "int", a)
shmem_alltoall64(a) == SHMEM_ALLTOALL_X(64, "longlong", a)
shmem_alltoalls32(a) == SHMEM_ALLTOALLS_X(32, "int", a)
shmem_alltoalls64(a) == SHMEM_ALLTOALLS_X(64, "longlong", a)

collective(name, N, a) ==
  CASE name = "fcollect"  -> IF N = 32 THEN shmem_fcollect32(a) ELSE shmem_fcollect64(a)
    [] name = "collect"   -> IF N = 32 THEN shmem_collect32(a) ELSE shmem_collect64(a)
    [] name = "broadcast" -> IF N = 32 THEN shmem_broadcast32(a) ELSE shmem_broadcast64(a)
    [] name = "alltoall"  -> IF N = 32 THEN shmem_alltoall32(a) ELSE shmem_alltoall64(a)
    [] name = "alltoalls" -> IF N = 32 THEN shmem_alltoalls32(a) ELSE shmem_alltoalls64(a)

------------------------------------------------------------------------------
(* Properties of a call a of routine name with size S, and of what it yields. *)

\* Units of an element in which the routine counts.
Units(name, S, nelems) == CASE name \in {"put_nbi", "get_nbi"} -> nelems * (S \div 8)
                            [] S = 128 -> nelems * 2
                            [] OTHER -> nelems

\* What a plain loop over the elements would move.
Plain(name, S, a) ==
  IF name \in {"iput", "iget"}
  THEN LET w == IF S = 128 THEN 2 ELSE 1
       IN  {<<a.dest + w * e * a.dst + u, a.source + w * e * a.sst + u>> :
              e \in 0..(a.nelems - 1), u \in 0..(w - 1)}
  ELSE {<<a.dest + i, a.source + i>> : i \in 0..(Units(name, S, a.nelems) - 1)}

\* The core of PE pe, from the layout of the group.
CoreOf(pe) == CHOOSE core \in {BASE_COREID + r * 64 + c : r, c \in 0..ROW_MASK} :
                my_pe(core) = pe

\* The accessible PEs are those that have a core, each its own, and n_pes_log2
\* rounds are enough for them, but not one less (shmem_init.c:147-158).
AddressingIsExact ==
  LET cores == {BASE_COREID + r * 64 + c : r \in 0..(group_rows - 1), c \in 0..ROW_MASK}
  IN  /\ \A pe \in -1..(n_pes + 1) : shmem_pe_accessible(pe) <=> \E core \in cores : my_pe(core) = pe
      /\ \A core \in cores : shmem_ptr(my_pe(core)) = core
      /\ 2^n_pes_log2 >= n_pes /\ (n_pes > 1 => 2^(n_pes_log2 - 1) < n_pes)

\* Whatever the alignment and the count (shmemx_memcpy8.c:37-42), the elements of
\* the array, no more and no fewer, are moved between the caller and PE pe, and
\* no double word access is misaligned.
CopyIsExact(name, S, a, result) ==
  /\ result.moved = Plain(name, S, a) /\ result.aligned
  /\ {result.to, result.from} = {a.my, CoreOf(a.pe)}
  /\ name \in {"put", "put_nbi", "iput"} => result.from = a.my

\* In both sizes a collective routine copies to PE pe the block of the caller, to
\* the caller's place in dest, element by element (def_shmem_fcollect_n.h:40-43,
\* def_shmem_collect_n.h:57-58, def_shmem_alltoalls.h:40-43).
CollectiveIsExact(name, a, result) ==
  LET own == a.own * a.nelems
      place(e) == CASE name = "broadcast" -> a.dest + e
                    [] name = "alltoalls" -> a.dest + a.dst * (own + e)
                    [] OTHER -> a.dest + own + e
      element(e) == IF name = "alltoalls" THEN a.source + a.sst * (a.pe * a.nelems + e)
                    ELSE a.source + e
  IN  /\ result.moved = {<<place(e), element(e)>> : e \in 0..(a.nelems - 1)}
      /\ result.aligned /\ result.from = a.my /\ result.to = CoreOf(a.pe)

==============================================================================

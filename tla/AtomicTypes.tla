----------------------------- MODULE AtomicTypes -----------------------------
(* The atomic memory operations by their names in the library: one routine    *)
(* for each operation and type, the macros of shmem.h that choose one by the  *)
(* type of dest, and the deprecated names.  A routine makes a call of its     *)
(* operation, under the lock of its type's NAME.                              *)
(*                                                                            *)
(* The arguments are a record of dest, cond and value; an operation uses what *)
(* it needs of them.  A context is dropped by the wrappers.                   *)

\* What all SHMEM_X_ATOMIC_* share: the word, the lock lock_atomic_N, the rest.
SHMEM_X_ATOMIC(name, N, a) ==
  [name |-> name, type |-> N, cell |-> a.dest, cond |-> a.cond, value |-> a.value]

shmem_int_atomic_add(a) == SHMEM_X_ATOMIC("add", "int", a)
shmem_long_atomic_add(a) == SHMEM_X_ATOMIC("add", "long", a)
shmem_longlong_atomic_add(a) == SHMEM_X_ATOMIC("add", "longlong", a)
shmem_uint_atomic_add(a) == SHMEM_X_ATOMIC("add", "uint", a)
shmem_ulong_atomic_add(a) == SHMEM_X_ATOMIC("add", "ulong", a)
shmem_ulonglong_atomic_add(a) == SHMEM_X_ATOMIC("add", "ulonglong", a)
shmem_int32_atomic_add(a) == SHMEM_X_ATOMIC("add", "int32", a)
shmem_int64_atomic_add(a) == SHMEM_X_ATOMIC("add", "int64", a)
shmem_uint32_atomic_add(a) == SHMEM_X_ATOMIC("add", "uint32", a)
shmem_uint64_atomic_add(a) == SHMEM_X_ATOMIC("add", "uint64", a)
shmem_size_atomic_add(a) == SHMEM_X_ATOMIC("add", "size", a)
shmem_ptrdiff_atomic_add(a) == SHMEM_X_ATOMIC("add", "ptrdiff", a)
shmem_uint_atomic_and(a) == SHMEM_X_ATOMIC("and", "uint", a)
shmem_ulong_atomic_and(a) == SHMEM_X_ATOMIC("and", "ulong", a)
shmem_ulonglong_atomic_and(a) == SHMEM_X_ATOMIC("and", "ulonglong", a)
shmem_int32_atomic_and(a) == SHMEM_X_ATOMIC("and", "int32", a)
shmem_int64_atomic_and(a) == SHMEM_X_ATOMIC("and", "int64", a)
shmem_uint32_atomic_and(a) == SHMEM_X_ATOMIC("and", "uint32", a)
shmem_uint64_atomic_and(a) == SHMEM_X_ATOMIC("and", "uint64", a)
shmem_int_atomic_compare_swap(a) == SHMEM_X_ATOMIC("compare_swap", "int", a)
shmem_long_atomic_compare_swap(a) == SHMEM_X_ATOMIC("compare_swap", "long", a)
shmem_longlong_atomic_compare_swap(a) == SHMEM_X_ATOMIC("compare_swap", "longlong", a)
shmem_uint_atomic_compare_swap(a) == SHMEM_X_ATOMIC("compare_swap", "uint", a)
shmem_ulong_atomic_compare_swap(a) == SHMEM_X_ATOMIC("compare_swap", "ulong", a)
shmem_ulonglong_atomic_compare_swap(a) == SHMEM_X_ATOMIC("compare_swap", "ulonglong", a)
shmem_int32_atomic_compare_swap(a) == SHMEM_X_ATOMIC("compare_swap", "int32", a)
shmem_int64_atomic_compare_swap(a) == SHMEM_X_ATOMIC("compare_swap", "int64", a)
shmem_uint32_atomic_compare_swap(a) == SHMEM_X_ATOMIC("compare_swap", "uint32", a)
shmem_uint64_atomic_compare_swap(a) == SHMEM_X_ATOMIC("compare_swap", "uint64", a)
shmem_size_atomic_compare_swap(a) == SHMEM_X_ATOMIC("compare_swap", "size", a)
shmem_ptrdiff_atomic_compare_swap(a) == SHMEM_X_ATOMIC("compare_swap", "ptrdiff", a)
shmem_int_atomic_fetch(a) == SHMEM_X_ATOMIC("fetch", "int", a)
shmem_long_atomic_fetch(a) == SHMEM_X_ATOMIC("fetch", "long", a)
shmem_longlong_atomic_fetch(a) == SHMEM_X_ATOMIC("fetch", "longlong", a)
shmem_uint_atomic_fetch(a) == SHMEM_X_ATOMIC("fetch", "uint", a)
shmem_ulong_atomic_fetch(a) == SHMEM_X_ATOMIC("fetch", "ulong", a)
shmem_ulonglong_atomic_fetch(a) == SHMEM_X_ATOMIC("fetch", "ulonglong", a)
shmem_int32_atomic_fetch(a) == SHMEM_X_ATOMIC("fetch", "int32", a)
shmem_int64_atomic_fetch(a) == SHMEM_X_ATOMIC("fetch", "int64", a)
shmem_uint32_atomic_fetch(a) == SHMEM_X_ATOMIC("fetch", "uint32", a)
shmem_uint64_atomic_fetch(a) == SHMEM_X_ATOMIC("fetch", "uint64", a)
shmem_size_atomic_fetch(a) == SHMEM_X_ATOMIC("fetch", "size", a)
shmem_ptrdiff_atomic_fetch(a) == SHMEM_X_ATOMIC("fetch", "ptrdiff", a)
shmem_float_atomic_fetch(a) == SHMEM_X_ATOMIC("fetch", "float", a)
shmem_double_atomic_fetch(a) == SHMEM_X_ATOMIC("fetch", "double", a)
shmem_int_atomic_fetch_add(a) == SHMEM_X_ATOMIC("fetch_add", "int", a)
shmem_long_atomic_fetch_add(a) == SHMEM_X_ATOMIC("fetch_add", "long", a)
shmem_longlong_atomic_fetch_add(a) == SHMEM_X_ATOMIC("fetch_add", "longlong", a)
shmem_uint_atomic_fetch_add(a) == SHMEM_X_ATOMIC("fetch_add", "uint", a)
shmem_ulong_atomic_fetch_add(a) == SHMEM_X_ATOMIC("fetch_add", "ulong", a)
shmem_ulonglong_atomic_fetch_add(a) == SHMEM_X_ATOMIC("fetch_add", "ulonglong", a)
shmem_int32_atomic_fetch_add(a) == SHMEM_X_ATOMIC("fetch_add", "int32", a)
shmem_int64_atomic_fetch_add(a) == SHMEM_X_ATOMIC("fetch_add", "int64", a)
shmem_uint32_atomic_fetch_add(a) == SHMEM_X_ATOMIC("fetch_add", "uint32", a)
shmem_uint64_atomic_fetch_add(a) == SHMEM_X_ATOMIC("fetch_add", "uint64", a)
shmem_size_atomic_fetch_add(a) == SHMEM_X_ATOMIC("fetch_add", "size", a)
shmem_ptrdiff_atomic_fetch_add(a) == SHMEM_X_ATOMIC("fetch_add", "ptrdiff", a)
shmem_uint_atomic_fetch_and(a) == SHMEM_X_ATOMIC("fetch_and", "uint", a)
shmem_ulong_atomic_fetch_and(a) == SHMEM_X_ATOMIC("fetch_and", "ulong", a)
shmem_ulonglong_atomic_fetch_and(a) == SHMEM_X_ATOMIC("fetch_and", "ulonglong", a)
shmem_int32_atomic_fetch_and(a) == SHMEM_X_ATOMIC("fetch_and", "int32", a)
shmem_int64_atomic_fetch_and(a) == SHMEM_X_ATOMIC("fetch_and", "int64", a)
shmem_uint32_atomic_fetch_and(a) == SHMEM_X_ATOMIC("fetch_and", "uint32", a)
shmem_uint64_atomic_fetch_and(a) == SHMEM_X_ATOMIC("fetch_and", "uint64", a)
shmem_int_atomic_fetch_inc(a) == SHMEM_X_ATOMIC("fetch_inc", "int", a)
shmem_long_atomic_fetch_inc(a) == SHMEM_X_ATOMIC("fetch_inc", "long", a)
shmem_longlong_atomic_fetch_inc(a) == SHMEM_X_ATOMIC("fetch_inc", "longlong", a)
shmem_uint_atomic_fetch_inc(a) == SHMEM_X_ATOMIC("fetch_inc", "uint", a)
shmem_ulong_atomic_fetch_inc(a) == SHMEM_X_ATOMIC("fetch_inc", "ulong", a)
shmem_ulonglong_atomic_fetch_inc(a) == SHMEM_X_ATOMIC("fetch_inc", "ulonglong", a)
shmem_int32_atomic_fetch_inc(a) == SHMEM_X_ATOMIC("fetch_inc", "int32", a)
shmem_int64_atomic_fetch_inc(a) == SHMEM_X_ATOMIC("fetch_inc", "int64", a)
shmem_uint32_atomic_fetch_inc(a) == SHMEM_X_ATOMIC("fetch_inc", "uint32", a)
shmem_uint64_atomic_fetch_inc(a) == SHMEM_X_ATOMIC("fetch_inc", "uint64", a)
shmem_size_atomic_fetch_inc(a) == SHMEM_X_ATOMIC("fetch_inc", "size", a)
shmem_ptrdiff_atomic_fetch_inc(a) == SHMEM_X_ATOMIC("fetch_inc", "ptrdiff", a)
shmem_uint_atomic_fetch_or(a) == SHMEM_X_ATOMIC("fetch_or", "uint", a)
shmem_ulong_atomic_fetch_or(a) == SHMEM_X_ATOMIC("fetch_or", "ulong", a)
shmem_ulonglong_atomic_fetch_or(a) == SHMEM_X_ATOMIC("fetch_or", "ulonglong", a)
shmem_int32_atomic_fetch_or(a) == SHMEM_X_ATOMIC("fetch_or", "int32", a)
shmem_int64_atomic_fetch_or(a) == SHMEM_X_ATOMIC("fetch_or", "int64", a)
shmem_uint32_atomic_fetch_or(a) == SHMEM_X_ATOMIC("fetch_or", "uint32", a)
shmem_uint64_atomic_fetch_or(a) == SHMEM_X_ATOMIC("fetch_or", "uint64", a)
shmem_uint_atomic_fetch_xor(a) == SHMEM_X_ATOMIC("fetch_xor", "uint", a)
shmem_ulong_atomic_fetch_xor(a) == SHMEM_X_ATOMIC("fetch_xor", "ulong", a)
shmem_ulonglong_atomic_fetch_xor(a) == SHMEM_X_ATOMIC("fetch_xor", "ulonglong", a)
shmem_int32_atomic_fetch_xor(a) == SHMEM_X_ATOMIC("fetch_xor", "int32", a)
shmem_int64_atomic_fetch_xor(a) == SHMEM_X_ATOMIC("fetch_xor", "int64", a)
shmem_uint32_atomic_fetch_xor(a) == SHMEM_X_ATOMIC("fetch_xor", "uint32", a)
shmem_uint64_atomic_fetch_xor(a) == SHMEM_X_ATOMIC("fetch_xor", "uint64", a)
shmem_int_atomic_inc(a) == SHMEM_X_ATOMIC("inc", "int", a)
shmem_long_atomic_inc(a) == SHMEM_X_ATOMIC("inc", "long", a)
shmem_longlong_atomic_inc(a) == SHMEM_X_ATOMIC("inc", "longlong", a)
shmem_uint_atomic_inc(a) == SHMEM_X_ATOMIC("inc", "uint", a)
shmem_ulong_atomic_inc(a) == SHMEM_X_ATOMIC("inc", "ulong", a)
shmem_ulonglong_atomic_inc(a) == SHMEM_X_ATOMIC("inc", "ulonglong", a)
shmem_int32_atomic_inc(a) == SHMEM_X_ATOMIC("inc", "int32", a)
shmem_int64_atomic_inc(a) == SHMEM_X_ATOMIC("inc", "int64", a)
shmem_uint32_atomic_inc(a) == SHMEM_X_ATOMIC("inc", "uint32", a)
shmem_uint64_atomic_inc(a) == SHMEM_X_ATOMIC("inc", "uint64", a)
shmem_size_atomic_inc(a) == SHMEM_X_ATOMIC("inc", "size", a)
shmem_ptrdiff_atomic_inc(a) == SHMEM_X_ATOMIC("inc", "ptrdiff", a)
shmem_uint_atomic_or(a) == SHMEM_X_ATOMIC("or", "uint", a)
shmem_ulong_atomic_or(a) == SHMEM_X_ATOMIC("or", "ulong", a)
shmem_ulonglong_atomic_or(a) == SHMEM_X_ATOMIC("or", "ulonglong", a)
shmem_int32_atomic_or(a) == SHMEM_X_ATOMIC("or", "int32", a)
shmem_int64_atomic_or(a) == SHMEM_X_ATOMIC("or", "int64", a)
shmem_uint32_atomic_or(a) == SHMEM_X_ATOMIC("or", "uint32", a)
shmem_uint64_atomic_or(a) == SHMEM_X_ATOMIC("or", "uint64", a)
shmem_int_atomic_set(a) == SHMEM_X_ATOMIC("set", "int", a)
shmem_long_atomic_set(a) == SHMEM_X_ATOMIC("set", "long", a)
shmem_longlong_atomic_set(a) == SHMEM_X_ATOMIC("set", "longlong", a)
shmem_uint_atomic_set(a) == SHMEM_X_ATOMIC("set", "uint", a)
shmem_ulong_atomic_set(a) == SHMEM_X_ATOMIC("set", "ulong", a)
shmem_ulonglong_atomic_set(a) == SHMEM_X_ATOMIC("set", "ulonglong", a)
shmem_int32_atomic_set(a) == SHMEM_X_ATOMIC("set", "int32", a)
shmem_int64_atomic_set(a) == SHMEM_X_ATOMIC("set", "int64", a)
shmem_uint32_atomic_set(a) == SHMEM_X_ATOMIC("set", "uint32", a)
shmem_uint64_atomic_set(a) == SHMEM_X_ATOMIC("set", "uint64", a)
shmem_size_atomic_set(a) == SHMEM_X_ATOMIC("set", "size", a)
shmem_ptrdiff_atomic_set(a) == SHMEM_X_ATOMIC("set", "ptrdiff", a)
shmem_float_atomic_set(a) == SHMEM_X_ATOMIC("set", "float", a)
shmem_double_atomic_set(a) == SHMEM_X_ATOMIC("set", "double", a)
shmem_int_atomic_swap(a) == SHMEM_X_ATOMIC("swap", "int", a)
shmem_long_atomic_swap(a) == SHMEM_X_ATOMIC("swap", "long", a)
shmem_longlong_atomic_swap(a) == SHMEM_X_ATOMIC("swap", "longlong", a)
shmem_uint_atomic_swap(a) == SHMEM_X_ATOMIC("swap", "uint", a)
shmem_ulong_atomic_swap(a) == SHMEM_X_ATOMIC("swap", "ulong", a)
shmem_ulonglong_atomic_swap(a) == SHMEM_X_ATOMIC("swap", "ulonglong", a)
shmem_int32_atomic_swap(a) == SHMEM_X_ATOMIC("swap", "int32", a)
shmem_int64_atomic_swap(a) == SHMEM_X_ATOMIC("swap", "int64", a)
shmem_uint32_atomic_swap(a) == SHMEM_X_ATOMIC("swap", "uint32", a)
shmem_uint64_atomic_swap(a) == SHMEM_X_ATOMIC("swap", "uint64", a)
shmem_size_atomic_swap(a) == SHMEM_X_ATOMIC("swap", "size", a)
shmem_ptrdiff_atomic_swap(a) == SHMEM_X_ATOMIC("swap", "ptrdiff", a)
shmem_float_atomic_swap(a) == SHMEM_X_ATOMIC("swap", "float", a)
shmem_double_atomic_swap(a) == SHMEM_X_ATOMIC("swap", "double", a)
shmem_uint_atomic_xor(a) == SHMEM_X_ATOMIC("xor", "uint", a)
shmem_ulong_atomic_xor(a) == SHMEM_X_ATOMIC("xor", "ulong", a)
shmem_ulonglong_atomic_xor(a) == SHMEM_X_ATOMIC("xor", "ulonglong", a)
shmem_int32_atomic_xor(a) == SHMEM_X_ATOMIC("xor", "int32", a)
shmem_int64_atomic_xor(a) == SHMEM_X_ATOMIC("xor", "int64", a)
shmem_uint32_atomic_xor(a) == SHMEM_X_ATOMIC("xor", "uint32", a)
shmem_uint64_atomic_xor(a) == SHMEM_X_ATOMIC("xor", "uint64", a)

------------------------------------------------------------------------------
\* The types for which shmem.h declares which operations.
DECL_STANDARD_AMO == {"int", "long", "longlong", "uint", "ulong", "ulonglong",
                      "int32", "int64", "uint32", "uint64", "size", "ptrdiff"}
DECL_EXTENDED_AMO == {"float", "double"} \cup DECL_STANDARD_AMO
DECL_BITWISE_AMO == {"uint", "ulong", "ulonglong", "int32", "int64", "uint32", "uint64"}

Declared(N) ==
  (IF N \in DECL_STANDARD_AMO
   THEN {"compare_swap", "fetch_inc", "inc", "fetch_add", "add"} ELSE {}) \cup
  (IF N \in DECL_EXTENDED_AMO THEN {"fetch", "set", "swap"} ELSE {}) \cup
  (IF N \in DECL_BITWISE_AMO
   THEN {"fetch_and", "and", "fetch_or", "or", "fetch_xor", "xor"} ELSE {})

\* The calls that a program can make with a word of type N.
CallsOf(N, a) ==
  CASE N = "int" ->
       {shmem_int_atomic_add(a), shmem_int_atomic_compare_swap(a),
        shmem_int_atomic_fetch(a), shmem_int_atomic_fetch_add(a),
        shmem_int_atomic_fetch_inc(a), shmem_int_atomic_inc(a),
        shmem_int_atomic_set(a), shmem_int_atomic_swap(a)}
    [] N = "long" ->
       {shmem_long_atomic_add(a), shmem_long_atomic_compare_swap(a),
        shmem_long_atomic_fetch(a), shmem_long_atomic_fetch_add(a),
        shmem_long_atomic_fetch_inc(a), shmem_long_atomic_inc(a),
        shmem_long_atomic_set(a), shmem_long_atomic_swap(a)}
    [] N = "longlong" ->
       {shmem_longlong_atomic_add(a),
        shmem_longlong_atomic_compare_swap(a),
        shmem_longlong_atomic_fetch(a),
        shmem_longlong_atomic_fetch_add(a),
        shmem_longlong_atomic_fetch_inc(a), shmem_longlong_atomic_inc(a),
        shmem_longlong_atomic_set(a), shmem_longlong_atomic_swap(a)}
    [] N = "uint" ->
       {shmem_uint_atomic_add(a), shmem_uint_atomic_and(a),
        shmem_uint_atomic_compare_swap(a), shmem_uint_atomic_fetch(a),
        shmem_uint_atomic_fetch_add(a), shmem_uint_atomic_fetch_and(a),
        shmem_uint_atomic_fetch_inc(a), shmem_uint_atomic_fetch_or(a),
        shmem_uint_atomic_fetch_xor(a), shmem_uint_atomic_inc(a),
        shmem_uint_atomic_or(a), shmem_uint_atomic_set(a),
        shmem_uint_atomic_swap(a), shmem_uint_atomic_xor(a)}
    [] N = "ulong" ->
       {shmem_ulong_atomic_add(a), shmem_ulong_atomic_and(a),
        shmem_ulong_atomic_compare_swap(a), shmem_ulong_atomic_fetch(a),
        shmem_ulong_atomic_fetch_add(a), shmem_ulong_atomic_fetch_and(a),
        shmem_ulong_atomic_fetch_inc(a), shmem_ulong_atomic_fetch_or(a),
        shmem_ulong_atomic_fetch_xor(a), shmem_ulong_atomic_inc(a),
        shmem_ulong_atomic_or(a), shmem_ulong_atomic_set(a),
        shmem_ulong_atomic_swap(a), shmem_ulong_atomic_xor(a)}
    [] N = "ulonglong" ->
       {shmem_ulonglong_atomic_add(a), shmem_ulonglong_atomic_and(a),
        shmem_ulonglong_atomic_compare_swap(a),
        shmem_ulonglong_atomic_fetch(a),
        shmem_ulonglong_atomic_fetch_add(a),
        shmem_ulonglong_atomic_fetch_and(a),
        shmem_ulonglong_atomic_fetch_inc(a),
        shmem_ulonglong_atomic_fetch_or(a),
        shmem_ulonglong_atomic_fetch_xor(a),
        shmem_ulonglong_atomic_inc(a), shmem_ulonglong_atomic_or(a),
        shmem_ulonglong_atomic_set(a), shmem_ulonglong_atomic_swap(a),
        shmem_ulonglong_atomic_xor(a)}
    [] N = "int32" ->
       {shmem_int32_atomic_add(a), shmem_int32_atomic_and(a),
        shmem_int32_atomic_compare_swap(a), shmem_int32_atomic_fetch(a),
        shmem_int32_atomic_fetch_add(a), shmem_int32_atomic_fetch_and(a),
        shmem_int32_atomic_fetch_inc(a), shmem_int32_atomic_fetch_or(a),
        shmem_int32_atomic_fetch_xor(a), shmem_int32_atomic_inc(a),
        shmem_int32_atomic_or(a), shmem_int32_atomic_set(a),
        shmem_int32_atomic_swap(a), shmem_int32_atomic_xor(a)}
    [] N = "int64" ->
       {shmem_int64_atomic_add(a), shmem_int64_atomic_and(a),
        shmem_int64_atomic_compare_swap(a), shmem_int64_atomic_fetch(a),
        shmem_int64_atomic_fetch_add(a), shmem_int64_atomic_fetch_and(a),
        shmem_int64_atomic_fetch_inc(a), shmem_int64_atomic_fetch_or(a),
        shmem_int64_atomic_fetch_xor(a), shmem_int64_atomic_inc(a),
        shmem_int64_atomic_or(a), shmem_int64_atomic_set(a),
        shmem_int64_atomic_swap(a), shmem_int64_atomic_xor(a)}
    [] N = "uint32" ->
       {shmem_uint32_atomic_add(a), shmem_uint32_atomic_and(a),
        shmem_uint32_atomic_compare_swap(a),
        shmem_uint32_atomic_fetch(a), shmem_uint32_atomic_fetch_add(a),
        shmem_uint32_atomic_fetch_and(a),
        shmem_uint32_atomic_fetch_inc(a),
        shmem_uint32_atomic_fetch_or(a),
        shmem_uint32_atomic_fetch_xor(a), shmem_uint32_atomic_inc(a),
        shmem_uint32_atomic_or(a), shmem_uint32_atomic_set(a),
        shmem_uint32_atomic_swap(a), shmem_uint32_atomic_xor(a)}
    [] N = "uint64" ->
       {shmem_uint64_atomic_add(a), shmem_uint64_atomic_and(a),
        shmem_uint64_atomic_compare_swap(a),
        shmem_uint64_atomic_fetch(a), shmem_uint64_atomic_fetch_add(a),
        shmem_uint64_atomic_fetch_and(a),
        shmem_uint64_atomic_fetch_inc(a),
        shmem_uint64_atomic_fetch_or(a),
        shmem_uint64_atomic_fetch_xor(a), shmem_uint64_atomic_inc(a),
        shmem_uint64_atomic_or(a), shmem_uint64_atomic_set(a),
        shmem_uint64_atomic_swap(a), shmem_uint64_atomic_xor(a)}
    [] N = "size" ->
       {shmem_size_atomic_add(a), shmem_size_atomic_compare_swap(a),
        shmem_size_atomic_fetch(a), shmem_size_atomic_fetch_add(a),
        shmem_size_atomic_fetch_inc(a), shmem_size_atomic_inc(a),
        shmem_size_atomic_set(a), shmem_size_atomic_swap(a)}
    [] N = "ptrdiff" ->
       {shmem_ptrdiff_atomic_add(a),
        shmem_ptrdiff_atomic_compare_swap(a),
        shmem_ptrdiff_atomic_fetch(a), shmem_ptrdiff_atomic_fetch_add(a),
        shmem_ptrdiff_atomic_fetch_inc(a), shmem_ptrdiff_atomic_inc(a),
        shmem_ptrdiff_atomic_set(a), shmem_ptrdiff_atomic_swap(a)}
    [] N = "float" ->
       {shmem_float_atomic_fetch(a), shmem_float_atomic_set(a),
        shmem_float_atomic_swap(a)}
    [] N = "double" ->
       {shmem_double_atomic_fetch(a), shmem_double_atomic_set(a),
        shmem_double_atomic_swap(a)}

\* The type name for a pointer to the C type A.
DECL_GENERIC_STANDARD_AMO(A) ==
  CASE A = "int" -> "int" [] A = "long" -> "long" [] A = "long long" -> "longlong"
    [] A = "unsigned int" -> "uint" [] A = "unsigned long" -> "ulong"
    [] A = "unsigned long long" -> "ulonglong"
DECL_GENERIC_EXTENDED_AMO(A) ==
  IF A \in {"float", "double"} THEN A ELSE DECL_GENERIC_STANDARD_AMO(A)

\* The routine of an operation for a type name.
SHMEM_ATOMIC_GENERIC(name, N, a) == CHOOSE call \in CallsOf(N, a) : call.name = name

\* shmem_atomic_<name>(dest, ...) chooses the routine by the type of *dest.
shmem_atomic(name, A, a) == SHMEM_ATOMIC_GENERIC(name, DECL_GENERIC_EXTENDED_AMO(A), a)

\* The deprecated names: shmem_add and shmem_<N>_add, and so on.
Deprecated == [add |-> "add", cswap |-> "compare_swap", fadd |-> "fetch_add", fetch |-> "fetch",
               finc |-> "fetch_inc", inc |-> "inc", set |-> "set", swap |-> "swap"]
shmem_deprecated(name, A, a) == shmem_atomic(Deprecated[name], A, a)
=============================================================================

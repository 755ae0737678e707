------------------------------- MODULE WaitTypes -------------------------------
(* Point-to-point synchronization: shmem_<T>_wait, shmem_<T>_wait_until and   *)
(* shmem_<T>_test.  A word of Width bits is read with each turn of the loop;  *)
(* the routine is what it does with one value w that it reads.                *)
EXTENDS Integers

CONSTANT Width

\* A word as a value of its type.
SignedTypes == {"short", "int", "long", "longlong", "int32", "int64", "ptrdiff"}
As(T, w) == IF T \in SignedTypes /\ w >= 2^(Width - 1) THEN w - 2^Width ELSE w

\* The condition on which the loop of wait_until goes on.
Spins(cmp, p, cmp_value) ==
  CASE cmp = "SHMEM_CMP_EQ" -> p # cmp_value
    [] cmp = "SHMEM_CMP_NE" -> p = cmp_value
    [] cmp = "SHMEM_CMP_GT" -> p <= cmp_value
    [] cmp = "SHMEM_CMP_LE" -> p > cmp_value
    [] cmp = "SHMEM_CMP_LT" -> p >= cmp_value
    [] cmp = "SHMEM_CMP_GE" -> p < cmp_value
SHMEM_X_WAIT_UNTIL(T, w, cmp, cmp_value) == ~Spins(cmp, As(T, w), As(T, cmp_value))

\* (faulty variant) The comparison with a bound is strict.
SpinsStrictly(cmp, p, cmp_value) ==
  CASE cmp = "SHMEM_CMP_EQ" -> p # cmp_value
    [] cmp = "SHMEM_CMP_NE" -> p = cmp_value
    [] cmp \in {"SHMEM_CMP_GT", "SHMEM_CMP_GE"} -> p <= cmp_value
    [] cmp \in {"SHMEM_CMP_LT", "SHMEM_CMP_LE"} -> p >= cmp_value

Holds(cmp, p, cmp_value) ==
  CASE cmp = "SHMEM_CMP_EQ" -> p = cmp_value
    [] cmp = "SHMEM_CMP_NE" -> p # cmp_value
    [] cmp = "SHMEM_CMP_GT" -> p > cmp_value
    [] cmp = "SHMEM_CMP_GE" -> p >= cmp_value
    [] cmp = "SHMEM_CMP_LT" -> p < cmp_value
    [] cmp = "SHMEM_CMP_LE" -> p <= cmp_value
SHMEM_X_TEST(T, w, cmp, cmp_value) == IF Holds(cmp, As(T, w), As(T, cmp_value)) THEN 1 ELSE 0

\* The deprecated wait: until the word is another one.
SHMEM_X_WAIT(T, w, cmp_value) == As(T, w) # As(T, cmp_value)

shmem_short_wait(w, v) == SHMEM_X_WAIT("short", w, v)
shmem_int_wait(w, v) == SHMEM_X_WAIT("int", w, v)
shmem_long_wait(w, v) == SHMEM_X_WAIT("long", w, v)
shmem_longlong_wait(w, v) == SHMEM_X_WAIT("longlong", w, v)
shmem_short_wait_until(w, cmp, v) == SHMEM_X_WAIT_UNTIL("short", w, cmp, v)
shmem_ushort_wait_until(w, cmp, v) == SHMEM_X_WAIT_UNTIL("ushort", w, cmp, v)
shmem_int_wait_until(w, cmp, v) == SHMEM_X_WAIT_UNTIL("int", w, cmp, v)
shmem_long_wait_until(w, cmp, v) == SHMEM_X_WAIT_UNTIL("long", w, cmp, v)
shmem_longlong_wait_until(w, cmp, v) == SHMEM_X_WAIT_UNTIL("longlong", w, cmp, v)
shmem_uint_wait_until(w, cmp, v) == SHMEM_X_WAIT_UNTIL("uint", w, cmp, v)
shmem_ulong_wait_until(w, cmp, v) == SHMEM_X_WAIT_UNTIL("ulong", w, cmp, v)
shmem_ulonglong_wait_until(w, cmp, v) == SHMEM_X_WAIT_UNTIL("ulonglong", w, cmp, v)
shmem_int32_wait_until(w, cmp, v) == SHMEM_X_WAIT_UNTIL("int32", w, cmp, v)
shmem_int64_wait_until(w, cmp, v) == SHMEM_X_WAIT_UNTIL("int64", w, cmp, v)
shmem_uint32_wait_until(w, cmp, v) == SHMEM_X_WAIT_UNTIL("uint32", w, cmp, v)
shmem_uint64_wait_until(w, cmp, v) == SHMEM_X_WAIT_UNTIL("uint64", w, cmp, v)
shmem_size_wait_until(w, cmp, v) == SHMEM_X_WAIT_UNTIL("size", w, cmp, v)
shmem_ptrdiff_wait_until(w, cmp, v) == SHMEM_X_WAIT_UNTIL("ptrdiff", w, cmp, v)
shmem_short_test(w, cmp, v) == SHMEM_X_TEST("short", w, cmp, v)
shmem_ushort_test(w, cmp, v) == SHMEM_X_TEST("ushort", w, cmp, v)
shmem_int_test(w, cmp, v) == SHMEM_X_TEST("int", w, cmp, v)
shmem_long_test(w, cmp, v) == SHMEM_X_TEST("long", w, cmp, v)
shmem_longlong_test(w, cmp, v) == SHMEM_X_TEST("longlong", w, cmp, v)
shmem_uint_test(w, cmp, v) == SHMEM_X_TEST("uint", w, cmp, v)
shmem_ulong_test(w, cmp, v) == SHMEM_X_TEST("ulong", w, cmp, v)
shmem_ulonglong_test(w, cmp, v) == SHMEM_X_TEST("ulonglong", w, cmp, v)
shmem_int32_test(w, cmp, v) == SHMEM_X_TEST("int32", w, cmp, v)
shmem_int64_test(w, cmp, v) == SHMEM_X_TEST("int64", w, cmp, v)
shmem_uint32_test(w, cmp, v) == SHMEM_X_TEST("uint32", w, cmp, v)
shmem_uint64_test(w, cmp, v) == SHMEM_X_TEST("uint64", w, cmp, v)
shmem_size_test(w, cmp, v) == SHMEM_X_TEST("size", w, cmp, v)
shmem_ptrdiff_test(w, cmp, v) == SHMEM_X_TEST("ptrdiff", w, cmp, v)

\* What shmem.h declares for each type.
DECL_P2P_DEPRECATED == {"short", "int", "long", "longlong"}
DECL_P2P == DECL_P2P_DEPRECATED \cup {"ushort", "uint", "ulong", "ulonglong", "int32",
              "int64", "uint32", "uint64", "size", "ptrdiff"}
shmem_cmp_constants == {"SHMEM_CMP_EQ", "SHMEM_CMP_NE", "SHMEM_CMP_GT",
                        "SHMEM_CMP_GE", "SHMEM_CMP_LT", "SHMEM_CMP_LE"}

wait(T, w, v) ==
  CASE T = "short" -> shmem_short_wait(w, v)
    [] T = "int" -> shmem_int_wait(w, v)
    [] T = "long" -> shmem_long_wait(w, v)
    [] T = "longlong" -> shmem_longlong_wait(w, v)
wait_until(T, w, cmp, v) ==
  CASE T = "short" -> shmem_short_wait_until(w, cmp, v)
    [] T = "ushort" -> shmem_ushort_wait_until(w, cmp, v)
    [] T = "int" -> shmem_int_wait_until(w, cmp, v)
    [] T = "long" -> shmem_long_wait_until(w, cmp, v)
    [] T = "longlong" -> shmem_longlong_wait_until(w, cmp, v)
    [] T = "uint" -> shmem_uint_wait_until(w, cmp, v)
    [] T = "ulong" -> shmem_ulong_wait_until(w, cmp, v)
    [] T = "ulonglong" -> shmem_ulonglong_wait_until(w, cmp, v)
    [] T = "int32" -> shmem_int32_wait_until(w, cmp, v)
    [] T = "int64" -> shmem_int64_wait_until(w, cmp, v)
    [] T = "uint32" -> shmem_uint32_wait_until(w, cmp, v)
    [] T = "uint64" -> shmem_uint64_wait_until(w, cmp, v)
    [] T = "size" -> shmem_size_wait_until(w, cmp, v)
    [] T = "ptrdiff" -> shmem_ptrdiff_wait_until(w, cmp, v)
test(T, w, cmp, v) ==
  CASE T = "short" -> shmem_short_test(w, cmp, v)
    [] T = "ushort" -> shmem_ushort_test(w, cmp, v)
    [] T = "int" -> shmem_int_test(w, cmp, v)
    [] T = "long" -> shmem_long_test(w, cmp, v)
    [] T = "longlong" -> shmem_longlong_test(w, cmp, v)
    [] T = "uint" -> shmem_uint_test(w, cmp, v)
    [] T = "ulong" -> shmem_ulong_test(w, cmp, v)
    [] T = "ulonglong" -> shmem_ulonglong_test(w, cmp, v)
    [] T = "int32" -> shmem_int32_test(w, cmp, v)
    [] T = "int64" -> shmem_int64_test(w, cmp, v)
    [] T = "uint32" -> shmem_uint32_test(w, cmp, v)
    [] T = "uint64" -> shmem_uint64_test(w, cmp, v)
    [] T = "size" -> shmem_size_test(w, cmp, v)
    [] T = "ptrdiff" -> shmem_ptrdiff_test(w, cmp, v)

\* shmem_wait_until(ivar, ...) and shmem_test(ivar, ...) choose the routine by the
\* type of *ivar: the first that matches, so that int32_t and the like, which are
\* other names of types before them, are never reached.
DECL_GENERIC_P2P(A) ==
  CASE A = "long long" -> "longlong"      [] A = "unsigned short" -> "ushort"
    [] A = "unsigned int" -> "uint"       [] A = "unsigned long" -> "ulong"
    [] A = "unsigned long long" -> "ulonglong"
    [] A \in {"short", "int", "long"} -> A
shmem_wait_until(A, w, cmp, v) == wait_until(DECL_GENERIC_P2P(A), w, cmp, v)
shmem_test(A, w, cmp, v) == test(DECL_GENERIC_P2P(A), w, cmp, v)

------------------------------------------------------------------------------
\* A program that polls with test goes on at the same words as one that blocks in
\* wait_until, for words of either sign, and wait is wait_until for "not equal".
WaitsAgree(T, w, v) ==
  /\ \A cmp \in shmem_cmp_constants : wait_until(T, w, cmp, v) <=> test(T, w, cmp, v) = 1
  /\ T \in DECL_P2P_DEPRECATED => (wait(T, w, v) <=> wait_until(T, w, "SHMEM_CMP_NE", v))

\* Chosen by type they compare as C compares two values of that type.
SignedCTypes == {"short", "int", "long", "long long"}
UnsignedCTypes == {"unsigned short", "unsigned int", "unsigned long", "unsigned long long"}
GenericWaitsAgree(w, v) ==
  \A A \in SignedCTypes \cup UnsignedCTypes, cmp \in shmem_cmp_constants :
    LET Value(x) == IF A \in SignedCTypes /\ x >= 2^(Width - 1) THEN x - 2^Width ELSE x
    IN  /\ shmem_wait_until(A, w, cmp, v) <=> Holds(cmp, Value(w), Value(v))
        /\ shmem_test(A, w, cmp, v) = 1 <=> Holds(cmp, Value(w), Value(v))

=============================================================================

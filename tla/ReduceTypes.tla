------------------------------ MODULE ReduceTypes ------------------------------
(* The reductions by their names in the library: for each type and operation  *)
(* the size by which elements are copied, and how two elements are combined.  *)
(* Module ShmemReduce has the protocol; here is what one element of dest is   *)
(* when it has run, as a function of the sources.                             *)
(*                                                                            *)
(* Integer types are words of Width bits in two's complement.  The values of  *)
(* the other types are integers, for which their operations are exact.        *)
EXTENDS Integers, FiniteSets, Bitwise

CONSTANT Width

Unsigned(v) == v % 2^Width
Signed(w) == LET u == w % 2^Width IN IF u < 2^(Width - 1) THEN u ELSE u - 2^Width

IntegerTypes == {"short", "int", "long", "longlong"}
Of(T, v) == IF T \in IntegerTypes THEN Signed(v) ELSE v

\* dest[i+j] OP, w being pWrk[j]
SUM_OP(dest, w) == dest + w
PROD_OP(dest, w) == dest * w
AND_OP(dest, w) == Unsigned(dest) & Unsigned(w)
OR_OP(dest, w) == Unsigned(dest) | Unsigned(w)
XOR_OP(dest, w) == Unsigned(dest) ^^ Unsigned(w)
MAX_OP(dest, w) == IF dest < w THEN w ELSE dest
MIN_OP(dest, w) == IF dest < w THEN dest ELSE w

Combined(OP, dest, w) ==
  CASE OP = "SUM" -> SUM_OP(dest, w) [] OP = "PROD" -> PROD_OP(dest, w)
    [] OP = "AND" -> AND_OP(dest, w) [] OP = "OR"   -> OR_OP(dest, w)
    [] OP = "XOR" -> XOR_OP(dest, w) [] OP = "MAX"  -> MAX_OP(dest, w)
    [] OP = "MIN" -> MIN_OP(dest, w)

\* The ring: PE p combines its own element with those of the n - 1 PEs before it,
\* the nearest one first.
Ring(T, OP, source, n) ==
  [p \in 0..(n - 1) |->
     LET dest[r \in 0..(n - 1)] ==
           IF r = 0 THEN source[p] ELSE Of(T, Combined(OP, dest[r - 1], source[(p - r + n) % n]))
     IN  dest[n - 1]]

\* (faulty variant) The distance is not doubled: n - 1 steps to the next PE.
DoublingNot(T, OP, source, n) ==
  LET dest[r \in 1..n] ==
        IF r = 1 THEN source
        ELSE [p \in 0..(n - 1) |->
                Of(T, Combined(OP, dest[r - 1][p], dest[r - 1][(p - 1 + n) % n]))]
  IN  dest[n]

\* Powers of two: in the step of distance d it combines what it has with what the
\* PE d before it has.
Doubling(T, OP, source, n) ==
  LET dest[d \in {2^i : i \in 0..n}] ==
        IF d = 1 THEN source
        ELSE [p \in 0..(n - 1) |->
                Of(T, Combined(OP, dest[d \div 2][p], dest[d \div 2][(p - d \div 2 + n) % n]))]
  IN  dest[n]

\* For n PEs of stride 1: the bits of a copied element, and dest on each PE.
SHMEM_X_TO_ALL(T, SZ, OP, source, n) ==
  [bits |-> SZ, dest |-> IF n & (n - 1) # 0 THEN Ring(T, OP, source, n)
                         ELSE Doubling(T, OP, source, n)]

shmem_complexd_prod_to_all(s, n) == SHMEM_X_TO_ALL("complexd", 128, "PROD", s, n)
shmem_complexd_sum_to_all(s, n) == SHMEM_X_TO_ALL("complexd", 128, "SUM", s, n)
shmem_complexf_prod_to_all(s, n) == SHMEM_X_TO_ALL("complexf", 64, "PROD", s, n)
shmem_complexf_sum_to_all(s, n) == SHMEM_X_TO_ALL("complexf", 64, "SUM", s, n)
shmem_double_max_to_all(s, n) == SHMEM_X_TO_ALL("double", 64, "MAX", s, n)
shmem_double_min_to_all(s, n) == SHMEM_X_TO_ALL("double", 64, "MIN", s, n)
shmem_double_prod_to_all(s, n) == SHMEM_X_TO_ALL("double", 64, "PROD", s, n)
shmem_double_sum_to_all(s, n) == SHMEM_X_TO_ALL("double", 64, "SUM", s, n)
shmem_float_max_to_all(s, n) == SHMEM_X_TO_ALL("float", 32, "MAX", s, n)
shmem_float_min_to_all(s, n) == SHMEM_X_TO_ALL("float", 32, "MIN", s, n)
shmem_float_prod_to_all(s, n) == SHMEM_X_TO_ALL("float", 32, "PROD", s, n)
shmem_float_sum_to_all(s, n) == SHMEM_X_TO_ALL("float", 32, "SUM", s, n)
shmem_int_and_to_all(s, n) == SHMEM_X_TO_ALL("int", 32, "AND", s, n)
shmem_int_max_to_all(s, n) == SHMEM_X_TO_ALL("int", 32, "MAX", s, n)
shmem_int_min_to_all(s, n) == SHMEM_X_TO_ALL("int", 32, "MIN", s, n)
shmem_int_or_to_all(s, n) == SHMEM_X_TO_ALL("int", 32, "OR", s, n)
shmem_int_prod_to_all(s, n) == SHMEM_X_TO_ALL("int", 32, "PROD", s, n)
shmem_int_sum_to_all(s, n) == SHMEM_X_TO_ALL("int", 32, "SUM", s, n)
shmem_int_xor_to_all(s, n) == SHMEM_X_TO_ALL("int", 32, "XOR", s, n)
shmem_long_and_to_all(s, n) == SHMEM_X_TO_ALL("long", 32, "AND", s, n)
shmem_long_max_to_all(s, n) == SHMEM_X_TO_ALL("long", 32, "MAX", s, n)
shmem_long_min_to_all(s, n) == SHMEM_X_TO_ALL("long", 32, "MIN", s, n)
shmem_long_or_to_all(s, n) == SHMEM_X_TO_ALL("long", 32, "OR", s, n)
shmem_long_prod_to_all(s, n) == SHMEM_X_TO_ALL("long", 32, "PROD", s, n)
shmem_long_sum_to_all(s, n) == SHMEM_X_TO_ALL("long", 32, "SUM", s, n)
shmem_long_xor_to_all(s, n) == SHMEM_X_TO_ALL("long", 32, "XOR", s, n)
shmem_longdouble_max_to_all(s, n) == SHMEM_X_TO_ALL("longdouble", 64, "MAX", s, n)
shmem_longdouble_min_to_all(s, n) == SHMEM_X_TO_ALL("longdouble", 64, "MIN", s, n)
shmem_longdouble_prod_to_all(s, n) == SHMEM_X_TO_ALL("longdouble", 64, "PROD", s, n)
shmem_longdouble_sum_to_all(s, n) == SHMEM_X_TO_ALL("longdouble", 64, "SUM", s, n)
shmem_longlong_and_to_all(s, n) == SHMEM_X_TO_ALL("longlong", 64, "AND", s, n)
shmem_longlong_max_to_all(s, n) == SHMEM_X_TO_ALL("longlong", 64, "MAX", s, n)
shmem_longlong_min_to_all(s, n) == SHMEM_X_TO_ALL("longlong", 64, "MIN", s, n)
shmem_longlong_or_to_all(s, n) == SHMEM_X_TO_ALL("longlong", 64, "OR", s, n)
shmem_longlong_prod_to_all(s, n) == SHMEM_X_TO_ALL("longlong", 64, "PROD", s, n)
shmem_longlong_sum_to_all(s, n) == SHMEM_X_TO_ALL("longlong", 64, "SUM", s, n)
shmem_longlong_xor_to_all(s, n) == SHMEM_X_TO_ALL("longlong", 64, "XOR", s, n)
shmem_short_and_to_all(s, n) == SHMEM_X_TO_ALL("short", 16, "AND", s, n)
shmem_short_max_to_all(s, n) == SHMEM_X_TO_ALL("short", 16, "MAX", s, n)
shmem_short_min_to_all(s, n) == SHMEM_X_TO_ALL("short", 16, "MIN", s, n)
shmem_short_or_to_all(s, n) == SHMEM_X_TO_ALL("short", 16, "OR", s, n)
shmem_short_prod_to_all(s, n) == SHMEM_X_TO_ALL("short", 16, "PROD", s, n)
shmem_short_sum_to_all(s, n) == SHMEM_X_TO_ALL("short", 16, "SUM", s, n)
shmem_short_xor_to_all(s, n) == SHMEM_X_TO_ALL("short", 16, "XOR", s, n)

\* What shmem.h declares, by operation and type.
DECL_SHMEM_X_TO_ALL(op, T, s, n) ==
  CASE op = "sum" -> (
         CASE T = "complexd" -> shmem_complexd_sum_to_all(s, n)
           [] T = "complexf" -> shmem_complexf_sum_to_all(s, n)
           [] T = "double" -> shmem_double_sum_to_all(s, n)
           [] T = "float" -> shmem_float_sum_to_all(s, n)
           [] T = "longdouble" -> shmem_longdouble_sum_to_all(s, n)
           [] T = "short" -> shmem_short_sum_to_all(s, n)
           [] T = "int" -> shmem_int_sum_to_all(s, n)
           [] T = "long" -> shmem_long_sum_to_all(s, n)
           [] T = "longlong" -> shmem_longlong_sum_to_all(s, n))
    [] op = "prod" -> (
         CASE T = "complexd" -> shmem_complexd_prod_to_all(s, n)
           [] T = "complexf" -> shmem_complexf_prod_to_all(s, n)
           [] T = "double" -> shmem_double_prod_to_all(s, n)
           [] T = "float" -> shmem_float_prod_to_all(s, n)
           [] T = "longdouble" -> shmem_longdouble_prod_to_all(s, n)
           [] T = "short" -> shmem_short_prod_to_all(s, n)
           [] T = "int" -> shmem_int_prod_to_all(s, n)
           [] T = "long" -> shmem_long_prod_to_all(s, n)
           [] T = "longlong" -> shmem_longlong_prod_to_all(s, n))
    [] op = "and" -> (
         CASE T = "short" -> shmem_short_and_to_all(s, n)
           [] T = "int" -> shmem_int_and_to_all(s, n)
           [] T = "long" -> shmem_long_and_to_all(s, n)
           [] T = "longlong" -> shmem_longlong_and_to_all(s, n))
    [] op = "or" -> (
         CASE T = "short" -> shmem_short_or_to_all(s, n)
           [] T = "int" -> shmem_int_or_to_all(s, n)
           [] T = "long" -> shmem_long_or_to_all(s, n)
           [] T = "longlong" -> shmem_longlong_or_to_all(s, n))
    [] op = "xor" -> (
         CASE T = "short" -> shmem_short_xor_to_all(s, n)
           [] T = "int" -> shmem_int_xor_to_all(s, n)
           [] T = "long" -> shmem_long_xor_to_all(s, n)
           [] T = "longlong" -> shmem_longlong_xor_to_all(s, n))
    [] op = "max" -> (
         CASE T = "double" -> shmem_double_max_to_all(s, n)
           [] T = "float" -> shmem_float_max_to_all(s, n)
           [] T = "longdouble" -> shmem_longdouble_max_to_all(s, n)
           [] T = "short" -> shmem_short_max_to_all(s, n)
           [] T = "int" -> shmem_int_max_to_all(s, n)
           [] T = "long" -> shmem_long_max_to_all(s, n)
           [] T = "longlong" -> shmem_longlong_max_to_all(s, n))
    [] op = "min" -> (
         CASE T = "double" -> shmem_double_min_to_all(s, n)
           [] T = "float" -> shmem_float_min_to_all(s, n)
           [] T = "longdouble" -> shmem_longdouble_min_to_all(s, n)
           [] T = "short" -> shmem_short_min_to_all(s, n)
           [] T = "int" -> shmem_int_min_to_all(s, n)
           [] T = "long" -> shmem_long_min_to_all(s, n)
           [] T = "longlong" -> shmem_longlong_min_to_all(s, n))
Reductions ==
  {"sum", "prod"} \X ({"complexd", "complexf", "double", "float", "longdouble"} \cup IntegerTypes)
    \cup {"max", "min"} \X ({"double", "float", "longdouble"} \cup IntegerTypes)
    \cup {"and", "or", "xor"} \X IntegerTypes

------------------------------------------------------------------------------
\* What the operation makes of all sources at once, on unbounded integers.
Total(op, source, n) ==
  LET of[k \in 0..n] == IF k = 0 THEN IF op = "sum" THEN 0 ELSE 1
                        ELSE IF op = "sum" THEN of[k - 1] + source[k - 1]
                             ELSE of[k - 1] * source[k - 1]
  IN  of[n]
Bit(v, i) == (Unsigned(v) \div 2^i) % 2
Word(bit(_)) ==
  LET of[i \in 0..Width] == IF i = 0 THEN 0 ELSE of[i - 1] + 2^(i - 1) * bit(i - 1)
  IN  of[Width]
Reference(op, source, n) ==
  LET values == {source[p] : p \in 0..(n - 1)}
      Ones(i) == {p \in 0..(n - 1) : Bit(source[p], i) = 1}
      All(i) == IF Ones(i) = 0..(n - 1) THEN 1 ELSE 0
      Any(i) == IF Ones(i) # {} THEN 1 ELSE 0
      Odd(i) == Cardinality(Ones(i)) % 2
  IN  CASE op \in {"sum", "prod"} -> Total(op, source, n)
        [] op = "max" -> CHOOSE v \in values : \A w \in values : v >= w
        [] op = "min" -> CHOOSE v \in values : \A w \in values : v <= w
        [] op = "and" -> Word(All)
        [] op = "or" -> Word(Any)
        [] op = "xor" -> Word(Odd)

\* Whatever the order in which a PE combines, with sums and products that wrap
\* around on the way, every PE ends with the result of all sources.
ReductionIsRight(op, T, source, n) ==
  \A p \in 0..(n - 1) :
    DECL_SHMEM_X_TO_ALL(op, T, source, n).dest[p] = Of(T, Reference(op, source, n))

=============================================================================

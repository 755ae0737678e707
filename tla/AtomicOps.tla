------------------------------ MODULE AtomicOps ------------------------------
(* What each atomic memory operation of the library makes of a word, on       *)
(* unsigned words of Width bits: the two's complement arithmetic of the core. *)
EXTENDS Naturals, Bitwise

CONSTANT Width

ASSUME WidthAssumption == Width \in Nat \ {0}

Word == 0..(2^Width - 1)

atomic_add(v, value) == (v + value) % 2^Width
atomic_fetch_add(v, value) == (v + value) % 2^Width
atomic_inc(v) == (v + 1) % 2^Width
atomic_fetch_inc(v) == (v + 1) % 2^Width
atomic_and(v, value) == v & value
atomic_fetch_and(v, value) == v & value
atomic_or(v, value) == v | value
atomic_fetch_or(v, value) == v | value
atomic_xor(v, value) == v ^^ value
atomic_fetch_xor(v, value) == v ^^ value
atomic_swap(v, value) == value
atomic_compare_swap(v, cond, value) == IF v = cond THEN value ELSE v
atomic_set(v, value) == value
atomic_fetch(v) == v

\* A call: the operation's name, the word it is applied to and its arguments.
OpEffect(o, v) ==
  CASE o.name = "add"          -> atomic_add(v, o.value)
    [] o.name = "fetch_add"    -> atomic_fetch_add(v, o.value)
    [] o.name = "inc"          -> atomic_inc(v)
    [] o.name = "fetch_inc"    -> atomic_fetch_inc(v)
    [] o.name = "and"          -> atomic_and(v, o.value)
    [] o.name = "fetch_and"    -> atomic_fetch_and(v, o.value)
    [] o.name = "or"           -> atomic_or(v, o.value)
    [] o.name = "fetch_or"     -> atomic_fetch_or(v, o.value)
    [] o.name = "xor"          -> atomic_xor(v, o.value)
    [] o.name = "fetch_xor"    -> atomic_fetch_xor(v, o.value)
    [] o.name = "swap"         -> atomic_swap(v, o.value)
    [] o.name = "compare_swap" -> atomic_compare_swap(v, o.cond, o.value)
    [] o.name = "set"          -> atomic_set(v, o.value)
    [] o.name = "fetch"        -> atomic_fetch(v)

\* Only a compare-and-swap that fails does not store.
OpStores(o) == CASE o.name = "compare_swap" -> {o.cond}
               [] o.name = "fetch"        -> {}
               [] OTHER                   -> Word

OpKind(o) == CASE o.name = "set"   -> "set"
             [] o.name = "fetch" -> "fetch"
             [] OTHER            -> "rmw"
==============================================================================

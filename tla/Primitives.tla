----------------------------- MODULE Primitives -----------------------------
(***************************************************************************)
(* Vocabulary shared by the component modules: the standard-library        *)
(* functions the Rust code calls, Option's None, and bounded iteration for *)
(* the code's loops.                                                       *)
(***************************************************************************)
EXTENDS Integers

CONSTANT U64_MAX     \* the largest u64: 2^64 - 1 in the code

ASSUME U64Assumption == U64_MAX \in Nat

(* Option::None for an option of a natural number. *)
None == -1

min(a, b) == IF a <= b THEN a ELSE b
max(a, b) == IF a >= b THEN a ELSE b
abs_diff(a, b) == IF a <= b THEN b - a ELSE a - b

(* Integer arithmetic that sticks at the largest value of its width. *)
saturating_add(a, b, top) == min(a + b, top)

(***************************************************************************)
(* A loop: `Step' is one iteration and leaves a state alone once the loop  *)
(* has ended (its guard is false, or it took `break'), so running it more  *)
(* often than needed does no harm.  `k' bounds the number of iterations.   *)
(***************************************************************************)
Iterate(Step(_), x, k) ==
  LET st[n \in 0 .. k] == IF n = 0 THEN x ELSE Step(st[n - 1])
  IN  st[k]

(* A BTreeMap is a function on its keys. *)
map_insert(m, k, v) == [x \in DOMAIN m \cup {k} |-> IF x = k THEN v ELSE m[x]]
map_remove(m, k) == [x \in DOMAIN m \ {k} |-> m[x]]
EmptyMap == [x \in {} |-> None]
=============================================================================

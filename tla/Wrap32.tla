------------------------------- MODULE Wrap32 -------------------------------
(***************************************************************************)
(* wrapping_integers.rs: sequence numbers that wrap.  A Wrap32 is its raw  *)
(* value in 0 .. MODULUS - 1.  The code's MODULUS is 2^32 and its absolute *)
(* sequence numbers are u64; both are parameters here so that a small      *)
(* instance meets the wrap and the end of the u64 range.                   *)
(***************************************************************************)
EXTENDS Primitives

CONSTANT MODULUS     \* 2^32 in the code

ASSUME ModulusAssumption == MODULUS \in Nat \ {0} /\ MODULUS % 2 = 0
ASSUME U64IsWholeEras == (U64_MAX + 1) % MODULUS = 0

RawValues == 0 .. MODULUS - 1

wrap(absolute_seqno, zero_point) == (zero_point + absolute_seqno) % MODULUS

(* Candidate `c' replaces `best' only when it is strictly nearer. *)
closer(best, c, checkpoint) ==
  IF abs_diff(c, checkpoint) < abs_diff(best, checkpoint) THEN c ELSE best

(* Mutant: the era below is never considered. *)
unwrap_NoPrevious(raw, zero_point, checkpoint) ==
  LET offset == (raw - zero_point) % MODULUS
      current == (checkpoint \div MODULUS) * MODULUS + offset
  IN  IF current + MODULUS <= U64_MAX
        THEN closer(current, current + MODULUS, checkpoint) ELSE current

(* checked_sub and checked_add skip a candidate outside the u64 range. *)
unwrap(raw, zero_point, checkpoint) ==
  LET offset == (raw - zero_point) % MODULUS
      era_start == (checkpoint \div MODULUS) * MODULUS
      current == era_start + offset
      best == IF current >= MODULUS
                THEN closer(current, current - MODULUS, checkpoint) ELSE current
  IN  IF current + MODULUS <= U64_MAX
        THEN closer(best, current + MODULUS, checkpoint) ELSE best
=============================================================================

------------------------------ MODULE WrapSpec ------------------------------
(***************************************************************************)
(* Sequence numbers on the wire.  One end has reached absolute sequence    *)
(* number `absolute' and sends it wrapped; the other unwraps it near its   *)
(* own `checkpoint'.  Both run through the whole u64 range, so every pair  *)
(* is met, the ones at either end of the range included.                   *)
(***************************************************************************)
EXTENDS Wrap32

VARIABLES zero_point, absolute, checkpoint

numbers == <<zero_point, absolute, checkpoint>>

NumbersInit ==
  /\ zero_point \in RawValues
  /\ absolute = 0
  /\ checkpoint = 0

Send ==
  /\ absolute < U64_MAX
  /\ absolute' = absolute + 1
  /\ UNCHANGED <<zero_point, checkpoint>>

Advance ==
  /\ checkpoint < U64_MAX
  /\ checkpoint' = checkpoint + 1
  /\ UNCHANGED <<zero_point, absolute>>

NumbersNext == Send \/ Advance

NumbersSpec == NumbersInit /\ [][NumbersNext]_numbers
-----------------------------------------------------------------------------
unwrapped == unwrap(wrap(absolute, zero_point), zero_point, checkpoint)

(***************************************************************************)
(* However far apart they are, unwrap returns a u64 that wraps to the same *)
(* number, and no such u64 is nearer to the checkpoint: in particular wrap *)
(* and unwrap are inverse as long as the two ends are less than half the   *)
(* sequence space apart, across every wrap and up to the ends of the u64   *)
(* range.                                                                  *)
(***************************************************************************)
UnwrapIsNearest ==
  /\ unwrapped \in 0 .. U64_MAX
  /\ wrap(unwrapped, zero_point) = wrap(absolute, zero_point)
  /\ abs_diff(unwrapped, checkpoint) <= abs_diff(absolute, checkpoint)
=============================================================================

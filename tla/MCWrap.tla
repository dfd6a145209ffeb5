------------------------------- MODULE MCWrap -------------------------------
(* Four eras of eight sequence numbers. *)
EXTENDS WrapSpec
=============================================================================

------------------------------ MODULE MCRouter ------------------------------
(* Instance of RouterSpec for TLC. *)
EXTENDS RouterSpec
=============================================================================

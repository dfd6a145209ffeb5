--------------------------- MODULE MCReassembler ---------------------------
(* A window of Capacity bytes over a stream of MaxIndex bytes. *)
EXTENDS ReassemblerSpec
=============================================================================

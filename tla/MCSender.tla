------------------------------ MODULE MCSender ------------------------------
(* A small sender: its sequence numbers wrap, its windows close and open. *)
EXTENDS SenderSpec
=============================================================================

----------------------------- MODULE MCInterface -----------------------------
(* Instances of InterfaceSpec for TLC. *)
EXTENDS InterfaceSpec, TLC

CONSTANTS n1, n2, d1, d2, d3

(* Two datagrams for one neighbour, one for another. *)
MCNextHop == (d1 :> n1) @@ (d2 :> n1) @@ (d3 :> n2)
=============================================================================

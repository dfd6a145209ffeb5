---------------------------- MODULE MCTapNetwork ----------------------------
(* A line of which one byte fits the send buffer; the kernel may change its address once. *)
EXTENDS TapNetwork

CONSTANTS K1, K2

MCPeerMacs == <<K1, K2>>
MCLines == <<2>>
MCLocalIsn == MODULUS - 2
=============================================================================

---------------------------- MODULE MCTcpNetwork ----------------------------
(* Small instances of TcpNetwork: a client A and a server B. *)
EXTENDS TcpNetwork, TLC

CONSTANTS A, B

MCEndpoints == {A, B}
MCClients == {A}

(* A's sequence numbers wrap inside its stream. *)
MCISN == (A :> MODULUS - 2) @@ (B :> 5)
MCOneWay == (A :> 3) @@ (B :> 0)

MCBothWays == (A :> 1) @@ (B :> 1)
=============================================================================

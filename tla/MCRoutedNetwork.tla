-------------------------- MODULE MCRoutedNetwork --------------------------
(***************************************************************************)
(* Two links, with addresses of three bits.  The first has host H1 (0) and *)
(* router R1 (1); the second has R1 (4), router R2 (5) and host H2 (6),    *)
(* whose gateway is R2.  Each router's default route is the other router,  *)
(* so that a datagram for address 2, which does not exist, goes to and fro *)
(* between them.                                                           *)
(***************************************************************************)
EXTENDS RoutedNetwork, TLC

CONSTANTS H1, H2, R1, R2

MCInterfacesOf ==
  (H1 :> <<new_interface("h1", 0)>>)
  @@ (R1 :> <<new_interface("r1a", 1), new_interface("r1b", 4)>>)
  @@ (R2 :> <<new_interface("r2", 5)>>)
  @@ (H2 :> <<new_interface("h2", 6)>>)

MCLinkOf == (H1 :> <<1>>) @@ (R1 :> <<1, 2>>) @@ (R2 :> <<2>>) @@ (H2 :> <<2>>)

MCRoutesOf ==
  (H1 :> <<>>) @@ (H2 :> <<>>)
  @@ (R1 :> <<Route(0, 0, 5, 1), Route(0, 2, None, 0), Route(4, 1, None, 1)>>)
  @@ (R2 :> <<Route(0, 0, 4, 0), Route(4, 1, None, 0)>>)

MCGateway == (H1 :> 1) @@ (H2 :> 5)

(* One datagram across both routers, and one into the loop. *)
Across == [id |-> 1, dst |-> 0, ttl |-> 3]
Astray == [id |-> 2, dst |-> 2, ttl |-> 4]

MCSource == (Across :> H2) @@ (Astray :> H1)
MCDatagrams == {Across, Astray}
=============================================================================

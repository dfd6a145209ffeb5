----------------------------- MODULE RouterSpec -----------------------------
(***************************************************************************)
(* The routing table alone: every table that add_route can build, up to a  *)
(* bound, against the definition of the longest-prefix match.              *)
(***************************************************************************)
EXTENDS Router

CONSTANT MAX_ROUTES     \* bound: the length of the table

ASSUME MaxRoutesAssumption == MAX_ROUTES \in Nat

VARIABLE router

TableInit == router = [interfaces |-> <<>>, routes |-> <<>>]

(* The interface number stands for the identity of the route. *)
AddRoute ==
  /\ Len(router.routes) < MAX_ROUTES
  /\ \E route_prefix \in IpAddresses, prefix_length \in 0 .. ADDRESS_BITS :
       router' = add_route(router,
         Route(route_prefix, prefix_length, None, Len(router.routes)))

TableNext == AddRoute

TableSpec == TableInit /\ [][TableNext]_router
-----------------------------------------------------------------------------
(* Bit number b of an address, the most significant first. *)
bit(address, b) == (address \div pow2[ADDRESS_BITS - b]) % 2

SharesPrefix(r, destination) ==
  \A b \in 1 .. r.prefix_length : bit(r.route_prefix, b) = bit(destination, b)

(***************************************************************************)
(* find_route returns the first of the longest routes whose first          *)
(* prefix_length bits are those of the destination, and nothing exactly    *)
(* when there is none; prefix length 0 (where the mask would be shifted by *)
(* the whole width) matches everything.                                    *)
(***************************************************************************)
LongestPrefixFirst ==
  \A destination \in IpAddresses :
    LET found == find_route(router.routes, destination)
        covering == {k \in DOMAIN router.routes : SharesPrefix(router.routes[k], destination)}
        length(k) == router.routes[k].prefix_length
    IN  IF covering = {} THEN found = <<>>
        ELSE \E k \in covering :
               /\ found = <<router.routes[k]>>
               /\ \A j \in covering : length(j) <= length(k)
               /\ \A j \in covering : length(j) = length(k) => k <= j
=============================================================================

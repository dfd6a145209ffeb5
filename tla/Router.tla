------------------------------- MODULE Router -------------------------------
(***************************************************************************)
(* router.rs: forwards what its interfaces received along the route with   *)
(* the longest matching prefix.  A router is [interfaces, routes], both    *)
(* sequences (interface_num counts from 0); a datagram is [id, dst, ttl];  *)
(* an IP address is a number of ADDRESS_BITS bits.                         *)
(***************************************************************************)
EXTENDS NetworkInterface, SequencesExt

CONSTANT ADDRESS_BITS     \* 32 in the code

ASSUME AddressAssumption == ADDRESS_BITS \in Nat

(* The powers of two, by their recurrence, which the proofs use. *)
pow2[n \in 0 .. ADDRESS_BITS] == IF n = 0 THEN 1 ELSE 2 * pow2[n - 1]

IpAddresses == 0 .. pow2[ADDRESS_BITS] - 1

Route(route_prefix, prefix_length, next_hop, interface_num) ==
  [route_prefix |-> route_prefix, prefix_length |-> prefix_length,
   next_hop |-> next_hop, interface_num |-> interface_num]

Routes ==
  [route_prefix : IpAddresses, prefix_length : 0 .. ADDRESS_BITS,
   next_hop : IpAddresses \cup {None}, interface_num : Nat]

(* Masking leaves the first prefix_length bits. *)
prefix(address, prefix_length) == address \div pow2[ADDRESS_BITS - prefix_length]

matches(route, destination) ==
  prefix(route.route_prefix, route.prefix_length) = prefix(destination, route.prefix_length)

(* Mutant: a route of the same length replaces an earlier one. *)
better_LastWins(best, route, destination) ==
  IF matches(route, destination)
     /\ (best = <<>> \/ route.prefix_length >= best[1].prefix_length)
  THEN <<route>> ELSE best

(* `best' is <<>> or the best route so far; only a longer prefix replaces it. *)
better(best, route, destination) ==
  IF matches(route, destination)
     /\ (best = <<>> \/ route.prefix_length > best[1].prefix_length)
  THEN <<route>> ELSE best

find_route(routes, destination) ==
  LET best[k \in 0 .. Len(routes)] ==
        IF k = 0 THEN <<>> ELSE better(best[k - 1], routes[k], destination)
  IN  best[Len(routes)]

add_route(r, new) == [r EXCEPT !.routes = Append(@, new)]

(* Mutant: the TTL is tested and not lowered. *)
forwarded_SameTtl(datagram) == datagram

forwarded(datagram) == [datagram EXCEPT !.ttl = @ - 1]

next_hop_of(route, destination) ==
  IF route.next_hop = None THEN destination ELSE route.next_hop

(* A datagram is dropped when its TTL is used up, without a route, or on a bad route. *)
route_one_datagram(r, datagram) ==
  LET found == find_route(r.routes, datagram.dst)
      n == found[1].interface_num + 1 IN
  IF datagram.ttl <= 1 \/ found = <<>> \/ n \notin DOMAIN r.interfaces THEN r
  ELSE [r EXCEPT !.interfaces[n] =
          send_datagram(@, forwarded(datagram), next_hop_of(found[1], datagram.dst))]

(* Every interface is drained, in order; nothing arrives meanwhile. *)
route(r) ==
  LET arrived == FlattenSeq([k \in DOMAIN r.interfaces |-> r.interfaces[k].datagrams_in])
      drained == [r EXCEPT !.interfaces =
                    [k \in DOMAIN @ |-> [@[k] EXCEPT !.datagrams_in = <<>>]]]
      after[k \in 0 .. Len(arrived)] ==
        IF k = 0 THEN drained ELSE route_one_datagram(after[k - 1], arrived[k])
  IN  after[Len(arrived)]
=============================================================================

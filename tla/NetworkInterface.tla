-------------------------- MODULE NetworkInterface --------------------------
(***************************************************************************)
(* network_interface.rs: sends datagrams to neighbours whose Ethernet      *)
(* address it learns by ARP, and keeps those waiting whose address is not  *)
(* known yet.                                                              *)
(*                                                                         *)
(* arp_cache and pending (HashMaps) are functions on their keys.  The      *)
(* payload of a frame is the message it parses to; `parses' says whether   *)
(* it does.                                                                *)
(***************************************************************************)
EXTENDS Primitives, Sequences

CONSTANTS
  ARP_CACHE_TTL,
  ARP_REQUEST_COOLDOWN,
  PENDING_DATAGRAM_TTL,
  BROADCAST               \* the Ethernet broadcast address

(***************************************************************************)
(* In the code: 30 s, 5 s and 5 s.  A queue lives exactly as long as its   *)
(* request is not repeated, and a mapping no shorter: that requests keep   *)
(* their distance depends on both.                                         *)
(***************************************************************************)
ASSUME InterfaceTimesAssumption ==
  /\ ARP_CACHE_TTL \in Nat \ {0} /\ ARP_REQUEST_COOLDOWN \in Nat \ {0}
  /\ PENDING_DATAGRAM_TTL = ARP_REQUEST_COOLDOWN
  /\ ARP_REQUEST_COOLDOWN <= ARP_CACHE_TTL
  /\ ARP_CACHE_TTL <= U64_MAX

Frame(dst, src, ethertype, payload, parses) ==
  [dst |-> dst, src |-> src, ethertype |-> ethertype, payload |-> payload, parses |-> parses]

ArpMessage(operation, sender_eth, sender_ip, target_ip) ==
  [operation |-> operation, sender_ethernet_address |-> sender_eth,
   sender_ip_address |-> sender_ip, target_ip_address |-> target_ip]

(* Mutant: every frame on the link is taken. *)
is_for_Promiscuous(frame, ethernet_address) == TRUE

is_for(frame, ethernet_address) == frame.dst \in {ethernet_address, BROADCAST}

new_interface(ethernet_address, ip_address) ==
  [ethernet_address |-> ethernet_address, ip_address |-> ip_address,
   arp_cache |-> EmptyMap, pending |-> EmptyMap,
   frames_out |-> <<>>, datagrams_in |-> <<>>]

ipv4_frame(i, datagram, dst) == Frame(dst, i.ethernet_address, "IPv4", datagram, TRUE)

emit_ipv4_frame(i, datagram, dst) ==
  [i EXCEPT !.frames_out = Append(@, ipv4_frame(i, datagram, dst))]

emit_arp_request(i, target_ip) ==
  [i EXCEPT !.frames_out = Append(@,
     Frame(BROADCAST, i.ethernet_address, "ARP",
           ArpMessage("Request", i.ethernet_address, i.ip_address, target_ip), TRUE))]

emit_arp_reply(i, target_ethernet_address, target_ip) ==
  [i EXCEPT !.frames_out = Append(@,
     Frame(target_ethernet_address, i.ethernet_address, "ARP",
           ArpMessage("Reply", i.ethernet_address, i.ip_address, target_ip), TRUE))]

(* A new resolution may send its first request at once. *)
new_resolution ==
  [datagrams |-> <<>>, age_ms |-> 0, request_age_ms |-> ARP_REQUEST_COOLDOWN]

(* Mutant: the cooldown is not tested. *)
should_send_arp_request_Always(p) == TRUE

should_send_arp_request(p) == p.request_age_ms >= ARP_REQUEST_COOLDOWN

send_datagram(i, datagram, next_hop) ==
  LET p == IF next_hop \in DOMAIN i.pending THEN i.pending[next_hop] ELSE new_resolution
      asks == should_send_arp_request(p)
      waiting == [i EXCEPT !.pending = map_insert(@, next_hop,
        [p EXCEPT !.datagrams = Append(@, datagram),
                  !.request_age_ms = IF asks THEN 0 ELSE @])]
  IN  IF next_hop \in DOMAIN i.arp_cache
      THEN emit_ipv4_frame(i, datagram, i.arp_cache[next_hop].ethernet_address)
      ELSE IF asks THEN emit_arp_request(waiting, next_hop) ELSE waiting

(* Mutant: the datagrams that waited stay queued. *)
learn_arp_mapping_KeepsQueue(i, ip, ethernet_address) ==
  [i EXCEPT !.arp_cache = map_insert(@, ip, [ethernet_address |-> ethernet_address, age_ms |-> 0]),
            !.frames_out = @ \o IF ip \notin DOMAIN i.pending THEN <<>>
              ELSE LET q == i.pending[ip].datagrams IN
                   [k \in 1 .. Len(q) |-> ipv4_frame(i, q[k], ethernet_address)]]

(* A mapping is stored afresh and releases, in order, what waited for it. *)
learn_arp_mapping(i, ip, ethernet_address) ==
  [i EXCEPT !.arp_cache = map_insert(@, ip, [ethernet_address |-> ethernet_address, age_ms |-> 0]),
            !.pending = map_remove(@, ip),
            !.frames_out = @ \o IF ip \notin DOMAIN i.pending THEN <<>>
              ELSE LET q == i.pending[ip].datagrams IN
                   [k \in 1 .. Len(q) |-> ipv4_frame(i, q[k], ethernet_address)]]

recv_arp(i, m) ==
  LET learnt == learn_arp_mapping(i, m.sender_ip_address, m.sender_ethernet_address) IN
  IF m.operation = "Request" /\ m.target_ip_address = i.ip_address
  THEN emit_arp_reply(learnt, m.sender_ethernet_address, m.sender_ip_address)
  ELSE learnt

recv_frame(i, frame) ==
  IF ~is_for(frame, i.ethernet_address) \/ ~frame.parses THEN i
  ELSE CASE frame.ethertype = "IPv4" -> [i EXCEPT !.datagrams_in = Append(@, frame.payload)]
         [] frame.ethertype = "ARP" -> recv_arp(i, frame.payload)
         [] OTHER -> i

(* Mutant: mappings do not age. *)
expire_arp_cache_Never(cache, elapsed_ms) == cache

(* The aged entries of the cache, without those that reach the lifetime. *)
expire_arp_cache(cache, elapsed_ms) ==
  LET age(ip) == saturating_add(cache[ip].age_ms, elapsed_ms, U64_MAX) IN
  [ip \in {k \in DOMAIN cache : age(k) < ARP_CACHE_TTL} |-> [cache[ip] EXCEPT !.age_ms = age(ip)]]

(* Mutant: queues age and are never dropped. *)
expire_pending_Never(pending, elapsed_ms) ==
  [ip \in DOMAIN pending |->
     [pending[ip] EXCEPT !.age_ms = saturating_add(@, elapsed_ms, U64_MAX),
                         !.request_age_ms = saturating_add(@, elapsed_ms, U64_MAX)]]

(* A queue expires as a whole, by the age of its first datagram. *)
expire_pending(pending, elapsed_ms) ==
  LET age(ip) == saturating_add(pending[ip].age_ms, elapsed_ms, U64_MAX) IN
  [ip \in {k \in DOMAIN pending : age(k) < PENDING_DATAGRAM_TTL} |->
     [pending[ip] EXCEPT !.age_ms = age(ip),
                         !.request_age_ms = saturating_add(@, elapsed_ms, U64_MAX)]]

interface_tick(i, elapsed_ms) ==
  [i EXCEPT !.arp_cache = expire_arp_cache(@, elapsed_ms),
            !.pending = expire_pending(@, elapsed_ms)]

pop_frame(i) == [i EXCEPT !.frames_out = Tail(@)]
pop_datagram(i) == [i EXCEPT !.datagrams_in = Tail(@)]
=============================================================================

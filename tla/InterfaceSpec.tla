--------------------------- MODULE InterfaceSpec ---------------------------
(***************************************************************************)
(* One NetworkInterface between its owner, who submits datagrams, advances *)
(* the clock and drains the queues, and an Ethernet on which neighbours    *)
(* answer late, twice, unasked, with another address than before, or never. *)
(***************************************************************************)
EXTENDS NetworkInterface

CONSTANTS
  Datagrams,    \* the datagrams submitted, each at most once
  NextHop,      \* the neighbour each of them goes to
  Neighbours,   \* the neighbours' IP addresses
  Addresses,    \* the Ethernet addresses in use on the link
  OWN_IP,
  OWN_ETH,
  OTHER_ETH,    \* an address that is not this interface's
  INCOMING,     \* a datagram that arrives, or bytes that do not parse
  Elapsed,      \* the amounts by which tick() advances the clock
  MAX_QUEUE     \* bound: nothing arrives while a queue is this long

ASSUME InterfaceSpecAssumption ==
  /\ NextHop \in [Datagrams -> Neighbours]
  /\ Elapsed \subseteq Nat /\ MAX_QUEUE \in Nat
  /\ OWN_IP \notin Neighbours /\ OWN_ETH \notin Addresses
  /\ OTHER_ETH \notin {OWN_ETH, BROADCAST}
  /\ INCOMING \notin Datagrams

VARIABLES
  iface,
  fate,     \* history: of each datagram, "new", "waiting", "sent" or "dropped"
  waited,   \* history: how long each datagram has waited
  asked,    \* history: the time since the last request for each neighbour
  told      \* history: each neighbour's last announced address, and its age

vars == <<iface, fate, waited, asked, told>>

(* An age after some more time; ages beyond every lifetime are not told apart. *)
Older(age, elapsed_ms) ==
  saturating_add(age, elapsed_ms, max(ARP_CACHE_TTL, PENDING_DATAGRAM_TTL))

Init ==
  /\ iface = new_interface(OWN_ETH, OWN_IP)
  /\ fate = [d \in Datagrams |-> "new"]
  /\ waited = [d \in Datagrams |-> 0]
  /\ asked = [ip \in Neighbours |-> Older(ARP_CACHE_TTL, PENDING_DATAGRAM_TTL)]
  /\ told = EmptyMap

Queued(i) ==
  UNION {{i.pending[ip].datagrams[k] : k \in 1 .. Len(i.pending[ip].datagrams)} :
         ip \in DOMAIN i.pending}

(* The frames that a step puts into frames_out. *)
FramesAdded ==
  {iface'.frames_out[k] : k \in Len(iface.frames_out) + 1 .. Len(iface'.frames_out)}

Carries(frame, d) == frame.ethertype = "IPv4" /\ frame.payload = d
AsksFor(frame, ip) ==
  /\ frame.ethertype = "ARP"
  /\ frame.payload.operation = "Request" /\ frame.payload.target_ip_address = ip

(* What a step that takes no time adds to the histories of fates and requests. *)
Record ==
  /\ fate' = [d \in Datagrams |->
       IF \E f \in FramesAdded : Carries(f, d) THEN "sent"
       ELSE IF d \in Queued(iface') THEN "waiting" ELSE fate[d]]
  /\ asked' = [ip \in Neighbours |->
       IF \E f \in FramesAdded : AsksFor(f, ip) THEN 0 ELSE asked[ip]]
  /\ UNCHANGED waited
-----------------------------------------------------------------------------
SendDatagram(d) ==
  /\ fate[d] = "new"
  /\ iface' = send_datagram(iface, d, NextHop[d])
  /\ Record
  /\ UNCHANGED told

RecvFrame(frame) ==
  /\ Len(iface.frames_out) < MAX_QUEUE /\ Len(iface.datagrams_in) < MAX_QUEUE
  /\ iface' = recv_frame(iface, frame)
  /\ Record
  /\ told' = IF frame.ethertype = "ARP" /\ frame.parses /\ is_for(frame, OWN_ETH)
             THEN map_insert(told, frame.payload.sender_ip_address,
                    [ethernet_address |-> frame.payload.sender_ethernet_address, age_ms |-> 0])
             ELSE told

Tick(elapsed_ms) ==
  /\ iface' = interface_tick(iface, elapsed_ms)
  /\ waited' = [d \in Datagrams |->
       IF fate[d] = "waiting" THEN Older(waited[d], elapsed_ms) ELSE waited[d]]
  /\ fate' = [d \in Datagrams |->
       IF fate[d] = "waiting" /\ d \notin Queued(iface') THEN "dropped" ELSE fate[d]]
  /\ asked' = [ip \in Neighbours |-> Older(asked[ip], elapsed_ms)]
  /\ told' = [ip \in DOMAIN told |-> [told[ip] EXCEPT !.age_ms = Older(@, elapsed_ms)]]

PopFrame ==
  /\ iface.frames_out # <<>>
  /\ iface' = pop_frame(iface)
  /\ UNCHANGED <<fate, waited, asked, told>>

PopDatagram ==
  /\ iface.datagrams_in # <<>>
  /\ iface' = pop_datagram(iface)
  /\ UNCHANGED <<fate, waited, asked, told>>

(***************************************************************************)
(* What may arrive, addressed to this interface, to all or to another: ARP *)
(* from a neighbour, IPv4, and frames that do not parse or that carry      *)
(* another protocol.  Nothing reads the source address of a frame.         *)
(***************************************************************************)
Destinations == {OWN_ETH, BROADCAST, OTHER_ETH}

ArpMessages ==
  {ArpMessage(operation, eth, ip, target) :
     operation \in {"Request", "Reply"}, eth \in Addresses,
     ip \in Neighbours, target \in Neighbours \cup {OWN_IP}}

ArpFrames == {Frame(dst, OTHER_ETH, "ARP", m, TRUE) : dst \in Destinations, m \in ArpMessages}
BadArpFrames == {Frame(dst, OTHER_ETH, "ARP", INCOMING, FALSE) : dst \in Destinations}
OtherFrames ==
  {Frame(dst, OTHER_ETH, ethertype, INCOMING, parses) :
     dst \in Destinations, ethertype \in {"IPv4", "other"}, parses \in BOOLEAN}

Arriving == ArpFrames \cup BadArpFrames \cup OtherFrames

Next ==
  \/ \E d \in Datagrams : SendDatagram(d)
  \/ \E frame \in Arriving : RecvFrame(frame)
  \/ \E elapsed_ms \in Elapsed : Tick(elapsed_ms)
  \/ PopFrame
  \/ PopDatagram

Spec == Init /\ [][Next]_vars

(* The host's loop advances the clock on every turn. *)
FairSpec == Spec /\ WF_vars(\E elapsed_ms \in Elapsed \ {0} : Tick(elapsed_ms))
-----------------------------------------------------------------------------
(***************************************************************************)
(* "At most one ARP request per 5 seconds for that next hop"               *)
(* (send_datagram): the cooldown is kept per resolution, and a resolution  *)
(* ends when it is answered or expires, so this rests on the lifetimes of  *)
(* the queue and of the cache as well.                                     *)
(***************************************************************************)
OneRequestPerCooldown ==
  [][\A ip \in Neighbours :
       (\E f \in FramesAdded : AsksFor(f, ip)) => asked[ip] >= ARP_REQUEST_COOLDOWN]_vars

(***************************************************************************)
(* A datagram leaves for the address its next hop announced last, however  *)
(* often that changed while the datagram waited, and never for one         *)
(* announced longer ago than the lifetime of a mapping.                    *)
(***************************************************************************)
SentAsTold ==
  [][\A f \in FramesAdded : f.ethertype = "IPv4" =>
       LET ip == NextHop[f.payload] IN
       /\ ip \in DOMAIN told'
       /\ f.dst = told'[ip].ethernet_address
       /\ told'[ip].age_ms < ARP_CACHE_TTL]_vars

(***************************************************************************)
(* Nothing is stranded: a submitted datagram that was neither sent nor     *)
(* dropped is in the queue of its own next hop, oldest first, no longer    *)
(* than the queue's lifetime; that next hop has been asked since the queue *)
(* exists, and has not announced itself, or no longer than it takes to     *)
(* forget it.                                                              *)
(***************************************************************************)
NothingStranded ==
  /\ \A d \in Datagrams : fate[d] = "waiting" <=> d \in Queued(iface)
  /\ \A ip \in DOMAIN iface.pending :
       LET q == iface.pending[ip].datagrams IN
       /\ q # <<>> /\ ip \notin DOMAIN iface.arp_cache
       /\ \A k \in 1 .. Len(q) :
            NextHop[q[k]] = ip /\ waited[q[k]] <= iface.pending[ip].age_ms
       /\ \A j, k \in 1 .. Len(q) : j < k => q[j] # q[k] /\ waited[q[j]] >= waited[q[k]]
       /\ asked[ip] = iface.pending[ip].age_ms
       /\ ip \in DOMAIN told => told[ip].age_ms >= ARP_CACHE_TTL

(* Every datagram that waits is eventually sent or dropped. *)
WaitingEnds == \A d \in Datagrams : fate[d] = "waiting" ~> fate[d] \in {"sent", "dropped"}
=============================================================================

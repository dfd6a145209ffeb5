--------------------------- MODULE RoutedNetwork ---------------------------
(***************************************************************************)
(* Hosts and routers on Ethernet links.  Every interface resolves its      *)
(* neighbours by ARP; a frame reaches every other interface of its link or *)
(* is lost; every node runs at its own pace and has its own clock.         *)
(*                                                                         *)
(* A host is a node with one interface that does not forward.              *)
(***************************************************************************)
EXTENDS Router, FiniteSetsExt

CONSTANTS
  Hosts,
  Routers,
  InterfacesOf,   \* the interfaces of each node, as new_interface makes them
  RoutesOf,       \* the routes of each router
  LinkOf,         \* the links of each node's interfaces
  Gateway,        \* the next hop a host sends everything to
  Datagrams,      \* what is sent, each datagram at most once
  Source,         \* the host that sends it
  MAX_SENT        \* bound: how many of them are sent

Nodes == Hosts \cup Routers

ASSUME RoutedNetworkAssumption ==
  /\ DOMAIN InterfacesOf = Nodes /\ DOMAIN RoutesOf = Nodes /\ DOMAIN LinkOf = Nodes
  /\ \A n \in Nodes : DOMAIN LinkOf[n] = DOMAIN InterfacesOf[n]
  /\ \A h \in Hosts : Len(InterfacesOf[h]) = 1
  /\ Source \in [Datagrams -> Hosts] /\ MAX_SENT \in Nat
  /\ Datagrams \subseteq [id : {d.id : d \in Datagrams}, dst : IpAddresses, ttl : Nat]

(* Some host's address on the link. *)
IsHostAt(link, ip) ==
  \E h \in Hosts : LinkOf[h][1] = link /\ InterfacesOf[h][1].ip_address = ip

(***************************************************************************)
(* The network is set up as it must be: every interface starts fresh, an   *)
(* address belongs to one interface of its link, and only routers serve as *)
(* next hops, of a host or of a route.                                     *)
(***************************************************************************)
ASSUME TopologyAssumption ==
  /\ Hosts \cap Routers = {}
  /\ \A n \in Nodes :
       /\ InterfacesOf[n] \in Seq(Range(InterfacesOf[n]))
       /\ RoutesOf[n] \in Seq(Routes)
       /\ \A k \in DOMAIN InterfacesOf[n] :
            LET i == InterfacesOf[n][k] IN
            /\ i = new_interface(i.ethernet_address, i.ip_address)
            /\ i.ethernet_address # BROADCAST /\ i.ip_address \in IpAddresses
  /\ \A m, n \in Nodes : \A j \in DOMAIN InterfacesOf[m], k \in DOMAIN InterfacesOf[n] :
       /\ LinkOf[m][j] = LinkOf[n][k]
       /\ \/ InterfacesOf[m][j].ethernet_address = InterfacesOf[n][k].ethernet_address
          \/ InterfacesOf[m][j].ip_address = InterfacesOf[n][k].ip_address
       => m = n /\ j = k
  /\ \A h \in Hosts : Gateway[h] \in IpAddresses /\ ~IsHostAt(LinkOf[h][1], Gateway[h])
  /\ \A r \in Routers : \A e \in Range(RoutesOf[r]) :
       e.next_hop # None /\ e.interface_num + 1 \in DOMAIN InterfacesOf[r]
         => ~IsHostAt(LinkOf[r][e.interface_num + 1], e.next_hop)

VARIABLES
  node,        \* the router (or host) at each node
  unsent,      \* the datagrams not yet submitted
  delivered    \* what each host has received, in order

vars == <<node, unsent, delivered>>

Ports == UNION {{<<n, k>> : k \in DOMAIN InterfacesOf[n]} : n \in Nodes}
at(n, k) == node[n].interfaces[k]

Init ==
  /\ node = [n \in Nodes |-> [interfaces |-> InterfacesOf[n], routes |-> RoutesOf[n]]]
  /\ unsent = Datagrams
  /\ delivered = [h \in Hosts |-> <<>>]

Send(d) ==
  /\ d \in unsent /\ Cardinality(Datagrams \ unsent) < MAX_SENT
  /\ unsent' = unsent \ {d}
  /\ node' = [node EXCEPT ![Source[d]].interfaces[1] = send_datagram(@, d, Gateway[Source[d]])]
  /\ UNCHANGED delivered

Accept(h) ==
  /\ at(h, 1).datagrams_in # <<>>
  /\ delivered' = [delivered EXCEPT ![h] = Append(@, Head(at(h, 1).datagrams_in))]
  /\ node' = [node EXCEPT ![h].interfaces[1] = pop_datagram(@)]
  /\ UNCHANGED unsent

Forward(r) ==
  /\ \E k \in DOMAIN node[r].interfaces : at(r, k).datagrams_in # <<>>
  /\ node' = [node EXCEPT ![r] = route(@)]
  /\ UNCHANGED <<unsent, delivered>>

Transmit(n, k) ==
  LET frame == Head(at(n, k).frames_out)
      after(m, j) == IF <<m, j>> = <<n, k>> THEN pop_frame(at(m, j))
                     ELSE IF LinkOf[m][j] = LinkOf[n][k] THEN recv_frame(at(m, j), frame)
                     ELSE at(m, j) IN
  /\ at(n, k).frames_out # <<>>
  /\ node' = [m \in Nodes |-> [node[m] EXCEPT !.interfaces =
                                 [j \in DOMAIN @ |-> after(m, j)]]]
  /\ UNCHANGED <<unsent, delivered>>

Lose(n, k) ==
  /\ at(n, k).frames_out # <<>>
  /\ node' = [node EXCEPT ![n].interfaces[k] = pop_frame(@)]
  /\ UNCHANGED <<unsent, delivered>>

Tick(n) ==
  /\ node' = [node EXCEPT ![n].interfaces =
                [j \in DOMAIN @ |-> interface_tick(@[j], 1)]]
  /\ UNCHANGED <<unsent, delivered>>

Next ==
  \/ \E d \in Datagrams : Send(d)
  \/ \E h \in Hosts : Accept(h)
  \/ \E r \in Routers : Forward(r)
  \/ \E n \in Nodes :
       \/ \E k \in DOMAIN InterfacesOf[n] : Transmit(n, k) \/ Lose(n, k)
       \/ Tick(n)

Spec == Init /\ [][Next]_vars

(* Every node's loop runs: it takes what has arrived, sends, and keeps time. *)
Fairness ==
  /\ \A h \in Hosts : WF_vars(Accept(h))
  /\ \A r \in Routers : WF_vars(Forward(r))
  /\ \A port \in Ports : WF_vars(Transmit(port[1], port[2]) \/ Lose(port[1], port[2]))
  /\ \A n \in Nodes : WF_vars(Tick(n))

FairSpec == Spec /\ Fairness
-----------------------------------------------------------------------------
(* How many copies of the datagram an interface holds. *)
CopiesAt(i, id) ==
  LET in(q) == Cardinality({k \in DOMAIN q : q[k].id = id}) IN
  in(i.datagrams_in)
  + Cardinality({k \in DOMAIN i.frames_out :
                   i.frames_out[k].ethertype = "IPv4" /\ i.frames_out[k].payload.id = id})
  + MapThenSumSet(LAMBDA ip : in(i.pending[ip].datagrams), DOMAIN i.pending)

InTransit(id) == MapThenSumSet(LAMBDA port : CopiesAt(at(port[1], port[2]), id), Ports)

Arrived(id) ==
  MapThenSumSet(LAMBDA h : Cardinality({k \in DOMAIN delivered[h] : delivered[h][k].id = id}),
                Hosts)

(***************************************************************************)
(* Forwarding copies nothing: whatever is queued, resolved, lost or        *)
(* expired on the way, a datagram is in one place at most, and one that    *)
(* has arrived is gone from the network.                                   *)
(***************************************************************************)
NeverDuplicated == \A d \in Datagrams : InTransit(d.id) + Arrived(d.id) <= 1

(***************************************************************************)
(* A host receives only what is addressed to it: routes, next hops and the *)
(* addresses learnt by ARP on each link never mix.                         *)
(***************************************************************************)
DeliveredToDestination ==
  \A h \in Hosts : \A k \in DOMAIN delivered[h] :
    delivered[h][k].dst = InterfacesOf[h][1].ip_address

(***************************************************************************)
(* Every datagram leaves the network: routing loops end by the TTL, and    *)
(* what waits for an answer that never comes expires.                      *)
(***************************************************************************)
TransitEnds == \A d \in Datagrams : InTransit(d.id) > 0 ~> InTransit(d.id) = 0
=============================================================================

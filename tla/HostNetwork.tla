---------------------------- MODULE HostNetwork ----------------------------
(***************************************************************************)
(* Two IpHosts, each the other's peer, on an IP network that also carries  *)
(* traffic of others: pings, connections of other ports and other hosts,   *)
(* packets for someone else, damaged packets.  Each host is run by         *)
(* tun_host: its loop passes on every packet, line or tick as it comes and *)
(* writes the answers to the device at once.  Nobody reads the             *)
(* connection's output stream: the program shows the payloads the host     *)
(* reports.                                                                *)
(***************************************************************************)
EXTENDS IpHost, FiniteSets

CONSTANTS
  Hosts,               \* the two hosts, named by their addresses
  Clients,             \* those that connect
  Port,                \* the port of each host's connection
  ISN,
  StreamLength,        \* the number of bytes each program has to send
  SENDER_CAPACITY,
  RECEIVER_CAPACITY,
  Stray,               \* <<host, packet>>: others' traffic and where it arrives
  MAX_STRAY,           \* bound: how much of it there is
  MAX_FAULTS,          \* bound: how often the network loses or repeats a packet
  MAX_IN_NET           \* bound: no clock ticks while this many packets are in transit

ASSUME HostNetworkAssumption ==
  /\ \E a, b \in Hosts : a # b /\ Hosts = {a, b}
  /\ Clients \subseteq Hosts
  /\ ISN \in [Hosts -> RawValues]
  /\ StreamLength \in [Hosts -> Nat]
  /\ SENDER_CAPACITY \in Nat /\ RECEIVER_CAPACITY \in Nat
  /\ MAX_STRAY \in Nat /\ MAX_FAULTS \in Nat /\ MAX_IN_NET \in Nat

Peer(h) == CHOOSE p \in Hosts : p # h

(* A packet for host h with a segment from the other end of its connection. *)
OfConnection(h, packet) ==
  /\ packet # Malformed
  /\ packet.src = Peer(h) /\ packet.dst = h /\ packet.protocol = "TCP"
  /\ packet.payload # Malformed
  /\ packet.payload.src_port = Port[Peer(h)] /\ packet.payload.dst_port = Port[h]

(* Others send packets of any kind, whole or damaged, but none of this connection. *)
ASSUME StrayAssumption ==
  \A s \in Stray :
    /\ s = <<s[1], s[2]>> /\ s[1] \in Hosts /\ ~OfConnection(s[1], s[2])
    /\ s[2] # Malformed =>
         /\ s[2] = Datagram(s[2].src, s[2].dst, s[2].protocol, s[2].payload)
         /\ s[2].protocol = "ICMP" /\ s[2].payload # Malformed =>
              s[2].payload = Echo(s[2].payload.icmp_type, s[2].payload.code, s[2].payload.tag)

VARIABLES
  host,      \* the hosts
  net,       \* the packets on their way to each host, oldest first
  opened,    \* the clients that have connected
  faults,    \* how often the network has misbehaved
  injected,  \* the stray packets that have appeared
  shown,     \* the positions of the peer's stream each program has shown
  echoes     \* the ICMP datagrams the hosts have emitted

vars == <<host, net, opened, faults, injected, shown, echoes>>

Init ==
  /\ host = [h \in Hosts |-> new_host(h, Peer(h),
       new_connection(Port[h], Port[Peer(h)], SENDER_CAPACITY, RECEIVER_CAPACITY, ISN[h]))]
  /\ net = [h \in Hosts |-> <<>>]
  /\ opened = {}
  /\ faults = 0
  /\ injected = {}
  /\ shown = [h \in Hosts |-> {}]
  /\ echoes = <<>>

outbound(h) == host[h].connection.sender.outbound
inbound(h) == receiver_output(host[h].connection.receiver)

(* The datagrams whose field has the value, in their order. *)
Having(datagrams, field, value) ==
  LET having[k \in 0 .. Len(datagrams)] ==
        IF k = 0 THEN <<>>
        ELSE IF datagrams[k][field] = value THEN Append(having[k - 1], datagrams[k])
        ELSE having[k - 1]
  IN  having[Len(datagrams)]

(* Of the events, TcpPayload is what the user sees; the others are logged. *)
print_events(seen, payloads) ==
  seen \cup UNION {payloads[i].lo .. payloads[i].hi - 1 : i \in DOMAIN payloads}

(* emit_output.  Host h is left as r.host; its datagrams for the other host travel there. *)
Perform(h, r, rest) ==
  /\ host' = [host EXCEPT ![h] = r.host]
  /\ net' = [g \in Hosts |-> (IF g = h THEN rest ELSE net[g]) \o Having(r.datagrams, "dst", g)]
  /\ shown' = [shown EXCEPT ![h] = print_events(@, r.payloads)]
  /\ echoes' = echoes \o Having(r.datagrams, "protocol", "ICMP")
-----------------------------------------------------------------------------
Connect(h) ==
  /\ h \in Clients \ opened
  /\ Perform(h, host_connect(host[h]), net[h])
  /\ opened' = opened \cup {h}
  /\ UNCHANGED <<faults, injected>>

Write(h) ==
  LET next == outbound(h).bytes_pushed IN
  /\ ~outbound(h).closed
  /\ \E n \in 1 .. StreamLength[h] - next :
       Perform(h, host_write(host[h], Bytes(next, next + n)), net[h])
  /\ UNCHANGED <<opened, faults, injected>>

Close(h) ==
  /\ ~outbound(h).closed
  /\ Perform(h, host_close(host[h]), net[h])
  /\ UNCHANGED <<opened, faults, injected>>

Tick(h) ==
  /\ Len(net[h]) + Len(net[Peer(h)]) < MAX_IN_NET
  /\ Perform(h, host_tick(host[h], 1), net[h])
  /\ UNCHANGED <<opened, faults, injected>>

Deliver(h) ==
  /\ net[h] # <<>>
  /\ Perform(h, receive_ipv4_bytes(host[h], Head(net[h])), Tail(net[h]))
  /\ UNCHANGED <<opened, faults, injected>>
-----------------------------------------------------------------------------
(* The network. *)
Misbehave(h, new) ==
  /\ net[h] # <<>>
  /\ faults < MAX_FAULTS
  /\ faults' = faults + 1
  /\ net' = [net EXCEPT ![h] = new]
  /\ UNCHANGED <<host, opened, injected, shown, echoes>>

Lose(h) == Misbehave(h, Tail(net[h]))
Repeat(h) == Misbehave(h, Append(net[h], Head(net[h])))

StrayPacket ==
  /\ Cardinality(injected) < MAX_STRAY
  /\ \E s \in Stray \ injected :
       /\ net' = [net EXCEPT ![s[1]] = Append(@, s[2])]
       /\ injected' = injected \cup {s}
  /\ UNCHANGED <<host, opened, faults, shown, echoes>>

Next ==
  \/ \E h \in Hosts :
       \/ Connect(h) \/ Write(h) \/ Close(h) \/ Tick(h)
       \/ Deliver(h) \/ Lose(h) \/ Repeat(h)
  \/ StrayPacket

Spec == Init /\ [][Next]_vars

(***************************************************************************)
(* Weak fairness of the poll loop: it handles what arrives and advances    *)
(* the clock (each action's enabling condition written out).               *)
(***************************************************************************)
CanTick(h) ==
  /\ Len(net[h]) + Len(net[Peer(h)]) < MAX_IN_NET
  /\ host[h].connection.sender.timer.running

Fairness == \A h \in Hosts :
  /\ []<>(net[h] = <<>>) \/ []<><<Deliver(h)>>_vars
  /\ []<>(~CanTick(h)) \/ []<><<Tick(h)>>_vars

FairSpec == Spec /\ Fairness
-----------------------------------------------------------------------------
(***************************************************************************)
(* Whatever others send, resets, end marks and data included, no stream    *)
(* fails, and each host has assembled no more of its peer's stream, and    *)
(* no other end of it, than the peer has written.                          *)
(***************************************************************************)
UntouchedByOthers ==
  \A h \in Hosts :
    /\ ~outbound(h).error /\ ~inbound(h).error
    /\ inbound(h).bytes_pushed <= outbound(Peer(h)).bytes_pushed
    /\ inbound(h).closed =>
         /\ outbound(Peer(h)).closed
         /\ inbound(h).bytes_pushed = outbound(Peer(h)).bytes_pushed

(***************************************************************************)
(* The program sees all that TCP acknowledges: the payloads are reported   *)
(* from the segments as they arrive, and yet every byte the reassembler    *)
(* accepts, whatever was lost, repeated or held back, has been shown, and  *)
(* nothing is shown that the peer did not write.                           *)
(***************************************************************************)
AssembledIsShown ==
  \A h \in Hosts :
    /\ 0 .. inbound(h).bytes_pushed - 1 \subseteq shown[h]
    /\ shown[h] \subseteq 0 .. outbound(Peer(h)).bytes_pushed - 1

(***************************************************************************)
(* Hosts do not ping each other up: every ICMP datagram they emit answers  *)
(* a request that arrived, back to where it came from, and a request is    *)
(* answered once for each time it arrives.                                 *)
(***************************************************************************)
Answers(d, s) ==
  /\ d.payload.icmp_type = "reply"
  /\ s[2] # Malformed
  /\ s[2] = Datagram(d.dst, d.src, "ICMP", Echo("request", 0, d.payload.tag))

AnsweredOnce ==
  /\ \A i \in DOMAIN echoes : \E s \in injected : Answers(echoes[i], s)
  /\ Len(echoes) <= Cardinality(injected) + faults
  /\ \A i, j \in DOMAIN echoes : i # j /\ echoes[i] = echoes[j] => faults > 0

(***************************************************************************)
(* A byte that fits the peer's buffer, which nobody empties, is shown in   *)
(* the end, whatever the network loses first and whatever else it carries. *)
(* Beyond the buffer, flow control holds the sender for ever.              *)
(***************************************************************************)
WrittenIsShown ==
  \A h \in Hosts : \A k \in 1 .. min(StreamLength[h], RECEIVER_CAPACITY) :
    outbound(h).bytes_pushed >= k ~> (k - 1) \in shown[Peer(h)]
=============================================================================

------------------------------- MODULE MCWire -------------------------------
(* The demo's addresses; segments with every set of flags, echoes, ARP. *)
EXTENDS WireSpec

HostMac == <<2, 0, 0, 0, 0, 2>>
KernelMac == <<2, 0, 0, 0, 0, 1>>
HostIp == <<169, 254, 144, 2>>
KernelIp == <<169, 254, 144, 1>>

IpHeader(protocol) ==
  [src |-> HostIp, dst |-> KernelIp, ttl |-> 3, protocol |-> protocol,
   identification |-> 0, flags_fragment_offset |-> 16384]

Ip(kind, protocol, body) ==
  [dst |-> KernelMac, src |-> HostMac, kind |-> kind, ip |-> IpHeader(protocol), body |-> body]

Segment(ports, ackno, syn, fin, rst, payload) ==
  Ip("TCP", PROTOCOL_TCP,
     [src_port |-> ports[1], dst_port |-> ports[2], seqno |-> <<0, 15, 66, 64>>,
      ackno |-> ackno, window_size |-> 65535, syn |-> syn, fin |-> fin, rst |-> rst,
      payload |-> payload])

DemoPorts == <<50000, 9090>>
(* A header longer by these ports has, with the first byte raised by one, a right checksum. *)
AwkwardPorts == <<50000, 15279>>

Acknos == {<<>>, <<<<255, 255, 255, 255>>>>}
Flagged == {Segment(DemoPorts, ackno, syn, fin, rst, <<>>) :
              ackno \in Acknos, syn \in BOOLEAN, fin \in BOOLEAN, rst \in BOOLEAN}
Odd == Segment(DemoPorts, <<<<0, 0, 0, 1>>>>, FALSE, FALSE, FALSE, <<255, 0, 255>>)
Awkward == Segment(AwkwardPorts, <<>>, TRUE, FALSE, FALSE, <<>>)

Echo(icmp_type, payload) ==
  Ip("ICMP", PROTOCOL_ICMP, [icmp_type |-> icmp_type, code |-> 0, identifier |-> 65535,
                             sequence_number |-> 1, payload |-> payload])

Arp(operation, target) ==
  [dst |-> target, src |-> HostMac, kind |-> "ARP", ip |-> <<>>,
   body |-> [operation |-> operation, sender_ethernet_address |-> HostMac,
             sender_ip_address |-> HostIp, target_ethernet_address |-> target,
             target_ip_address |-> KernelIp]]

(* Lower halves that make other header lengths, data offsets, flags and types; all upper ones. *)
MCWrongBytes == {byte \in 0 .. 255 : byte % 16 \in {0, 1, 4, 6, 15}}

MCExposed == {Odd, Awkward, Echo(8, <<1, 2, 3>>), Arp("Reply", KernelMac)}
MCMessages ==
  MCExposed \cup Flagged
    \cup {Echo(0, <<>>), Arp("Request", <<0, 0, 0, 0, 0, 0>>)}
=============================================================================

------------------------------ MODULE WireSpec ------------------------------
(***************************************************************************)
(* One message on its way: it is put into a frame, the frame may be        *)
(* padded, cut short or damaged, routers may take the datagram out and     *)
(* send it on in a frame of their own, and the receiver parses what        *)
(* arrives, layer by layer, as tap_host does.                              *)
(*                                                                         *)
(* A message is [dst, src, kind, ip, body]: the Ethernet addresses, "ARP", *)
(* "TCP" or "ICMP", the fields of the IPv4 header (or <<>>), and the ARP   *)
(* message, TCP segment or ICMP message.                                   *)
(***************************************************************************)
EXTENDS WireFormats

CONSTANTS
  Messages,
  Exposed,        \* the messages among them that may be cut or damaged
  PaddingBytes,   \* what padding may consist of
  WrongBytes,     \* what a damaged byte may become
  PAD_MAX         \* bound: the length of the padding

ASSUME WireSpecAssumption ==
  /\ Exposed \subseteq Messages
  /\ PaddingBytes \cup WrongBytes \subseteq 0 .. 255
  /\ PAD_MAX \in Nat

VARIABLES
  sent,     \* the message, as it should arrive
  wire,     \* the bytes of the frame
  fate      \* "intact", "padded", "cut" or "damaged"

vars == <<sent, wire, fate>>

Content(kind, ip, body) == [kind |-> kind, ip |-> ip, body |-> body]
Header(d) == [f \in DOMAIN d \ {"payload"} |-> d[f]]

(* emit_arp_request/reply, emit_ipv4_frame and, above it, wrap_tcp_segments. *)
Encode(m) ==
  LET bytes == IF m.kind = "TCP" THEN serialize_segment(m.body, m.ip.src, m.ip.dst)
               ELSE serialize_icmp(m.body)
      frame(ethertype, payload) == serialize_frame(
        [dst |-> m.dst, src |-> m.src, ethertype |-> ethertype, payload |-> payload])
  IN  IF m.kind = "ARP" THEN frame(ETHERTYPE_ARP, serialize_arp(m.body))
      ELSE frame(ETHERTYPE_IPV4, serialize_datagram(m.ip @@ [payload |-> bytes]))

(* receive_icmp and receive_tcp: what the payload of a datagram parses to. *)
DecodeDatagram(d) ==
  LET tcp == parse_segment(d.src, d.dst, d.payload)
      icmp == parse_icmp(d.payload)
      content(kind, parsed) ==
        IF parsed = Refused THEN Refused ELSE Ok(Content(kind, Header(d), parsed[1]))
  IN  CASE d.protocol = PROTOCOL_TCP -> content("TCP", tcp)
        [] d.protocol = PROTOCOL_ICMP -> content("ICMP", icmp)
        [] OTHER -> Refused

(* drain_tap_frames and recv_frame: by EtherType, layer by layer. *)
Decode(bytes) ==
  LET frame == parse_frame(bytes)
      arp == parse_arp(frame[1].payload)
      datagram == parse_datagram(frame[1].payload)
  IN  IF frame = Refused THEN Refused
      ELSE CASE frame[1].ethertype = ETHERTYPE_ARP /\ arp # Refused ->
                  Ok(Content("ARP", <<>>, arp[1]))
             [] frame[1].ethertype = ETHERTYPE_IPV4 /\ datagram # Refused ->
                  DecodeDatagram(datagram[1])
             [] OTHER -> Refused

Init ==
  /\ sent \in Messages
  /\ wire = Encode(sent)
  /\ fate = "intact"

(* Ethernet fills short frames up. *)
Pad(n, byte) ==
  /\ fate = "intact"
  /\ wire' = wire \o [i \in 1 .. n |-> byte]
  /\ fate' = "padded"
  /\ UNCHANGED sent

Cut(n) ==
  /\ fate = "intact" /\ sent \in Exposed
  /\ wire' = SubSeq(wire, 1, n)
  /\ fate' = "cut"
  /\ UNCHANGED sent

(* One byte changes; ARP, which carries no checksum, is left to Ethernet's own. *)
Damage(i, byte) ==
  /\ fate = "intact" /\ sent \in Exposed /\ sent.kind # "ARP"
  /\ wire[i] # byte
  /\ wire' = [wire EXCEPT ![i] = byte]
  /\ fate' = "damaged"
  /\ UNCHANGED sent

(***************************************************************************)
(* A router on the way: recv_frame, route_one_datagram with a lower TTL,   *)
(* and a frame of its own, whose addresses nothing here depends on.  It    *)
(* takes whatever parses as IPv4, damaged or not.                          *)
(***************************************************************************)
Forward ==
  LET frame == parse_frame(wire)
      datagram == parse_datagram(frame[1].payload)
      lowered == [datagram[1] EXCEPT !.ttl = @ - 1]
  IN  /\ frame # Refused /\ frame[1].ethertype = ETHERTYPE_IPV4
      /\ datagram # Refused /\ datagram[1].ttl > 1
      /\ wire' = serialize_frame([frame[1] EXCEPT !.payload = serialize_datagram(lowered)])
      /\ sent' = [sent EXCEPT !.ip.ttl = @ - 1]
      /\ fate' = IF fate = "padded" THEN "intact" ELSE fate

Next ==
  \/ \E n \in 1 .. PAD_MAX, byte \in PaddingBytes : Pad(n, byte)
  \/ \E n \in 0 .. Len(wire) - 1 : Cut(n)
  \/ \E i \in DOMAIN wire, byte \in WrongBytes : Damage(i, byte)
  \/ Forward

Spec == Init /\ [][Next]_vars
-----------------------------------------------------------------------------
AsSent == Ok(Content(sent.kind, sent.ip, sent.body))

(***************************************************************************)
(* What is sent is received: every field and every payload byte, through   *)
(* any number of routers, each of which lowers the TTL and computes the    *)
(* header anew, and however short frames are padded on the way (a segment  *)
(* must not grow by the padding).                                          *)
(***************************************************************************)
SentIsReceived == fate \in {"intact", "padded"} => Decode(wire) = AsSent

(***************************************************************************)
(* A frame that was cut short is refused, and one with a wrong byte,       *)
(* wherever it is, in a length, an offset, the protocol or the EtherType   *)
(* too, either yields the message that was sent (the byte was one of the   *)
(* Ethernet addresses) or nothing.  A router that computes the header      *)
(* checksum anew does not hide damage done before it.                      *)
(***************************************************************************)
DamageIsRefused ==
  /\ fate = "cut" => Decode(wire) = Refused
  /\ fate = "damaged" => Decode(wire) \in {Refused, AsSent}

(* The one's-complement sum that a checksum complements, by its definition. *)
WordSum(data) ==
  SumFunction([k \in DOMAIN data |-> IF k % 2 = 1 THEN 256 * data[k] ELSE data[k]])

(***************************************************************************)
(* The checksum of some bytes, fed in whatever pieces, empty and odd ones  *)
(* among them, makes their one's-complement sum 0 (65535), and is not the  *)
(* other zero unless all bytes are 0.                                      *)
(***************************************************************************)
ChecksumInPieces ==
  fate = "intact" => \A n \in 0 .. Len(wire) - 1 :
    LET fed == FoldLeft(add_bytes, new_checksum,
                 <<SubSeq(wire, 1, n), <<>>, <<wire[n + 1]>>, SubSeq(wire, n + 2, Len(wire))>>)
    IN  /\ checksum(fed) \in 0 .. 65534
        /\ (checksum(fed) + WordSum(wire)) % 65535 = 0
=============================================================================

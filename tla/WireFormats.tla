---------------------------- MODULE WireFormats ----------------------------
(***************************************************************************)
(* The wire formats: ethernet_frame.rs, arp.rs, ipv4_datagram.rs, icmp.rs  *)
(* and the bytes of tcp_segment.rs.  Addresses and the u32 numbers of TCP, *)
(* on which nothing here computes, are the sequences of their bytes; a u16 *)
(* is a number.  A parser returns Ok(value), a singleton sequence, or      *)
(* Refused, the empty one; the reasons for a refusal are not told apart.   *)
(***************************************************************************)
EXTENDS Checksum

Ok(value) == <<value>>
Refused == <<>>

(* bytes[from .. to] of the code, whose indices start at 0 and exclude `to'. *)
Slice(bytes, from, to) == SubSeq(bytes, from + 1, to)
From(bytes, from) == SubSeq(bytes, from + 1, Len(bytes))
Byte(bytes, i) == bytes[i + 1]
Word(bytes, i) == from_be_bytes(Byte(bytes, i), Byte(bytes, i + 1))
-----------------------------------------------------------------------------
ETHERNET_HEADER_LEN == 14
ETHERTYPE_IPV4 == 2048
ETHERTYPE_ARP == 2054

serialize_frame(f) == f.dst \o f.src \o to_be_bytes(f.ethertype) \o f.payload

parse_frame(data) ==
  IF Len(data) < ETHERNET_HEADER_LEN THEN Refused
  ELSE Ok([dst |-> Slice(data, 0, 6), src |-> Slice(data, 6, 12),
           ethertype |-> Word(data, 12), payload |-> From(data, ETHERNET_HEADER_LEN)])
-----------------------------------------------------------------------------
ARP_MESSAGE_LEN == 28
HARDWARE_TYPE_ETHERNET == 1

Opcodes == [Request |-> 1, Reply |-> 2]
from_opcode(opcode) == SelectSeq(<<"Request", "Reply">>, LAMBDA op : Opcodes[op] = opcode)

(* What every ARP message starts with: types and lengths of the two kinds of address. *)
ArpPrefix == to_be_bytes(HARDWARE_TYPE_ETHERNET) \o to_be_bytes(ETHERTYPE_IPV4) \o <<6, 4>>

serialize_arp(m) ==
  ArpPrefix \o to_be_bytes(Opcodes[m.operation])
    \o m.sender_ethernet_address \o m.sender_ip_address
    \o m.target_ethernet_address \o m.target_ip_address

(* What follows the message, the padding of a short frame, is not looked at. *)
parse_arp(data) ==
  IF \/ Len(data) < ARP_MESSAGE_LEN
     \/ Slice(data, 0, 6) # ArpPrefix
     \/ from_opcode(Word(data, 6)) = <<>>
  THEN Refused
  ELSE Ok([operation |-> from_opcode(Word(data, 6))[1],
           sender_ethernet_address |-> Slice(data, 8, 14),
           sender_ip_address |-> Slice(data, 14, 18),
           target_ethernet_address |-> Slice(data, 18, 24),
           target_ip_address |-> Slice(data, 24, 28)])
-----------------------------------------------------------------------------
IPV4_HEADER_MIN_LEN == 20

(* A header as serialize writes it: version 4, no options. *)
Ipv4HeaderBytes(d, check) ==
  <<4 * 16 + 5, 0>> \o to_be_bytes(IPV4_HEADER_MIN_LEN + Len(d.payload))
    \o to_be_bytes(d.identification) \o to_be_bytes(d.flags_fragment_offset)
    \o <<d.ttl, d.protocol>> \o to_be_bytes(check) \o d.src \o d.dst

serialize_datagram(d) ==
  Ipv4HeaderBytes(d, internet_checksum(Ipv4HeaderBytes(d, 0))) \o d.payload

version(packet) == Byte(packet, 0) \div 16
ihl(packet) == Byte(packet, 0) % 16

(* Mutant: the payload is all that follows the header. *)
payload_end_Whole(packet) == Len(packet)
payload_end(packet) == Word(packet, 2)

(* Options are checked with the header and dropped; padding is cut off. *)
parse_datagram(packet) ==
  LET header_len == 4 * ihl(packet)
      total_len == Word(packet, 2)
  IN  IF \/ Len(packet) < IPV4_HEADER_MIN_LEN
         \/ version(packet) # 4
         \/ header_len < IPV4_HEADER_MIN_LEN \/ header_len > Len(packet)
         \/ total_len < header_len \/ total_len > Len(packet)
         \/ ~verify_internet_checksum(Slice(packet, 0, header_len))
      THEN Refused
      ELSE Ok([src |-> Slice(packet, 12, 16), dst |-> Slice(packet, 16, 20),
               ttl |-> Byte(packet, 8), protocol |-> Byte(packet, 9),
               identification |-> Word(packet, 4), flags_fragment_offset |-> Word(packet, 6),
               payload |-> Slice(packet, header_len, payload_end(packet))])
-----------------------------------------------------------------------------
ICMP_ECHO_HEADER_LEN == 8

IcmpBytes(m, check) ==
  <<m.icmp_type, m.code>> \o to_be_bytes(check)
    \o to_be_bytes(m.identifier) \o to_be_bytes(m.sequence_number) \o m.payload

serialize_icmp(m) == IcmpBytes(m, internet_checksum(IcmpBytes(m, 0)))

parse_icmp(bytes) ==
  IF Len(bytes) < ICMP_ECHO_HEADER_LEN \/ ~verify_internet_checksum(bytes) THEN Refused
  ELSE Ok([icmp_type |-> Byte(bytes, 0), code |-> Byte(bytes, 1),
           identifier |-> Word(bytes, 4), sequence_number |-> Word(bytes, 6),
           payload |-> From(bytes, ICMP_ECHO_HEADER_LEN)])
-----------------------------------------------------------------------------
TCP_HEADER_MIN_LEN == 20
FLAG == [fin |-> 1, syn |-> 2, rst |-> 4, ack |-> 16]

(* An ackno is Some(bytes), a singleton sequence, or None, the empty one. *)
flags(h) ==
  (IF h.fin THEN FLAG.fin ELSE 0) + (IF h.syn THEN FLAG.syn ELSE 0)
    + (IF h.rst THEN FLAG.rst ELSE 0) + (IF h.ackno = <<>> THEN 0 ELSE FLAG.ack)

(* The data offset counts 32-bit words, in the upper four bits. *)
TcpBytes(s, check) ==
  to_be_bytes(s.src_port) \o to_be_bytes(s.dst_port) \o s.seqno
    \o (IF s.ackno = <<>> THEN <<0, 0, 0, 0>> ELSE s.ackno[1])
    \o to_be_bytes(5 * 4096 + flags(s)) \o to_be_bytes(s.window_size)
    \o to_be_bytes(check) \o to_be_bytes(0) \o s.payload

serialize_segment(s, src_ip, dst_ip) ==
  TcpBytes(s, tcp_checksum_ipv4(src_ip, dst_ip, TcpBytes(s, 0)))

has_flag(segment, flag) == (Byte(segment, 13) \div flag) % 2 = 1

parse_segment(src_ip, dst_ip, segment) ==
  LET header_len == 4 * (Byte(segment, 12) \div 16)
  IN  IF \/ Len(segment) < TCP_HEADER_MIN_LEN
         \/ tcp_checksum_ipv4(src_ip, dst_ip, segment) # 0
         \/ header_len < TCP_HEADER_MIN_LEN \/ header_len > Len(segment)
      THEN Refused
      ELSE Ok([src_port |-> Word(segment, 0), dst_port |-> Word(segment, 2),
               seqno |-> Slice(segment, 4, 8),
               ackno |-> IF has_flag(segment, FLAG.ack) THEN <<Slice(segment, 8, 12)>> ELSE <<>>,
               window_size |-> Word(segment, 14),
               syn |-> has_flag(segment, FLAG.syn), fin |-> has_flag(segment, FLAG.fin),
               rst |-> has_flag(segment, FLAG.rst), payload |-> From(segment, header_len)])
=============================================================================

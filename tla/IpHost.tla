------------------------------- MODULE IpHost -------------------------------
(***************************************************************************)
(* ip_host.rs and the echo part of icmp.rs: a host dispatches the IPv4     *)
(* datagrams it receives to ICMP and to its one TCP connection.  Every     *)
(* operation returns the host it leaves behind, the datagrams it emits and *)
(* the payloads it reports to the program: [host, datagrams, payloads].    *)
(* A payload that does not parse is Malformed; log events are left out.    *)
(***************************************************************************)
EXTENDS TcpConnection

CONSTANT Malformed     \* a payload the parser of its protocol refuses

Datagram(src, dst, protocol, payload) ==
  [src |-> src, dst |-> dst, protocol |-> protocol, payload |-> payload]

new_host(local_ip, peer_ip, connection) ==
  [local_ip |-> local_ip, peer_ip |-> peer_ip, connection |-> connection]

Ignored(h) == [host |-> h, datagrams |-> <<>>, payloads |-> <<>>]

wrap_tcp_segments(h, r) ==
  [host |-> [h EXCEPT !.connection = r.conn],
   datagrams |-> [i \in 1 .. Len(r.out) |->
                    Datagram(h.local_ip, h.peer_ip, "TCP", r.out[i])],
   payloads |-> <<>>]

host_connect(h) == wrap_tcp_segments(h, connect(h.connection))
host_write(h, data) == wrap_tcp_segments(h, write(h.connection, data))
host_close(h) == wrap_tcp_segments(h, close(h.connection))
host_tick(h, elapsed_ms) == wrap_tcp_segments(h, connection_tick(h.connection, elapsed_ms))

(* identifier, sequence number and payload of an echo are one tag. *)
Echo(icmp_type, code, tag) == [icmp_type |-> icmp_type, code |-> code, tag |-> tag]

(* Mutant: answers every ICMP message, replies included. *)
echo_reply_from_request_Any(message) == <<Echo("reply", 0, message.tag)>>
(* Some(reply) is a singleton sequence, None the empty one. *)
echo_reply_from_request(message) ==
  IF message.icmp_type # "request" \/ message.code # 0 THEN <<>>
  ELSE <<Echo("reply", 0, message.tag)>>

receive_icmp(h, src_ip, dst_ip, payload) ==
  IF payload = Malformed THEN Ignored(h)
  ELSE LET reply == echo_reply_from_request(payload) IN
       [Ignored(h) EXCEPT !.datagrams =
          [i \in 1 .. Len(reply) |-> Datagram(dst_ip, src_ip, "ICMP", reply[i])]]

(* Mutant: reports only what arrives once the connection is established. *)
reported_Established(c, segment) ==
  IF len(segment.payload) = 0 \/ ~is_established(c) THEN <<>> ELSE <<segment.payload>>
(* TcpPayload is the segment's payload as it came, before reassembly. *)
reported(c, segment) == IF len(segment.payload) = 0 THEN <<>> ELSE <<segment.payload>>

receive_tcp(h, payload) ==
  IF \/ payload = Malformed
     \/ payload.src_port # h.connection.peer_port
     \/ payload.dst_port # h.connection.local_port
  THEN Ignored(h)
  ELSE [wrap_tcp_segments(h, receive_segment(h.connection, payload))
          EXCEPT !.payloads = reported(h.connection, payload)]

(* Mutant: does not ask who sent a TCP segment. *)
is_from_peer_Any(h, datagram) == TRUE
is_from_peer(h, datagram) == datagram.src = h.peer_ip

receive_datagram(h, datagram) ==
  IF datagram.dst # h.local_ip THEN Ignored(h)
  ELSE CASE datagram.protocol = "ICMP" ->
              receive_icmp(h, datagram.src, datagram.dst, datagram.payload)
         [] datagram.protocol = "TCP" /\ is_from_peer(h, datagram) ->
              receive_tcp(h, datagram.payload)
         [] OTHER -> Ignored(h)

(* A packet that does not parse as IPv4 is dropped before it is dispatched. *)
receive_ipv4_bytes(h, packet) ==
  IF packet = Malformed THEN Ignored(h) ELSE receive_datagram(h, packet)
=============================================================================

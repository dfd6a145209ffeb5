--------------------------- MODULE TcpConnection ---------------------------
(***************************************************************************)
(* tcp_connection.rs: one endpoint, a sender and a receiver whose messages *)
(* share segments.  Every operation returns the connection it leaves       *)
(* behind and the segments it emits: [conn, out].                          *)
(***************************************************************************)
EXTENDS TcpSender, TcpReceiver

new_connection(local_port, peer_port, sender_capacity, receiver_capacity, isn) ==
  [local_port |-> local_port, peer_port |-> peer_port,
   sender |-> new_sender(sender_capacity, isn),
   receiver |-> new_receiver(receiver_capacity)]

build_segment(c, message) ==
  from_messages(c.local_port, c.peer_port, message, receiver_send(c.receiver))

(* The sender's new state and its messages, each with the latest feedback. *)
emit(c, p) ==
  [conn |-> [c EXCEPT !.sender = p.sender],
   out |-> [i \in 1 .. Len(p.sent) |-> build_segment(c, p.sent[i])]]

flush_sender(c) == emit(c, sender_push(c.sender))

connect(c) == flush_sender(c)

write(c, data) ==
  flush_sender([c EXCEPT !.sender.outbound = stream_push(@, data)])

close(c) == flush_sender([c EXCEPT !.sender.outbound = stream_close(@)])

(* The application takes bytes from the receiver's output; nothing is sent. *)
read(c, n) == [c EXCEPT !.receiver.reassembler.output = stream_pop(@, n)]

connection_tick(c, elapsed_ms) == emit(c, sender_tick(c.sender, elapsed_ms))

belongs_to_this_connection(c, segment) ==
  segment.src_port = c.peer_port /\ segment.dst_port = c.local_port

(* Only a receiver with something to say, an ackno or a reset, sends a pure ACK. *)
make_pure_ack_segment(c) ==
  LET feedback == receiver_send(c.receiver) IN
  IF feedback.ackno = None /\ ~feedback.rst THEN <<>>
  ELSE <<build_segment(c, make_empty_message(c.sender))>>

(* The peer's stream, or an error mark if the reassembler refuses it. *)
accept_stream(rcv, message) ==
  IF receive_result(rcv, message) = "Ok" THEN receiver_receive(rcv, message)
  ELSE fail_output(receiver_receive(rcv, message))

(***************************************************************************)
(* receive_segment: feedback first, then the peer's stream, then whatever  *)
(* the new window lets out; a segment that takes sequence numbers is       *)
(* always answered.                                                        *)
(***************************************************************************)
receive_segment(c, segment) ==
  LET message == to_sender_message(segment)
      occupies == sequence_length(message) > 0
      received == [c EXCEPT
        !.sender = sender_receive(@, to_receiver_message(segment)),
        !.receiver = IF occupies \/ message.rst THEN accept_stream(@, message) ELSE @]
      flushed == flush_sender(received)
  IN  IF ~belongs_to_this_connection(c, segment) THEN [conn |-> c, out |-> <<>>]
      ELSE IF occupies /\ flushed.out = <<>>
      THEN [flushed EXCEPT !.out = make_pure_ack_segment(flushed.conn)]
      ELSE flushed

is_established(c) ==
  c.sender.syn_sent /\ c.sender.snd_una > 0 /\ receiver_send(c.receiver).ackno # None

is_finished(c) == sender_is_finished(c.sender)
=============================================================================

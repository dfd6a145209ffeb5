----------------------------- MODULE TcpMessage -----------------------------
(***************************************************************************)
(* tcp_message.rs and the message side of tcp_segment.rs: what a sender    *)
(* and a receiver tell each other, and the segment that carries both.      *)
(***************************************************************************)
EXTENDS Wrap32, ByteStream

SenderMessage(seqno, syn, payload, fin, rst) ==
  [seqno |-> seqno, syn |-> syn, payload |-> payload, fin |-> fin, rst |-> rst]

ReceiverMessage(ackno, window_size, rst) ==
  [ackno |-> ackno, window_size |-> window_size, rst |-> rst]

(* SYN, FIN and every payload byte take one sequence number each. *)
One(flag) == IF flag THEN 1 ELSE 0
sequence_length(message) == One(message.syn) + len(message.payload) + One(message.fin)

(* A segment has one RST flag, which stands for either side's. *)
from_messages(src_port, dst_port, sender, receiver) ==
  [src_port |-> src_port, dst_port |-> dst_port,
   seqno |-> sender.seqno, syn |-> sender.syn, payload |-> sender.payload,
   fin |-> sender.fin, rst |-> sender.rst \/ receiver.rst,
   ackno |-> receiver.ackno, window_size |-> receiver.window_size]

to_sender_message(segment) ==
  SenderMessage(segment.seqno, segment.syn, segment.payload, segment.fin, segment.rst)

to_receiver_message(segment) ==
  ReceiverMessage(segment.ackno, segment.window_size, segment.rst)
=============================================================================

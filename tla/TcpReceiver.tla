---------------------------- MODULE TcpReceiver ----------------------------
(***************************************************************************)
(* tcp_receiver.rs: turns sequence numbers into stream indices for the     *)
(* reassembler, and reports the next byte it needs and its free space.     *)
(* A receiver is [reassembler, isn]; isn is None until the peer's SYN.     *)
(***************************************************************************)
EXTENDS TcpMessage, Reassembler

CONSTANT U16_MAX     \* the largest window a segment can carry: 65535 in the code

ASSUME U16Assumption == U16_MAX \in Nat

new_receiver(capacity) == [reassembler |-> new_reassembler(capacity), isn |-> None]

receiver_output(rcv) == rcv.reassembler.output

fail_output(rcv) == [rcv EXCEPT !.reassembler.output = stream_set_error(@)]

(* The absolute sequence number of the message, relative to zero point `isn'. *)
absolute_seqno(rcv, isn, message) ==
  unwrap(message.seqno, isn,
         saturating_add(receiver_output(rcv).bytes_pushed, 1, U64_MAX))

(***************************************************************************)
(* A message has a place in the stream, the index of its first payload     *)
(* byte, unless it comes before the SYN, repeats a SYN with another        *)
(* number, or sits on the sequence number of the SYN without being one.    *)
(***************************************************************************)
StreamIndex(rcv, message) ==
  LET isn == IF rcv.isn = None THEN message.seqno ELSE rcv.isn
      seqno == absolute_seqno(rcv, isn, message) IN
  IF message.syn
  THEN IF message.seqno # isn THEN None ELSE seqno
  ELSE IF rcv.isn = None \/ seqno = 0 THEN None ELSE seqno - 1

receive_result(rcv, message) ==
  LET index == StreamIndex(rcv, message) IN
  IF message.rst \/ index = None THEN "Ok"
  ELSE insert_result(rcv.reassembler, index, message.payload, message.fin)

receiver_receive(rcv, message) ==
  LET index == StreamIndex(rcv, message) IN
  IF message.rst THEN fail_output(rcv)
  ELSE IF index = None THEN rcv
  ELSE [reassembler |-> try_insert(rcv.reassembler, index, message.payload, message.fin),
        isn |-> IF rcv.isn = None THEN message.seqno ELSE rcv.isn]

(* Mutant: SYN is counted twice. *)
absolute_ackno_SynTwice(rcv) == receiver_output(rcv).bytes_pushed + 2

(* SYN and, once the output is closed, FIN count in the acknowledgment. *)
absolute_ackno(rcv) ==
  LET after_syn == saturating_add(receiver_output(rcv).bytes_pushed, 1, U64_MAX) IN
  IF receiver_output(rcv).closed THEN saturating_add(after_syn, 1, U64_MAX)
  ELSE after_syn

(* Mutant: the window does not shrink by what is still buffered. *)
receiver_send_FullWindow(rcv) ==
  ReceiverMessage(IF rcv.isn = None THEN None ELSE wrap(absolute_ackno(rcv), rcv.isn),
                  min(receiver_output(rcv).capacity, U16_MAX),
                  receiver_output(rcv).error)

receiver_send(rcv) ==
  ReceiverMessage(IF rcv.isn = None THEN None ELSE wrap(absolute_ackno(rcv), rcv.isn),
                  min(available_capacity(receiver_output(rcv)), U16_MAX),
                  receiver_output(rcv).error)
=============================================================================

----------------------------- MODULE TcpSender -----------------------------
(***************************************************************************)
(* tcp_sender.rs: cuts the outbound stream into segments that fit the      *)
(* peer's window, keeps them until they are acknowledged, and resends the  *)
(* oldest when the timer expires: a retransmission, or a probe of a closed *)
(* window (persist mode).                                                  *)
(***************************************************************************)
EXTENDS TcpMessage, FiniteSetsExt

CONSTANTS
  INITIAL_RTO,          \* config.initial_rto_ms
  MAX_TIMER_INTERVAL,   \* config.max_timer_interval_ms
  MAX_PAYLOAD_SIZE,     \* config.max_payload_size
  RETX_MAX              \* where consecutive_retransmissions saturates: u64::MAX

(* The assertions of TcpSender::new. *)
ASSUME SenderConfigAssumption ==
  /\ INITIAL_RTO \in Nat \ {0}
  /\ MAX_TIMER_INTERVAL \in Nat /\ MAX_TIMER_INTERVAL >= INITIAL_RTO
  /\ MAX_PAYLOAD_SIZE \in Nat \ {0}
  /\ RETX_MAX \in Nat

StoppedTimer == [running |-> FALSE, elapsed_ms |-> 0, timeout_ms |-> 0, mode |-> "None"]

StartedTimer(timeout_ms, mode) ==
  [running |-> TRUE, elapsed_ms |-> 0, timeout_ms |-> timeout_ms, mode |-> mode]

timer_tick(timer, elapsed_ms) ==
  IF ~timer.running THEN timer
  ELSE [timer EXCEPT !.elapsed_ms = saturating_add(@, elapsed_ms, U64_MAX)]

Expired(timer) == timer.running /\ timer.elapsed_ms >= timer.timeout_ms

new_sender(capacity, isn) ==
  [outbound |-> new_stream(capacity), isn |-> isn, snd_una |-> 0, snd_nxt |-> 0,
   advertised_window |-> 1, outstanding |-> <<>>, syn_sent |-> FALSE,
   fin_sent |-> FALSE, current_rto_ms |-> INITIAL_RTO,
   persist_interval_ms |-> INITIAL_RTO, timer |-> StoppedTimer,
   consecutive_retransmissions |-> 0]

bytes_in_flight(s) == s.snd_nxt - s.snd_una

(* Mutant: FIN need only be sent. *)
sender_is_finished_Unacked(s) == s.fin_sent

sender_is_finished(s) == s.fin_sent /\ s.outstanding = <<>>

absolute_end(segment) == segment.absolute_start + sequence_length(segment.message)

(* Mutant: the SYN in the prefix is taken for a payload byte. *)
trim_prefix_ForgetsSyn(segment, acknowledged_length, isn) ==
  LET m == segment.message
      drop == min(acknowledged_length, len(m.payload))
      start == segment.absolute_start + acknowledged_length IN
  [absolute_start |-> start,
   message |-> SenderMessage(wrap(start, isn), FALSE,
                             slice(m.payload, drop, len(m.payload)), m.fin, m.rst)]

(* An acknowledged prefix takes SYN first, then payload, then FIN. *)
trim_prefix(segment, acknowledged_length, isn) ==
  LET m == segment.message
      after_syn == acknowledged_length - One(m.syn)
      drop == min(after_syn, len(m.payload))
      start == segment.absolute_start + acknowledged_length IN
  [absolute_start |-> start,
   message |-> SenderMessage(wrap(start, isn), FALSE,
                             slice(m.payload, drop, len(m.payload)),
                             m.fin /\ after_syn = drop, m.rst)]

make_empty_message(s) ==
  SenderMessage(wrap(s.snd_nxt, s.isn), FALSE, NoBytes, FALSE, s.outbound.error)

(* Mutant: a closed window gets no persist timer. *)
restart_timer_IgnoresWindow(s) ==
  [s EXCEPT !.timer =
     IF s.outstanding = <<>> THEN StoppedTimer
     ELSE StartedTimer(s.current_rto_ms, "Retransmission")]

restart_timer_for_current_window(s) ==
  [s EXCEPT !.timer =
     IF s.outstanding = <<>> THEN StoppedTimer
     ELSE IF s.advertised_window = 0 THEN StartedTimer(s.persist_interval_ms, "Persist")
     ELSE StartedTimer(s.current_rto_ms, "Retransmission")]

(* Mutant: the timer is not started for the first segment in flight. *)
track_NoTimer(s, message) ==
  [s EXCEPT !.snd_nxt = @ + sequence_length(message),
            !.outstanding = Append(@, [absolute_start |-> s.snd_nxt, message |-> message])]

(* The new segment is sent, queued and, if it is alone, starts the timer. *)
track(s, message) ==
  LET queued == [s EXCEPT !.snd_nxt = @ + sequence_length(message),
                          !.outstanding = Append(@, [absolute_start |-> s.snd_nxt,
                                                     message |-> message])] IN
  IF s.outstanding = <<>> THEN restart_timer_for_current_window(queued) ELSE queued

(***************************************************************************)
(* push: one iteration sends one segment; a closed window counts as one    *)
(* sequence number, for the probe.  Its argument and result are the sender *)
(* and the messages it has transmitted.                                    *)
(***************************************************************************)

(* Mutant: a closed window is not probed. *)
EffectiveWindow_NoProbe(s) == s.advertised_window

EffectiveWindow(s) == max(s.advertised_window, 1)

(* Mutant: SYN leaves as much room for payload as there was before it. *)
payload_budget_IgnoresSyn(room, syn) == min(room, MAX_PAYLOAD_SIZE)

payload_budget(room, syn) == min(room - One(syn), MAX_PAYLOAD_SIZE)

(* The next bytes of the stream, at most max_len of them, and the stream without them. *)
read_outbound_payload(s, max_len) ==
  [payload |-> popped_bytes(s.outbound, max_len), outbound |-> stream_pop(s.outbound, max_len)]

PushSegment(p) ==
  LET s == p.sender
      room == EffectiveWindow(s) - bytes_in_flight(s)
      syn == ~s.syn_sent
      read == read_outbound_payload(s, payload_budget(room, syn))
      payload == read.payload
      outbound == read.outbound
      fin == /\ ~s.fin_sent
             /\ stream_is_finished(outbound)
             /\ room - One(syn) - len(payload) > 0
      message == [make_empty_message(s) EXCEPT !.syn = syn, !.payload = payload, !.fin = fin]
  IN  IF room <= 0 \/ sequence_length(message) = 0 THEN p
      ELSE [sender |-> track([s EXCEPT !.syn_sent = TRUE, !.outbound = outbound,
                                       !.fin_sent = @ \/ fin], message),
            sent |-> Append(p.sent, message)]

sender_push(s) ==
  Iterate(PushSegment, [sender |-> s, sent |-> <<>>],
          max(EffectiveWindow(s) - bytes_in_flight(s), 0))

(***************************************************************************)
(* receive: a reset aborts; an acknowledgment of something never sent is   *)
(* ignored altogether; any other message sets the window, and one that     *)
(* acknowledges something new drops it from the queue and resets both      *)
(* backoffs.                                                               *)
(***************************************************************************)
(* Mutant: SND.NXT falls back to SND.UNA. *)
abort_RollsBack(s) ==
  [s EXCEPT !.outbound = stream_set_error(@), !.outstanding = <<>>,
            !.snd_nxt = s.snd_una, !.timer = StoppedTimer]

abort(s) ==
  [s EXCEPT !.outbound = stream_set_error(@), !.outstanding = <<>>,
            !.snd_una = s.snd_nxt, !.timer = StoppedTimer]

discard_acknowledged_prefix(s) ==
  LET q == s.outstanding
      acknowledged == {n \in 0 .. Len(q) : \A i \in 1 .. n : absolute_end(q[i]) <= s.snd_una}
      kept == SubSeq(q, Max(acknowledged) + 1, Len(q)) IN
  [s EXCEPT !.outstanding =
     IF kept = <<>> \/ Head(kept).absolute_start >= s.snd_una THEN kept
     ELSE <<trim_prefix(Head(kept), s.snd_una - Head(kept).absolute_start, s.isn)>>
          \o Tail(kept)]

(* Mutant: a segment is forgotten only as a whole. *)
acknowledge_WholeSegments(s, ackno) ==
  LET ends == {absolute_end(s.outstanding[i]) : i \in 1 .. Len(s.outstanding)}
      whole == Max({s.snd_una} \cup {e \in ends : e <= ackno}) IN
  discard_acknowledged_prefix([s EXCEPT !.snd_una = whole])

acknowledge(s, ackno) ==
  [discard_acknowledged_prefix([s EXCEPT !.snd_una = ackno])
     EXCEPT !.current_rto_ms = INITIAL_RTO, !.persist_interval_ms = INITIAL_RTO,
            !.consecutive_retransmissions = 0]

sender_receive(s, message) ==
  LET acks == message.ackno # None
      ackno == unwrap(message.ackno, s.isn, s.snd_nxt)
      window_changed == s.advertised_window # message.window_size
      ack_advanced == acks /\ ackno > s.snd_una
      opened == [s EXCEPT !.advertised_window = message.window_size]
      acked == IF ack_advanced THEN acknowledge(opened, ackno) ELSE opened
  IN  IF message.rst THEN abort(s)
      ELSE IF acks /\ ackno > s.snd_nxt THEN s
      ELSE IF \/ acked.outstanding # <<>> /\ (ack_advanced \/ window_changed)
              \/ acked.outstanding = <<>> /\ acks
      THEN restart_timer_for_current_window(acked)
      ELSE acked

backed_off(timeout_ms) == min(timeout_ms * 2, MAX_TIMER_INTERVAL)

(* Mutant: the retransmission counter does not saturate. *)
back_off_Overflows(s) ==
  IF s.advertised_window = 0
  THEN [s EXCEPT !.persist_interval_ms = backed_off(@)]
  ELSE [s EXCEPT !.consecutive_retransmissions = @ + 1,
                 !.current_rto_ms = backed_off(@)]

(* A probe of a closed window is not counted as a retransmission. *)
back_off(s) ==
  IF s.advertised_window = 0
  THEN [s EXCEPT !.persist_interval_ms = backed_off(@)]
  ELSE [s EXCEPT !.consecutive_retransmissions = saturating_add(@, 1, RETX_MAX),
                 !.current_rto_ms = backed_off(@)]

(* An expired timer resends the oldest segment and backs off. *)
sender_tick(s, elapsed_ms) ==
  LET ticked == [s EXCEPT !.timer = timer_tick(@, elapsed_ms)] IN
  IF ~Expired(ticked.timer) THEN [sender |-> ticked, sent |-> <<>>]
  ELSE IF s.outstanding = <<>> THEN [sender |-> [s EXCEPT !.timer = StoppedTimer], sent |-> <<>>]
  ELSE [sender |-> restart_timer_for_current_window(back_off(s)),
        sent |-> <<Head(s.outstanding).message>>]
-----------------------------------------------------------------------------
(* The types of a message, of a segment in flight, of a timer and of a sender. *)
Messages == [seqno : RawValues, syn : BOOLEAN, payload : ByteRuns, fin : BOOLEAN, rst : BOOLEAN]

TrackedSegments == [absolute_start : Nat, message : Messages]

Timers == [running : BOOLEAN, elapsed_ms : Nat, timeout_ms : Nat,
           mode : {"None", "Retransmission", "Persist"}]

Senders ==
  [outbound : Streams, isn : RawValues, snd_una : Nat, snd_nxt : Nat,
   advertised_window : Nat, outstanding : Seq(TrackedSegments), syn_sent : BOOLEAN,
   fin_sent : BOOLEAN, current_rto_ms : INITIAL_RTO .. MAX_TIMER_INTERVAL,
   persist_interval_ms : INITIAL_RTO .. MAX_TIMER_INTERVAL, timer : Timers,
   consecutive_retransmissions : 0 .. RETX_MAX]
=============================================================================

----------------------------- MODULE SenderSpec -----------------------------
(***************************************************************************)
(* One TcpSender, driven by every sequence of calls its owner can make:    *)
(* the application writes and closes, push fills the window, time passes,  *)
(* and the network brings any feedback at all, acknowledgments that are    *)
(* stale, repeated, partial or of things never sent included.              *)
(***************************************************************************)
EXTENDS TcpSender

CONSTANTS
  Capacity,      \* sender_capacity
  StreamLength,  \* bound: the bytes the application writes
  Isn,           \* the initial sequence number
  Windows,       \* the window sizes the peer advertises
  Elapsed        \* the amounts by which tick() advances time

ASSUME SenderSpecAssumption ==
  /\ Capacity \in Nat /\ StreamLength \in Nat /\ Isn \in RawValues
  /\ Windows \subseteq Nat /\ Elapsed \subseteq Nat

VARIABLES
  sender,
  sent,     \* the messages the last call transmitted
  acked     \* history: the highest acknowledgment that receive() accepted

vars == <<sender, sent, acked>>

outbound == sender.outbound
outstanding == sender.outstanding

Init ==
  /\ sender = new_sender(Capacity, Isn)
  /\ sent = <<>>
  /\ acked = 0

Write ==
  /\ \E n \in 1 .. StreamLength - outbound.bytes_pushed :
       sender' = [sender EXCEPT
         !.outbound = stream_push(@, Bytes(@.bytes_pushed, @.bytes_pushed + n))]
  /\ sent' = <<>>
  /\ UNCHANGED acked

Close ==
  /\ sender' = [sender EXCEPT !.outbound = stream_close(@)]
  /\ sent' = <<>>
  /\ UNCHANGED acked

Push ==
  /\ sender' = sender_push(sender).sender
  /\ sent' = sender_push(sender).sent
  /\ UNCHANGED acked

Receive(message) ==
  LET ackno == unwrap(message.ackno, Isn, sender.snd_nxt) IN
  /\ sender' = sender_receive(sender, message)
  /\ sent' = <<>>
  /\ acked' = IF message.rst \/ message.ackno = None \/ ackno > sender.snd_nxt
              THEN acked ELSE max(acked, ackno)

Tick(elapsed_ms) ==
  /\ sender' = sender_tick(sender, elapsed_ms).sender
  /\ sent' = sender_tick(sender, elapsed_ms).sent
  /\ UNCHANGED acked

Next ==
  \/ Write
  \/ Close
  \/ Push
  \/ \E ackno \in RawValues \cup {None}, window_size \in Windows, rst \in BOOLEAN :
       Receive(ReceiverMessage(ackno, window_size, rst))
  \/ \E elapsed_ms \in Elapsed : Tick(elapsed_ms)

Spec == Init /\ [][Next]_vars
-----------------------------------------------------------------------------
(***************************************************************************)
(* The sender keeps its types: no counter leaves its width, and both       *)
(* timeouts stay between the initial RTO and the limit of the backoff.     *)
(***************************************************************************)
TypeOK ==
  /\ sender \in Senders
  /\ sent \in Seq(Messages)
  /\ acked \in Nat

(***************************************************************************)
(* A message that starts at absolute sequence number `start' carries what  *)
(* the sequence space has there: SYN at 0, byte k of the application's     *)
(* stream at k + 1, FIN after the last byte.                               *)
(***************************************************************************)
CarriesItsPlace(message, start) ==
  /\ message.seqno = wrap(start, Isn)
  /\ message.syn <=> start = 0
  /\ len(message.payload) > 0 =>
       message.payload.lo = start + One(message.syn) - 1
  /\ message.fin => /\ sender.fin_sent
                    /\ start + sequence_length(message) = sender.snd_nxt

(***************************************************************************)
(* The retransmission queue is exactly the sequence space in flight: its   *)
(* segments are not empty, follow one another from SND.UNA to SND.NXT, and *)
(* after any partial acknowledgment still carry the bytes and flags of     *)
(* their place (debug_check_invariants, trim_prefix).                      *)
(***************************************************************************)
QueueIsFlight ==
  /\ sender.snd_una <= sender.snd_nxt
  /\ outstanding = <<>> => sender.snd_una = sender.snd_nxt
  /\ outstanding # <<>> =>
       /\ outstanding[1].absolute_start = sender.snd_una
       /\ absolute_end(outstanding[Len(outstanding)]) = sender.snd_nxt
  /\ \A i \in 1 .. Len(outstanding) :
       /\ sequence_length(outstanding[i].message) > 0
       /\ CarriesItsPlace(outstanding[i].message, outstanding[i].absolute_start)
  /\ \A i \in 1 .. Len(outstanding) - 1 :
       absolute_end(outstanding[i]) = outstanding[i + 1].absolute_start

(***************************************************************************)
(* SND.NXT counts what has left the outbound stream: nothing is given two  *)
(* sequence numbers or none, and FIN comes after the last byte, once.      *)
(***************************************************************************)
SequenceAccounting ==
  /\ sender.snd_nxt = One(sender.syn_sent) + outbound.bytes_popped + One(sender.fin_sent)
  /\ outbound.bytes_popped > 0 \/ sender.fin_sent => sender.syn_sent
  /\ sender.fin_sent => stream_is_finished(outbound)

(***************************************************************************)
(* The timer runs exactly while something is in flight, in the mode that   *)
(* the current window calls for, has not silently expired, and its timeout *)
(* stays between the initial RTO and the limit of the backoff.             *)
(***************************************************************************)
TimerArmed ==
  /\ sender.timer.running <=> outstanding # <<>>
  /\ sender.timer.running =>
       /\ sender.timer.mode =
            IF sender.advertised_window = 0 THEN "Persist" ELSE "Retransmission"
       /\ sender.timer.timeout_ms \in INITIAL_RTO .. MAX_TIMER_INTERVAL
       /\ sender.timer.elapsed_ms < sender.timer.timeout_ms

(* push never fills more than the window the peer advertised, or one probe. *)
WindowRespected ==
  [][sender'.snd_nxt > sender.snd_nxt =>
       bytes_in_flight(sender') <= EffectiveWindow(sender')]_vars

(***************************************************************************)
(* What is transmitted is never a sequence number that was acknowledged    *)
(* before: a partly acknowledged segment is resent without its             *)
(* acknowledged prefix.                                                    *)
(***************************************************************************)
NeverResendsAcknowledged ==
  \A i \in 1 .. Len(sent) :
    unwrap(sent[i].seqno, Isn, sender.snd_nxt) >= acked

(***************************************************************************)
(* is_finished() is documented as "True after FIN has been transmitted and *)
(* fully acknowledged": when it holds, the peer has acknowledged           *)
(* everything up to and including FIN.                                     *)
(***************************************************************************)
FinishedMeansFinAcked == sender_is_finished(sender) => acked = sender.snd_nxt
=============================================================================

---------------------------- MODULE SenderProofs ----------------------------
(***************************************************************************)
(* What TLC checks of one sender on a small instance, for every capacity,  *)
(* stream, window, modulus and configuration; and, last, of the numbers    *)
(* its messages carry: unwrapping is right for every even modulus and      *)
(* every u64 range that holds a whole number of eras, in particular for    *)
(* 2^32 and 2^64.                                                          *)
(***************************************************************************)
EXTENDS SenderSpec, WrapSpec, EndpointLemmas

(* What the last call transmitted starts at or after SND.UNA. *)
SentIsInFlight ==
  \A i \in 1 .. Len(sent) : \E a \in Nat : a >= sender.snd_una /\ Carries(sender, sent[i], a)

(***************************************************************************)
(* The inductive invariant: the sender is in order, and SND.UNA is at least*)
(* the highest acknowledgment accepted (above it only after a reset).      *)
(***************************************************************************)
IInv ==
  /\ SenderOK(sender) /\ sender.isn = Isn
  /\ acked \in Nat /\ acked <= sender.snd_una
  /\ sent \in Seq(Messages) /\ SentIsInFlight

LEMMA InitIInv == Init => IInv
<1> SUFFICES ASSUME Init PROVE IInv OBVIOUS
<1>1. Capacity \in Nat /\ Isn \in RawValues
  BY SenderSpecAssumption DEF SenderSpecAssumption
<1>2. SenderOK(sender) /\ sender.isn = Isn /\ sender.snd_una = 0
  BY <1>1, NewSender DEF Init
<1>3. sent = <<>> /\ acked = 0 BY DEF Init
<1>4. sent \in Seq(Messages) /\ Len(sent) = 0 BY <1>3
<1> QED BY <1>2, <1>3, <1>4 DEF IInv, SentIsInFlight

(* A call that transmits nothing. *)
LEMMA Silent ==
  ASSUME IInv, SenderOK(sender'), Grows(sender, sender'), sent' = <<>>,
         acked' \in Nat, acked' <= sender'.snd_una
  PROVE  IInv'
<1>1. sender'.isn = Isn BY DEF IInv, Grows
<1>2. sent' \in Seq(Messages) /\ Len(sent') = 0 OBVIOUS
<1>3. SentIsInFlight' BY <1>2 DEF SentIsInFlight
<1> QED BY <1>1, <1>2, <1>3 DEF IInv

LEMMA WriteIInv == ASSUME IInv, Write PROVE IInv' /\ sender'.snd_nxt = sender.snd_nxt
<1> DEFINE p == sender.outbound.bytes_pushed
<1>1. SenderOK(sender) /\ acked \in Nat /\ acked <= sender.snd_una BY DEF IInv
<1>2. sender \in Senders BY <1>1 DEF SenderOK, Placed
<1>3. p \in Nat /\ StreamLength \in Nat
  BY <1>2, SenderNumbers, SenderSpecAssumption DEF SenderSpecAssumption
<1>4. PICK n \in 1 .. StreamLength - p :
        sender' = [sender EXCEPT !.outbound = stream_push(sender.outbound, Bytes(p, p + n))]
  BY DEF Write, outbound
<1>5. n \in Nat BY <1>3
<1>6. /\ SenderOK(sender') /\ Grows(sender, sender')
      /\ sender'.snd_una = sender.snd_una /\ sender'.snd_nxt = sender.snd_nxt
  BY <1>1, <1>4, <1>5, WriteKeeps
<1> QED BY <1>1, <1>6, Silent DEF Write

LEMMA CloseIInv == ASSUME IInv, Close PROVE IInv' /\ sender'.snd_nxt = sender.snd_nxt
<1>1. SenderOK(sender) /\ acked \in Nat /\ acked <= sender.snd_una BY DEF IInv
<1>2. /\ SenderOK(sender') /\ Grows(sender, sender')
      /\ sender'.snd_una = sender.snd_una /\ sender'.snd_nxt = sender.snd_nxt
  BY <1>1, CloseKeeps DEF Close
<1> QED BY <1>1, <1>2, Silent DEF Close

LEMMA PushIInv ==
  ASSUME IInv, Push
  PROVE  /\ IInv'
         /\ sender'.snd_nxt = sender.snd_nxt \/ bytes_in_flight(sender') <= EffectiveWindow(sender')
<1>1. SenderOK(sender) /\ acked \in Nat /\ acked <= sender.snd_una BY DEF IInv
<1>2. sender \in Senders /\ Flight(sender) BY <1>1 DEF SenderOK, Placed
<1>3. sender.snd_una \in Nat /\ sender.snd_nxt \in Nat /\ sender.snd_una <= sender.snd_nxt
  BY <1>2, SenderNumbers DEF Flight
<1>4. Pushed(sender, sender', sent') BY <1>1, PushFillsWindow DEF Push
<1>5. /\ SenderOK(sender') /\ Grows(sender, sender') /\ sender'.snd_una = sender.snd_una
      /\ sent' \in Seq(Messages)
      /\ \A i \in 1 .. Len(sent') :
           \E a \in Nat : a >= sender.snd_nxt /\ Carries(sender', sent'[i], a)
      /\ sender'.snd_nxt = sender.snd_nxt \/ bytes_in_flight(sender') <= EffectiveWindow(sender')
  BY <1>4 DEF Pushed
<1>6. sender'.isn = Isn BY <1>5 DEF IInv, Grows
<1>7. SentIsInFlight'
  <2> SUFFICES ASSUME NEW i \in 1 .. Len(sent')
               PROVE  \E a \in Nat : a >= sender'.snd_una /\ Carries(sender', sent'[i], a)
    BY DEF SentIsInFlight
  <2>1. PICK a \in Nat : a >= sender.snd_nxt /\ Carries(sender', sent'[i], a) BY <1>5
  <2>2. a >= sender'.snd_una BY <2>1, <1>3, <1>5
  <2> QED BY <2>1, <2>2
<1>8. acked' = acked BY DEF Push
<1> QED BY <1>1, <1>5, <1>6, <1>7, <1>8 DEF IInv

LEMMA ReceiveIInv ==
  ASSUME IInv, NEW f \in Feedback, Receive(f)
  PROVE  IInv' /\ sender'.snd_nxt = sender.snd_nxt
<1> DEFINE u == unwrap(f.ackno, Isn, sender.snd_nxt)
<1>1. SenderOK(sender) /\ acked \in Nat /\ acked <= sender.snd_una /\ sender.isn = Isn
  BY DEF IInv
<1>2. sender \in Senders BY <1>1 DEF SenderOK, Placed
<1>3. sender.snd_una \in Nat /\ sender.snd_nxt \in Nat BY <1>2, SenderNumbers
<1>4. sender' = sender_receive(sender, f) BY DEF Receive
<1>5. /\ SenderOK(sender') /\ Grows(sender, sender') /\ sender'.snd_nxt = sender.snd_nxt
      /\ sender'.snd_una >= sender.snd_una
      /\ Accepts(sender, f) => u \in Nat /\ sender'.snd_una = max(sender.snd_una, u)
  BY <1>1, <1>4, ReceiveKeeps
<1>6. sender'.snd_una \in Nat
  <2>1. sender' \in Senders BY <1>5 DEF SenderOK, Placed
  <2> QED BY <2>1, SenderNumbers
<1>7. acked' \in Nat /\ acked' <= sender'.snd_una
  <2>1. CASE Accepts(sender, f)
    <3>1. acked' = max(acked, u) \/ acked' = acked BY DEF Receive
    <3> HIDE DEF u
    <3> QED BY <3>1, <2>1, <1>1, <1>3, <1>5, <1>6 DEF max
  <2>2. CASE ~Accepts(sender, f)
    <3>1. f.ackno \in RawValues \cup {None} BY DEF Feedback
    <3>2. f.ackno # None => u \in Nat
      <4>1. f.ackno # None => f.ackno \in RawValues BY <3>1
      <4>2. Isn \in RawValues BY SenderSpecAssumption DEF SenderSpecAssumption
      <4> QED BY <4>1, <4>2, <1>3, UnwrapNearest
    <3>3. f.rst \/ f.ackno = None \/ ~(u <= sender.snd_nxt) BY <2>2, <1>1 DEF Accepts
    <3> HIDE DEF u
    <3>4. f.rst \/ f.ackno = None \/ u > sender.snd_nxt BY <3>2, <3>3, <1>3
    <3>5. acked' = acked BY <3>4 DEF Receive, u
    <3> QED BY <3>5, <1>1, <1>3, <1>5, <1>6
  <2> QED BY <2>1, <2>2
<1>8. sent' = <<>> BY DEF Receive
<1> QED BY <1>5, <1>7, <1>8, Silent

LEMMA TickIInv ==
  ASSUME IInv, NEW e \in Nat, Tick(e)
  PROVE  IInv' /\ sender'.snd_nxt = sender.snd_nxt
<1>1. SenderOK(sender) /\ acked \in Nat /\ acked <= sender.snd_una BY DEF IInv
<1>2. /\ SenderOK(sender') /\ Core(sender') = Core(sender) /\ Grows(sender, sender')
      /\ sent' \in Seq(Messages)
      /\ \A i \in 1 .. Len(sent') : Carries(sender', sent'[i], sender.snd_una)
  BY <1>1, TickKeeps DEF Tick
<1>3. sender'.snd_una = sender.snd_una /\ sender'.snd_nxt = sender.snd_nxt BY <1>2 DEF Core
<1>4. sender.snd_una \in Nat
  <2>1. sender \in Senders BY <1>1 DEF SenderOK, Placed
  <2> QED BY <2>1, SenderNumbers
<1>5. SentIsInFlight' BY <1>2, <1>3, <1>4 DEF SentIsInFlight
<1>6. sender'.isn = Isn BY <1>2 DEF IInv, Grows
<1>7. acked' = acked BY DEF Tick
<1> QED BY <1>1, <1>2, <1>3, <1>5, <1>6, <1>7 DEF IInv

LEMMA NextIInv ==
  ASSUME IInv, [Next]_vars
  PROVE  /\ IInv'
         /\ sender'.snd_nxt = sender.snd_nxt \/ bytes_in_flight(sender') <= EffectiveWindow(sender')
<1>1. CASE Write BY <1>1, WriteIInv
<1>2. CASE Close BY <1>2, CloseIInv
<1>3. CASE Push BY <1>3, PushIInv
<1>4. ASSUME NEW ackno \in RawValues \cup {None}, NEW window_size \in Windows,
             NEW rst \in BOOLEAN, Receive(ReceiverMessage(ackno, window_size, rst))
      PROVE  IInv' /\ sender'.snd_nxt = sender.snd_nxt
  <2>1. window_size \in Nat BY SenderSpecAssumption DEF SenderSpecAssumption
  <2>2. ReceiverMessage(ackno, window_size, rst) \in Feedback
    BY <2>1 DEF ReceiverMessage, Feedback
  <2> QED BY <2>2, <1>4, ReceiveIInv
<1>5. ASSUME NEW e \in Elapsed, Tick(e) PROVE IInv' /\ sender'.snd_nxt = sender.snd_nxt
  <2>1. e \in Nat BY SenderSpecAssumption DEF SenderSpecAssumption
  <2> QED BY <2>1, <1>5, TickIInv
<1>6. CASE UNCHANGED vars
  <2>1. sender' = sender /\ sent' = sent /\ acked' = acked BY <1>6 DEF vars
  <2> QED BY <2>1 DEF IInv, SentIsInFlight
<1> QED BY <1>1, <1>2, <1>3, <1>4, <1>5, <1>6 DEF Next

(* The inductive invariant holds throughout. *)
THEOREM SenderInvariant == Spec => []IInv
BY InitIInv, NextIInv, PTL DEF Spec

(* The sender keeps its types: its counters and timeouts stay in their ranges. *)
THEOREM SenderTypes == Spec => []TypeOK
<1>1. IInv => TypeOK BY DEF IInv, TypeOK, SenderOK, Placed
<1> QED BY <1>1, SenderInvariant, PTL

(***************************************************************************)
(* The retransmission queue is the sequence space in flight, whatever      *)
(* acknowledgments arrive: trim_prefix and discard_acknowledged_prefix cut *)
(* segments anywhere and what is left still carries what belongs there.    *)
(***************************************************************************)
THEOREM QueueStaysFlight == Spec => []QueueIsFlight
<1>1. IInv => QueueIsFlight
  <2> SUFFICES ASSUME IInv PROVE QueueIsFlight OBVIOUS
  <2>1. Flight(sender) /\ sender.isn = Isn BY DEF IInv, SenderOK, Placed
  <2>2. ASSUME NEW m, NEW a, Carries(sender, m, a) PROVE CarriesItsPlace(m, a)
    BY <2>1, <2>2 DEF Carries, CarriesItsPlace
  <2> QED BY <2>1, <2>2 DEF QueueIsFlight, Flight, outstanding
<1> QED BY <1>1, SenderInvariant, PTL

(* SYN, the bytes and FIN are given one sequence number each, in this order. *)
THEOREM EveryNumberOnce == Spec => []SequenceAccounting
<1>1. IInv => SequenceAccounting
  BY DEF IInv, SenderOK, Placed, Accounting, SequenceAccounting, outbound
<1> QED BY <1>1, SenderInvariant, PTL

(* The timer runs while something is in flight, in the window's mode, and expires in time. *)
THEOREM TimerStaysArmed == Spec => []TimerArmed
<1>1. IInv => TimerArmed BY DEF IInv, SenderOK, Armed, TimerArmed, outstanding
<1> QED BY <1>1, SenderInvariant, PTL

(***************************************************************************)
(* What is transmitted was not acknowledged before.  It starts at or after *)
(* SND.UNA, and the checkpoint SND.NXT cannot make unwrap take it for      *)
(* something older: the number itself is a candidate, and lies below the   *)
(* checkpoint.                                                             *)
(***************************************************************************)
THEOREM ResendsOnlyUnacknowledged == Spec => []NeverResendsAcknowledged
<1>1. IInv => NeverResendsAcknowledged
  <2> SUFFICES ASSUME IInv, NEW i \in 1 .. Len(sent)
               PROVE  unwrap(sent[i].seqno, Isn, sender.snd_nxt) >= acked
    BY DEF NeverResendsAcknowledged
  <2> DEFINE m == sent[i]
             c == sender.snd_nxt
             u == unwrap(m.seqno, Isn, c)
  <2>1. PICK a \in Nat : a >= sender.snd_una /\ Carries(sender, m, a)
    BY DEF IInv, SentIsInFlight
  <2>2. sender \in Senders /\ sender.isn = Isn /\ acked \in Nat /\ acked <= sender.snd_una
    BY DEF IInv, SenderOK, Placed
  <2>3. c \in Nat /\ sender.snd_una \in Nat /\ Isn \in RawValues BY <2>2, SenderNumbers
  <2>4. /\ m \in Messages /\ m.payload.lo <= m.payload.hi /\ m.seqno = wrap(a, Isn)
        /\ a + sequence_length(m) <= c
    BY <2>1, <2>2 DEF Carries
  <2>5. a <= c /\ m.seqno \in RawValues
    <3>1. sequence_length(m) \in Nat BY <2>4, MessageLength
    <3>2. m.seqno \in RawValues BY <2>4 DEF Messages
    <3> QED BY <3>1, <3>2, <2>3, <2>4
  <2>6. u \in Nat /\ abs_diff(u, c) <= abs_diff(a, c) BY <2>3, <2>4, <2>5, UnwrapNearest
  <2> HIDE DEF u, c, m
  <2>7. u >= a BY <2>3, <2>5, <2>6 DEF abs_diff
  <2> QED BY <2>1, <2>2, <2>3, <2>6, <2>7 DEF u, m, c
<1> QED BY <1>1, SenderInvariant, PTL

(* A step that gives out sequence numbers stays within the window, or sends one probe. *)
THEOREM StaysWithinWindow == Spec => WindowRespected
<1>1. IInv /\ [Next]_vars =>
        [sender'.snd_nxt > sender.snd_nxt =>
           bytes_in_flight(sender') <= EffectiveWindow(sender')]_vars
  <2> SUFFICES ASSUME IInv, [Next]_vars, sender'.snd_nxt > sender.snd_nxt
               PROVE  bytes_in_flight(sender') <= EffectiveWindow(sender')
    OBVIOUS
  <2>1. sender.snd_nxt \in Nat
    <3>1. sender \in Senders BY DEF IInv, SenderOK, Placed
    <3> QED BY <3>1, SenderNumbers
  <2> QED BY <2>1, NextIInv
<1> QED BY <1>1, SenderInvariant, PTL DEF Spec, WindowRespected
-----------------------------------------------------------------------------
(* Both ends count within u64, from any zero point. *)
NumbersInv ==
  /\ zero_point \in RawValues
  /\ absolute \in 0 .. U64_MAX
  /\ checkpoint \in 0 .. U64_MAX

(***************************************************************************)
(* Wrap32::unwrap returns a u64 that wraps to the number on the wire, and  *)
(* the sent number is no nearer to the checkpoint: for every pair of       *)
(* numbers, over every wrap and at both ends of the u64 range.             *)
(***************************************************************************)
THEOREM UnwrapFindsNearest == NumbersSpec => []UnwrapIsNearest
<1>0. U64_MAX \in Nat BY U64Assumption DEF U64Assumption
<1>1. NumbersInit => NumbersInv BY <1>0 DEF NumbersInit, NumbersInv
<1>2. NumbersInv /\ [NumbersNext]_numbers => NumbersInv'
  BY <1>0 DEF NumbersInv, NumbersNext, Send, Advance, numbers
<1>3. NumbersInv => UnwrapIsNearest
  <2> SUFFICES ASSUME NumbersInv PROVE UnwrapIsNearest OBVIOUS
  <2> DEFINE raw == wrap(absolute, zero_point)
  <2>1. /\ zero_point \in RawValues
        /\ absolute \in Nat /\ absolute <= U64_MAX
        /\ checkpoint \in Nat /\ checkpoint <= U64_MAX
    BY <1>0 DEF NumbersInv
  <2>2. raw \in RawValues BY <2>1, WrapEras
  <2> HIDE DEF raw
  <2>3. LET u == unwrap(raw, zero_point, checkpoint) IN
        /\ u \in Nat /\ wrap(u, zero_point) = raw
        /\ checkpoint <= U64_MAX => u <= U64_MAX
        /\ \A a \in Nat : wrap(a, zero_point) = raw /\ (a <= U64_MAX \/ a <= checkpoint)
             => abs_diff(u, checkpoint) <= abs_diff(a, checkpoint)
    BY <2>1, <2>2, UnwrapNearest
  <2>4. unwrapped = unwrap(raw, zero_point, checkpoint) BY DEF unwrapped, raw
  <2>5. unwrapped \in 0 .. U64_MAX BY <2>1, <2>3, <2>4, <1>0
  <2>6. wrap(unwrapped, zero_point) = raw BY <2>3, <2>4
  <2>7. abs_diff(unwrapped, checkpoint) <= abs_diff(absolute, checkpoint)
    BY <2>1, <2>3, <2>4 DEF raw
  <2> QED BY <2>5, <2>6, <2>7 DEF UnwrapIsNearest, raw
<1> QED BY <1>1, <1>2, <1>3, PTL DEF NumbersSpec
=============================================================================

-------------------------- MODULE TapNetworkProofs --------------------------
(***************************************************************************)
(* tap_host, its device and the kernel behind it: the end of the input     *)
(* overtakes nothing, and a retransmission is never lost inside the        *)
(* program, for all lines on stdin, windows, capacities, lifetimes of the  *)
(* interface's tables, numbers of faults and of Ethernet addresses.        *)
(***************************************************************************)
EXTENDS TapNetwork, EndpointLemmas

(***************************************************************************)
(* SYN, the input and FIN take fewer numbers than the sequence space has;  *)
(* upto[k] is the size of the first k lines.  The link keeps a frame for   *)
(* any time, so this is what it takes for a server that compares sequence  *)
(* numbers for equality to know a segment.                                 *)
(***************************************************************************)
Totals(upto) ==
  /\ upto \in [0 .. Len(Lines) -> Nat] /\ upto[0] = 0
  /\ \A k \in 1 .. Len(Lines) : upto[k] = upto[k - 1] + Lines[k]
  /\ upto[Len(Lines)] + 2 < MODULUS

ShortInput == \E upto : Totals(upto)

IsList(q) == \E S : q \in Seq(S)

(* A segment of sender s: without a number, or at its place in the stream. *)
OutSegment(seg, s) ==
  \E m \in Messages :
    /\ seg.seqno = m.seqno /\ seg.syn = m.syn /\ seg.payload = m.payload /\ seg.fin = m.fin
    /\ m.payload.lo <= m.payload.hi
    /\ sequence_length(m) = 0 \/ \E a \in Nat : Carries(s, m, a)

OutFrame(f, s) == f.ethertype = "IPv4" => OutSegment(f.payload.payload, s)
OutFrames(q, s) == IsList(q) /\ \A i \in 1 .. Len(q) : OutFrame(q[i], s)
OutDatagrams(q, s) == IsList(q) /\ \A i \in 1 .. Len(q) : OutSegment(q[i].payload, s)

(* The queues of the interface. *)
Queues(m, s) ==
  \A ip \in DOMAIN m :
    /\ m[ip] = [datagrams |-> m[ip].datagrams, age_ms |-> m[ip].age_ms,
                request_age_ms |-> m[ip].request_age_ms]
    /\ OutDatagrams(m[ip].datagrams, s)

(* What comes from the kernel: TCP, with feedback that makes sense. *)
InDatagram(d) == d.protocol = "TCP" /\ to_receiver_message(d.payload) \in Feedback
InDatagrams(q) == IsList(q) /\ \A i \in 1 .. Len(q) : InDatagram(q[i])
InFrame(f) == f.ethertype = "IPv4" => InDatagram(f.payload)
InFrames(q) == IsList(q) /\ \A i \in 1 .. Len(q) : InFrame(q[i])

(* An interface between two calls, on behalf of sender s. *)
InterfaceOK(i, s) ==
  /\ i = [ethernet_address |-> i.ethernet_address, ip_address |-> i.ip_address,
          arp_cache |-> i.arp_cache, pending |-> i.pending,
          frames_out |-> i.frames_out, datagrams_in |-> i.datagrams_in]
  /\ OutFrames(i.frames_out, s) /\ Queues(i.pending, s) /\ InDatagrams(i.datagrams_in)

(* A connection between two calls.  What its receiver does is no concern of the sender's. *)
ConnectionOK(c) ==
  /\ c = [local_port |-> c.local_port, peer_port |-> c.peer_port,
          sender |-> c.sender, receiver |-> c.receiver]
  /\ SenderOK(c.sender)

HostOK(h) ==
  /\ h = [local_ip |-> h.local_ip, peer_ip |-> h.peer_ip, connection |-> h.connection]
  /\ ConnectionOK(h.connection)

ProgramOK(p) ==
  /\ p = [interface |-> p.interface, host |-> p.host]
  /\ HostOK(p.host) /\ InterfaceOK(p.interface, p.host.connection.sender)

(* The application's end of the outbound stream is as before. *)
SameInput(s, t) ==
  t.outbound.bytes_pushed = s.outbound.bytes_pushed /\ t.outbound.closed = s.outbound.closed

(* What a connection with sender s leaves behind and sends. *)
Emits(s, r) ==
  /\ ConnectionOK(r.conn) /\ Grows(s, r.conn.sender) /\ IsList(r.out)
  /\ \A i \in 1 .. Len(r.out) : OutSegment(r.out[i], r.conn.sender)

(* What stdin's thread sends k-th. *)
Event(k) == IF k <= Len(Lines) THEN Data(Lines[k]) ELSE Close

(* The events that the loop has taken. *)
Taken == typed - Len(channel)

(* The server's record. *)
KernelOK(k) ==
  /\ k = [macs |-> k.macs, next |-> k.next, ended |-> k.ended, acked |-> k.acked]
  /\ k.next \in Nat /\ k.ended \in BOOLEAN /\ k.acked \in BOOLEAN

(* The server has a prefix of what was sent, and the end only with all of it. *)
ServerOK(k, s) == k.next <= s.snd_nxt /\ (k.ended => s.fin_sent /\ k.next = s.snd_nxt)

(* Stdin's events: in order, and none after the end. *)
EventsOK(o) ==
  /\ typed \in 0 .. Len(Lines) + 1 /\ IsList(channel) /\ Len(channel) <= typed
  /\ \A i \in 1 .. Len(channel) : channel[i] = Event(Taken + i)
  /\ o.closed => Taken = Len(Lines) + 1

(* What was written is part of what was typed, with the lines' running totals upto. *)
InputOK(o, upto) == o.bytes_pushed <= upto[min(Taken, Len(Lines))]

(* What holds whatever the size of the input. *)
LoopInv ==
  /\ ProgramOK(program) /\ sender.isn = LocalIsn
  /\ phase \in {"frames", "events", "clock", "flush", "exited"}
  /\ EventsOK(sender.outbound)
  /\ InFrames(to_host) /\ OutFrames(to_kernel, sender) /\ KernelOK(kernel)

(* The inductive invariant, for the running totals upto of the lines. *)
IInv(upto) == LoopInv /\ InputOK(sender.outbound, upto) /\ ServerOK(kernel, sender)
-----------------------------------------------------------------------------
(* Sequences of anything. *)
LEMMA AppendToSeq ==
  ASSUME NEW q, IsList(q), NEW x
  PROVE  /\ IsList(Append(q, x)) /\ Len(q) \in Nat /\ Len(Append(q, x)) = Len(q) + 1
         /\ DOMAIN Append(q, x) = 1 .. Len(q) + 1
         /\ Append(q, x)[Len(q) + 1] = x
         /\ \A i \in 1 .. Len(q) : Append(q, x)[i] = q[i]
<1>1. PICK S : q \in Seq(S) BY DEF IsList
<1> DEFINE T == S \cup {x}
<1>2. q \in Seq(T) /\ x \in T BY <1>1
<1> HIDE DEF T
<1>3. /\ Append(q, x) \in Seq(T) /\ Len(q) \in Nat /\ Len(Append(q, x)) = Len(q) + 1
      /\ Append(q, x)[Len(q) + 1] = x
      /\ \A i \in 1 .. Len(q) : Append(q, x)[i] = q[i]
  BY <1>2, Appended
<1>4. DOMAIN Append(q, x) = 1 .. Len(q) + 1 BY <1>3
<1> QED BY <1>3, <1>4 DEF IsList

LEMMA ConcatSeqs ==
  ASSUME NEW q, IsList(q), NEW r, IsList(r)
  PROVE  /\ IsList(q \o r) /\ Len(q) \in Nat /\ Len(r) \in Nat
         /\ Len(q \o r) = Len(q) + Len(r)
         /\ \A i \in 1 .. Len(q) : (q \o r)[i] = q[i]
         /\ \A i \in Len(q) + 1 .. Len(q) + Len(r) :
              i - Len(q) \in 1 .. Len(r) /\ (q \o r)[i] = r[i - Len(q)]
<1>1. PICK S : q \in Seq(S) BY DEF IsList
<1>2. PICK R : r \in Seq(R) BY DEF IsList
<1> DEFINE T == S \cup R
<1>3. q \in Seq(T) /\ r \in Seq(T) BY <1>1, <1>2
<1> HIDE DEF T
<1>4. q \o r \in Seq(T) BY <1>3
<1> QED BY <1>3, <1>4 DEF IsList

LEMMA TailOfSeq ==
  ASSUME NEW q, IsList(q), q # <<>>
  PROVE  /\ IsList(Tail(q)) /\ Len(q) \in Nat /\ Len(q) > 0 /\ Len(Tail(q)) = Len(q) - 1
         /\ Head(q) = q[1]
         /\ \A i \in 1 .. Len(q) - 1 : Tail(q)[i] = q[i + 1]
<1>1. PICK S : q \in Seq(S) BY DEF IsList
<1>2. Tail(q) \in Seq(S) BY <1>1
<1> QED BY <1>1, <1>2 DEF IsList

LEMMA PrefixOfSeq ==
  ASSUME NEW q, IsList(q), NEW n \in 0 .. Len(q)
  PROVE  /\ IsList(SubSeq(q, 1, n)) /\ Len(q) \in Nat /\ Len(SubSeq(q, 1, n)) = n
         /\ \A i \in 1 .. n : SubSeq(q, 1, n)[i] = q[i]
<1>1. PICK S : q \in Seq(S) BY DEF IsList
<1>2. SubSeq(q, 1, n) \in Seq(S) BY <1>1
<1> QED BY <1>1, <1>2 DEF IsList

(* A function on 1 .. n is a sequence. *)
LEMMA ListedSeq ==
  ASSUME NEW n \in Nat, NEW f, f = [k \in 1 .. n |-> f[k]]
  PROVE  IsList(f) /\ Len(f) = n /\ DOMAIN f = 1 .. n
<1> DEFINE S == {f[k] : k \in 1 .. n}
<1>1. f \in [1 .. n -> S]
  <2>1. \A k \in 1 .. n : f[k] \in S OBVIOUS
  <2> HIDE DEF S
  <2> QED BY <2>1
<1> HIDE DEF S
<1>2. f \in Seq(S) /\ Len(f) = n BY <1>1
<1> QED BY <1>1, <1>2 DEF IsList

LEMMA EmptyIsSeq ==
  ASSUME NEW q, q = <<>>
  PROVE  IsList(q) /\ Len(q) = 0
<1> DEFINE S == {q}
<1>1. q \in Seq(S) /\ Len(q) = 0 OBVIOUS
<1> HIDE DEF S
<1>2. \E T : q \in Seq(T) BY <1>1, Zenon
<1> QED BY <1>1, <1>2 DEF IsList
-----------------------------------------------------------------------------
(* A segment stays what it was while the sender goes on. *)
LEMMA SegmentOn ==
  ASSUME NEW s \in Senders, NEW t \in Senders, Grows(s, t), NEW seg, OutSegment(seg, s)
  PROVE  OutSegment(seg, t)
<1>1. PICK m \in Messages :
        /\ seg.seqno = m.seqno /\ seg.syn = m.syn /\ seg.payload = m.payload /\ seg.fin = m.fin
        /\ m.payload.lo <= m.payload.hi
        /\ sequence_length(m) = 0 \/ \E a \in Nat : Carries(s, m, a)
  BY DEF OutSegment
<1>2. /\ s.snd_nxt \in Nat /\ t.snd_nxt \in Nat
      /\ s.outbound.bytes_popped \in Nat /\ t.outbound.bytes_popped \in Nat
  BY SenderNumbers
<1>3. ASSUME NEW a \in Nat, Carries(s, m, a) PROVE Carries(t, m, a)
  BY <1>2, <1>3, CarriedOn
<1> QED BY <1>1, <1>3 DEF OutSegment

(* So does all that an interface or the link holds. *)
LEMMA InterfaceOn ==
  ASSUME NEW s \in Senders, NEW t \in Senders, Grows(s, t)
  PROVE  /\ \A q : OutFrames(q, s) => OutFrames(q, t)
         /\ \A i : InterfaceOK(i, s) => InterfaceOK(i, t)
<1>1. \A q : OutFrames(q, s) => OutFrames(q, t)
  BY SegmentOn DEF OutFrames, OutFrame
<1>2. \A q : OutDatagrams(q, s) => OutDatagrams(q, t)
  BY SegmentOn DEF OutDatagrams
<1>3. \A m : Queues(m, s) => Queues(m, t) BY <1>2 DEF Queues
<1> QED BY <1>1, <1>3 DEF InterfaceOK
-----------------------------------------------------------------------------
(* An interface with other frames to be written. *)
LEMMA WithFrames ==
  ASSUME NEW i, NEW s, InterfaceOK(i, s), NEW x, OutFrames(x, s), NEW j, j = [i EXCEPT !.frames_out = x]
  PROVE  /\ InterfaceOK(j, s) /\ j.frames_out = x
         /\ j.arp_cache = i.arp_cache /\ j.pending = i.pending
         /\ j.datagrams_in = i.datagrams_in
<1>1. i = [ethernet_address |-> i.ethernet_address, ip_address |-> i.ip_address,
           arp_cache |-> i.arp_cache, pending |-> i.pending,
           frames_out |-> i.frames_out, datagrams_in |-> i.datagrams_in]
      /\ OutFrames(i.frames_out, s) /\ Queues(i.pending, s) /\ InDatagrams(i.datagrams_in)
  BY DEF InterfaceOK
<1>2. j = [ethernet_address |-> j.ethernet_address, ip_address |-> j.ip_address,
           arp_cache |-> j.arp_cache, pending |-> j.pending,
           frames_out |-> j.frames_out, datagrams_in |-> j.datagrams_in]
      /\ j.frames_out = x /\ j.arp_cache = i.arp_cache /\ j.pending = i.pending
      /\ j.datagrams_in = i.datagrams_in
  BY <1>1
<1> QED BY <1>1, <1>2 DEF InterfaceOK

(* With other queues. *)
LEMMA WithQueues ==
  ASSUME NEW i, NEW s, InterfaceOK(i, s), NEW x, Queues(x, s), NEW j, j = [i EXCEPT !.pending = x]
  PROVE  /\ InterfaceOK(j, s) /\ j.pending = x
         /\ j.arp_cache = i.arp_cache /\ j.frames_out = i.frames_out
         /\ j.datagrams_in = i.datagrams_in
<1>1. i = [ethernet_address |-> i.ethernet_address, ip_address |-> i.ip_address,
           arp_cache |-> i.arp_cache, pending |-> i.pending,
           frames_out |-> i.frames_out, datagrams_in |-> i.datagrams_in]
      /\ OutFrames(i.frames_out, s) /\ Queues(i.pending, s) /\ InDatagrams(i.datagrams_in)
  BY DEF InterfaceOK
<1>2. j = [ethernet_address |-> j.ethernet_address, ip_address |-> j.ip_address,
           arp_cache |-> j.arp_cache, pending |-> j.pending,
           frames_out |-> j.frames_out, datagrams_in |-> j.datagrams_in]
      /\ j.pending = x /\ j.arp_cache = i.arp_cache /\ j.frames_out = i.frames_out
      /\ j.datagrams_in = i.datagrams_in
  BY <1>1
<1> QED BY <1>1, <1>2 DEF InterfaceOK

(* With other datagrams received. *)
LEMMA WithDatagrams ==
  ASSUME NEW i, NEW s, InterfaceOK(i, s), NEW x, InDatagrams(x), NEW j, j = [i EXCEPT !.datagrams_in = x]
  PROVE  /\ InterfaceOK(j, s) /\ j.datagrams_in = x
         /\ j.arp_cache = i.arp_cache /\ j.pending = i.pending
         /\ j.frames_out = i.frames_out
<1>1. i = [ethernet_address |-> i.ethernet_address, ip_address |-> i.ip_address,
           arp_cache |-> i.arp_cache, pending |-> i.pending,
           frames_out |-> i.frames_out, datagrams_in |-> i.datagrams_in]
      /\ OutFrames(i.frames_out, s) /\ Queues(i.pending, s) /\ InDatagrams(i.datagrams_in)
  BY DEF InterfaceOK
<1>2. j = [ethernet_address |-> j.ethernet_address, ip_address |-> j.ip_address,
           arp_cache |-> j.arp_cache, pending |-> j.pending,
           frames_out |-> j.frames_out, datagrams_in |-> j.datagrams_in]
      /\ j.datagrams_in = x /\ j.arp_cache = i.arp_cache /\ j.pending = i.pending
      /\ j.frames_out = i.frames_out
  BY <1>1
<1> QED BY <1>1, <1>2 DEF InterfaceOK

(* With other mappings. *)
LEMMA WithMappings ==
  ASSUME NEW i, NEW s, InterfaceOK(i, s), NEW x, NEW j, j = [i EXCEPT !.arp_cache = x]
  PROVE  /\ InterfaceOK(j, s) /\ j.arp_cache = x
         /\ j.pending = i.pending /\ j.frames_out = i.frames_out
         /\ j.datagrams_in = i.datagrams_in
<1>1. i = [ethernet_address |-> i.ethernet_address, ip_address |-> i.ip_address,
           arp_cache |-> i.arp_cache, pending |-> i.pending,
           frames_out |-> i.frames_out, datagrams_in |-> i.datagrams_in]
      /\ OutFrames(i.frames_out, s) /\ Queues(i.pending, s) /\ InDatagrams(i.datagrams_in)
  BY DEF InterfaceOK
<1>2. j = [ethernet_address |-> j.ethernet_address, ip_address |-> j.ip_address,
           arp_cache |-> j.arp_cache, pending |-> j.pending,
           frames_out |-> j.frames_out, datagrams_in |-> j.datagrams_in]
      /\ j.arp_cache = x /\ j.pending = i.pending /\ j.frames_out = i.frames_out
      /\ j.datagrams_in = i.datagrams_in
  BY <1>1
<1> QED BY <1>1, <1>2 DEF InterfaceOK

(* One more frame to be written. *)
LEMMA OneMoreFrame ==
  ASSUME NEW q, NEW s, OutFrames(q, s), NEW f, OutFrame(f, s)
  PROVE  OutFrames(Append(q, f), s)
<1>1. /\ IsList(Append(q, f)) /\ Len(q) \in Nat /\ Len(Append(q, f)) = Len(q) + 1
      /\ Append(q, f)[Len(q) + 1] = f
      /\ \A k \in 1 .. Len(q) : Append(q, f)[k] = q[k]
  BY AppendToSeq DEF OutFrames
<1>2. ASSUME NEW k \in 1 .. Len(Append(q, f)) PROVE OutFrame(Append(q, f)[k], s)
  <2>1. k = Len(q) + 1 \/ k \in 1 .. Len(q) BY <1>1
  <2>2. \A j \in 1 .. Len(q) : OutFrame(q[j], s) BY DEF OutFrames
  <2> QED BY <2>1, <2>2, <1>1, Zenon
<1> QED BY <1>1, <1>2 DEF OutFrames

(* One more datagram that waits. *)
LEMMA OneMoreDatagram ==
  ASSUME NEW q, NEW s, OutDatagrams(q, s), NEW d, OutSegment(d.payload, s)
  PROVE  /\ OutDatagrams(Append(q, d), s) /\ DOMAIN Append(q, d) = 1 .. Len(q) + 1
         /\ Len(q) \in Nat /\ Append(q, d)[Len(q) + 1] = d
<1>1. /\ IsList(Append(q, d)) /\ Len(q) \in Nat /\ Len(Append(q, d)) = Len(q) + 1
      /\ DOMAIN Append(q, d) = 1 .. Len(q) + 1
      /\ Append(q, d)[Len(q) + 1] = d
      /\ \A k \in 1 .. Len(q) : Append(q, d)[k] = q[k]
  BY AppendToSeq DEF OutDatagrams
<1>2. ASSUME NEW k \in 1 .. Len(Append(q, d)) PROVE OutSegment(Append(q, d)[k].payload, s)
  <2>1. k = Len(q) + 1 \/ k \in 1 .. Len(q) BY <1>1
  <2>2. \A j \in 1 .. Len(q) : OutSegment(q[j].payload, s) BY DEF OutDatagrams
  <2> QED BY <2>1, <2>2, <1>1, Zenon
<1> QED BY <1>1, <1>2 DEF OutDatagrams

(* A frame that is not IPv4 carries no segment, one with a datagram carries the datagram's. *)
LEMMA FrameKinds ==
  ASSUME NEW dst, NEW src, NEW x, NEW s
  PROVE  /\ OutFrame(Frame(dst, src, "ARP", x, TRUE), s)
         /\ OutSegment(x.payload, s) => OutFrame(Frame(dst, src, "IPv4", x, TRUE), s)
         /\ Frame(dst, src, "IPv4", x, TRUE).payload = x
         /\ Frame(dst, src, "IPv4", x, TRUE).ethertype = "IPv4"
<1>1. /\ Frame(dst, src, "ARP", x, TRUE).ethertype # "IPv4"
      /\ Frame(dst, src, "IPv4", x, TRUE).payload = x
      /\ Frame(dst, src, "IPv4", x, TRUE).ethertype = "IPv4"
  BY DEF Frame
<1> QED BY <1>1 DEF OutFrame

(***************************************************************************)
(* NetworkInterface::send_datagram: the datagram is in a frame to be       *)
(* written or waits for an address.                                        *)
(***************************************************************************)
LEMMA SendHolds ==
  ASSUME NEW i, NEW s, InterfaceOK(i, s), NEW d, OutSegment(d.payload, s), NEW hop
  PROVE  LET j == send_datagram(i, d, hop) IN
         InterfaceOK(j, s) /\ d \in Held(j)
<1> DEFINE p == IF hop \in DOMAIN i.pending THEN i.pending[hop] ELSE new_resolution
           asks == should_send_arp_request(p)
           r == [p EXCEPT !.datagrams = Append(@, d),
                          !.request_age_ms = IF asks THEN 0 ELSE @]
           m == map_insert(i.pending, hop, r)
           waiting == [i EXCEPT !.pending = m]
           j == send_datagram(i, d, hop)
<1>1. j = IF hop \in DOMAIN i.arp_cache
          THEN emit_ipv4_frame(i, d, i.arp_cache[hop].ethernet_address)
          ELSE IF asks THEN emit_arp_request(waiting, hop) ELSE waiting
  BY DEF send_datagram
<1>2. OutFrames(i.frames_out, s) /\ Queues(i.pending, s) BY DEF InterfaceOK
<1>3. CASE hop \in DOMAIN i.arp_cache
  <2> DEFINE f == ipv4_frame(i, d, i.arp_cache[hop].ethernet_address)
             q == Append(i.frames_out, f)
  <2> HIDE DEF p, asks, r, m, waiting
  <2>1. f.payload = d /\ f.ethertype = "IPv4" /\ OutFrame(f, s)
    BY FrameKinds DEF ipv4_frame
  <2>2. j = [i EXCEPT !.frames_out = q] BY <1>1, <1>3 DEF emit_ipv4_frame
  <2> HIDE DEF f, j
  <2>3. OutFrames(q, s) BY <2>1, <1>2, OneMoreFrame
  <2>4. /\ Len(i.frames_out) \in Nat /\ q[Len(i.frames_out) + 1] = f
        /\ DOMAIN q = 1 .. Len(i.frames_out) + 1
    BY <1>2, AppendToSeq DEF OutFrames
  <2> HIDE DEF q
  <2>5. InterfaceOK(j, s) /\ j.frames_out = q
    <3>1. InterfaceOK(i, s) OBVIOUS
    <3> QED BY <3>1, <2>2, <2>3, WithFrames
  <2>6. \E k \in DOMAIN j.frames_out : j.frames_out[k].ethertype = "IPv4" /\ j.frames_out[k].payload = d
    <3>1. Len(i.frames_out) + 1 \in DOMAIN q BY <2>4
    <3> QED BY <3>1, <2>1, <2>4, <2>5
  <2>7. d \in Held(j) BY <2>6 DEF Held
  <2> QED BY <2>5, <2>7 DEF j
<1>4. CASE hop \notin DOMAIN i.arp_cache
  <2>1. /\ p = [datagrams |-> p.datagrams, age_ms |-> p.age_ms,
                request_age_ms |-> p.request_age_ms]
        /\ OutDatagrams(p.datagrams, s)
    <3>1. CASE hop \in DOMAIN i.pending
      <4>1. p = i.pending[hop] BY <3>1
      <4> HIDE DEF p
      <4> QED BY <3>1, <4>1, <1>2 DEF Queues
    <3>2. CASE hop \notin DOMAIN i.pending
      <4>1. p = new_resolution BY <3>2
      <4>2. p = [datagrams |-> <<>>, age_ms |-> 0, request_age_ms |-> ARP_REQUEST_COOLDOWN]
        BY <4>1 DEF new_resolution
      <4> HIDE DEF p
      <4>3. p.datagrams = <<>> BY <4>2
      <4>4. IsList(p.datagrams) /\ Len(p.datagrams) = 0 BY <4>3, EmptyIsSeq
      <4>5. OutDatagrams(p.datagrams, s) BY <4>4 DEF OutDatagrams
      <4> QED BY <4>2, <4>5
    <3> QED BY <3>1, <3>2
  <2> HIDE DEF p
  <2>2. /\ r = [datagrams |-> r.datagrams, age_ms |-> r.age_ms,
                request_age_ms |-> r.request_age_ms]
        /\ r.datagrams = Append(p.datagrams, d)
    <3> DEFINE q == Append(p.datagrams, d)
               a == IF asks THEN 0 ELSE p.request_age_ms
    <3>1. r = [p EXCEPT !.datagrams = q, !.request_age_ms = a] OBVIOUS
    <3> HIDE DEF q, a, r
    <3>2. r = [datagrams |-> q, age_ms |-> p.age_ms, request_age_ms |-> a] BY <3>1, <2>1
    <3> QED BY <3>2 DEF q
  <2>3. /\ OutDatagrams(r.datagrams, s) /\ DOMAIN r.datagrams = 1 .. Len(p.datagrams) + 1
        /\ Len(p.datagrams) \in Nat /\ r.datagrams[Len(p.datagrams) + 1] = d
    BY <2>1, <2>2, OneMoreDatagram
  <2> HIDE DEF r
  <2>4. /\ DOMAIN m = DOMAIN i.pending \cup {hop} /\ m[hop] = r
        /\ \A ip \in DOMAIN i.pending : ip # hop => m[ip] = i.pending[ip]
    <3>1. m = [x \in DOMAIN i.pending \cup {hop} |-> IF x = hop THEN r ELSE i.pending[x]]
      BY DEF map_insert
    <3> HIDE DEF m
    <3> QED BY <3>1
  <2> HIDE DEF m
  <2>5. Queues(m, s)
    <3>1. ASSUME NEW ip \in DOMAIN m
          PROVE  /\ m[ip] = [datagrams |-> m[ip].datagrams, age_ms |-> m[ip].age_ms,
                             request_age_ms |-> m[ip].request_age_ms]
                 /\ OutDatagrams(m[ip].datagrams, s)
      <4>1. CASE ip = hop
        <5>1. m[ip] = r BY <4>1, <2>4
        <5> QED BY <5>1, <2>2, <2>3
      <4>2. CASE ip # hop
        <5>1. ip \in DOMAIN i.pending /\ m[ip] = i.pending[ip] BY <4>2, <2>4
        <5> QED BY <5>1, <1>2 DEF Queues
      <4> QED BY <4>1, <4>2
    <3> QED BY <3>1 DEF Queues
  <2>6. InterfaceOK(waiting, s) /\ waiting.pending = m
    <3>1. waiting = [i EXCEPT !.pending = m] OBVIOUS
    <3> HIDE DEF waiting
    <3> QED BY <3>1, <2>5, WithQueues
  <2> HIDE DEF waiting
  <2>7. InterfaceOK(j, s) /\ j.pending = m
    <3>1. CASE asks
      <4> DEFINE f == Frame(BROADCAST, waiting.ethernet_address, "ARP",
                            ArpMessage("Request", waiting.ethernet_address,
                                       waiting.ip_address, hop), TRUE)
                 q == Append(waiting.frames_out, f)
      <4>1. j = [waiting EXCEPT !.frames_out = q] BY <1>1, <1>4, <3>1 DEF emit_arp_request
      <4>2. OutFrame(f, s) BY FrameKinds
      <4> HIDE DEF f, j
      <4>3. OutFrames(waiting.frames_out, s) BY <2>6 DEF InterfaceOK
      <4>4. OutFrames(q, s) BY <4>2, <4>3, OneMoreFrame
      <4> HIDE DEF q
      <4> QED BY <4>1, <4>4, <2>6, WithFrames
    <3>2. CASE ~asks
      <4>1. j = waiting BY <1>1, <1>4, <3>2
      <4> QED BY <4>1, <2>6
    <3> QED BY <3>1, <3>2
  <2> HIDE DEF j
  <2>8. d \in Held(j)
    <3>1. hop \in DOMAIN j.pending /\ j.pending[hop].datagrams = r.datagrams BY <2>4, <2>7
    <3>2. Len(p.datagrams) + 1 \in DOMAIN r.datagrams BY <2>3
    <3>3. \E k \in DOMAIN j.pending[hop].datagrams : j.pending[hop].datagrams[k] = d
      BY <3>1, <3>2, <2>3
    <3>4. d \in {j.pending[hop].datagrams[k] : k \in DOMAIN j.pending[hop].datagrams}
      BY <3>3
    <3>5. d \in UNION {{j.pending[ip].datagrams[k] : k \in DOMAIN j.pending[ip].datagrams} :
                         ip \in DOMAIN j.pending}
      BY <3>1, <3>4, Zenon
    <3> QED BY <3>5 DEF Held
  <2> QED BY <2>7, <2>8 DEF j
<1> QED BY <1>3, <1>4

(* The frames of a queue that is released. *)
LEMMA ReleasedFrames ==
  ASSUME NEW i, NEW s, NEW q, OutDatagrams(q, s), NEW eth,
         NEW f, f = [k \in 1 .. Len(q) |-> ipv4_frame(i, q[k], eth)]
  PROVE  OutFrames(f, s)
<1>1. Len(q) \in Nat BY DEF OutDatagrams, IsList
<1>2. f = [k \in 1 .. Len(q) |-> f[k]] OBVIOUS
<1>3. IsList(f) /\ Len(f) = Len(q) BY <1>1, <1>2, ListedSeq
<1>4. ASSUME NEW k \in 1 .. Len(f) PROVE OutFrame(f[k], s)
  <2>1. f[k] = Frame(eth, i.ethernet_address, "IPv4", q[k], TRUE) BY <1>3 DEF ipv4_frame
  <2>2. OutSegment(q[k].payload, s) BY <1>3 DEF OutDatagrams
  <2>3. OutFrame(Frame(eth, i.ethernet_address, "IPv4", q[k], TRUE), s)
    BY <2>2, FrameKinds, Zenon
  <2> QED BY <2>1, <2>3
<1> QED BY <1>3, <1>4 DEF OutFrames

(* Frames written one list after the other. *)
LEMMA FramesJoined ==
  ASSUME NEW q, NEW r, NEW s, OutFrames(q, s), OutFrames(r, s)
  PROVE  OutFrames(q \o r, s)
<1>1. /\ IsList(q \o r) /\ Len(q) \in Nat /\ Len(r) \in Nat
      /\ Len(q \o r) = Len(q) + Len(r)
      /\ \A i \in 1 .. Len(q) : (q \o r)[i] = q[i]
      /\ \A i \in Len(q) + 1 .. Len(q) + Len(r) :
           i - Len(q) \in 1 .. Len(r) /\ (q \o r)[i] = r[i - Len(q)]
  BY ConcatSeqs DEF OutFrames
<1>2. ASSUME NEW k \in 1 .. Len(q \o r) PROVE OutFrame((q \o r)[k], s)
  <2>1. k \in 1 .. Len(q) \/ k \in Len(q) + 1 .. Len(q) + Len(r) BY <1>1
  <2>2. \A j \in 1 .. Len(q) : OutFrame(q[j], s) BY DEF OutFrames
  <2>3. \A j \in 1 .. Len(r) : OutFrame(r[j], s) BY DEF OutFrames
  <2> QED BY <2>1, <2>2, <2>3, <1>1, Zenon
<1> QED BY <1>1, <1>2 DEF OutFrames

(* NetworkInterface::learn_arp_mapping *)
LEMMA LearnKeeps ==
  ASSUME NEW i, NEW s, InterfaceOK(i, s), NEW ip, NEW eth
  PROVE  InterfaceOK(learn_arp_mapping(i, ip, eth), s)
<1> DEFINE A == map_insert(i.arp_cache, ip, [ethernet_address |-> eth, age_ms |-> 0])
           P == map_remove(i.pending, ip)
           Y == IF ip \notin DOMAIN i.pending THEN <<>>
                ELSE LET q == i.pending[ip].datagrams IN
                     [k \in 1 .. Len(q) |-> ipv4_frame(i, q[k], eth)]
           F == i.frames_out \o Y
           k1 == [i EXCEPT !.arp_cache = A]
           k2 == [k1 EXCEPT !.pending = P]
           j == learn_arp_mapping(i, ip, eth)
<1>1. OutFrames(i.frames_out, s) /\ Queues(i.pending, s) BY DEF InterfaceOK
<1>2. j = [i EXCEPT !.arp_cache = A, !.pending = P, !.frames_out = F]
  BY DEF learn_arp_mapping
<1>3. OutFrames(Y, s)
  <2>1. CASE ip \notin DOMAIN i.pending
    <3>1. Y = <<>> BY <2>1
    <3> HIDE DEF Y
    <3>2. IsList(Y) /\ Len(Y) = 0 BY <3>1, EmptyIsSeq
    <3> QED BY <3>2 DEF OutFrames
  <2>2. CASE ip \in DOMAIN i.pending
    <3> DEFINE q == i.pending[ip].datagrams
    <3>1. Y = [k \in 1 .. Len(q) |-> ipv4_frame(i, q[k], eth)] BY <2>2
    <3>2. OutDatagrams(q, s) BY <2>2, <1>1 DEF Queues
    <3> HIDE DEF Y, q
    <3> QED BY <3>1, <3>2, ReleasedFrames
  <2> QED BY <2>1, <2>2
<1>4. Queues(P, s)
  <2>1. DOMAIN P \subseteq DOMAIN i.pending /\ \A x \in DOMAIN P : P[x] = i.pending[x]
    BY DEF map_remove
  <2> HIDE DEF P
  <2> QED BY <2>1, <1>1 DEF Queues
<1> HIDE DEF A, P, Y
<1>5. OutFrames(F, s) BY <1>1, <1>3, FramesJoined
<1> HIDE DEF F
<1>6. j = [k2 EXCEPT !.frames_out = F] BY <1>2
<1>7. InterfaceOK(k1, s)
  <2>1. k1 = [i EXCEPT !.arp_cache = A] OBVIOUS
  <2> HIDE DEF k1
  <2> QED BY <2>1, WithMappings
<1>8. InterfaceOK(k2, s)
  <2> HIDE DEF k1
  <2>1. k2 = [k1 EXCEPT !.pending = P] OBVIOUS
  <2> HIDE DEF k2
  <2> QED BY <2>1, <1>7, <1>4, WithQueues
<1> HIDE DEF k1, k2, j
<1>9. InterfaceOK(j, s) BY <1>5, <1>6, <1>8, WithFrames
<1> QED BY <1>9 DEF j

(* NetworkInterface::recv_frame, of a frame that the kernel wrote. *)
LEMMA RecvFrameKeeps ==
  ASSUME NEW i, NEW s, InterfaceOK(i, s), NEW frame, InFrame(frame)
  PROVE  InterfaceOK(recv_frame(i, frame), s)
<1> DEFINE j == recv_frame(i, frame)
<1>1. CASE frame.ethertype = "IPv4" /\ is_for(frame, i.ethernet_address) /\ frame.parses
  <2> DEFINE q == Append(i.datagrams_in, frame.payload)
  <2>1. j = [i EXCEPT !.datagrams_in = q] BY <1>1 DEF recv_frame
  <2>2. InDatagrams(i.datagrams_in) /\ InDatagram(frame.payload)
    BY <1>1 DEF InterfaceOK, InFrame
  <2>3. InDatagrams(q)
    <3> DEFINE n == Len(i.datagrams_in)
    <3>1. /\ IsList(q) /\ n \in Nat /\ Len(q) = n + 1 /\ q[n + 1] = frame.payload
          /\ \A k \in 1 .. n : q[k] = i.datagrams_in[k]
      BY <2>2, AppendToSeq DEF InDatagrams
    <3>2. \A k \in 1 .. n : InDatagram(i.datagrams_in[k]) BY <2>2 DEF InDatagrams
    <3> HIDE DEF q, n
    <3>3. ASSUME NEW k \in 1 .. Len(q) PROVE InDatagram(q[k])
      <4>1. k = n + 1 \/ k \in 1 .. n BY <3>1
      <4> QED BY <4>1, <3>1, <3>2, <2>2, Zenon
    <3> QED BY <3>1, <3>3 DEF InDatagrams
  <2> HIDE DEF q, j
  <2>4. InterfaceOK(j, s) BY <2>1, <2>3, WithDatagrams
  <2> QED BY <2>4 DEF j
<1>2. CASE frame.ethertype = "ARP" /\ is_for(frame, i.ethernet_address) /\ frame.parses
  <2> DEFINE m == frame.payload
             learnt == learn_arp_mapping(i, m.sender_ip_address, m.sender_ethernet_address)
  <2>1. j = IF m.operation = "Request" /\ m.target_ip_address = i.ip_address
            THEN emit_arp_reply(learnt, m.sender_ethernet_address, m.sender_ip_address)
            ELSE learnt
    BY <1>2 DEF recv_frame, recv_arp
  <2>2. InterfaceOK(learnt, s) BY LearnKeeps
  <2> DEFINE f == Frame(m.sender_ethernet_address, learnt.ethernet_address, "ARP",
                        ArpMessage("Reply", learnt.ethernet_address, learnt.ip_address,
                                   m.sender_ip_address), TRUE)
             F == Append(learnt.frames_out, f)
             r == [learnt EXCEPT !.frames_out = F]
  <2>3. emit_arp_reply(learnt, m.sender_ethernet_address, m.sender_ip_address) = r
    BY DEF emit_arp_reply
  <2>4. OutFrame(f, s) BY FrameKinds
  <2> HIDE DEF learnt, f
  <2>5. OutFrames(F, s) BY <2>2, <2>4, OneMoreFrame DEF InterfaceOK
  <2> HIDE DEF F
  <2>6. InterfaceOK(r, s)
    <3>1. r = [learnt EXCEPT !.frames_out = F] OBVIOUS
    <3> HIDE DEF r
    <3> QED BY <3>1, <2>2, <2>5, WithFrames
  <2> HIDE DEF r, j
  <2>7. InterfaceOK(j, s) BY <2>1, <2>2, <2>3, <2>6
  <2> QED BY <2>7 DEF j
<1>3. CASE ~(/\ frame.ethertype \in {"IPv4", "ARP"}
             /\ is_for(frame, i.ethernet_address) /\ frame.parses)
  <2>1. j = i BY <1>3 DEF recv_frame
  <2> QED BY <2>1
<1> QED BY <1>1, <1>2, <1>3

(* NetworkInterface::tick *)
LEMMA InterfaceTickKeeps ==
  ASSUME NEW i, NEW s, InterfaceOK(i, s), NEW e
  PROVE  InterfaceOK(interface_tick(i, e), s)
<1> DEFINE A == expire_arp_cache(i.arp_cache, e)
           P == expire_pending(i.pending, e)
           k == [i EXCEPT !.arp_cache = A]
           j == interface_tick(i, e)
<1>1. j = [i EXCEPT !.arp_cache = A, !.pending = P] BY DEF interface_tick
<1>2. Queues(i.pending, s) BY DEF InterfaceOK
<1>3. Queues(P, s)
  <2> DEFINE age(ip) == saturating_add(i.pending[ip].age_ms, e, U64_MAX)
             request(ip) == saturating_add(i.pending[ip].request_age_ms, e, U64_MAX)
  <2>1. P = [ip \in {x \in DOMAIN i.pending : age(x) < PENDING_DATAGRAM_TTL} |->
               [i.pending[ip] EXCEPT !.age_ms = age(ip), !.request_age_ms = request(ip)]]
    BY DEF expire_pending
  <2> HIDE DEF P, age, request
  <2>2. ASSUME NEW ip \in DOMAIN P
        PROVE  /\ ip \in DOMAIN i.pending
               /\ P[ip] = [i.pending[ip] EXCEPT !.age_ms = age(ip), !.request_age_ms = request(ip)]
    BY <2>1
  <2>3. ASSUME NEW ip \in DOMAIN P
        PROVE  /\ P[ip] = [datagrams |-> P[ip].datagrams, age_ms |-> P[ip].age_ms,
                           request_age_ms |-> P[ip].request_age_ms]
               /\ P[ip].datagrams = i.pending[ip].datagrams
    <3> DEFINE q == i.pending[ip]
    <3>1. q = [datagrams |-> q.datagrams, age_ms |-> q.age_ms, request_age_ms |-> q.request_age_ms]
      BY <2>2, <1>2 DEF Queues
    <3>2. P[ip] = [q EXCEPT !.age_ms = age(ip), !.request_age_ms = request(ip)] BY <2>2
    <3> HIDE DEF q
    <3>3. P[ip] = [datagrams |-> q.datagrams, age_ms |-> age(ip), request_age_ms |-> request(ip)]
      BY <3>1, <3>2
    <3> QED BY <3>3 DEF q
  <2>4. \A ip \in DOMAIN P : OutDatagrams(P[ip].datagrams, s) BY <2>2, <2>3, <1>2 DEF Queues
  <2> QED BY <2>3, <2>4 DEF Queues
<1> HIDE DEF A, P
<1>4. j = [k EXCEPT !.pending = P] BY <1>1
<1>5. InterfaceOK(k, s)
  <2>1. k = [i EXCEPT !.arp_cache = A] OBVIOUS
  <2> HIDE DEF k
  <2> QED BY <2>1, WithMappings
<1> HIDE DEF j, k
<1>6. InterfaceOK(j, s) BY <1>3, <1>4, <1>5, WithQueues
<1> QED BY <1>6 DEF j
-----------------------------------------------------------------------------
(* build_segment *)
LEMMA BuiltSegment ==
  ASSUME NEW c, NEW m \in Messages, m.payload.lo <= m.payload.hi, NEW s,
         sequence_length(m) = 0 \/ \E a \in Nat : Carries(s, m, a)
  PROVE  OutSegment(build_segment(c, m), s) /\ build_segment(c, m).seqno = m.seqno
<1> DEFINE seg == build_segment(c, m)
           f == receiver_send(c.receiver)
<1>1. seg = [src_port |-> c.local_port, dst_port |-> c.peer_port, seqno |-> m.seqno,
             syn |-> m.syn, payload |-> m.payload, fin |-> m.fin, rst |-> m.rst \/ f.rst,
             ackno |-> f.ackno, window_size |-> f.window_size]
  BY DEF build_segment, from_messages
<1> HIDE DEF seg, f
<1>2. seg.seqno = m.seqno /\ seg.syn = m.syn /\ seg.payload = m.payload /\ seg.fin = m.fin
  BY <1>1
<1> QED BY <1>2 DEF OutSegment, seg

(* emit: the messages of the sender become segments. *)
LEMMA EmitEmits ==
  ASSUME NEW c, ConnectionOK(c), NEW q, SenderOK(q.sender), Grows(c.sender, q.sender),
         q.sent \in Seq(Messages),
         \A i \in 1 .. Len(q.sent) : \E a \in Nat : Carries(q.sender, q.sent[i], a)
  PROVE  LET r == emit(c, q) IN
         /\ Emits(c.sender, r) /\ r.conn.sender = q.sender /\ Len(r.out) = Len(q.sent)
         /\ \A i \in 1 .. Len(q.sent) : r.out[i].seqno = q.sent[i].seqno
<1> DEFINE d == [c EXCEPT !.sender = q.sender]
           out == [i \in 1 .. Len(q.sent) |-> build_segment(c, q.sent[i])]
           r == emit(c, q)
<1>1. r.conn = d /\ r.out = out
  <2>1. r = [conn |-> d, out |-> out] BY DEF emit
  <2> HIDE DEF d, out
  <2> QED BY <2>1
<1>2. c = [local_port |-> c.local_port, peer_port |-> c.peer_port, sender |-> c.sender,
           receiver |-> c.receiver]
  BY DEF ConnectionOK
<1>3. d = [local_port |-> c.local_port, peer_port |-> c.peer_port, sender |-> q.sender,
           receiver |-> c.receiver]
  BY <1>2
<1> HIDE DEF d
<1>4. /\ d.local_port = c.local_port /\ d.peer_port = c.peer_port
      /\ d.sender = q.sender /\ d.receiver = c.receiver
  BY <1>3
<1>5. ConnectionOK(d) BY <1>3, <1>4 DEF ConnectionOK
<1>6. Len(q.sent) \in Nat OBVIOUS
<1>7. IsList(out) /\ Len(out) = Len(q.sent)
  <2>1. out = [i \in 1 .. Len(q.sent) |-> out[i]] OBVIOUS
  <2> HIDE DEF out
  <2> QED BY <2>1, <1>6, ListedSeq
<1>8. ASSUME NEW i \in 1 .. Len(q.sent)
      PROVE  OutSegment(out[i], q.sender) /\ out[i].seqno = q.sent[i].seqno
  <2>1. PICK a \in Nat : Carries(q.sender, q.sent[i], a) OBVIOUS
  <2>2. q.sent[i] \in Messages /\ q.sent[i].payload.lo <= q.sent[i].payload.hi
    BY <2>1 DEF Carries
  <2>3. out[i] = build_segment(c, q.sent[i]) OBVIOUS
  <2> HIDE DEF out
  <2>4. /\ OutSegment(build_segment(c, q.sent[i]), q.sender)
        /\ build_segment(c, q.sent[i]).seqno = q.sent[i].seqno
    BY <2>1, <2>2, BuiltSegment
  <2> QED BY <2>3, <2>4
<1> HIDE DEF r, out
<1> QED BY <1>1, <1>4, <1>5, <1>7, <1>8 DEF Emits, r

(* flush_sender *)
LEMMA FlushEmits ==
  ASSUME NEW c, ConnectionOK(c)
  PROVE  LET r == flush_sender(c) IN
         Emits(c.sender, r) /\ SameInput(c.sender, r.conn.sender)
<1> DEFINE q == sender_push(c.sender)
<1>1. SenderOK(c.sender) BY DEF ConnectionOK
<1>2. Pushed(c.sender, q.sender, q.sent) BY <1>1, PushFillsWindow
<1>3. flush_sender(c) = emit(c, q) BY DEF flush_sender
<1> HIDE DEF q
<1>4. /\ SenderOK(q.sender) /\ Grows(c.sender, q.sender) /\ SameWriting(c.sender, q.sender)
      /\ q.sent \in Seq(Messages)
      /\ \A i \in 1 .. Len(q.sent) : \E a \in Nat : Carries(q.sender, q.sent[i], a)
  BY <1>2 DEF Pushed
<1>5. Emits(c.sender, emit(c, q)) /\ emit(c, q).conn.sender = q.sender
  BY <1>4, EmitEmits
<1> QED BY <1>3, <1>4, <1>5 DEF SameWriting, SameInput

(* flush_sender after the sender has become t. *)
LEMMA FlushAfter ==
  ASSUME NEW c, ConnectionOK(c), NEW t, SenderOK(t), Grows(c.sender, t),
         NEW k, k = [local_port |-> k.local_port, peer_port |-> k.peer_port,
                     sender |-> t, receiver |-> k.receiver]
  PROVE  LET r == flush_sender(k) IN
         Emits(c.sender, r) /\ SameInput(t, r.conn.sender)
<1> DEFINE r == flush_sender(k)
<1>1. k.sender = t OBVIOUS
<1>2. ConnectionOK(k) BY <1>1 DEF ConnectionOK
<1>3. Emits(t, r) /\ SameInput(t, r.conn.sender) BY <1>1, <1>2, FlushEmits
<1> HIDE DEF r
<1>4. /\ c.sender \in Senders /\ t \in Senders /\ r.conn.sender \in Senders
  BY <1>3 DEF ConnectionOK, Emits, SenderOK, Placed
<1>5. Grows(c.sender, r.conn.sender) BY <1>3, <1>4, GrowsOrder DEF Emits
<1> QED BY <1>3, <1>5 DEF Emits, r

(* write *)
LEMMA WriteEmits ==
  ASSUME NEW c, ConnectionOK(c), NEW n \in Nat
  PROVE  LET end == c.sender.outbound.bytes_pushed
             r == write(c, Bytes(end, end + n))
             o == r.conn.sender.outbound IN
         /\ Emits(c.sender, r)
         /\ end \in Nat /\ o.bytes_pushed \in end .. end + n
         /\ o.closed = c.sender.outbound.closed
<1> DEFINE s == c.sender
           end == s.outbound.bytes_pushed
           o == stream_push(s.outbound, Bytes(end, end + n))
           t == [s EXCEPT !.outbound = o]
           k == [c EXCEPT !.sender.outbound = o]
           r == flush_sender(k)
<1>1. /\ c = [local_port |-> c.local_port, peer_port |-> c.peer_port, sender |-> s,
              receiver |-> c.receiver]
      /\ SenderOK(s) /\ s \in Senders
  BY DEF ConnectionOK, SenderOK, Placed
<1>2. write(c, Bytes(end, end + n)) = r BY DEF write
<1>3. /\ SenderOK(t) /\ Grows(s, t) /\ t.outbound = o
      /\ o.bytes_pushed \in end .. end + n /\ o.closed = s.outbound.closed
  BY <1>1, WriteKeeps
<1>4. end \in Nat BY <1>1, SenderNumbers
<1> HIDE DEF o
<1>5. k = [c EXCEPT !.sender = t] OBVIOUS
<1> HIDE DEF t, k, s
<1>6. k = [local_port |-> c.local_port, peer_port |-> c.peer_port, sender |-> t,
           receiver |-> c.receiver]
  BY <1>1, <1>5
<1>7. k = [local_port |-> k.local_port, peer_port |-> k.peer_port, sender |-> t,
           receiver |-> k.receiver]
  BY <1>6
<1>8. Emits(s, r) /\ SameInput(t, r.conn.sender) BY <1>3, <1>7, FlushAfter DEF s
<1> HIDE DEF r, end
<1> QED BY <1>2, <1>3, <1>4, <1>8 DEF SameInput, s, end

(* close *)
LEMMA CloseEmits ==
  ASSUME NEW c, ConnectionOK(c)
  PROVE  LET r == close(c) IN
         /\ Emits(c.sender, r)
         /\ r.conn.sender.outbound.bytes_pushed = c.sender.outbound.bytes_pushed
<1> DEFINE s == c.sender
           o == stream_close(s.outbound)
           t == [s EXCEPT !.outbound = o]
           k == [c EXCEPT !.sender.outbound = o]
           r == flush_sender(k)
<1>1. /\ c = [local_port |-> c.local_port, peer_port |-> c.peer_port, sender |-> s,
              receiver |-> c.receiver]
      /\ SenderOK(s) /\ s \in Senders
  BY DEF ConnectionOK, SenderOK, Placed
<1>2. close(c) = r BY DEF close
<1>3. /\ SenderOK(t) /\ Grows(s, t) /\ t.outbound = o
      /\ o.bytes_pushed = s.outbound.bytes_pushed
  BY <1>1, CloseKeeps
<1> HIDE DEF o
<1>4. k = [c EXCEPT !.sender = t] OBVIOUS
<1> HIDE DEF t, k, s
<1>5. k = [local_port |-> c.local_port, peer_port |-> c.peer_port, sender |-> t,
           receiver |-> c.receiver]
  BY <1>1, <1>4
<1>6. k = [local_port |-> k.local_port, peer_port |-> k.peer_port, sender |-> t,
           receiver |-> k.receiver]
  BY <1>5
<1>7. Emits(s, r) /\ SameInput(t, r.conn.sender) BY <1>3, <1>6, FlushAfter DEF s
<1> HIDE DEF r
<1> QED BY <1>2, <1>3, <1>7 DEF SameInput, s

(***************************************************************************)
(* tick: when the timer starts again, what it resends is the oldest        *)
(* unacknowledged segment.                                                 *)
(***************************************************************************)
LEMMA TickEmits ==
  ASSUME NEW c, ConnectionOK(c)
  PROVE  LET r == connection_tick(c, 1)
             s == c.sender
             t == r.conn.sender IN
         /\ Emits(s, r) /\ SameInput(s, t)
         /\ s.timer.running /\ t.timer # s.timer /\ t.timer.elapsed_ms = 0 =>
              Len(r.out) = 1 /\ r.out[1].seqno = Head(t.outstanding).message.seqno
<1> DEFINE s == c.sender
           q == sender_tick(s, 1)
           r == connection_tick(c, 1)
           t == r.conn.sender
<1>1. SenderOK(s) /\ s \in Senders BY DEF ConnectionOK, SenderOK, Placed
<1>2. /\ SenderOK(q.sender) /\ Core(q.sender) = Core(s) /\ Grows(s, q.sender)
      /\ q.sent \in Seq(Messages)
      /\ \A i \in 1 .. Len(q.sent) : Carries(q.sender, q.sent[i], s.snd_una)
  <2>1. 1 \in Nat OBVIOUS
  <2> QED BY <2>1, <1>1, TickKeeps
<1>3. r = emit(c, q) BY DEF connection_tick
<1>4. s.snd_una \in Nat BY <1>1, SenderNumbers
<1> HIDE DEF q
<1>5. q.sender.outbound = s.outbound /\ q.sender.outstanding = s.outstanding BY <1>2 DEF Core
<1>6. \A i \in 1 .. Len(q.sent) : \E a \in Nat : Carries(q.sender, q.sent[i], a)
  BY <1>2, <1>4
<1>7. /\ Emits(s, emit(c, q)) /\ emit(c, q).conn.sender = q.sender
      /\ Len(emit(c, q).out) = Len(q.sent)
      /\ \A i \in 1 .. Len(q.sent) : emit(c, q).out[i].seqno = q.sent[i].seqno
  BY <1>2, <1>6, EmitEmits
<1> HIDE DEF r
<1>8. /\ Emits(s, r) /\ t = q.sender /\ Len(r.out) = Len(q.sent)
      /\ \A i \in 1 .. Len(q.sent) : r.out[i].seqno = q.sent[i].seqno
  BY <1>3, <1>7
<1>9. SameInput(s, t) BY <1>5, <1>8 DEF SameInput
<1>10. ASSUME s.timer.running, q.sender.timer # s.timer, q.sender.timer.elapsed_ms = 0
       PROVE  q.sent = <<Head(s.outstanding).message>>
  <2> DEFINE ticked == [s EXCEPT !.timer = timer_tick(@, 1)]
  <2>1. q = IF ~Expired(ticked.timer) THEN [sender |-> ticked, sent |-> <<>>]
            ELSE IF s.outstanding = <<>>
            THEN [sender |-> [s EXCEPT !.timer = StoppedTimer], sent |-> <<>>]
            ELSE [sender |-> restart_timer_for_current_window(back_off(s)),
                  sent |-> <<Head(s.outstanding).message>>]
    BY DEF sender_tick, q
  <2>2. s.outstanding # <<>> BY <1>1, <1>10 DEF SenderOK, Armed
  <2>3. Expired(ticked.timer)
    <3> SUFFICES ASSUME ~Expired(ticked.timer) PROVE FALSE OBVIOUS
    <3>1. q.sender = ticked BY <2>1
    <3>2. s.timer \in Timers BY <1>1, SenderNumbers
    <3>3. s.timer.elapsed_ms \in Nat BY <3>2 DEF Timers
    <3>4. ticked.timer = [s.timer EXCEPT !.elapsed_ms = saturating_add(@, 1, U64_MAX)]
      <4>1. timer_tick(s.timer, 1) =
              [s.timer EXCEPT !.elapsed_ms = saturating_add(@, 1, U64_MAX)]
        BY <1>10 DEF timer_tick
      <4>2. ticked.timer = timer_tick(s.timer, 1) BY <1>1 DEF Senders
      <4> QED BY <4>1, <4>2
    <3> HIDE DEF ticked
    <3>5. ticked.timer.elapsed_ms = saturating_add(s.timer.elapsed_ms, 1, U64_MAX)
      BY <3>2, <3>4 DEF Timers
    <3>6. U64_MAX \in Nat /\ U64_MAX # 0
      <4>1. /\ MODULUS \in Nat /\ MODULUS > 0 /\ MODULUS % 2 = 0 /\ U64_MAX \in Nat
        BY ModulusAssumption, U64Assumption DEF ModulusAssumption, U64Assumption
      <4>2. (U64_MAX + 1) % MODULUS = 0 BY U64IsWholeEras DEF U64IsWholeEras
      <4>3. ASSUME U64_MAX = 0 PROVE FALSE
        <5>1. MODULUS # 1 BY <4>1
        <5>2. 1 \in RawValues BY <5>1, <4>1 DEF RawValues
        <5>3. (MODULUS * 0 + 1) % MODULUS = 1 BY <5>2, RemainderUnique
        <5>4. MODULUS * 0 + 1 = 1 /\ U64_MAX + 1 = 1 BY <4>1, <4>3
        <5> QED BY <5>3, <5>4, <4>2
      <4> QED BY <4>1, <4>3
    <3> QED BY <3>1, <3>3, <3>5, <3>6, <1>10 DEF saturating_add, min
  <2> HIDE DEF ticked
  <2> QED BY <2>1, <2>2, <2>3
<1>11. ASSUME s.timer.running, t.timer # s.timer, t.timer.elapsed_ms = 0
       PROVE  Len(r.out) = 1 /\ r.out[1].seqno = Head(t.outstanding).message.seqno
  <2>1. q.sent = <<Head(s.outstanding).message>> BY <1>8, <1>10, <1>11
  <2>2. Len(q.sent) = 1 /\ q.sent[1] = Head(s.outstanding).message BY <2>1
  <2>3. 1 \in 1 .. Len(q.sent) BY <2>2
  <2> QED BY <2>2, <2>3, <1>5, <1>8
<1> HIDE DEF t
<1> QED BY <1>8, <1>9, <1>11 DEF t, r, s

(* receive_segment, of a segment with feedback that makes sense. *)
LEMMA ReceiveEmits ==
  ASSUME NEW c, ConnectionOK(c), NEW seg, to_receiver_message(seg) \in Feedback
  PROVE  LET r == receive_segment(c, seg) IN
         Emits(c.sender, r) /\ SameInput(c.sender, r.conn.sender)
<1> DEFINE s == c.sender
           f == to_receiver_message(seg)
           message == to_sender_message(seg)
           occupies == sequence_length(message) > 0
           t == sender_receive(s, f)
           rcv == IF occupies \/ message.rst THEN accept_stream(c.receiver, message)
                  ELSE c.receiver
           k == [c EXCEPT !.sender = t, !.receiver = rcv]
           flushed == flush_sender(k)
           r == receive_segment(c, seg)
<1>1. /\ c = [local_port |-> c.local_port, peer_port |-> c.peer_port, sender |-> s,
              receiver |-> c.receiver]
      /\ SenderOK(s) /\ s \in Senders
  BY DEF ConnectionOK, SenderOK, Placed
<1>2. SenderOK(t) /\ Grows(s, t) /\ SameInput(s, t)
  <2>1. /\ SenderOK(t) /\ Grows(s, t)
        /\ ~f.rst => t.outbound = s.outbound
        /\ f.rst => t = abort(s)
    BY <1>1, ReceiveKeeps
  <2>2. abort(s).outbound = stream_set_error(s.outbound) BY <1>1, AbortKeeps
  <2>3. /\ stream_set_error(s.outbound).bytes_pushed = s.outbound.bytes_pushed
        /\ stream_set_error(s.outbound).closed = s.outbound.closed
    BY <1>1, MarkKeepsOrder DEF SenderOK, Placed
  <2> HIDE DEF t, f, s
  <2>4. CASE f.rst
    <3>1. t.outbound = stream_set_error(s.outbound) BY <2>1, <2>2, <2>4
    <3> QED BY <3>1, <2>1, <2>3 DEF SameInput
  <2>5. CASE ~f.rst
    <3>1. t.outbound = s.outbound BY <2>1, <2>5
    <3> QED BY <3>1, <2>1 DEF SameInput
  <2> QED BY <2>4, <2>5
<1>3. r = IF ~belongs_to_this_connection(c, seg) THEN [conn |-> c, out |-> <<>>]
          ELSE IF occupies /\ flushed.out = <<>>
          THEN [flushed EXCEPT !.out = make_pure_ack_segment(flushed.conn)]
          ELSE flushed
  BY DEF receive_segment
<1> HIDE DEF t, rcv, r, occupies
<1>4. k = [local_port |-> c.local_port, peer_port |-> c.peer_port, sender |-> t,
           receiver |-> rcv]
  <2> DEFINE a == c.local_port
             b == c.peer_port
             x == c.receiver
             h == [c EXCEPT !.sender = t]
  <2>1. k = [h EXCEPT !.receiver = rcv] OBVIOUS
  <2> HIDE DEF a, b, x, s, k
  <2>2. c = [local_port |-> a, peer_port |-> b, sender |-> s, receiver |-> x]
    BY <1>1 DEF a, b, x
  <2>3. h = [local_port |-> a, peer_port |-> b, sender |-> t, receiver |-> x] BY <2>2
  <2> HIDE DEF h
  <2>4. k = [local_port |-> a, peer_port |-> b, sender |-> t, receiver |-> rcv] BY <2>1, <2>3
  <2> QED BY <2>4 DEF a, b
<1> HIDE DEF k
<1>5. k = [local_port |-> k.local_port, peer_port |-> k.peer_port, sender |-> t,
           receiver |-> k.receiver]
  BY <1>4
<1>6. Emits(s, flushed) /\ SameInput(t, flushed.conn.sender) BY <1>2, <1>5, FlushAfter
<1>7. SameInput(s, flushed.conn.sender) BY <1>2, <1>6 DEF SameInput
<1>8. flushed = [conn |-> flushed.conn, out |-> flushed.out] BY DEF flush_sender, emit
<1> HIDE DEF flushed
<1>9. CASE ~belongs_to_this_connection(c, seg)
  <2>1. r = [conn |-> c, out |-> <<>>] BY <1>3, <1>9
  <2>2. r.conn = c /\ r.out = <<>> BY <2>1
  <2>3. IsList(r.out) /\ Len(r.out) = 0 BY <2>2, EmptyIsSeq
  <2>4. Grows(s, s) BY <1>1, GrowsOrder
  <2>5. Emits(s, r) BY <2>2, <2>3, <2>4 DEF Emits
  <2> QED BY <2>2, <2>5 DEF SameInput, r
<1>10. CASE belongs_to_this_connection(c, seg) /\ ~(occupies /\ flushed.out = <<>>)
  <2>1. r = flushed BY <1>3, <1>10
  <2> QED BY <2>1, <1>6, <1>7 DEF r
<1>11. CASE belongs_to_this_connection(c, seg) /\ occupies /\ flushed.out = <<>>
  <2> DEFINE d == flushed.conn
             m == make_empty_message(d.sender)
             out == make_pure_ack_segment(d)
  <2>1. r = [flushed EXCEPT !.out = out] BY <1>3, <1>11
  <2> HIDE DEF out
  <2>2. r.conn = d /\ r.out = out BY <2>1, <1>8
  <2>3. ConnectionOK(d) /\ Grows(s, d.sender) BY <1>6 DEF Emits
  <2>4. /\ m \in Messages /\ m.payload.lo <= m.payload.hi /\ sequence_length(m) = 0
    <3>1. /\ d.sender.snd_nxt \in Nat /\ d.sender.isn \in RawValues
          /\ d.sender.outbound.error \in BOOLEAN
      BY <2>3, SenderNumbers DEF ConnectionOK, SenderOK, Placed
    <3>2. wrap(d.sender.snd_nxt, d.sender.isn) \in RawValues BY <3>1, WrapEras
    <3> DEFINE w == wrap(d.sender.snd_nxt, d.sender.isn)
               e == d.sender.outbound.error
    <3>3. m = [seqno |-> w, syn |-> FALSE, payload |-> [lo |-> 0, hi |-> 0], fin |-> FALSE,
               rst |-> e]
      BY DEF make_empty_message, SenderMessage, NoBytes, Bytes
    <3> HIDE DEF w, e, m
    <3>4. w \in RawValues /\ e \in BOOLEAN BY <3>1, <3>2 DEF w, e
    <3>5. m \in Messages /\ m.payload.lo <= m.payload.hi
      BY <3>3, <3>4 DEF Messages, ByteRuns
    <3>6. One(m.syn) = 0 /\ One(m.fin) = 0 /\ len(m.payload) = 0 BY <3>3 DEF One, len
    <3> QED BY <3>5, <3>6 DEF sequence_length
  <2>5. out = <<>> \/ out = <<build_segment(d, m)>> BY DEF make_pure_ack_segment, out
  <2>6. OutSegment(build_segment(d, m), d.sender) BY <2>4, BuiltSegment
  <2> HIDE DEF m, d
  <2>7. IsList(out) /\ \A i \in 1 .. Len(out) : OutSegment(out[i], d.sender)
    <3>1. CASE out = <<>>
      <4>1. IsList(out) /\ Len(out) = 0 BY <3>1, EmptyIsSeq
      <4> QED BY <4>1
    <3>2. CASE out = <<build_segment(d, m)>>
      <4> DEFINE x == build_segment(d, m)
      <4> HIDE DEF x
      <4>1. out = <<x>> BY <3>2 DEF x
      <4>2. out = [i \in 1 .. 1 |-> out[i]] /\ out[1] = x BY <4>1
      <4>3. IsList(out) /\ Len(out) = 1 BY <4>2, ListedSeq
      <4> QED BY <4>2, <4>3, <2>6 DEF x
    <3> QED BY <2>5, <3>1, <3>2
  <2>8. Emits(s, r) BY <2>2, <2>3, <2>7 DEF Emits
  <2> QED BY <2>2, <2>8, <1>7 DEF r, d
<1> QED BY <1>9, <1>10, <1>11
-----------------------------------------------------------------------------
(* wrap_tcp_segments: the segments become datagrams. *)
LEMMA WrapEmits ==
  ASSUME NEW h, HostOK(h), NEW s, NEW x, Emits(s, x)
  PROVE  LET r == wrap_tcp_segments(h, x) IN
         /\ HostOK(r.host) /\ r.host.connection = x.conn
         /\ OutDatagrams(r.datagrams, x.conn.sender) /\ Len(r.datagrams) = Len(x.out)
         /\ \A i \in 1 .. Len(x.out) : r.datagrams[i].payload = x.out[i]
         /\ r = [host |-> r.host, datagrams |-> r.datagrams, payloads |-> <<>>]
<1> DEFINE g == [h EXCEPT !.connection = x.conn]
           ds == [i \in 1 .. Len(x.out) |-> Datagram(h.local_ip, h.peer_ip, "TCP", x.out[i])]
           r == wrap_tcp_segments(h, x)
<1>1. r = [host |-> g, datagrams |-> ds, payloads |-> <<>>] BY DEF wrap_tcp_segments
<1>2. h = [local_ip |-> h.local_ip, peer_ip |-> h.peer_ip, connection |-> h.connection]
  BY DEF HostOK
<1>3. g = [local_ip |-> g.local_ip, peer_ip |-> g.peer_ip, connection |-> g.connection]
      /\ g.connection = x.conn
  BY <1>2
<1>4. Len(x.out) \in Nat BY DEF Emits, IsList
<1>5. IsList(ds) /\ Len(ds) = Len(x.out)
  <2>1. ds = [i \in 1 .. Len(x.out) |-> ds[i]] OBVIOUS
  <2> HIDE DEF ds
  <2> QED BY <2>1, <1>4, ListedSeq
<1>6. ASSUME NEW i \in 1 .. Len(x.out) PROVE ds[i].payload = x.out[i]
  BY DEF Datagram
<1> HIDE DEF g, ds, r
<1>7. HostOK(g) BY <1>3 DEF HostOK, Emits
<1>8. OutDatagrams(ds, x.conn.sender)
  <2>1. \A i \in 1 .. Len(ds) : OutSegment(ds[i].payload, x.conn.sender)
    BY <1>5, <1>6 DEF Emits
  <2> QED BY <2>1, <1>5 DEF OutDatagrams
<1>9. r.host = g /\ r.datagrams = ds BY <1>1
<1> QED BY <1>1, <1>3, <1>5, <1>6, <1>7, <1>8, <1>9 DEF r

(* What a host does with datagram or event: it and its connection go on, and send. *)
HostEmits(h, r) ==
  /\ HostOK(r.host) /\ Grows(h.connection.sender, r.host.connection.sender)
  /\ OutDatagrams(r.datagrams, r.host.connection.sender)

(* IpHost::receive_datagram *)
LEMMA HostReceives ==
  ASSUME NEW h, HostOK(h), NEW d, InDatagram(d)
  PROVE  LET r == receive_datagram(h, d) IN
         HostEmits(h, r) /\ SameInput(h.connection.sender, r.host.connection.sender)
<1> DEFINE r == receive_datagram(h, d)
           c == h.connection
           tcp == receive_tcp(h, d.payload)
<1>1. d.protocol = "TCP" /\ d.protocol # "ICMP" /\ to_receiver_message(d.payload) \in Feedback
  BY DEF InDatagram
<1>2. r = Ignored(h) \/ r = tcp BY <1>1 DEF receive_datagram
<1>3. tcp = Ignored(h) \/
      tcp = [wrap_tcp_segments(h, receive_segment(c, d.payload))
               EXCEPT !.payloads = reported(c, d.payload)]
  BY DEF receive_tcp
<1> HIDE DEF r, tcp
<1>4. CASE r = Ignored(h)
  <2>1. r = [host |-> h, datagrams |-> <<>>, payloads |-> <<>>] BY <1>4 DEF Ignored
  <2>2. r.host = h /\ r.datagrams = <<>> BY <2>1
  <2>3. IsList(r.datagrams) /\ Len(r.datagrams) = 0 BY <2>2, EmptyIsSeq
  <2>4. OutDatagrams(r.datagrams, c.sender) BY <2>3 DEF OutDatagrams
  <2>5. Grows(c.sender, c.sender) BY GrowsOrder DEF HostOK, ConnectionOK, SenderOK, Placed
  <2> QED BY <2>2, <2>4, <2>5 DEF HostEmits, SameInput, r
<1>5. CASE r = [wrap_tcp_segments(h, receive_segment(c, d.payload))
                  EXCEPT !.payloads = reported(c, d.payload)]
  <2> DEFINE x == receive_segment(c, d.payload)
             w == wrap_tcp_segments(h, x)
             z == reported(c, d.payload)
  <2>1. ConnectionOK(c) BY DEF HostOK
  <2>2. Emits(c.sender, x) /\ SameInput(c.sender, x.conn.sender) BY <1>1, <2>1, ReceiveEmits
  <2>3. r = [w EXCEPT !.payloads = z] BY <1>5
  <2> HIDE DEF x, z
  <2>4. /\ HostOK(w.host) /\ w.host.connection = x.conn
        /\ OutDatagrams(w.datagrams, x.conn.sender)
        /\ w = [host |-> w.host, datagrams |-> w.datagrams, payloads |-> <<>>]
    BY <2>2, WrapEmits
  <2> HIDE DEF w
  <2>5. r.host = w.host /\ r.datagrams = w.datagrams BY <2>3, <2>4
  <2> QED BY <2>2, <2>4, <2>5 DEF HostEmits, Emits, r
<1> QED BY <1>2, <1>3, <1>4, <1>5

(* The other operations of a host, given what its connection does. *)
LEMMA HostActs ==
  ASSUME NEW h, HostOK(h), NEW x, Emits(h.connection.sender, x)
  PROVE  LET r == wrap_tcp_segments(h, x) IN
         HostEmits(h, r) /\ r.host.connection = x.conn
<1> DEFINE r == wrap_tcp_segments(h, x)
<1>1. /\ HostOK(r.host) /\ r.host.connection = x.conn
      /\ OutDatagrams(r.datagrams, x.conn.sender)
  BY WrapEmits
<1> HIDE DEF r
<1> QED BY <1>1 DEF HostEmits, Emits, r
-----------------------------------------------------------------------------
(* The states of the interface while datagrams are handed to it. *)
LEMMA HandOverStates ==
  ASSUME NEW p, NEW r, Len(r.datagrams) \in Nat
  PROVE  \E st : /\ st = [n \in 0 .. Len(r.datagrams) |->
                            IF n = 0 THEN p.interface
                            ELSE send_datagram(st[n - 1], r.datagrams[n], r.datagrams[n].dst)]
                 /\ send_host_output_to_interface(p, r) =
                      [host |-> r.host, interface |-> st[Len(r.datagrams)]]
<1> DEFINE k == Len(r.datagrams)
           Send(i, n) == send_datagram(i, r.datagrams[n], r.datagrams[n].dst)
           Def(m, g) == g = [n \in 0 .. m |-> IF n = 0 THEN p.interface ELSE Send(g[n - 1], n)]
           S == {m \in Nat : \E g : Def(m, g)}
<1>1. 0 \in S
  <2> DEFINE g == [n \in 0 .. 0 |-> p.interface]
  <2> HIDE DEF Send
  <2>1. g = [n \in 0 .. 0 |-> IF n = 0 THEN p.interface ELSE Send(g[n - 1], n)] OBVIOUS
  <2>2. Def(0, g) BY <2>1
  <2> HIDE DEF g, Def
  <2> QED BY <2>2
<1>2. ASSUME NEW m \in S PROVE m + 1 \in S
  <2>1. PICK g : Def(m, g) OBVIOUS
  <2> HIDE DEF Send
  <2> DEFINE h == [n \in 0 .. m + 1 |-> IF n = m + 1 THEN Send(g[m], m + 1) ELSE g[n]]
  <2>2. \A n \in 0 .. m + 1 : h[n] = IF n = 0 THEN p.interface ELSE Send(h[n - 1], n)
    BY <2>1
  <2>3. Def(m + 1, h) BY <2>2
  <2> HIDE DEF h, Def
  <2> QED BY <2>3
<1>3. S = Nat
  <2>1. S \in SUBSET Nat OBVIOUS
  <2> HIDE DEF S
  <2> QED BY <1>1, <1>2, <2>1, NatSetInduction
<1>4. PICK g : Def(k, g) BY <1>3
<1> DEFINE st == CHOOSE f : Def(k, f)
<1>5. Def(k, st) BY <1>4
<1>6. send_host_output_to_interface(p, r) = [host |-> r.host, interface |-> st[k]]
  BY DEF send_host_output_to_interface
<1> QED BY <1>5, <1>6

(***************************************************************************)
(* send_host_output_to_interface: all that the host sends is with the      *)
(* interface, the last datagram among it.                                  *)
(***************************************************************************)
LEMMA HandOverHolds ==
  ASSUME NEW p, NEW h, HostOK(h), InterfaceOK(p.interface, h.connection.sender),
         NEW r, HostEmits(h, r)
  PROVE  LET q == send_host_output_to_interface(p, r) IN
         /\ ProgramOK(q) /\ q.host = r.host
         /\ Len(r.datagrams) > 0 => r.datagrams[Len(r.datagrams)] \in Held(q.interface)
<1> DEFINE s == h.connection.sender
           t == r.host.connection.sender
           k == Len(r.datagrams)
           q == send_host_output_to_interface(p, r)
<1>1. /\ HostOK(r.host) /\ Grows(s, t) /\ OutDatagrams(r.datagrams, t)
      /\ s \in Senders /\ t \in Senders
  BY DEF HostEmits, HostOK, ConnectionOK, SenderOK, Placed
<1>2. k \in Nat BY <1>1 DEF OutDatagrams, IsList
<1>3. PICK st : /\ st = [n \in 0 .. k |->
                           IF n = 0 THEN p.interface
                           ELSE send_datagram(st[n - 1], r.datagrams[n], r.datagrams[n].dst)]
                /\ q = [host |-> r.host, interface |-> st[k]]
  BY <1>2, HandOverStates
<1>4. st[0] = p.interface BY <1>2, <1>3
<1>5. \A n \in 0 .. k : n < k =>
        st[n + 1] = send_datagram(st[n], r.datagrams[n + 1], r.datagrams[n + 1].dst)
  BY <1>2, <1>3
<1>6. InterfaceOK(st[0], t)
  <2>1. InterfaceOK(p.interface, s) OBVIOUS
  <2> QED BY <2>1, <1>1, <1>4, InterfaceOn
<1> HIDE DEF t, s, q
<1>7. \A n \in 1 .. k : OutSegment(r.datagrams[n].payload, t) BY <1>1 DEF OutDatagrams, k
<1> HIDE DEF k
<1> DEFINE Last1(n) == n > 0 => r.datagrams[n] \in Held(st[n])
           S == {n \in 0 .. k : InterfaceOK(st[n], t) /\ Last1(n)}
<1>8. 0 \in S BY <1>2, <1>6
<1>9. ASSUME NEW n \in S, n < k PROVE n + 1 \in S
  <2>1. n \in 0 .. k /\ InterfaceOK(st[n], t) OBVIOUS
  <2>2. n + 1 \in 0 .. k /\ n + 1 \in 1 .. k BY <2>1, <1>2, <1>9
  <2>3. st[n + 1] = send_datagram(st[n], r.datagrams[n + 1], r.datagrams[n + 1].dst)
    BY <2>1, <1>5, <1>9
  <2>4. OutSegment(r.datagrams[n + 1].payload, t) BY <2>2, <1>7
  <2>5. InterfaceOK(st[n + 1], t) /\ r.datagrams[n + 1] \in Held(st[n + 1])
    BY <2>1, <2>3, <2>4, SendHolds
  <2> QED BY <2>2, <2>5
<1>10. S \in SUBSET (0 .. k) OBVIOUS
<1>11. k \in S
  <2> HIDE DEF S
  <2> QED BY <1>2, <1>8, <1>9, <1>10, IntervalInduction
<1>12. q.host = r.host /\ q.interface = st[k] BY <1>3
<1>13. ProgramOK(q) BY <1>1, <1>3, <1>11, <1>12 DEF ProgramOK, t
<1> QED BY <1>11, <1>12, <1>13 DEF q, k
-----------------------------------------------------------------------------
(* From p to q the program goes on without touching its input. *)
Runs(p, q) ==
  /\ ProgramOK(q) /\ Grows(p.host.connection.sender, q.host.connection.sender)
  /\ SameInput(p.host.connection.sender, q.host.connection.sender)

(* A program that stays as it is. *)
LEMMA RunsOrder ==
  ASSUME NEW p, ProgramOK(p)
  PROVE  /\ Runs(p, p)
         /\ \A q, r : Runs(p, q) /\ Runs(q, r) => Runs(p, r)
<1>1. ASSUME NEW q, ProgramOK(q) PROVE q.host.connection.sender \in Senders
  BY <1>1 DEF ProgramOK, HostOK, ConnectionOK, SenderOK, Placed
<1>2. Runs(p, p) BY <1>1, GrowsOrder DEF Runs, SameInput
<1>3. ASSUME NEW q, NEW r, Runs(p, q), Runs(q, r) PROVE Runs(p, r)
  <2> DEFINE a == p.host.connection.sender
             b == q.host.connection.sender
             c == r.host.connection.sender
  <2>1. a \in Senders /\ b \in Senders /\ c \in Senders BY <1>1, <1>3 DEF Runs
  <2>2. Grows(a, b) /\ Grows(b, c) BY <1>3 DEF Runs
  <2> HIDE DEF a, b, c
  <2>3. Grows(a, c) BY <2>1, <2>2, GrowsOrder
  <2> QED BY <2>3, <1>3 DEF Runs, SameInput, a, b, c
<1> QED BY <1>2, <1>3

(* The program with another interface. *)
LEMMA WithInterface ==
  ASSUME NEW p, ProgramOK(p), NEW i, InterfaceOK(i, p.host.connection.sender),
         NEW q, q = [p EXCEPT !.interface = i]
  PROVE  Runs(p, q) /\ q.host = p.host /\ q.interface = i
<1>1. p = [interface |-> p.interface, host |-> p.host] /\ HostOK(p.host) BY DEF ProgramOK
<1>2. q = [interface |-> i, host |-> p.host] BY <1>1
<1>3. q.interface = i /\ q.host = p.host BY <1>2
<1>4. ProgramOK(q) BY <1>1, <1>2, <1>3 DEF ProgramOK
<1>5. Grows(p.host.connection.sender, p.host.connection.sender)
  BY <1>1, GrowsOrder DEF HostOK, ConnectionOK, SenderOK, Placed
<1> QED BY <1>3, <1>4, <1>5 DEF Runs, SameInput

(* One datagram from the kernel goes up, and the answer comes down. *)
LEMMA DrainRuns ==
  ASSUME NEW p, ProgramOK(p)
  PROVE  Runs(p, DrainDatagram(p))
<1> DEFINE i == p.interface
           waiting == i.datagrams_in
           q == DrainDatagram(p)
<1>1. CASE waiting = <<>>
  <2>1. q = p BY <1>1 DEF DrainDatagram
  <2> QED BY <2>1, RunsOrder
<1>2. CASE waiting # <<>>
  <2> DEFINE rest == Tail(waiting)
             j == pop_datagram(i)
             a == [p EXCEPT !.interface = j]
             d == Head(waiting)
             r == receive_datagram(p.host, d)
  <2>1. q = send_host_output_to_interface(a, r) BY <1>2 DEF DrainDatagram
  <2>2. InterfaceOK(i, p.host.connection.sender) /\ HostOK(p.host) BY DEF ProgramOK
  <2>3. InDatagrams(waiting) BY <2>2 DEF InterfaceOK
  <2>4. /\ IsList(rest) /\ Len(waiting) \in Nat /\ Len(waiting) > 0
        /\ Len(rest) = Len(waiting) - 1 /\ d = waiting[1]
        /\ \A n \in 1 .. Len(waiting) - 1 : rest[n] = waiting[n + 1]
    BY <1>2, <2>3, TailOfSeq DEF InDatagrams
  <2>5. j = [i EXCEPT !.datagrams_in = rest] BY DEF pop_datagram
  <2> HIDE DEF rest, d, j
  <2>6. InDatagram(d) BY <2>3, <2>4 DEF InDatagrams
  <2>7. InDatagrams(rest)
    <3>1. ASSUME NEW n \in 1 .. Len(rest) PROVE InDatagram(rest[n])
      <4>1. n \in 1 .. Len(waiting) - 1 /\ n + 1 \in 1 .. Len(waiting) BY <2>4
      <4> QED BY <4>1, <2>3, <2>4 DEF InDatagrams
    <3> QED BY <3>1, <2>4 DEF InDatagrams
  <2>8. InterfaceOK(j, p.host.connection.sender) BY <2>2, <2>5, <2>7, WithDatagrams
  <2>9. a.interface = j
    <3>1. a = [p EXCEPT !.interface = j] OBVIOUS
    <3> HIDE DEF a
    <3> QED BY <3>1, <2>8, WithInterface
  <2> HIDE DEF a
  <2>10. HostEmits(p.host, r) /\ SameInput(p.host.connection.sender, r.host.connection.sender)
    BY <2>2, <2>6, HostReceives
  <2> HIDE DEF r, q
  <2>11. ProgramOK(q) /\ q.host = r.host
    BY <2>1, <2>2, <2>8, <2>9, <2>10, HandOverHolds
  <2> QED BY <2>10, <2>11 DEF Runs, HostEmits, q
<1> QED BY <1>1, <1>2

(* The states of the loop that takes the datagrams one after the other. *)
LEMMA DrainStates ==
  ASSUME NEW p, NEW k \in Nat
  PROVE  \E st : /\ st = [n \in 0 .. k |-> IF n = 0 THEN p ELSE DrainDatagram(st[n - 1])]
                 /\ Iterate(DrainDatagram, p, k) = st[k]
<1> DEFINE Def(m, g) == g = [n \in 0 .. m |-> IF n = 0 THEN p ELSE DrainDatagram(g[n - 1])]
           S == {m \in Nat : \E g : Def(m, g)}
<1>1. 0 \in S
  <2> DEFINE g == [n \in 0 .. 0 |-> p]
  <2>1. g = [n \in 0 .. 0 |-> IF n = 0 THEN p ELSE DrainDatagram(g[n - 1])] OBVIOUS
  <2>2. Def(0, g) BY <2>1
  <2> HIDE DEF g, Def
  <2> QED BY <2>2
<1>2. ASSUME NEW m \in S PROVE m + 1 \in S
  <2>1. PICK g : Def(m, g) OBVIOUS
  <2> DEFINE h == [n \in 0 .. m + 1 |-> IF n = m + 1 THEN DrainDatagram(g[m]) ELSE g[n]]
  <2>2. \A n \in 0 .. m + 1 : h[n] = IF n = 0 THEN p ELSE DrainDatagram(h[n - 1])
    BY <2>1
  <2>3. Def(m + 1, h) BY <2>2
  <2> HIDE DEF h, Def
  <2> QED BY <2>3
<1>3. S = Nat
  <2>1. S \in SUBSET Nat OBVIOUS
  <2> HIDE DEF S
  <2> QED BY <1>1, <1>2, <2>1, NatSetInduction
<1>4. PICK g : Def(k, g) BY <1>3
<1> DEFINE st == CHOOSE f : Def(k, f)
<1>5. Def(k, st) BY <1>4
<1>6. Iterate(DrainDatagram, p, k) = st[k] BY DEF Iterate
<1> QED BY <1>5, <1>6

(* A frame of the kernel's is read and handled. *)
LEMMA FrameRuns ==
  ASSUME NEW p, ProgramOK(p), NEW frame, InFrame(frame)
  PROVE  Runs(p, receive_frame(p, frame))
<1> DEFINE i == recv_frame(p.interface, frame)
           a == [p EXCEPT !.interface = i]
           k == Len(a.interface.datagrams_in)
<1>1. InterfaceOK(i, p.host.connection.sender) BY RecvFrameKeeps DEF ProgramOK
<1>2. receive_frame(p, frame) = Iterate(DrainDatagram, a, k)
  BY DEF receive_frame, drain_interface_datagrams
<1>3. Runs(p, a) /\ a.interface = i
  <2>1. a = [p EXCEPT !.interface = i] OBVIOUS
  <2> HIDE DEF a, i
  <2> QED BY <2>1, <1>1, WithInterface
<1>4. k \in Nat
  <2>1. IsList(i.datagrams_in) BY <1>1 DEF InterfaceOK, InDatagrams
  <2>2. Len(i.datagrams_in) \in Nat BY <2>1 DEF IsList
  <2> HIDE DEF i, a
  <2> QED BY <2>2, <1>3
<1> HIDE DEF a, k
<1>5. PICK st : /\ st = [n \in 0 .. k |-> IF n = 0 THEN a ELSE DrainDatagram(st[n - 1])]
                /\ receive_frame(p, frame) = st[k]
  BY <1>2, <1>4, DrainStates, ZenonT(30)
<1>6. st[0] = a /\ \A n \in 0 .. k : n < k => st[n + 1] = DrainDatagram(st[n])
  BY <1>4, <1>5
<1> DEFINE S == {n \in 0 .. k : Runs(p, st[n])}
<1>7. 0 \in S BY <1>3, <1>4, <1>6
<1>8. ASSUME NEW n \in S, n < k PROVE n + 1 \in S
  <2>1. n \in 0 .. k /\ Runs(p, st[n]) OBVIOUS
  <2>2. st[n + 1] = DrainDatagram(st[n]) /\ n + 1 \in 0 .. k BY <2>1, <1>4, <1>6, <1>8
  <2>3. ProgramOK(st[n]) BY <2>1 DEF Runs
  <2>4. Runs(st[n], st[n + 1]) BY <2>2, <2>3, DrainRuns
  <2>5. Runs(p, st[n + 1]) BY <2>1, <2>4, RunsOrder
  <2> QED BY <2>2, <2>5
<1>9. S \in SUBSET (0 .. k) OBVIOUS
<1>10. k \in S
  <2> HIDE DEF S
  <2> QED BY <1>4, <1>7, <1>8, <1>9, IntervalInduction
<1> QED BY <1>5, <1>10

(***************************************************************************)
(* A unit of time: when the sender's timer starts again, the segment it    *)
(* resends is with the interface, whose queues have aged before.           *)
(***************************************************************************)
LEMMA TickRuns ==
  ASSUME NEW p, ProgramOK(p)
  PROVE  LET q == program_tick(p, 1)
             s == p.host.connection.sender
             t == q.host.connection.sender IN
         /\ Runs(p, q)
         /\ s.timer.running /\ t.timer # s.timer /\ t.timer.elapsed_ms = 0 =>
              \E d \in Held(q.interface) : d.payload.seqno = Head(t.outstanding).message.seqno
<1> DEFINE i == interface_tick(p.interface, 1)
           a == [p EXCEPT !.interface = i]
           h == p.host
           x == connection_tick(h.connection, 1)
           r == wrap_tcp_segments(h, x)
           q == program_tick(p, 1)
           s == h.connection.sender
           t == q.host.connection.sender
<1>1. q = send_host_output_to_interface(a, r) BY DEF program_tick, host_tick
<1>2. InterfaceOK(p.interface, s) /\ HostOK(h) /\ ConnectionOK(h.connection)
  BY DEF ProgramOK, HostOK
<1>3. InterfaceOK(i, s) BY <1>2, InterfaceTickKeeps
<1>4. a.interface = i
  <2>1. a = [p EXCEPT !.interface = i] OBVIOUS
  <2> HIDE DEF a, i
  <2> QED BY <2>1, <1>3, WithInterface
<1>5. /\ Emits(s, x) /\ SameInput(s, x.conn.sender)
      /\ s.timer.running /\ x.conn.sender.timer # s.timer
           /\ x.conn.sender.timer.elapsed_ms = 0 =>
           Len(x.out) = 1 /\ x.out[1].seqno = Head(x.conn.sender.outstanding).message.seqno
  BY <1>2, TickEmits
<1> HIDE DEF x, i, a
<1>6. HostEmits(h, r) /\ r.host.connection = x.conn BY <1>2, <1>5, HostActs
<1>7. /\ Len(r.datagrams) = Len(x.out)
      /\ \A n \in 1 .. Len(x.out) : r.datagrams[n].payload = x.out[n]
  BY <1>2, <1>5, WrapEmits
<1> HIDE DEF r
<1>8. /\ ProgramOK(q) /\ q.host = r.host
      /\ Len(r.datagrams) > 0 => r.datagrams[Len(r.datagrams)] \in Held(q.interface)
  BY <1>1, <1>2, <1>3, <1>4, <1>6, HandOverHolds
<1> HIDE DEF q
<1>9. t = x.conn.sender BY <1>6, <1>8
<1>10. Runs(p, q) BY <1>5, <1>6, <1>8, <1>9 DEF Runs, HostEmits
<1>11. ASSUME s.timer.running, t.timer # s.timer, t.timer.elapsed_ms = 0
       PROVE  \E d \in Held(q.interface) : d.payload.seqno = Head(t.outstanding).message.seqno
  <2>1. Len(x.out) = 1 /\ x.out[1].seqno = Head(t.outstanding).message.seqno
    BY <1>5, <1>9, <1>11
  <2>2. r.datagrams[1].payload = x.out[1] /\ Len(r.datagrams) = 1
    <3>1. 1 \in 1 .. Len(x.out) BY <2>1
    <3> QED BY <3>1, <2>1, <1>7
  <2>3. r.datagrams[1] \in Held(q.interface) BY <2>2, <1>8
  <2> QED BY <2>1, <2>2, <2>3
<1> HIDE DEF t
<1> QED BY <1>10, <1>11 DEF q, t

(* A line from stdin: some of it, or none, is written to the stream. *)
LEMMA LineRuns ==
  ASSUME NEW p, ProgramOK(p), NEW n \in Nat
  PROVE  LET q == handle_event(p, Data(n))
             s == p.host.connection.sender
             t == q.host.connection.sender IN
         /\ ProgramOK(q) /\ Grows(s, t)
         /\ t.outbound.closed = s.outbound.closed
         /\ s.outbound.bytes_pushed \in Nat /\ t.outbound.bytes_pushed \in Nat
         /\ t.outbound.bytes_pushed <= s.outbound.bytes_pushed + n
<1> DEFINE h == p.host
           s == h.connection.sender
           end == s.outbound.bytes_pushed
           x == write(h.connection, Bytes(end, end + n))
           r == wrap_tcp_segments(h, x)
           q == handle_event(p, Data(n))
           t == q.host.connection.sender
<1>1. q = send_host_output_to_interface(p, r)
  <2>1. Data(n) # Close /\ Data(n).size = n BY DEF Data, Close
  <2>2. q = send_host_output_to_interface(p, host_write(h, Bytes(end, end + Data(n).size)))
    BY <2>1 DEF handle_event
  <2> HIDE DEF q
  <2> QED BY <2>1, <2>2 DEF host_write
<1>2. InterfaceOK(p.interface, s) /\ HostOK(h) /\ ConnectionOK(h.connection)
  BY DEF ProgramOK, HostOK
<1>3. /\ Emits(s, x) /\ end \in Nat
      /\ x.conn.sender.outbound.bytes_pushed \in end .. end + n
      /\ x.conn.sender.outbound.closed = s.outbound.closed
  BY <1>2, WriteEmits
<1> HIDE DEF x, end
<1>4. HostEmits(h, r) /\ r.host.connection = x.conn BY <1>2, <1>3, HostActs
<1> HIDE DEF r
<1>5. ProgramOK(q) /\ q.host = r.host BY <1>1, <1>2, <1>4, HandOverHolds
<1> HIDE DEF q
<1>6. t = x.conn.sender BY <1>4, <1>5
<1>7. Grows(s, t) BY <1>3, <1>6 DEF Emits
<1>8. t.outbound.bytes_pushed \in Nat /\ t.outbound.bytes_pushed <= end + n
  BY <1>3, <1>6
<1> HIDE DEF t
<1> QED BY <1>3, <1>5, <1>6, <1>7, <1>8 DEF q, t, end

(* The end of stdin. *)
LEMMA EndRuns ==
  ASSUME NEW p, ProgramOK(p)
  PROVE  LET q == handle_event(p, Close)
             s == p.host.connection.sender
             t == q.host.connection.sender IN
         /\ ProgramOK(q) /\ Grows(s, t)
         /\ t.outbound.bytes_pushed = s.outbound.bytes_pushed
<1> DEFINE h == p.host
           s == h.connection.sender
           x == close(h.connection)
           r == wrap_tcp_segments(h, x)
           q == handle_event(p, Close)
           t == q.host.connection.sender
<1>1. q = send_host_output_to_interface(p, r) BY DEF handle_event, host_close
<1>2. InterfaceOK(p.interface, s) /\ HostOK(h) /\ ConnectionOK(h.connection)
  BY DEF ProgramOK, HostOK
<1>3. /\ Emits(s, x) /\ x.conn.sender.outbound.bytes_pushed = s.outbound.bytes_pushed
  BY <1>2, CloseEmits
<1> HIDE DEF x
<1>4. HostEmits(h, r) /\ r.host.connection = x.conn BY <1>2, <1>3, HostActs
<1> HIDE DEF r
<1>5. ProgramOK(q) /\ q.host = r.host BY <1>1, <1>2, <1>4, HandOverHolds
<1> HIDE DEF q
<1>6. t = x.conn.sender BY <1>4, <1>5
<1>7. Grows(s, t) BY <1>3, <1>6 DEF Emits
<1> HIDE DEF t
<1> QED BY <1>3, <1>5, <1>6, <1>7 DEF q, t
-----------------------------------------------------------------------------
(* The constants, as numbers. *)
LEMMA TapNumbers ==
  /\ Lines \in Seq(Nat) /\ Len(Lines) \in Nat /\ \A k \in 1 .. Len(Lines) : Lines[k] \in Nat
  /\ LocalIsn \in RawValues /\ PeerIsn \in RawValues
  /\ SENDER_CAPACITY \in Nat /\ PEER_WINDOW \in Nat /\ MODULUS \in Nat /\ MODULUS > 0
BY TapNetworkAssumption, ModulusAssumption DEF TapNetworkAssumption, ModulusAssumption

(* No part of the input is larger than all of it. *)
LEMMA TotalsGrow ==
  ASSUME NEW upto, Totals(upto), NEW j \in 0 .. Len(Lines)
  PROVE  upto[j] \in Nat /\ upto[j] <= upto[Len(Lines)] /\ upto[Len(Lines)] \in Nat
<1> DEFINE n == Len(Lines)
           S == {k \in 0 .. n : j <= k => upto[j] <= upto[k]}
<1>1. /\ n \in Nat /\ \A k \in 1 .. n : Lines[k] \in Nat BY TapNumbers
<1>2. /\ upto \in [0 .. n -> Nat] /\ \A k \in 1 .. n : upto[k] = upto[k - 1] + Lines[k]
  BY DEF Totals
<1> HIDE DEF n
<1>3. j \in 0 .. n BY DEF n
<1>4. 0 \in S BY <1>1, <1>2, <1>3
<1>5. ASSUME NEW k \in S, k < n PROVE k + 1 \in S
  <2>1. k \in 0 .. n /\ k + 1 \in 1 .. n /\ k + 1 \in 0 .. n BY <1>1, <1>5
  <2>2. upto[k + 1] = upto[k] + Lines[k + 1]
    <3>1. (k + 1) - 1 = k BY <2>1
    <3> QED BY <2>1, <3>1, <1>2
  <2>3. upto[k] \in Nat /\ upto[k + 1] \in Nat /\ Lines[k + 1] \in Nat /\ upto[j] \in Nat
    BY <2>1, <1>1, <1>2, <1>3
  <2>4. j <= k \/ j = k + 1 \/ ~(j <= k + 1) BY <2>1, <1>3
  <2>5. j <= k => upto[j] <= upto[k] OBVIOUS
  <2>6. j <= k + 1 => upto[j] <= upto[k + 1] BY <2>2, <2>3, <2>4, <2>5
  <2> QED BY <2>1, <2>6
<1>6. S \in SUBSET (0 .. n) OBVIOUS
<1>7. n \in S
  <2> HIDE DEF S
  <2> QED BY <1>1, <1>4, <1>5, <1>6, IntervalInduction
<1> QED BY <1>1, <1>2, <1>3, <1>7 DEF n

(* What was sent lies within the sequence space. *)
LEMMA WithinSpace ==
  ASSUME NEW upto, Totals(upto), IInv(upto)
  PROVE  sender.snd_nxt \in Nat /\ sender.snd_nxt < MODULUS
<1> DEFINE s == sender
           o == s.outbound
           n == Len(Lines)
           k == min(Taken, n)
<1>1. SenderOK(s) /\ EventsOK(o) /\ InputOK(o, upto)
  BY DEF IInv, LoopInv, ProgramOK, HostOK, ConnectionOK, sender
<1>2. s \in Senders /\ Accounting(s) /\ StreamOK(o) BY <1>1 DEF SenderOK, Placed
<1>3. /\ o.bytes_popped \in Nat /\ o.bytes_pushed \in Nat /\ o.bytes_buffered \in Nat
      /\ s.snd_nxt \in Nat /\ s.syn_sent \in BOOLEAN /\ s.fin_sent \in BOOLEAN
  BY <1>2, SenderNumbers
<1>4. o.bytes_popped + o.bytes_buffered = o.bytes_pushed BY <1>2 DEF StreamOK, Contiguous
<1>5. s.snd_nxt = One(s.syn_sent) + o.bytes_popped + One(s.fin_sent) BY <1>2 DEF Accounting
<1>6. One(s.syn_sent) \in {0, 1} /\ One(s.fin_sent) \in {0, 1} BY DEF One
<1>7. Taken \in Nat /\ n \in Nat
  <2>1. n \in Nat BY TapNumbers
  <2>2. typed \in Nat /\ Len(channel) \in Nat /\ Len(channel) <= typed
    BY <2>1, <1>1 DEF EventsOK, IsList
  <2> QED BY <2>1, <2>2 DEF Taken
<1>8. k \in 0 .. n BY <1>7 DEF min
<1>9. o.bytes_pushed <= upto[k] BY <1>1 DEF InputOK
<1> HIDE DEF k, n, o, s
<1>10. upto[k] \in Nat /\ upto[k] <= upto[n] /\ upto[n] \in Nat BY <1>8, TotalsGrow DEF n
<1>11. upto[n] + 2 < MODULUS /\ MODULUS \in Nat BY TapNumbers DEF Totals, n
<1> QED BY <1>3, <1>4, <1>5, <1>6, <1>9, <1>10, <1>11 DEF s

(* The server after a segment. *)
LEMMA ServerMoves ==
  ASSUME LoopInv, NEW seg, OutSegment(seg, sender)
  PROVE  LET takes == seg.seqno = wrap(kernel.next, LocalIsn)
             after == ServerAfter(seg) IN
         /\ KernelOK(after) /\ after.macs = kernel.macs
         /\ after.next = IF takes THEN kernel.next + sequence_length(seg) ELSE kernel.next
         /\ after.ended = (kernel.ended \/ (takes /\ seg.fin))
<1> DEFINE k == kernel
           takes == seg.seqno = wrap(k.next, LocalIsn)
           after == ServerAfter(seg)
           next1 == IF takes THEN k.next + sequence_length(seg) ELSE k.next
           ended1 == k.ended \/ (takes /\ seg.fin)
           acked1 == k.acked \/ seg.ackno = wrap(1, PeerIsn)
<1>1. /\ k = [macs |-> k.macs, next |-> k.next, ended |-> k.ended, acked |-> k.acked]
      /\ k.next \in Nat /\ k.ended \in BOOLEAN /\ k.acked \in BOOLEAN
  BY DEF LoopInv, KernelOK
<1>2. PICK m \in Messages :
        /\ seg.seqno = m.seqno /\ seg.syn = m.syn /\ seg.payload = m.payload /\ seg.fin = m.fin
        /\ m.payload.lo <= m.payload.hi
        /\ sequence_length(m) = 0 \/ \E a \in Nat : Carries(sender, m, a)
  BY DEF OutSegment
<1>3. sequence_length(seg) = sequence_length(m) BY <1>2 DEF sequence_length
<1>4. sequence_length(m) \in Nat BY <1>2, MessageLength
<1>5. after = [macs |-> k.macs, next |-> next1, ended |-> ended1, acked |-> acked1]
  <2>1. after = [k EXCEPT !.next = next1, !.ended = ended1, !.acked = acked1]
    BY DEF ServerAfter
  <2> HIDE DEF k, next1, ended1, acked1, after
  <2>2. k = [macs |-> k.macs, next |-> k.next, ended |-> k.ended, acked |-> k.acked] BY <1>1
  <2> QED BY <2>1, <2>2
<1>6. next1 \in Nat BY <1>1, <1>3, <1>4
<1>7. ended1 \in BOOLEAN /\ acked1 \in BOOLEAN BY <1>1
<1> HIDE DEF after, next1, ended1, acked1
<1>8. /\ after.macs = k.macs /\ after.next = next1 /\ after.ended = ended1
      /\ after.acked = acked1
  BY <1>5
<1>9. KernelOK(after) BY <1>5, <1>6, <1>7, <1>8 DEF KernelOK
<1> QED BY <1>8, <1>9 DEF after, next1, ended1

(***************************************************************************)
(* The server takes a segment only at its place, so it keeps a prefix of   *)
(* the stream and meets the end at the end.                                *)
(***************************************************************************)
LEMMA ServerTakes ==
  ASSUME NEW upto, Totals(upto), IInv(upto), NEW seg, OutSegment(seg, sender)
  PROVE  ServerOK(ServerAfter(seg), sender)
<1> DEFINE s == sender
           k == kernel
           takes == seg.seqno = wrap(k.next, LocalIsn)
           after == ServerAfter(seg)
           next1 == IF takes THEN k.next + sequence_length(seg) ELSE k.next
           ended1 == k.ended \/ (takes /\ seg.fin)
<1>1. s.snd_nxt \in Nat /\ s.snd_nxt < MODULUS /\ s.isn = LocalIsn
  BY WithinSpace DEF IInv, LoopInv
<1>2. /\ k.next \in Nat /\ k.next <= s.snd_nxt /\ k.ended \in BOOLEAN
      /\ k.ended => s.fin_sent /\ k.next = s.snd_nxt
  BY DEF IInv, LoopInv, KernelOK, ServerOK
<1>3. PICK m \in Messages :
        /\ seg.seqno = m.seqno /\ seg.syn = m.syn /\ seg.payload = m.payload /\ seg.fin = m.fin
        /\ m.payload.lo <= m.payload.hi
        /\ sequence_length(m) = 0 \/ \E a \in Nat : Carries(s, m, a)
  BY DEF OutSegment
<1>4. sequence_length(seg) = sequence_length(m) BY <1>3 DEF sequence_length
<1>5. /\ sequence_length(m) \in Nat /\ One(m.syn) \in Nat /\ One(m.fin) \in Nat
      /\ len(m.payload) \in Nat
      /\ sequence_length(m) = One(m.syn) + len(m.payload) + One(m.fin)
  BY <1>3, MessageLength
<1>6. m.fin \in BOOLEAN /\ (m.fin => One(m.fin) = 1) BY DEF Messages, One
<1>7. after.next = next1 /\ after.ended = ended1 BY ServerMoves DEF IInv
<1>8. MODULUS \in Nat /\ MODULUS > 0 /\ LocalIsn \in RawValues BY TapNumbers
<1> HIDE DEF after, s, k
<1>9. next1 \in Nat /\ next1 <= s.snd_nxt /\ (ended1 => s.fin_sent /\ next1 = s.snd_nxt)
  <2>1. CASE ~takes BY <2>1, <1>2
  <2>2. CASE takes /\ sequence_length(m) = 0
    <3>1. ~m.fin BY <2>2, <1>5, <1>6
    <3>2. ended1 = k.ended BY <3>1, <1>2, <1>3
    <3>3. next1 = k.next BY <2>2, <1>2, <1>4
    <3> QED BY <3>2, <3>3, <1>2
  <2>3. CASE takes /\ sequence_length(m) # 0
    <3>1. PICK a \in Nat : Carries(s, m, a) BY <2>3, <1>3
    <3>2. /\ m.seqno = wrap(a, LocalIsn) /\ a + sequence_length(m) <= s.snd_nxt
          /\ m.fin => s.fin_sent /\ a + sequence_length(m) = s.snd_nxt
      BY <3>1, <1>1 DEF Carries
    <3>3. wrap(a, LocalIsn) = wrap(k.next, LocalIsn) BY <2>3, <3>2, <1>3
    <3>4. PICK j \in Int : a = k.next + MODULUS * j BY <3>3, <1>2, <1>8, WrapEras
    <3>5. a = k.next
      <4>1. /\ j = 0 => MODULUS * j = 0
            /\ j >= 1 => MODULUS * j >= MODULUS
            /\ j <= -1 => MODULUS * j <= -MODULUS
            /\ MODULUS * j \in Int
        BY ErasApart
      <4> DEFINE w == MODULUS * j
      <4>2. a = k.next + w /\ w \in Int /\ (w = 0 \/ w >= MODULUS \/ w <= -MODULUS)
        BY <4>1, <3>4
      <4> HIDE DEF w
      <4> QED BY <4>2, <3>2, <1>1, <1>2, <1>5, <1>8
    <3>6. next1 = a + sequence_length(m) BY <2>3, <3>5, <1>4
    <3>7. ~k.ended BY <2>3, <3>2, <3>5, <1>1, <1>2, <1>5
    <3>8. ended1 => m.fin BY <3>7, <1>3
    <3> HIDE DEF next1, ended1
    <3> QED BY <3>2, <3>6, <3>8, <1>5
  <2> QED BY <2>1, <2>2, <2>3
<1> QED BY <1>7, <1>9 DEF ServerOK, after, s
-----------------------------------------------------------------------------
(* Frames that are taken from the link, are put on it, or are written in part. *)
LEMMA InFramesQueue ==
  ASSUME NEW q, InFrames(q)
  PROVE  /\ q # <<>> => InFrame(Head(q)) /\ InFrames(Tail(q))
         /\ \A f : InFrame(f) => InFrames(Append(q, f))
<1>1. IsList(q) /\ \A i \in 1 .. Len(q) : InFrame(q[i]) BY DEF InFrames
<1>2. ASSUME q # <<>> PROVE InFrame(Head(q)) /\ InFrames(Tail(q))
  <2>1. /\ IsList(Tail(q)) /\ Len(q) \in Nat /\ Len(q) > 0 /\ Len(Tail(q)) = Len(q) - 1
        /\ Head(q) = q[1] /\ \A i \in 1 .. Len(q) - 1 : Tail(q)[i] = q[i + 1]
    BY <1>1, <1>2, TailOfSeq
  <2>2. 1 \in 1 .. Len(q) /\ \A i \in 1 .. Len(q) - 1 : i + 1 \in 1 .. Len(q) BY <2>1
  <2> QED BY <1>1, <2>1, <2>2 DEF InFrames
<1>3. ASSUME NEW f, InFrame(f) PROVE InFrames(Append(q, f))
  <2>1. /\ IsList(Append(q, f)) /\ Len(q) \in Nat /\ Len(Append(q, f)) = Len(q) + 1
        /\ Append(q, f)[Len(q) + 1] = f
        /\ \A k \in 1 .. Len(q) : Append(q, f)[k] = q[k]
    BY <1>1, AppendToSeq
  <2>2. ASSUME NEW k \in 1 .. Len(Append(q, f)) PROVE InFrame(Append(q, f)[k])
    <3>1. k = Len(q) + 1 \/ k \in 1 .. Len(q) BY <2>1
    <3> QED BY <3>1, <1>1, <1>3, <2>1, Zenon
  <2> QED BY <2>1, <2>2 DEF InFrames
<1> QED BY <1>2, <1>3

LEMMA OutFramesQueue ==
  ASSUME NEW q, NEW s, OutFrames(q, s)
  PROVE  /\ q # <<>> => OutFrame(Head(q), s) /\ OutFrames(Tail(q), s)
         /\ \A n \in 0 .. Len(q) : OutFrames(SubSeq(q, 1, n), s)
<1>1. IsList(q) /\ \A i \in 1 .. Len(q) : OutFrame(q[i], s) BY DEF OutFrames
<1>2. ASSUME q # <<>> PROVE OutFrame(Head(q), s) /\ OutFrames(Tail(q), s)
  <2>1. /\ IsList(Tail(q)) /\ Len(q) \in Nat /\ Len(q) > 0 /\ Len(Tail(q)) = Len(q) - 1
        /\ Head(q) = q[1] /\ \A i \in 1 .. Len(q) - 1 : Tail(q)[i] = q[i + 1]
    BY <1>1, <1>2, TailOfSeq
  <2>2. 1 \in 1 .. Len(q) /\ \A i \in 1 .. Len(q) - 1 : i + 1 \in 1 .. Len(q) BY <2>1
  <2> QED BY <1>1, <2>1, <2>2 DEF OutFrames
<1>3. ASSUME NEW n \in 0 .. Len(q) PROVE OutFrames(SubSeq(q, 1, n), s)
  <2>1. /\ IsList(SubSeq(q, 1, n)) /\ Len(q) \in Nat /\ Len(SubSeq(q, 1, n)) = n
        /\ \A i \in 1 .. n : SubSeq(q, 1, n)[i] = q[i]
    BY <1>1, PrefixOfSeq
  <2>2. \A i \in 1 .. n : i \in 1 .. Len(q) BY <2>1
  <2> QED BY <1>1, <2>1, <2>2 DEF OutFrames
<1> QED BY <1>2, <1>3

(* Nothing is on the link at first. *)
LEMMA NoFrames ==
  ASSUME NEW q, q = <<>>, NEW s
  PROVE  InFrames(q) /\ OutFrames(q, s) /\ InDatagrams(q)
BY EmptyIsSeq DEF InFrames, OutFrames, InDatagrams

(* What the server answers makes sense to the host. *)
LEMMA AnswerIsFeedback ==
  ASSUME NEW k, KernelOK(k)
  PROVE  InDatagram(Datagram(PeerIp, LocalIp, "TCP", ServerAnswer(k)))
<1> DEFINE a == ServerAnswer(k)
           d == Datagram(PeerIp, LocalIp, "TCP", a)
<1>1. d.protocol = "TCP" /\ d.payload = a BY DEF Datagram
<1>2. a.ackno = wrap(k.next, LocalIsn) /\ a.window_size = PEER_WINDOW /\ a.rst = FALSE
  BY DEF ServerAnswer, from_messages, SenderMessage, ReceiverMessage
<1>3. wrap(k.next, LocalIsn) \in RawValues BY TapNumbers, WrapEras DEF KernelOK
<1> HIDE DEF a, d
<1>4. to_receiver_message(a) \in Feedback
  BY <1>2, <1>3, TapNumbers DEF to_receiver_message, ReceiverMessage, Feedback
<1> QED BY <1>1, <1>4 DEF InDatagram, a, d

(***************************************************************************)
(* The program before its loop: nothing was written, and the SYN waits for *)
(* the peer's address.                                                     *)
(***************************************************************************)
LEMMA NewProgram ==
  LET p == new_program(LocalMac, new_host(LocalIp, PeerIp, Connection))
      s == p.host.connection.sender IN
  /\ ProgramOK(p) /\ s.isn = LocalIsn /\ s.snd_nxt \in Nat
  /\ s.outbound.bytes_pushed = 0 /\ s.outbound.closed = FALSE
<1> DEFINE c == Connection
           h == new_host(LocalIp, PeerIp, c)
           i == new_interface(LocalMac, LocalIp)
           f == <<>>
           m == EmptyMap
           z == [interface |-> i, host |-> h]
           x == flush_sender(c)
           r == wrap_tcp_segments(h, x)
           p == new_program(LocalMac, h)
           s == p.host.connection.sender
<1>1. /\ c = [local_port |-> c.local_port, peer_port |-> c.peer_port,
              sender |-> c.sender, receiver |-> c.receiver]
      /\ c.sender = new_sender(SENDER_CAPACITY, LocalIsn)
  BY DEF Connection, new_connection
<1>2. SenderOK(c.sender) /\ c.sender.isn = LocalIsn /\ c.sender.outbound = new_stream(SENDER_CAPACITY)
  <2>1. SENDER_CAPACITY \in Nat /\ LocalIsn \in RawValues BY TapNumbers
  <2> HIDE DEF c
  <2> QED BY <1>1, <2>1, NewSender
<1>3. ConnectionOK(c) BY <1>1, <1>2 DEF ConnectionOK
<1>4. c.sender.outbound.bytes_pushed = 0 /\ c.sender.outbound.closed = FALSE
  BY <1>2 DEF new_stream
<1>5. h.connection = c /\ h.local_ip = LocalIp
      /\ h = [local_ip |-> h.local_ip, peer_ip |-> h.peer_ip, connection |-> h.connection]
  BY DEF new_host
<1>6. HostOK(h) BY <1>3, <1>5 DEF HostOK
<1>7. InFrames(f) /\ OutFrames(f, c.sender) /\ InDatagrams(f) BY NoFrames
<1>8. Queues(m, c.sender) BY DEF Queues, EmptyMap
<1>9. i = [ethernet_address |-> LocalMac, ip_address |-> LocalIp, arp_cache |-> m,
           pending |-> m, frames_out |-> f, datagrams_in |-> f]
  BY DEF new_interface
<1>10. p = send_host_output_to_interface(z, r)
  BY <1>5 DEF new_program, host_connect, connect
<1> HIDE DEF f, m, i, c
<1>11. InterfaceOK(i, c.sender) BY <1>7, <1>8, <1>9 DEF InterfaceOK
<1>12. z.interface = i OBVIOUS
<1>13. Emits(c.sender, x) /\ SameInput(c.sender, x.conn.sender) BY <1>3, FlushEmits
<1> HIDE DEF h, x, z
<1>14. HostEmits(h, r) /\ r.host.connection = x.conn BY <1>5, <1>6, <1>13, HostActs
<1> HIDE DEF r, p
<1>15. ProgramOK(p) /\ p.host = r.host
  BY <1>5, <1>6, <1>10, <1>11, <1>12, <1>14, HandOverHolds
<1>16. s = x.conn.sender BY <1>14, <1>15
<1>17. s.isn = LocalIsn BY <1>2, <1>13, <1>16 DEF Emits, Grows
<1>18. s.outbound.bytes_pushed = 0 /\ s.outbound.closed = FALSE
  BY <1>4, <1>13, <1>16 DEF SameInput
<1>19. s.snd_nxt \in Nat
  <2>1. s \in Senders BY <1>13, <1>16 DEF Emits, ConnectionOK, SenderOK, Placed
  <2> QED BY <2>1, SenderNumbers
<1> QED BY <1>15, <1>17, <1>18, <1>19 DEF p, h, c

LEMMA InitInv ==
  ASSUME Init
  PROVE  LoopInv /\ \A upto : Totals(upto) => IInv(upto)
<1> DEFINE s == sender
<1>1. /\ ProgramOK(program) /\ s.isn = LocalIsn /\ s.snd_nxt \in Nat
      /\ s.outbound.bytes_pushed = 0 /\ s.outbound.closed = FALSE
  BY NewProgram DEF Init, sender
<1>2. /\ typed = 0 /\ channel = <<>> /\ phase = "flush" /\ to_host = <<>> /\ to_kernel = <<>>
      /\ kernel = [macs |-> PeerMacs, next |-> 0, ended |-> FALSE, acked |-> FALSE]
  BY DEF Init
<1>3. IsList(channel) /\ Len(channel) = 0 BY <1>2, EmptyIsSeq
<1>4. Len(Lines) \in Nat BY TapNumbers
<1> HIDE DEF s
<1>5. EventsOK(s.outbound) BY <1>1, <1>2, <1>3, <1>4 DEF EventsOK
<1>6. KernelOK(kernel) /\ kernel.next = 0 /\ kernel.ended = FALSE BY <1>2 DEF KernelOK
<1>7. InFrames(to_host) /\ OutFrames(to_kernel, s) BY <1>2, NoFrames
<1>8. LoopInv BY <1>1, <1>2, <1>5, <1>6, <1>7 DEF LoopInv, s
<1>9. ServerOK(kernel, s) BY <1>1, <1>6 DEF ServerOK
<1>10. ASSUME NEW upto, Totals(upto) PROVE InputOK(s.outbound, upto)
  <2>1. Taken = 0
    <3>1. typed = 0 BY <1>2
    <3> QED BY <3>1, <1>3 DEF Taken
  <2>2. min(Taken, Len(Lines)) = 0 BY <2>1, <1>4 DEF min
  <2> QED BY <2>2, <1>1, <1>10 DEF InputOK, Totals
<1> QED BY <1>8, <1>9, <1>10 DEF IInv, s
-----------------------------------------------------------------------------
(* The server's place remains right while the sender goes on. *)
LEMMA ServerOn ==
  ASSUME NEW k, KernelOK(k), NEW s \in Senders, NEW t \in Senders, Grows(s, t), ServerOK(k, s)
  PROVE  ServerOK(k, t)
<1>1. s.snd_nxt \in Nat /\ t.snd_nxt \in Nat /\ k.next \in Nat BY SenderNumbers DEF KernelOK
<1> QED BY <1>1 DEF ServerOK, Grows

(* What a step leaves behind. *)
Kept == LoopInv' /\ \A upto : Totals(upto) /\ IInv(upto) => IInv(upto)'

(* The sender of a program that is in order. *)
LEMMA ItsSender ==
  ASSUME NEW p, ProgramOK(p)
  PROVE  LET s == p.host.connection.sender IN
         s \in Senders /\ SenderOK(s) /\ Grows(s, s)
<1> DEFINE s == p.host.connection.sender
<1>1. SenderOK(s) BY DEF ProgramOK, HostOK, ConnectionOK
<1> HIDE DEF s
<1>2. s \in Senders BY <1>1 DEF SenderOK, Placed
<1>3. Grows(s, s) BY <1>2, GrowsOrder
<1> QED BY <1>1, <1>2, <1>3 DEF s

(* A step of the loop that takes no event. *)
LEMMA LoopGoesOn ==
  ASSUME LoopInv, Runs(program, program'), channel' = channel, typed' = typed,
         kernel' = kernel, phase' \in {"frames", "events", "clock", "flush", "exited"},
         InFrames(to_host'), OutFrames(to_kernel', sender')
  PROVE  Kept
<1>1. /\ ProgramOK(program) /\ ProgramOK(program') /\ Grows(sender, sender')
      /\ SameInput(sender, sender')
  BY DEF LoopInv, Runs, sender
<1>2. sender \in Senders /\ sender' \in Senders
  <2>1. program.host.connection.sender \in Senders
        /\ program'.host.connection.sender \in Senders
    BY <1>1, ItsSender
  <2> QED BY <2>1 DEF sender
<1>3. sender'.isn = LocalIsn BY <1>1 DEF LoopInv, Grows
<1>4. /\ sender'.outbound.bytes_pushed = sender.outbound.bytes_pushed
      /\ sender'.outbound.closed = sender.outbound.closed
  BY <1>1 DEF SameInput
<1>5. Taken' = Taken BY DEF Taken
<1>6. EventsOK(sender.outbound)' BY <1>4, <1>5 DEF LoopInv, EventsOK
<1>7. KernelOK(kernel) /\ KernelOK(kernel)' BY DEF LoopInv
<1>8. LoopInv' BY <1>1, <1>3, <1>6, <1>7 DEF LoopInv
<1>9. ASSUME NEW upto, IInv(upto) PROVE IInv(upto)'
  <2>1. InputOK(sender.outbound, upto) /\ ServerOK(kernel, sender) BY <1>9 DEF IInv
  <2>2. ServerOK(kernel, sender') BY <2>1, <1>1, <1>2, <1>7, ServerOn
  <2>3. InputOK(sender.outbound, upto)' BY <2>1, <1>4, <1>5 DEF InputOK
  <2> QED BY <1>8, <2>2, <2>3 DEF IInv
<1> QED BY <1>8, <1>9 DEF Kept

(* Frames that were written stay what they were. *)
LEMMA WrittenOn ==
  ASSUME LoopInv, Runs(program, program')
  PROVE  OutFrames(to_kernel, sender')
<1>1. ProgramOK(program) /\ ProgramOK(program') /\ Grows(sender, sender')
      /\ OutFrames(to_kernel, sender)
  BY DEF LoopInv, Runs, sender
<1>2. sender \in Senders /\ sender' \in Senders
  <2>1. program.host.connection.sender \in Senders
        /\ program'.host.connection.sender \in Senders
    BY <1>1, ItsSender
  <2> QED BY <2>1 DEF sender
<1> QED BY <1>1, <1>2, InterfaceOn

LEMMA ReadFrameKeeps ==
  ASSUME LoopInv, ReadFrame
  PROVE  Kept
<1>1. /\ to_host # <<>> /\ program' = receive_frame(program, Head(to_host))
      /\ to_host' = Tail(to_host) /\ phase' = phase /\ channel' = channel
      /\ to_kernel' = to_kernel /\ typed' = typed /\ kernel' = kernel
  BY DEF ReadFrame, would_block, environment
<1>2. InFrame(Head(to_host)) /\ InFrames(to_host') BY <1>1, InFramesQueue DEF LoopInv
<1>3. Runs(program, program') BY <1>1, <1>2, FrameRuns DEF LoopInv
<1>4. OutFrames(to_kernel', sender') BY <1>1, <1>3, WrittenOn
<1>5. phase' \in {"frames", "events", "clock", "flush", "exited"} BY <1>1 DEF LoopInv
<1> QED BY <1>1, <1>2, <1>3, <1>4, <1>5, LoopGoesOn

LEMMA ClockKeeps ==
  ASSUME LoopInv, NEW e \in {0, 1}, Clock(e)
  PROVE  Kept
<1>1. /\ program' = program_tick(program, e) /\ phase' = "flush" /\ channel' = channel
      /\ to_host' = to_host /\ to_kernel' = to_kernel /\ typed' = typed /\ kernel' = kernel
  BY DEF Clock, environment
<1>2. Runs(program, program')
  <2>1. CASE e = 0
    <3>1. program' = program BY <1>1, <2>1 DEF program_tick
    <3> QED BY <3>1, RunsOrder DEF LoopInv
  <2>2. CASE e = 1 BY <1>1, <2>2, TickRuns DEF LoopInv
  <2> QED BY <2>1, <2>2
<1>3. OutFrames(to_kernel', sender') BY <1>1, <1>2, WrittenOn
<1>4. InFrames(to_host') BY <1>1 DEF LoopInv
<1> QED BY <1>1, <1>2, <1>3, <1>4, LoopGoesOn

(* Steps of the loop, or of the link, that leave the program alone. *)
LEMMA ProgramRests ==
  ASSUME LoopInv, program' = program, channel' = channel, typed' = typed,
         kernel' = kernel, phase' \in {"frames", "events", "clock", "flush", "exited"},
         InFrames(to_host'), OutFrames(to_kernel', sender)
  PROVE  Kept
<1>1. Runs(program, program') BY RunsOrder DEF LoopInv
<1>2. sender' = sender BY DEF sender
<1> QED BY <1>1, <1>2, LoopGoesOn

LEMMA FlushKeeps ==
  ASSUME LoopInv, Flush
  PROVE  Kept
<1> DEFINE i == program.interface
           f == <<>>
           j == [i EXCEPT !.frames_out = f]
<1>1. /\ to_kernel' = to_kernel \o i.frames_out /\ phase' = "frames" /\ channel' = channel
      /\ to_host' = to_host /\ typed' = typed /\ kernel' = kernel
  BY DEF Flush, write_frames, environment
<1>2. program' = [program EXCEPT !.interface = j] BY DEF Flush, flush_interface_frames
<1>3. ProgramOK(program) /\ InterfaceOK(i, sender) /\ OutFrames(to_kernel, sender)
  BY DEF LoopInv, ProgramOK, sender
<1>4. OutFrames(f, sender) BY NoFrames
<1> HIDE DEF f
<1>5. InterfaceOK(j, sender) BY <1>3, <1>4, WithFrames
<1> HIDE DEF j
<1>6. Runs(program, program') /\ program'.host = program.host
  BY <1>2, <1>3, <1>5, WithInterface DEF sender
<1>7. sender' = sender BY <1>6 DEF sender
<1>8. OutFrames(i.frames_out, sender) BY <1>3 DEF InterfaceOK
<1>9. OutFrames(to_kernel', sender') BY <1>1, <1>3, <1>7, <1>8, FramesJoined
<1>10. InFrames(to_host') BY <1>1 DEF LoopInv
<1> QED BY <1>1, <1>6, <1>9, <1>10, LoopGoesOn

LEMMA FailKeeps ==
  ASSUME LoopInv, NEW written \in 0 .. Len(program.interface.frames_out), Fail(written)
  PROVE  Kept
<1> DEFINE q == program.interface.frames_out
<1>1. /\ to_kernel' = to_kernel \o SubSeq(q, 1, written) /\ phase' = "exited"
      /\ channel' = channel /\ to_host' = to_host /\ typed' = typed /\ kernel' = kernel
      /\ program' = program
  BY DEF Fail, write_frames, environment
<1>2. OutFrames(q, sender) /\ OutFrames(to_kernel, sender) /\ InFrames(to_host)
  BY DEF LoopInv, ProgramOK, InterfaceOK, sender
<1>3. OutFrames(SubSeq(q, 1, written), sender) BY <1>2, OutFramesQueue
<1>4. OutFrames(to_kernel', sender) BY <1>1, <1>2, <1>3, FramesJoined
<1> QED BY <1>1, <1>2, <1>4, ProgramRests

(* A frame is lost on the link. *)
LEMMA LoseKeeps ==
  ASSUME LoopInv, Lose
  PROVE  Kept
<1>1. /\ program' = program /\ phase' = phase /\ channel' = channel
      /\ typed' = typed /\ kernel' = kernel
      /\ \/ to_host # <<>> /\ to_host' = Tail(to_host) /\ to_kernel' = to_kernel
         \/ to_kernel # <<>> /\ to_kernel' = Tail(to_kernel) /\ to_host' = to_host
  BY DEF Lose
<1>2. InFrames(to_host) /\ OutFrames(to_kernel, sender) BY DEF LoopInv
<1>3. InFrames(to_host') /\ OutFrames(to_kernel', sender)
  BY <1>1, <1>2, InFramesQueue, OutFramesQueue
<1>4. phase' \in {"frames", "events", "clock", "flush", "exited"} BY <1>1 DEF LoopInv
<1> QED BY <1>1, <1>3, <1>4, ProgramRests

(* The numbers of the events. *)
LEMMA EventNumbers ==
  ASSUME LoopInv
  PROVE  /\ typed \in Nat /\ typed <= Len(Lines) + 1 /\ Len(Lines) \in Nat
         /\ IsList(channel) /\ Len(channel) \in Nat /\ Len(channel) <= typed
         /\ Taken \in Nat /\ Taken = typed - Len(channel)
         /\ \A i \in 1 .. Len(channel) : channel[i] = Event(Taken + i)
         /\ sender.outbound.closed => Taken = Len(Lines) + 1
<1>1. /\ typed \in 0 .. Len(Lines) + 1 /\ IsList(channel) /\ Len(channel) <= typed
      /\ \A i \in 1 .. Len(channel) : channel[i] = Event(Taken + i)
      /\ sender.outbound.closed => Taken = Len(Lines) + 1
  BY DEF LoopInv, EventsOK
<1>2. Len(Lines) \in Nat BY TapNumbers
<1>3. Len(channel) \in Nat BY <1>1 DEF IsList
<1>4. typed \in Nat /\ typed <= Len(Lines) + 1 BY <1>1, <1>2
<1>5. Taken = typed - Len(channel) BY DEF Taken
<1>6. Taken \in Nat BY <1>1, <1>3, <1>4, <1>5
<1> QED BY <1>1, <1>2, <1>3, <1>4, <1>5, <1>6

(* Stdin's thread sends the next event. *)
LEMMA TypeKeeps ==
  ASSUME LoopInv, Type
  PROVE  Kept
<1> DEFINE e == Event(typed + 1)
           n == Len(channel)
<1>1. /\ typed <= Len(Lines) /\ typed' = typed + 1
      /\ channel' = Append(channel, IF typed < Len(Lines) THEN Data(Lines[typed + 1]) ELSE Close)
      /\ program' = program /\ phase' = phase /\ to_host' = to_host
      /\ to_kernel' = to_kernel /\ kernel' = kernel
  BY DEF Type
<1>2. /\ typed \in Nat /\ Len(Lines) \in Nat /\ IsList(channel)
      /\ n \in Nat /\ n <= typed /\ Taken \in Nat /\ Taken = typed - n
      /\ \A i \in 1 .. n : channel[i] = Event(Taken + i)
      /\ sender.outbound.closed => Taken = Len(Lines) + 1
  BY EventNumbers
<1>3. channel' = Append(channel, e)
  <2>1. typed < Len(Lines) <=> typed + 1 <= Len(Lines) BY <1>2
  <2> QED BY <2>1, <1>1 DEF Event
<1> HIDE DEF e
<1>4. /\ IsList(channel') /\ Len(channel') = n + 1 /\ channel'[n + 1] = e
      /\ \A i \in 1 .. n : channel'[i] = channel[i]
  BY <1>2, <1>3, AppendToSeq
<1> HIDE DEF n
<1>5. Taken' = Taken BY <1>1, <1>2, <1>4 DEF Taken
<1>6. sender' = sender BY <1>1 DEF sender
<1>7. ASSUME NEW i \in 1 .. n + 1 PROVE channel'[i] = Event(Taken + i)
  <2>1. i \in 1 .. n \/ i = n + 1 BY <1>2
  <2>2. Taken + (n + 1) = typed + 1 BY <1>2
  <2>3. channel'[n + 1] = Event(Taken + (n + 1)) BY <2>2, <1>4 DEF e
  <2> QED BY <2>1, <2>3, <1>2, <1>4
<1>8. typed' \in 0 .. Len(Lines) + 1 /\ Len(channel') <= typed' BY <1>1, <1>2, <1>4
<1>9. EventsOK(sender.outbound)' BY <1>2, <1>4, <1>5, <1>6, <1>7, <1>8 DEF EventsOK
<1>10. LoopInv' BY <1>1, <1>6, <1>9 DEF LoopInv
<1>11. ASSUME NEW upto, IInv(upto) PROVE IInv(upto)'
  BY <1>1, <1>5, <1>6, <1>10, <1>11 DEF IInv, InputOK
<1> QED BY <1>10, <1>11 DEF Kept

(***************************************************************************)
(* The loop takes an event: a line adds at most its size to what was       *)
(* written, and the end is the last event of all.                          *)
(***************************************************************************)
LEMMA TakeEventKeeps ==
  ASSUME LoopInv, TakeEvent
  PROVE  Kept
<1> DEFINE e == Head(channel)
           k == Taken + 1
           n == Len(channel)
           s == sender
           t == sender'
<1>1. /\ channel # <<>> /\ program' = handle_event(program, e) /\ channel' = Tail(channel)
      /\ phase' = phase /\ to_host' = to_host /\ to_kernel' = to_kernel
      /\ typed' = typed /\ kernel' = kernel
  BY DEF TakeEvent, try_recv, environment
<1>2. /\ typed \in Nat /\ typed <= Len(Lines) + 1 /\ Len(Lines) \in Nat
      /\ IsList(channel) /\ n \in Nat /\ n <= typed /\ Taken \in Nat /\ Taken = typed - n
      /\ \A i \in 1 .. n : channel[i] = Event(Taken + i)
      /\ s.outbound.closed => Taken = Len(Lines) + 1
  BY EventNumbers
<1>3. /\ IsList(channel') /\ n > 0 /\ Len(channel') = n - 1 /\ e = channel[1]
      /\ \A i \in 1 .. n - 1 : channel'[i] = channel[i + 1]
  BY <1>1, <1>2, TailOfSeq
<1>4. e = Event(k) BY <1>2, <1>3
<1> HIDE DEF e, n
<1>5. Taken' = k /\ k \in Nat /\ k >= 1 /\ k <= Len(Lines) + 1 BY <1>1, <1>2, <1>3 DEF Taken
<1>6. ASSUME NEW i \in 1 .. n - 1 PROVE channel'[i] = Event(k + i)
  <2>1. i + 1 \in 1 .. n BY <1>2
  <2>2. Taken + (i + 1) = k + i BY <1>2
  <2>3. channel[i + 1] = Event(Taken + (i + 1)) BY <2>1, <1>2
  <2> QED BY <2>2, <2>3, <1>3
<1>7. ~s.outbound.closed BY <1>2, <1>3
<1>8. ProgramOK(program) /\ s.isn = LocalIsn BY DEF LoopInv
<1>9. k <= Len(Lines) \/ k = Len(Lines) + 1 BY <1>2, <1>5
<1>10. k <= Len(Lines) =>
         /\ ProgramOK(program') /\ Grows(s, t) /\ t.outbound.closed = s.outbound.closed
         /\ s.outbound.bytes_pushed \in Nat /\ t.outbound.bytes_pushed \in Nat
         /\ t.outbound.bytes_pushed <= s.outbound.bytes_pushed + Lines[k]
  <2>1. SUFFICES ASSUME k <= Len(Lines)
                 PROVE  /\ ProgramOK(program') /\ Grows(s, t) /\ t.outbound.closed = s.outbound.closed
                        /\ s.outbound.bytes_pushed \in Nat /\ t.outbound.bytes_pushed \in Nat
                        /\ t.outbound.bytes_pushed <= s.outbound.bytes_pushed + Lines[k]
    OBVIOUS
  <2>2. Lines[k] \in Nat
    <3>1. k \in 1 .. Len(Lines) BY <1>2, <1>5, <2>1
    <3> QED BY <3>1, TapNumbers
  <2>3. program' = handle_event(program, Data(Lines[k])) BY <1>1, <1>4, <2>1 DEF Event
  <2> HIDE DEF k
  <2> QED BY <2>2, <2>3, <1>8, LineRuns DEF sender
<1>11. k = Len(Lines) + 1 =>
         /\ ProgramOK(program') /\ Grows(s, t)
         /\ t.outbound.bytes_pushed = s.outbound.bytes_pushed
  <2>1. SUFFICES ASSUME k = Len(Lines) + 1
                 PROVE  /\ ProgramOK(program') /\ Grows(s, t)
                        /\ t.outbound.bytes_pushed = s.outbound.bytes_pushed
    OBVIOUS
  <2>2. ~(k <= Len(Lines)) BY <2>1, <1>2
  <2>3. program' = handle_event(program, Close) BY <1>1, <1>4, <2>2 DEF Event
  <2> QED BY <2>3, <1>8, EndRuns DEF sender
<1> HIDE DEF k, s, t
<1>12. ProgramOK(program') /\ Grows(s, t) BY <1>9, <1>10, <1>11
<1>13. s \in Senders /\ t \in Senders BY <1>8, <1>12, ItsSender DEF s, t, sender
<1>14. OutFrames(to_kernel', t) BY <1>1, <1>12, <1>13, InterfaceOn DEF LoopInv, s
<1>15. t.isn = LocalIsn BY <1>8, <1>12 DEF Grows
<1>16. t.outbound.closed => k = Len(Lines) + 1 BY <1>7, <1>9, <1>10
<1>17. typed' \in 0 .. Len(Lines) + 1 /\ Len(channel') <= typed' BY <1>1, <1>2, <1>3
<1>18. EventsOK(sender.outbound)' BY <1>3, <1>5, <1>6, <1>16, <1>17 DEF EventsOK, t
<1>19. LoopInv' BY <1>1, <1>12, <1>14, <1>15, <1>18 DEF LoopInv, t
<1>20. ASSUME NEW upto, Totals(upto), IInv(upto) PROVE IInv(upto)'
  <2>1. /\ s.outbound.bytes_pushed <= upto[min(Taken, Len(Lines))] /\ ServerOK(kernel, s)
        /\ KernelOK(kernel)
    BY <1>20 DEF IInv, LoopInv, InputOK, s
  <2>2. ServerOK(kernel, t) BY <2>1, <1>12, <1>13, ServerOn
  <2>3. t.outbound.bytes_pushed <= upto[min(k, Len(Lines))]
    <3>1. CASE k <= Len(Lines)
      <4>1. min(k, Len(Lines)) = k /\ min(Taken, Len(Lines)) = k - 1
        BY <3>1, <1>2, <1>5 DEF min, k
      <4>2. k \in 1 .. Len(Lines) /\ k - 1 \in 0 .. Len(Lines) BY <3>1, <1>2, <1>5
      <4>3. /\ upto[k] = upto[k - 1] + Lines[k] /\ upto[k - 1] \in Nat
        BY <4>2, <1>20 DEF Totals
      <4>4. Lines[k] \in Nat BY <4>2, TapNumbers
      <4> DEFINE a == s.outbound.bytes_pushed
                 b == t.outbound.bytes_pushed
                 u == upto[k - 1]
                 l == Lines[k]
      <4>5. a <= u /\ b <= a + l /\ a \in Nat /\ b \in Nat /\ u \in Nat /\ l \in Nat
        BY <4>1, <4>3, <4>4, <2>1, <1>10, <3>1
      <4> HIDE DEF a, b, u, l
      <4>6. b <= u + l BY <4>5
      <4> QED BY <4>6, <4>1, <4>3 DEF b, u, l
    <3>2. CASE k = Len(Lines) + 1
      <4>1. min(k, Len(Lines)) = Len(Lines) /\ min(Taken, Len(Lines)) = Len(Lines)
        BY <3>2, <1>2, <1>5 DEF min, k
      <4> QED BY <4>1, <2>1, <3>2, <1>11
    <3> QED BY <1>9, <3>1, <3>2
  <2>4. InputOK(sender.outbound, upto)' BY <2>3, <1>5 DEF InputOK, t
  <2> QED BY <1>1, <1>19, <2>2, <2>4 DEF IInv, t
<1> QED BY <1>19, <1>20 DEF Kept

(* The kernel answers what it gets. *)
LEMMA KernelReceivesKeeps ==
  ASSUME LoopInv, KernelReceives
  PROVE  Kept
<1> DEFINE f == Head(to_kernel)
           seg == f.payload.payload
           after == ServerAfter(seg)
           arp == KernelFrame("ARP", ArpMessage("Reply", KernelMac, PeerIp, LocalIp))
           answer == Datagram(PeerIp, LocalIp, "TCP", ServerAnswer(after))
           tcp == KernelFrame("IPv4", answer)
<1>1. /\ to_kernel # <<>> /\ to_kernel' = Tail(to_kernel)
      /\ program' = program /\ phase' = phase /\ channel' = channel /\ typed' = typed
      /\ \/ kernel' = kernel /\ to_host' = to_host
         \/ kernel' = kernel /\ to_host' = Append(to_host, arp)
         \/ /\ f.ethertype = "IPv4" /\ kernel' = after
            /\ to_host' = to_host \/ to_host' = Append(to_host, tcp)
  BY DEF KernelReceives
<1>2. OutFrame(f, sender) /\ OutFrames(to_kernel', sender)
  BY <1>1, OutFramesQueue DEF LoopInv
<1>3. f.ethertype = "IPv4" => OutSegment(seg, sender) BY <1>2 DEF OutFrame
<1>4. InFrame(arp) BY DEF InFrame, KernelFrame, Frame
<1>5. tcp.payload = answer BY DEF KernelFrame, Frame
<1>6. InFrames(to_host) /\ KernelOK(kernel) BY DEF LoopInv
<1> HIDE DEF f, seg, after, arp, answer, tcp
<1>7. f.ethertype = "IPv4" => KernelOK(after) BY <1>3, ServerMoves DEF after
<1>8. KernelOK(after) => InFrame(tcp) BY <1>5, AnswerIsFeedback DEF answer, InFrame
<1>9. KernelOK(kernel') /\ InFrames(to_host') BY <1>1, <1>4, <1>6, <1>7, <1>8, InFramesQueue
<1>10. sender' = sender /\ Taken' = Taken BY <1>1 DEF sender, Taken
<1>11. EventsOK(sender.outbound)' BY <1>1, <1>10 DEF LoopInv, EventsOK
<1>12. LoopInv' BY <1>1, <1>2, <1>9, <1>10, <1>11 DEF LoopInv
<1>13. ASSUME NEW upto, Totals(upto), IInv(upto) PROVE IInv(upto)'
  <2>1. InputOK(sender.outbound, upto) /\ ServerOK(kernel, sender) BY <1>13 DEF IInv
  <2>2. f.ethertype = "IPv4" => ServerOK(after, sender) BY <1>3, <1>13, ServerTakes DEF after
  <2>3. ServerOK(kernel', sender) BY <1>1, <2>1, <2>2
  <2>4. InputOK(sender.outbound, upto)' BY <2>1, <1>10 DEF InputOK
  <2> QED BY <1>10, <1>12, <2>3, <2>4 DEF IInv
<1> QED BY <1>12, <1>13 DEF Kept

(* The kernel gets another Ethernet address. *)
LEMMA RenumberKeeps ==
  ASSUME LoopInv, Renumber
  PROVE  Kept
<1> DEFINE k == kernel
           m == Tail(kernel.macs)
<1>1. /\ kernel' = [k EXCEPT !.macs = m] /\ program' = program /\ phase' = phase
      /\ channel' = channel /\ typed' = typed /\ to_host' = to_host /\ to_kernel' = to_kernel
  BY DEF Renumber
<1>2. KernelOK(k) BY DEF LoopInv
<1> HIDE DEF k, m
<1>3. /\ KernelOK(kernel') /\ kernel'.next = k.next /\ kernel'.ended = k.ended
  BY <1>1, <1>2 DEF KernelOK
<1>4. sender' = sender /\ Taken' = Taken BY <1>1 DEF sender, Taken
<1>5. EventsOK(sender.outbound)' BY <1>1, <1>4 DEF LoopInv, EventsOK
<1>6. LoopInv' BY <1>1, <1>3, <1>4, <1>5 DEF LoopInv
<1>7. ASSUME NEW upto, IInv(upto) PROVE IInv(upto)'
  <2>1. InputOK(sender.outbound, upto) /\ ServerOK(k, sender) BY <1>7 DEF IInv, k
  <2>2. ServerOK(kernel', sender) BY <2>1, <1>3 DEF ServerOK
  <2>3. InputOK(sender.outbound, upto)' BY <2>1, <1>4 DEF InputOK
  <2> QED BY <1>4, <1>6, <2>2, <2>3 DEF IInv
<1> QED BY <1>6, <1>7 DEF Kept

LEMMA NextKeeps ==
  ASSUME LoopInv, [Next]_vars
  PROVE  Kept
<1>1. /\ phase \in {"frames", "events", "clock", "flush", "exited"}
      /\ InFrames(to_host) /\ OutFrames(to_kernel, sender)
  BY DEF LoopInv
<1>2. CASE ReadFrame BY <1>2, ReadFrameKeeps
<1>3. CASE NoMoreFrames BY <1>1, <1>3, ProgramRests DEF NoMoreFrames, environment
<1>4. CASE TakeEvent BY <1>4, TakeEventKeeps
<1>5. CASE NoMoreEvents BY <1>1, <1>5, ProgramRests DEF NoMoreEvents, environment
<1>6. CASE Clock(0) \/ Clock(1) BY <1>6, ClockKeeps
<1>7. CASE Flush BY <1>7, FlushKeeps
<1>8. CASE \E written \in 0 .. Len(program.interface.frames_out) : Fail(written)
  BY <1>8, FailKeeps
<1>9. CASE Type BY <1>9, TypeKeeps
<1>10. CASE KernelReceives BY <1>10, KernelReceivesKeeps
<1>11. CASE Lose BY <1>11, LoseKeeps
<1>12. CASE Renumber BY <1>12, RenumberKeeps
<1>13. CASE UNCHANGED vars BY <1>1, <1>13, ProgramRests DEF vars
<1> QED
  BY <1>2, <1>3, <1>4, <1>5, <1>6, <1>7, <1>8, <1>9, <1>10, <1>11, <1>12, <1>13
  DEF Next, LoopStep
-----------------------------------------------------------------------------
(* The invariant gives what EndMeansAll says. *)
LEMMA EndFollows ==
  ASSUME NEW upto, Totals(upto), IInv(upto)
  PROVE  EndMeansAll
<1> DEFINE s == sender
           o == s.outbound
<1>1. SenderOK(s) BY DEF IInv, LoopInv, ProgramOK, HostOK, ConnectionOK, sender
<1>2. s \in Senders /\ Accounting(s) /\ StreamOK(o) BY <1>1 DEF SenderOK, Placed
<1>3. /\ o.bytes_popped \in Nat /\ o.bytes_pushed \in Nat /\ o.bytes_buffered \in Nat
      /\ s.snd_nxt \in Nat /\ s.syn_sent \in BOOLEAN /\ s.fin_sent \in BOOLEAN
  BY <1>2, SenderNumbers
<1>4. o.bytes_popped + o.bytes_buffered = o.bytes_pushed BY <1>2 DEF StreamOK, Contiguous
<1>5. /\ typed \in Nat /\ typed <= Len(Lines) + 1 /\ Len(Lines) \in Nat
      /\ IsList(channel) /\ Len(channel) \in Nat /\ Taken = typed - Len(channel)
      /\ o.closed => Taken = Len(Lines) + 1
  BY EventNumbers DEF IInv
<1>6. kernel.ended => s.fin_sent /\ kernel.next = s.snd_nxt BY DEF IInv, ServerOK
<1> HIDE DEF o
<1>7. ASSUME o.closed PROVE typed = Len(Lines) + 1 /\ channel = <<>>
  <2>1. typed = Len(Lines) + 1 /\ Len(channel) = 0 BY <1>5, <1>7
  <2>2. channel = <<>>
    <3>1. PICK S : channel \in Seq(S) BY <1>5 DEF IsList
    <3> QED BY <3>1, <2>1
  <2> QED BY <2>1, <2>2
<1>8. ASSUME kernel.ended PROVE o.closed /\ kernel.next = o.bytes_pushed + 2
  <2>1. /\ s.fin_sent = TRUE /\ s.syn_sent = TRUE /\ stream_is_finished(o)
        /\ s.snd_nxt = One(s.syn_sent) + o.bytes_popped + One(s.fin_sent)
    BY <1>2, <1>3, <1>6, <1>8 DEF Accounting, o
  <2>2. o.closed /\ o.bytes_buffered = 0 BY <2>1 DEF stream_is_finished
  <2>3. s.snd_nxt = 1 + o.bytes_popped + 1 BY <2>1 DEF One
  <2> QED BY <2>2, <2>3, <1>3, <1>4, <1>6, <1>8
<1> QED BY <1>7, <1>8 DEF EndMeansAll, o

(***************************************************************************)
(* For every input that fits the sequence space: tap_host closes its       *)
(* stream only after the last of stdin's events, and a server that has     *)
(* seen the end has every byte the program accepted, whatever frames are   *)
(* lost or late, however often the kernel's address changes,               *)
(* queues expire and the window closes, and wherever an error of the       *)
(* device ends the program.                                                *)
(***************************************************************************)
THEOREM EndIsLast ==
  ASSUME ShortInput
  PROVE  Spec => []EndMeansAll
<1>1. PICK upto : Totals(upto) BY DEF ShortInput
<1>2. Init => IInv(upto) BY <1>1, InitInv
<1>3. IInv(upto) /\ [Next]_vars => IInv(upto)'
  <2>1. IInv(upto) => LoopInv BY DEF IInv
  <2> QED BY <1>1, <2>1, NextKeeps DEF Kept
<1>4. IInv(upto) => EndMeansAll BY <1>1, EndFollows
<1> QED BY <1>2, <1>3, <1>4, PTL DEF Spec

(***************************************************************************)
(* For every input: when the clock restarts the sender's timer, the oldest *)
(* unacknowledged segment is in a frame to be written or in a queue of the *)
(* interface.  tap_host's tick lets the interface age first, so the queue  *)
(* that expires at that moment is not the one the retransmission joins.    *)
(***************************************************************************)
THEOREM ResentIsHeld == Spec => RetransmissionIsHeld
<1> DEFINE A == phase = "clock" /\ sender.timer.running
                  /\ sender.timer' # sender.timer /\ sender.timer'.elapsed_ms = 0
                => \E d \in Held(program.interface') :
                     d.payload.seqno = Head(sender.outstanding').message.seqno
<1>1. Init => LoopInv BY InitInv
<1>2. LoopInv /\ [Next]_vars => LoopInv' BY NextKeeps DEF Kept
<1>3. LoopInv /\ [Next]_vars => [A]_vars
  <2>1. SUFFICES ASSUME LoopInv, [Next]_vars, phase = "clock", sender.timer.running,
                        sender.timer' # sender.timer, sender.timer'.elapsed_ms = 0
                 PROVE  \E d \in Held(program.interface') :
                          d.payload.seqno = Head(sender.outstanding').message.seqno
    OBVIOUS
  <2>2. program' # program BY <2>1 DEF sender
  <2>3. Clock(0) \/ Clock(1)
    BY <2>1, <2>2
    DEF Next, LoopStep, ReadFrame, NoMoreFrames, TakeEvent, NoMoreEvents, Flush, Fail,
        Type, KernelReceives, Lose, Renumber, vars
  <2>4. program' = program_tick(program, 1)
    <3>1. ~Clock(0) BY <2>2 DEF Clock, program_tick
    <3> QED BY <2>3, <3>1 DEF Clock
  <2>5. ProgramOK(program) BY <2>1 DEF LoopInv
  <2> QED BY <2>1, <2>4, <2>5, TickRuns DEF sender
<1> QED BY <1>1, <1>2, <1>3, PTL DEF Spec, RetransmissionIsHeld
=============================================================================

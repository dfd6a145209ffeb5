-------------------------- MODULE TcpNetworkProofs --------------------------
(***************************************************************************)
(* Two connections and a network that loses, repeats and delays: each      *)
(* direction is a reliable stream, for every window, capacity, payload     *)
(* size, initial number and number of faults.                              *)
(*                                                                         *)
(* The one hypothesis, ShortStreams, is the one that TCP makes.  The       *)
(* network may keep a segment for any time, so what a sequence number      *)
(* stands for is only clear if all of a stream lies within half of the     *)
(* sequence space (2^31 numbers in the code), across any number of wraps   *)
(* of the raw value.                                                       *)
(***************************************************************************)
EXTENDS TcpNetwork, EndpointLemmas

(* SYN, the bytes and FIN of each stream take at most half of the sequence space. *)
ShortStreams == \A e \in Endpoints : 2 * (StreamLength[e] + 2) <= MODULUS

(* An endpoint of this network as an end of a connection. *)
End(e) == [port |-> e, isn |-> ISN[e], length |-> StreamLength[e]]

(* A connection of endpoint e between two calls. *)
ConnectionOK(e, c) == Connected(End(e), End(Peer(e)), c)

(* The segment goes from endpoint e, connection c, to its peer. *)
SentBy(e, c, seg) == SegmentOf(End(e), End(Peer(e)), c, seg)

(***************************************************************************)
(* Endpoint e goes from c to d and emits `out': the connection is in       *)
(* order, its sender has only gone on, and every segment is its own, with  *)
(* RST only if the endpoint knows of a failure and always if its input has *)
(* failed.                                                                 *)
(***************************************************************************)
Emits(e, c, d, out) == Sends(End(e), End(Peer(e)), c, d, out)

(* The segments in the network. *)
Packets == Segments(Endpoints)

(* The inductive invariant. *)
IInv ==
  /\ conn = [e \in Endpoints |-> conn[e]] /\ net \in [Endpoints -> Seq(Packets)]
  /\ faults \in Nat /\ resets \in Nat
  /\ \A e \in Endpoints :
       /\ ConnectionOK(e, conn[e])
       /\ Follows(conn[e].receiver, conn[Peer(e)].sender)
       /\ \A i \in 1 .. Len(net[e]) : SentBy(Peer(e), conn[Peer(e)], net[e][i])
  /\ resets = 0 => \A e \in Endpoints :
       /\ Clean(conn[e], conn[Peer(e)])
       /\ \A i \in 1 .. Len(net[e]) : ~net[e][i].rst
-----------------------------------------------------------------------------
(* There are two endpoints, each the other's peer. *)
LEMMA TwoEnds ==
  ASSUME NEW e \in Endpoints
  PROVE  /\ Peer(e) \in Endpoints /\ Peer(e) # e /\ Peer(Peer(e)) = e
         /\ \A f \in Endpoints : f = e \/ f = Peer(e)
<1>1. PICK a \in Endpoints, b \in Endpoints : a # b /\ Endpoints = {a, b}
  BY NetworkAssumption DEF NetworkAssumption
<1>2. ASSUME NEW f \in Endpoints PROVE Peer(f) \in Endpoints /\ Peer(f) # f
  <2>1. \E p \in Endpoints : p # f BY <1>1
  <2> QED BY <2>1 DEF Peer
<1> QED BY <1>1, <1>2

(* The ends of this network. *)
LEMMA NetworkEnds ==
  ASSUME ShortStreams, NEW e \in Endpoints
  PROVE  /\ IsEnd(End(e)) /\ IsEnd(End(Peer(e)))
         /\ End(e).port = e /\ End(e).isn = ISN[e] /\ End(e).length = StreamLength[e]
         /\ StreamLength[e] \in Nat /\ ISN[e] \in RawValues
<1>1. Peer(e) \in Endpoints BY TwoEnds
<1>2. ASSUME NEW x \in Endpoints
      PROVE  /\ End(x).port = x /\ End(x).isn = ISN[x] /\ End(x).length = StreamLength[x]
             /\ ISN[x] \in RawValues /\ StreamLength[x] \in Nat
             /\ 2 * (StreamLength[x] + 2) <= MODULUS
  BY NetworkAssumption DEF NetworkAssumption, ShortStreams, End
<1>3. ASSUME NEW x \in Endpoints PROVE IsEnd(End(x)) BY <1>2 DEF IsEnd
<1> QED BY <1>1, <1>2, <1>3

(* What a connection of this network is. *)
LEMMA ConnectionFacts ==
  ASSUME NEW e \in Endpoints, NEW c
  PROVE  ConnectionOK(e, c) <=>
           /\ c = [local_port |-> e, peer_port |-> Peer(e),
                   sender |-> c.sender, receiver |-> c.receiver]
           /\ SenderOK(c.sender) /\ c.sender.isn = ISN[e]
           /\ c.sender.outbound.bytes_pushed <= StreamLength[e]
           /\ ReceiverOK(c.receiver)
BY DEF ConnectionOK, Connected, End

(* What a segment of this network is. *)
LEMMA SegmentFacts ==
  ASSUME NEW e \in Endpoints, NEW c, NEW seg
  PROVE  SentBy(e, c, seg) <=>
           /\ seg \in Packets /\ seg.src_port = e /\ seg.dst_port = Peer(e)
           /\ Genuine(seg, c.sender, c.receiver, ISN[Peer(e)])
<1>1. Endpoints = {e, Peer(e)} BY TwoEnds
<1>2. Segments({End(e).port, End(Peer(e)).port}) = Packets BY <1>1 DEF End, Packets
<1>3. End(e).port = e /\ End(Peer(e)).port = Peer(e) /\ End(Peer(e)).isn = ISN[Peer(e)]
  BY DEF End
<1> QED BY <1>2, <1>3 DEF SentBy, SegmentOf

(* What an endpoint of this network emits. *)
LEMMA EmitsFacts ==
  ASSUME NEW e \in Endpoints, NEW c, NEW d, NEW out
  PROVE  Emits(e, c, d, out) <=>
           /\ ConnectionOK(e, d) /\ Grows(c.sender, d.sender) /\ out \in Seq(Packets)
           /\ \A i \in 1 .. Len(out) :
                /\ SentBy(e, d, out[i]) /\ Reports(out[i], d.receiver)
                /\ out[i].rst => d.sender.outbound.error \/ d.receiver.reassembler.output.error
                /\ d.receiver.reassembler.output.error => out[i].rst
<1>1. Endpoints = {e, Peer(e)} BY TwoEnds
<1>2. Segments({End(e).port, End(Peer(e)).port}) = Packets BY <1>1 DEF End, Packets
<1> QED BY <1>2 DEF Emits, Sends, ConnectionOK, SentBy

(* Two fresh connections and an empty network. *)
LEMMA InitIInv == Init => IInv
<1> SUFFICES ASSUME Init PROVE IInv OBVIOUS
<1>1. /\ SENDER_CAPACITY \in Nat /\ RECEIVER_CAPACITY \in Nat
      /\ \A e \in Endpoints : ISN[e] \in RawValues /\ StreamLength[e] \in Nat
  BY NetworkAssumption DEF NetworkAssumption
<1>2. ASSUME NEW e \in Endpoints
      PROVE  /\ ConnectionOK(e, conn[e])
             /\ ~conn[e].sender.outbound.error /\ ~conn[e].receiver.reassembler.output.error
             /\ conn[e].sender.snd_una = 0 /\ conn[e].receiver.isn = None
             /\ conn[e].receiver.reassembler.eof_index = None
             /\ \A b \in Nat : ~Holds(conn[e].receiver.reassembler, b)
  <2>1. /\ End(e).port = e /\ End(e).isn = ISN[e] /\ End(e).length = StreamLength[e]
        /\ End(Peer(e)).port = Peer(e)
    BY DEF End
  <2>2. conn[e] = new_connection(End(e).port, End(Peer(e)).port, SENDER_CAPACITY,
                                 RECEIVER_CAPACITY, End(e).isn)
    BY <2>1 DEF Init
  <2> DEFINE x == End(e)
             y == End(Peer(e))
             k == new_connection(x.port, y.port, SENDER_CAPACITY, RECEIVER_CAPACITY, x.isn)
  <2>3. x.isn \in RawValues /\ x.length \in Nat BY <2>1, <1>1
  <2> HIDE DEF x, y
  <2>4. /\ Connected(x, y, k)
        /\ ~k.sender.outbound.error /\ ~k.receiver.reassembler.output.error
        /\ k.sender.snd_una = 0 /\ k.receiver.isn = None
        /\ k.receiver.reassembler.eof_index = None
        /\ \A b \in Nat : ~Holds(k.receiver.reassembler, b)
    BY <2>3, <1>1, ConnectionStarts
  <2>5. conn[e] = k BY <2>2 DEF x, y
  <2> HIDE DEF k
  <2>6. ConnectionOK(e, conn[e]) BY <2>4, <2>5 DEF ConnectionOK, x, y
  <2> QED BY <2>4, <2>5, <2>6
<1>3. /\ conn = [e \in Endpoints |-> conn[e]] /\ net \in [Endpoints -> Seq(Packets)]
      /\ faults \in Nat /\ resets \in Nat /\ \A e \in Endpoints : Len(net[e]) = 0
  BY DEF Init
<1>4. \A e \in Endpoints : Follows(conn[e].receiver, conn[Peer(e)].sender)
  BY <1>2 DEF Follows
<1>5. \A e \in Endpoints : Clean(conn[e], conn[Peer(e)])
  <2> SUFFICES ASSUME NEW e \in Endpoints PROVE Clean(conn[e], conn[Peer(e)]) OBVIOUS
  <2>1. Peer(e) \in Endpoints BY TwoEnds
  <2>2. Reached(conn[Peer(e)].receiver) = 0 BY <2>1, <1>2 DEF Reached
  <2> QED BY <2>2, <1>2 DEF Clean
<1>6. \A e \in Endpoints : \A i \in 1 .. Len(net[e]) : FALSE BY <1>3
<1>7. \A e \in Endpoints : ConnectionOK(e, conn[e]) BY <1>2
<1> QED BY <1>3, <1>4, <1>5, <1>6, <1>7 DEF IInv

(***************************************************************************)
(* What every action of an endpoint e does, seen from the other end: e     *)
(* becomes d and puts `out' on the network, at most a segment to e is      *)
(* gone, and without a reset nothing fails and only what the peer has is   *)
(* forgotten.                                                              *)
(***************************************************************************)
Runs(e, d, out) ==
  /\ conn' = [conn EXCEPT ![e] = d] /\ faults' = faults /\ resets' = resets
  /\ net' = [f \in Endpoints |-> net'[f]]
  /\ net'[e] \in {net[e], Tail(net[e])} /\ net'[Peer(e)] = net[Peer(e)] \o out
  /\ net'[e] # net[e] => net[e] # <<>>
  /\ Emits(e, conn[e], d, out)
  /\ KeepsInput(conn[e].receiver, d.receiver) /\ Follows(d.receiver, conn[Peer(e)].sender)
  /\ resets = 0 => Clean(d, conn[Peer(e)])

(* Such an action keeps the invariant. *)
LEMMA RunsKeep ==
  ASSUME ShortStreams, IInv, NEW e \in Endpoints, NEW d, NEW out, Runs(e, d, out)
  PROVE  IInv'
<1> DEFINE f == Peer(e)
           c == conn[e]
           p == conn[f]
<1>1. /\ f \in Endpoints /\ f # e /\ Peer(f) = e /\ \A x \in Endpoints : x = e \/ x = f
  BY TwoEnds
<1>2. /\ conn = [x \in Endpoints |-> conn[x]] /\ net \in [Endpoints -> Seq(Packets)]
      /\ faults \in Nat /\ resets \in Nat
      /\ ConnectionOK(e, c) /\ ConnectionOK(f, p)
      /\ Follows(c.receiver, p.sender) /\ Follows(p.receiver, c.sender)
      /\ \A i \in 1 .. Len(net[e]) : SentBy(f, p, net[e][i])
      /\ \A i \in 1 .. Len(net[f]) : SentBy(e, c, net[f][i])
  BY <1>1 DEF IInv
<1>3. /\ conn' = [conn EXCEPT ![e] = d] /\ faults' = faults /\ resets' = resets
      /\ net' = [x \in Endpoints |-> net'[x]]
      /\ net'[e] \in {net[e], Tail(net[e])} /\ net'[f] = net[f] \o out
      /\ net'[e] # net[e] => net[e] # <<>>
      /\ Emits(e, c, d, out)
      /\ KeepsInput(c.receiver, d.receiver) /\ Follows(d.receiver, p.sender)
      /\ resets = 0 => Clean(d, p)
  BY DEF Runs
<1> HIDE DEF c, p, f
<1>4. /\ conn' = [x \in Endpoints |-> conn'[x]] /\ conn'[e] = d /\ conn'[f] = p
  BY <1>1, <1>2, <1>3 DEF p
<1>5. /\ ConnectionOK(e, d) /\ Grows(c.sender, d.sender) /\ out \in Seq(Packets)
      /\ \A i \in 1 .. Len(out) :
           /\ SentBy(e, d, out[i])
           /\ out[i].rst => d.sender.outbound.error \/ d.receiver.reassembler.output.error
  BY <1>3, EmitsFacts
<1>6. /\ SenderOK(c.sender) /\ SenderOK(d.sender) /\ SenderOK(p.sender)
      /\ ReceiverOK(c.receiver) /\ ReceiverOK(p.receiver)
      /\ p.sender.outbound.bytes_pushed <= StreamLength[f]
  BY <1>1, <1>2, <1>5, ConnectionFacts
<1>7. Follows(p.receiver, d.sender) BY <1>2, <1>5, <1>6, FollowsOn
<1>8. /\ Reached(c.receiver) \in Nat /\ Reached(d.receiver) \in Nat
      /\ Reached(c.receiver) <= Reached(d.receiver)
  <2> DEFINE x == End(f)
  <2>1. IsEnd(x) /\ p.sender.outbound.bytes_pushed <= x.length BY <1>1, <1>6, NetworkEnds
  <2> HIDE DEF x
  <2> QED BY <2>1, <1>2, <1>3, <1>6, ReachedGrows
<1>9. \A i \in 1 .. Len(net[f]) : SentBy(e, d, net[f][i])
  BY <1>2, <1>5, <1>6, <1>8, SegmentKept DEF SentBy
<1>10. /\ net[e] \in Seq(Packets) /\ net[f] \in Seq(Packets) BY <1>1, <1>2
<1>11. /\ net'[e] \in Seq(Packets)
       /\ \A i \in 1 .. Len(net'[e]) : \E j \in 1 .. Len(net[e]) : net'[e][i] = net[e][j]
  <2>1. CASE net'[e] = net[e] BY <2>1, <1>10
  <2>2. CASE net'[e] # net[e]
    <3>1. net[e] # <<>> /\ net'[e] = Tail(net[e]) BY <2>2, <1>3
    <3>2. /\ Tail(net[e]) \in Seq(Packets) /\ Len(Tail(net[e])) = Len(net[e]) - 1
          /\ \A i \in 1 .. Len(Tail(net[e])) : Tail(net[e])[i] = net[e][i + 1]
      BY <3>1, <1>10
    <3>3. Len(net[e]) \in Nat BY <1>10
    <3>4. \A i \in 1 .. Len(Tail(net[e])) : i + 1 \in 1 .. Len(net[e])
      BY <3>2, <3>3
    <3> QED BY <3>1, <3>2, <3>4
  <2> QED BY <2>1, <2>2
<1>12. /\ net'[f] \in Seq(Packets)
       /\ \A i \in 1 .. Len(net'[f]) : \/ \E j \in 1 .. Len(net[f]) : net'[f][i] = net[f][j]
                                       \/ \E j \in 1 .. Len(out) : net'[f][i] = out[j]
  <2>1. /\ net[f] \o out \in Seq(Packets) /\ Len(net[f] \o out) = Len(net[f]) + Len(out)
        /\ Len(net[f]) \in Nat /\ Len(out) \in Nat
    BY <1>5, <1>10
  <2>2. ASSUME NEW i \in 1 .. Len(net[f] \o out)
        PROVE  \/ \E j \in 1 .. Len(net[f]) : (net[f] \o out)[i] = net[f][j]
               \/ \E j \in 1 .. Len(out) : (net[f] \o out)[i] = out[j]
    <3>1. CASE i <= Len(net[f]) BY <3>1, <2>1, <1>5, <1>10
    <3>2. CASE i > Len(net[f])
      <4>1. i - Len(net[f]) \in 1 .. Len(out) BY <3>2, <2>1
      <4>2. (net[f] \o out)[i] = out[i - Len(net[f])] BY <3>2, <4>1, <2>1, <1>5, <1>10
      <4> QED BY <4>1, <4>2
    <3>3. i \in Nat BY <2>1
    <3>4. i <= Len(net[f]) \/ i > Len(net[f]) BY <3>3, <2>1
    <3> QED BY <3>1, <3>2, <3>4, Zenon
  <2> QED BY <2>1, <2>2, <1>3
<1>13. net' \in [Endpoints -> Seq(Packets)] BY <1>1, <1>3, <1>11, <1>12
<1>14. /\ \A i \in 1 .. Len(net'[e]) : SentBy(f, p, net'[e][i])
       /\ \A i \in 1 .. Len(net'[f]) : SentBy(e, d, net'[f][i])
  BY <1>2, <1>5, <1>9, <1>11, <1>12
<1>15. resets = 0 => /\ Clean(d, p) /\ Clean(p, d)
                     /\ \A i \in 1 .. Len(net'[e]) : ~net'[e][i].rst
                     /\ \A i \in 1 .. Len(net'[f]) : ~net'[f][i].rst
  <2> SUFFICES ASSUME resets = 0
               PROVE  /\ Clean(d, p) /\ Clean(p, d)
                      /\ \A i \in 1 .. Len(net'[e]) : ~net'[e][i].rst
                      /\ \A i \in 1 .. Len(net'[f]) : ~net'[f][i].rst
    OBVIOUS
  <2>1. Clean(d, p) BY <1>3
  <2>2. /\ Clean(p, c) /\ \A i \in 1 .. Len(net[e]) : ~net[e][i].rst
        /\ \A i \in 1 .. Len(net[f]) : ~net[f][i].rst
    BY <1>1 DEF IInv, c, p
  <2>3. Clean(p, d)
    <3>1. p.sender.snd_una \in Nat
      <4>1. p.sender \in Senders BY <1>6 DEF SenderOK, Placed
      <4> QED BY <4>1, SenderNumbers
    <3> QED BY <3>1, <2>2, <1>8 DEF Clean
  <2>4. \A i \in 1 .. Len(out) : ~out[i].rst BY <2>1, <1>5 DEF Clean
  <2> QED BY <2>1, <2>2, <2>3, <2>4, <1>11, <1>12
<1>16. \A x \in Endpoints :
         /\ ConnectionOK(x, conn'[x])
         /\ Follows(conn'[x].receiver, conn'[Peer(x)].sender)
         /\ \A i \in 1 .. Len(net'[x]) : SentBy(Peer(x), conn'[Peer(x)], net'[x][i])
         /\ resets = 0 => /\ Clean(conn'[x], conn'[Peer(x)])
                          /\ \A i \in 1 .. Len(net'[x]) : ~net'[x][i].rst
  <2>1. Peer(e) = f BY DEF f
  <2> QED BY <2>1, <1>1, <1>2, <1>3, <1>4, <1>5, <1>7, <1>14, <1>15
<1> QED BY <1>2, <1>3, <1>4, <1>13, <1>16 DEF IInv

(* What the application of e may do to the stream it writes. *)
Writes(e, c, d) ==
  LET o == c.sender.outbound
      n == d.sender.outbound IN
  \/ n.bytes_pushed = o.bytes_pushed /\ n.closed = o.closed
  \/ ~o.closed /\ n.closed = o.closed /\ n.bytes_pushed \in o.bytes_pushed + 1 .. StreamLength[e]
  \/ ~o.closed /\ n.closed = TRUE /\ n.bytes_pushed = o.bytes_pushed

(* What it may do to the stream it reads: bytes are either read or assembled. *)
Reads(c, d) ==
  LET o == c.receiver.reassembler.output
      n == d.receiver.reassembler.output IN
  \/ n.bytes_popped = o.bytes_popped
  \/ /\ n.bytes_popped \in o.bytes_popped + 1 .. o.bytes_pushed
     /\ n.bytes_pushed = o.bytes_pushed /\ n.closed = o.closed

(* What its sender hears: nothing, or the feedback of the oldest segment to e. *)
Hears(e, s, t) ==
  \/ net'[e] = net[e] /\ SameFeedback(s, t)
  \/ /\ net[e] # <<>> /\ net'[e] = Tail(net[e])
     /\ ~Head(net[e]).rst => /\ t.snd_una = max(s.snd_una, AckOf(Head(net[e]), ISN[e]))
                             /\ t.advertised_window = Head(net[e]).window_size

(* An endpoint acts, and does what the two streams and its window allow. *)
Acts(e) == \E d, out :
  /\ Runs(e, d, out) /\ Writes(e, conn[e], d) /\ Reads(conn[e], d)
  /\ Hears(e, conn[e].sender, d.sender) /\ Paced(conn[e].sender, d.sender)

(* What an endpoint sends without a segment having come. *)
LEMMA SendRuns ==
  ASSUME ShortStreams, IInv, NEW e \in Endpoints, NEW r, Perform(e, r),
         faults' = faults, resets' = resets,
         Emits(e, conn[e], r.conn, r.out), r.conn.receiver = conn[e].receiver,
         SameFeedback(conn[e].sender, r.conn.sender),
         r.conn.sender.outbound.error = conn[e].sender.outbound.error
  PROVE  /\ Runs(e, r.conn, r.out) /\ Reads(conn[e], r.conn)
         /\ Hears(e, conn[e].sender, r.conn.sender)
<1> DEFINE d == r.conn
           f == Peer(e)
<1>1. f \in Endpoints /\ f # e BY TwoEnds
<1>2. /\ conn' = [conn EXCEPT ![e] = d] /\ net' = [net EXCEPT ![f] = @ \o r.out] BY DEF Perform
<1>3. /\ net \in [Endpoints -> Seq(Packets)] /\ ConnectionOK(e, conn[e])
      /\ Follows(conn[e].receiver, conn[f].sender)
      /\ resets = 0 => Clean(conn[e], conn[f])
  BY DEF IInv
<1> HIDE DEF f, d
<1>4. /\ net' = [x \in Endpoints |-> net'[x]] /\ net'[e] = net[e] /\ net'[f] = net[f] \o r.out
  BY <1>1, <1>2, <1>3
<1>5. KeepsInput(conn[e].receiver, d.receiver)
  <2>1. ReceiverOK(conn[e].receiver) BY <1>3, ConnectionFacts
  <2>2. Accepted(conn[e].receiver, conn[e].receiver, FALSE) BY <2>1, LeftAlone
  <2> QED BY <2>2 DEF Accepted, d
<1>6. resets = 0 => Clean(d, conn[f]) BY <1>3 DEF Clean, SameFeedback, d
<1>7. Runs(e, d, r.out) BY <1>2, <1>3, <1>4, <1>5, <1>6 DEF Runs, d, f
<1>8. Hears(e, conn[e].sender, d.sender) BY <1>4 DEF Hears, d
<1> QED BY <1>7, <1>8 DEF Reads, d

(* What the invariant says of e and of its peer. *)
LEMMA BothEnds ==
  ASSUME IInv, NEW e \in Endpoints
  PROVE  /\ ConnectionOK(e, conn[e]) /\ ConnectionOK(Peer(e), conn[Peer(e)])
         /\ Follows(conn[e].receiver, conn[Peer(e)].sender)
         /\ Follows(conn[Peer(e)].receiver, conn[e].sender)
         /\ \A i \in 1 .. Len(net[e]) : SentBy(Peer(e), conn[Peer(e)], net[e][i])
         /\ net[e] \in Seq(Packets) /\ net[Peer(e)] \in Seq(Packets)
<1>1. Peer(e) \in Endpoints /\ Peer(Peer(e)) = e BY TwoEnds
<1> QED BY <1>1 DEF IInv

(* connect. *)
LEMMA ConnectActs ==
  ASSUME ShortStreams, IInv, NEW e \in Endpoints, Connect(e)
  PROVE  Acts(e)
<1> DEFINE c == conn[e]
           r == flush_sender(c)
<1>1. Perform(e, r) /\ faults' = faults /\ resets' = resets BY DEF Connect, connect
<1>2. /\ Emits(e, c, r.conn, r.out) /\ r.conn.receiver = c.receiver
      /\ SameWriting(c.sender, r.conn.sender) /\ SameFeedback(c.sender, r.conn.sender)
      /\ Paced(c.sender, r.conn.sender)
  BY BothEnds, TwoEnds, NetworkEnds, FlushSends DEF ConnectionOK, Emits
<1> HIDE DEF r
<1>3. r.conn.sender.outbound.error = c.sender.outbound.error BY <1>2 DEF SameWriting
<1>4. /\ Runs(e, r.conn, r.out) /\ Reads(c, r.conn) /\ Hears(e, c.sender, r.conn.sender)
  BY <1>1, <1>2, <1>3, SendRuns
<1>5. Writes(e, c, r.conn) BY <1>2 DEF SameWriting, Writes
<1> QED BY <1>2, <1>4, <1>5 DEF Acts

(* tick. *)
LEMMA TickActs ==
  ASSUME ShortStreams, IInv, NEW e \in Endpoints, Tick(e)
  PROVE  Acts(e)
<1> DEFINE c == conn[e]
           r == connection_tick(c, 1)
<1>1. Perform(e, r) /\ faults' = faults /\ resets' = resets BY DEF Tick
<1>2. /\ Emits(e, c, r.conn, r.out) /\ r.conn.receiver = c.receiver
      /\ SameWriting(c.sender, r.conn.sender) /\ SameFeedback(c.sender, r.conn.sender)
      /\ Paced(c.sender, r.conn.sender)
  BY BothEnds, TwoEnds, NetworkEnds, TickSends DEF ConnectionOK, Emits
<1> HIDE DEF r
<1>3. r.conn.sender.outbound.error = c.sender.outbound.error BY <1>2 DEF SameWriting
<1>4. /\ Runs(e, r.conn, r.out) /\ Reads(c, r.conn) /\ Hears(e, c.sender, r.conn.sender)
  BY <1>1, <1>2, <1>3, SendRuns
<1>5. Writes(e, c, r.conn) BY <1>2 DEF SameWriting, Writes
<1> QED BY <1>2, <1>4, <1>5 DEF Acts

(* write: the stream takes some or none of the bytes it is offered. *)
LEMMA WriteActs ==
  ASSUME ShortStreams, IInv, NEW e \in Endpoints, Write(e)
  PROVE  Acts(e)
<1> DEFINE c == conn[e]
           s == c.sender
           next == s.outbound.bytes_pushed
<1>1. PICK n \in 1 .. StreamLength[e] - next : Perform(e, write(c, Bytes(next, next + n)))
  BY DEF Write, outbound
<1>2. faults' = faults /\ resets' = resets /\ ~s.outbound.closed BY DEF Write, outbound
<1> DEFINE r == write(c, Bytes(next, next + n))
<1>3. /\ Emits(e, c, r.conn, r.out) /\ r.conn.receiver = c.receiver
      /\ SameFeedback(s, r.conn.sender) /\ Paced(s, r.conn.sender)
      /\ \/ r.conn.sender.outbound.bytes_pushed = next
         \/ r.conn.sender.outbound.bytes_pushed \in next + 1 .. StreamLength[e]
      /\ r.conn.sender.outbound.closed = s.outbound.closed
      /\ r.conn.sender.outbound.error = s.outbound.error
  <2> DEFINE x == End(e)
             y == End(Peer(e))
             p == conn[Peer(e)]
  <2>1. /\ Connected(x, y, c) /\ Connected(y, x, p) /\ Follows(c.receiver, p.sender)
        /\ IsEnd(x) /\ IsEnd(y) /\ x.length = StreamLength[e]
    BY BothEnds, TwoEnds, NetworkEnds DEF ConnectionOK
  <2>2. n \in 1 .. x.length - c.sender.outbound.bytes_pushed BY <2>1
  <2> HIDE DEF x, y, p, c
  <2>3. /\ Sends(x, y, c, r.conn, r.out) /\ r.conn.receiver = c.receiver
        /\ SameFeedback(s, r.conn.sender) /\ Paced(s, r.conn.sender)
        /\ WroteOn(s, r.conn.sender, x.length)
    BY <2>1, <2>2, WriteSends
  <2> HIDE DEF r
  <2>4. Emits(e, c, r.conn, r.out) BY <2>3 DEF Emits, x, y
  <2> QED BY <2>1, <2>3, <2>4 DEF WroteOn
<1>4. Perform(e, r) BY <1>1
<1> HIDE DEF r
<1>5. /\ Runs(e, r.conn, r.out) /\ Reads(c, r.conn) /\ Hears(e, s, r.conn.sender)
  BY <1>2, <1>3, <1>4, SendRuns
<1>6. Writes(e, c, r.conn) BY <1>2, <1>3 DEF Writes
<1> QED BY <1>3, <1>5, <1>6 DEF Acts

(* close. *)
LEMMA CloseActs ==
  ASSUME ShortStreams, IInv, NEW e \in Endpoints, Close(e)
  PROVE  Acts(e)
<1> DEFINE c == conn[e]
           s == c.sender
           r == close(c)
<1>1. /\ Perform(e, r) /\ faults' = faults /\ resets' = resets /\ ~s.outbound.closed
  BY DEF Close, outbound
<1>2. /\ Emits(e, c, r.conn, r.out) /\ r.conn.receiver = c.receiver
      /\ SameFeedback(s, r.conn.sender) /\ Paced(s, r.conn.sender)
      /\ r.conn.sender.outbound.bytes_pushed = s.outbound.bytes_pushed
      /\ r.conn.sender.outbound.closed = TRUE
      /\ r.conn.sender.outbound.error = s.outbound.error
  <2> DEFINE x == End(e)
             y == End(Peer(e))
             p == conn[Peer(e)]
  <2>1. /\ Connected(x, y, c) /\ Connected(y, x, p) /\ Follows(c.receiver, p.sender)
        /\ IsEnd(x) /\ IsEnd(y)
    BY BothEnds, TwoEnds, NetworkEnds DEF ConnectionOK
  <2> HIDE DEF x, y, p, c
  <2>2. /\ Sends(x, y, c, r.conn, r.out) /\ r.conn.receiver = c.receiver
        /\ SameFeedback(s, r.conn.sender) /\ Paced(s, r.conn.sender)
        /\ ClosedIt(s, r.conn.sender)
    BY <2>1, CloseSends
  <2> HIDE DEF r
  <2>3. Emits(e, c, r.conn, r.out) BY <2>2 DEF Emits, x, y
  <2> QED BY <2>2, <2>3 DEF ClosedIt
<1> HIDE DEF r
<1>3. /\ Runs(e, r.conn, r.out) /\ Reads(c, r.conn) /\ Hears(e, s, r.conn.sender)
  BY <1>1, <1>2, SendRuns
<1>4. Writes(e, c, r.conn) BY <1>1, <1>2 DEF Writes
<1> QED BY <1>2, <1>3, <1>4 DEF Acts

(* read: nothing is sent. *)
LEMMA ReadActs ==
  ASSUME ShortStreams, IInv, NEW e \in Endpoints, Read(e)
  PROVE  Acts(e)
<1> DEFINE c == conn[e]
           rcv == c.receiver
           q == rcv.reassembler
           f == Peer(e)
           p == conn[f]
<1>1. PICK n \in 1 .. q.output.bytes_buffered : conn' = [conn EXCEPT ![e] = read(c, n)]
  BY DEF Read, inbound, receiver_output
<1>2. net' = net /\ faults' = faults /\ resets' = resets BY DEF Read
<1>3. f \in Endpoints /\ f # e BY TwoEnds
<1>4. /\ ConnectionOK(e, c) /\ Follows(rcv, p.sender) /\ net[f] \in Seq(Packets)
  BY BothEnds
<1>5. /\ c = [local_port |-> e, peer_port |-> f, sender |-> c.sender, receiver |-> rcv]
      /\ SenderOK(c.sender) /\ c.sender.isn = ISN[e]
      /\ c.sender.outbound.bytes_pushed <= StreamLength[e]
      /\ rcv = [reassembler |-> q, isn |-> rcv.isn] /\ Whole(q)
  BY <1>4, ConnectionFacts DEF ReceiverOK
<1>6. /\ q.output.bytes_buffered \in Nat /\ q.output.bytes_pushed \in Nat
      /\ q.output.bytes_popped \in Nat
  BY <1>5, SoundNumbers DEF Whole
<1>7. n \in Nat BY <1>6
<1> DEFINE o == stream_pop(q.output, n)
           u == [q EXCEPT !.output = o]
           t == [rcv EXCEPT !.reassembler = u]
           d == [c EXCEPT !.receiver = t]
<1>8. read(c, n) = d BY DEF read
<1>9. /\ Whole(u) /\ SameBytes(u, q) /\ u.output = o /\ u.eof_index = q.eof_index
      /\ o.bytes_pushed = q.output.bytes_pushed /\ o.capacity = q.output.capacity
      /\ o.bytes_popped >= q.output.bytes_popped
      /\ o.closed = q.output.closed /\ o.error = q.output.error
  BY <1>5, <1>7, PopKeepsWhole
<1> HIDE DEF u, o
<1>10. t = [reassembler |-> u, isn |-> rcv.isn] BY <1>5
<1> HIDE DEF t
<1>11. d = [local_port |-> e, peer_port |-> f, sender |-> c.sender, receiver |-> t] BY <1>5
<1> HIDE DEF d
<1>12. t.reassembler = u /\ t.isn = rcv.isn /\ d.sender = c.sender /\ d.receiver = t
  BY <1>10, <1>11
<1>13. ReceiverOK(t) BY <1>9, <1>10, <1>12 DEF ReceiverOK
<1>14. ConnectionOK(e, d) BY <1>5, <1>11, <1>12, <1>13, ConnectionFacts DEF f
<1>15. o.bytes_popped \in Nat /\ o.bytes_popped <= o.bytes_pushed /\ o.bytes_pushed \in Nat
  <2>1. /\ u.output.bytes_popped \in Nat /\ u.output.bytes_buffered \in Nat
        /\ u.output.bytes_pushed \in Nat /\ Contiguous(u.output)
    BY <1>9, SoundNumbers DEF Whole
  <2>2. o.bytes_popped + o.bytes_buffered = o.bytes_pushed BY <2>1, <1>9 DEF Contiguous
  <2> QED BY <2>1, <2>2, <1>9
<1>16. KeepsInput(rcv, t) BY <1>6, <1>9, <1>12, <1>13 DEF KeepsInput
<1>17. Follows(t, p.sender) BY <1>4, <1>9, <1>12 DEF Follows, SameBytes
<1>18. Emits(e, c, d, <<>>)
  <2>1. c.sender \in Senders BY <1>5 DEF SenderOK, Placed
  <2>2. Grows(c.sender, d.sender) BY <2>1, <1>12, GrowsOrder
  <2>3. /\ <<>> \in Seq(Packets) /\ \A i \in 1 .. Len(<<>>) : FALSE OBVIOUS
  <2> HIDE DEF c
  <2> QED BY <2>2, <2>3, <1>14, EmitsFacts
<1>19. resets = 0 => Clean(d, p)
  <2>1. resets = 0 => Clean(c, p) BY DEF IInv
  <2> QED BY <2>1, <1>9, <1>12 DEF Clean
<1>20. /\ net' = [x \in Endpoints |-> net'[x]] /\ net'[f] = net[f] \o <<>>
  BY <1>2, <1>4 DEF IInv
<1>21. Runs(e, d, <<>>)
  BY <1>1, <1>2, <1>8, <1>12, <1>16, <1>17, <1>18, <1>19, <1>20 DEF Runs
<1>22. Reads(c, d) BY <1>6, <1>9, <1>12, <1>15 DEF Reads
<1>23. Writes(e, c, d) BY <1>12 DEF Writes
<1>24. Hears(e, c.sender, d.sender) /\ Paced(c.sender, d.sender)
  BY <1>2, <1>12 DEF Hears, SameFeedback, Paced
<1> QED BY <1>21, <1>22, <1>23, <1>24 DEF Acts

(* receive_segment. *)
LEMMA DeliverActs ==
  ASSUME ShortStreams, IInv, NEW e \in Endpoints, Deliver(e)
  PROVE  Acts(e)
<1> DEFINE c == conn[e]
           f == Peer(e)
           p == conn[f]
           seg == Head(net[e])
           r == receive_segment(c, seg)
<1>1. /\ net[e] # <<>> /\ conn' = [conn EXCEPT ![e] = r.conn]
      /\ faults' = faults /\ resets' = resets
      /\ net' = [net EXCEPT ![e] = Tail(@), ![f] = @ \o r.out]
  BY DEF Deliver
<1>2. f \in Endpoints /\ f # e BY TwoEnds
<1>3. /\ ConnectionOK(e, c) /\ ConnectionOK(f, p) /\ Follows(c.receiver, p.sender)
      /\ Follows(p.receiver, c.sender)
      /\ \A i \in 1 .. Len(net[e]) : SentBy(f, p, net[e][i])
      /\ net[e] \in Seq(Packets) /\ net[f] \in Seq(Packets)
  BY BothEnds
<1>4. 1 \in 1 .. Len(net[e]) /\ seg = net[e][1] BY <1>1, <1>3
<1>5. SentBy(f, p, seg) /\ (resets = 0 => ~seg.rst) BY <1>3, <1>4 DEF IInv
<1> HIDE DEF seg, c, p
<1>6. /\ Emits(e, c, r.conn, r.out)
      /\ Accepted(c.receiver, r.conn.receiver, seg.rst) /\ Follows(r.conn.receiver, p.sender)
      /\ r.conn.sender.outbound.bytes_pushed = c.sender.outbound.bytes_pushed
      /\ r.conn.sender.outbound.closed = c.sender.outbound.closed
      /\ Paced(c.sender, r.conn.sender)
      /\ ~seg.rst =>
           /\ r.conn.sender.outbound.error = c.sender.outbound.error
           /\ r.conn.sender.snd_una = max(c.sender.snd_una, AckOf(seg, ISN[e]))
           /\ r.conn.sender.advertised_window = seg.window_size
      /\ ~seg.rst /\ c.sender.snd_una <= Reached(p.receiver) =>
           r.conn.sender.snd_una <= Reached(p.receiver)
  BY <1>3, <1>5, TwoEnds, NetworkEnds, ReceiveSends DEF ConnectionOK, SentBy, Emits
<1> HIDE DEF r
<1>7. resets = 0 => Clean(r.conn, p)
  <2>1. resets = 0 => Clean(c, p) BY DEF IInv, c, p
  <2> QED BY <2>1, <1>5, <1>6 DEF Clean, Accepted
<1>8. /\ net' = [x \in Endpoints |-> net'[x]] /\ net'[e] = Tail(net[e])
      /\ net'[f] = net[f] \o r.out
  <2>1. net \in [Endpoints -> Seq(Packets)] BY DEF IInv
  <2> QED BY <2>1, <1>1, <1>2
<1>9. Runs(e, r.conn, r.out) BY <1>1, <1>6, <1>7, <1>8 DEF Runs, Accepted, c, p
<1>10. Reads(c, r.conn) BY <1>6 DEF Reads, Accepted
<1>11. Writes(e, c, r.conn) BY <1>6 DEF Writes
<1>12. Hears(e, c.sender, r.conn.sender) BY <1>1, <1>6, <1>8 DEF Hears, seg
<1> QED BY <1>6, <1>9, <1>10, <1>11, <1>12 DEF Acts, c
-----------------------------------------------------------------------------
(* The network changes what is on its way to e, and no endpoint. *)
LEMMA NetworkKeeps ==
  ASSUME IInv, NEW e \in Endpoints, NEW new \in Seq(Packets),
         conn' = conn, net' = [net EXCEPT ![e] = new],
         faults' \in Nat, resets' \in Nat,
         \A i \in 1 .. Len(new) : SentBy(Peer(e), conn[Peer(e)], new[i]),
         resets' = 0 => resets = 0 /\ \A i \in 1 .. Len(new) : ~new[i].rst
  PROVE  IInv'
<1>1. /\ conn = [x \in Endpoints |-> conn[x]] /\ net \in [Endpoints -> Seq(Packets)]
      /\ \A x \in Endpoints :
           /\ ConnectionOK(x, conn[x])
           /\ Follows(conn[x].receiver, conn[Peer(x)].sender)
           /\ \A i \in 1 .. Len(net[x]) : SentBy(Peer(x), conn[Peer(x)], net[x][i])
      /\ resets = 0 => \A x \in Endpoints :
           /\ Clean(conn[x], conn[Peer(x)])
           /\ \A i \in 1 .. Len(net[x]) : ~net[x][i].rst
  BY DEF IInv
<1>2. /\ net' \in [Endpoints -> Seq(Packets)]
      /\ \A x \in Endpoints : net'[x] = IF x = e THEN new ELSE net[x]
  BY <1>1
<1>3. ASSUME NEW x \in Endpoints
      PROVE  /\ \A i \in 1 .. Len(net'[x]) : SentBy(Peer(x), conn[Peer(x)], net'[x][i])
             /\ resets' = 0 => \A i \in 1 .. Len(net'[x]) : ~net'[x][i].rst
  <2>1. CASE x = e
    <3>1. net'[x] = new BY <2>1, <1>2
    <3> QED BY <3>1, <2>1
  <2>2. CASE x # e
    <3>1. net'[x] = net[x] BY <2>2, <1>2
    <3> QED BY <3>1, <1>1
  <2> QED BY <2>1, <2>2
<1>4. conn' = [x \in Endpoints |-> conn'[x]] BY <1>1
<1>5. \A x \in Endpoints :
        /\ ConnectionOK(x, conn'[x])
        /\ Follows(conn'[x].receiver, conn'[Peer(x)].sender)
        /\ \A i \in 1 .. Len(net'[x]) : SentBy(Peer(x), conn'[Peer(x)], net'[x][i])
  BY <1>1, <1>3
<1>6. resets' = 0 => \A x \in Endpoints :
        /\ Clean(conn'[x], conn'[Peer(x)])
        /\ \A i \in 1 .. Len(net'[x]) : ~net'[x][i].rst
  BY <1>1, <1>3
<1> QED BY <1>2, <1>4, <1>5, <1>6 DEF IInv

(* A network that loses, repeats or delays adds no segment of its own. *)
LEMMA FaultKeeps ==
  ASSUME IInv, NEW e \in Endpoints, Lose(e) \/ Repeat(e) \/ Delay(e)
  PROVE  IInv' /\ conn' = conn /\ faults' # faults /\ faults' > 0
<1> DEFINE q == net[e]
<1>1. q # <<>> /\ q \in Seq(Packets) BY BothEnds DEF Lose, Repeat, Delay, Misbehave
<1>2. /\ Len(q) \in Nat /\ Len(q) >= 1 /\ Head(q) \in Packets /\ Head(q) = q[1]
      /\ Tail(q) \in Seq(Packets) /\ Len(Tail(q)) = Len(q) - 1
      /\ \A i \in 1 .. Len(q) - 1 : Tail(q)[i] = q[i + 1]
  BY <1>1
<1>3. ASSUME NEW new \in Seq(Packets), Misbehave(e, new),
             \A i \in 1 .. Len(new) : \E j \in 1 .. Len(q) : new[i] = q[j]
      PROVE  IInv' /\ conn' = conn /\ faults' # faults /\ faults' > 0
  <2>1. /\ conn' = conn /\ net' = [net EXCEPT ![e] = new]
        /\ faults' = faults + 1 /\ resets' = resets
    BY <1>3 DEF Misbehave
  <2>2. /\ faults \in Nat /\ resets \in Nat
        /\ \A j \in 1 .. Len(q) : SentBy(Peer(e), conn[Peer(e)], q[j])
        /\ resets = 0 => \A j \in 1 .. Len(q) : ~q[j].rst
    BY DEF IInv
  <2>3. /\ \A i \in 1 .. Len(new) : SentBy(Peer(e), conn[Peer(e)], new[i])
        /\ resets' = 0 => resets = 0 /\ \A i \in 1 .. Len(new) : ~new[i].rst
    BY <2>1, <2>2, <1>3
  <2>4. faults' \in Nat /\ faults' # faults /\ faults' > 0 BY <2>1, <2>2
  <2> QED BY <2>1, <2>2, <2>3, <2>4, NetworkKeeps
<1> HIDE DEF q
<1>4. \A i \in 1 .. Len(Tail(q)) : \E j \in 1 .. Len(q) : Tail(q)[i] = q[j]
  <2> SUFFICES ASSUME NEW i \in 1 .. Len(Tail(q))
               PROVE  \E j \in 1 .. Len(q) : Tail(q)[i] = q[j]
    OBVIOUS
  <2>1. i + 1 \in 1 .. Len(q) /\ Tail(q)[i] = q[i + 1] BY <1>2
  <2> QED BY <2>1
<1>5. ASSUME NEW base \in Seq(Packets),
             \A i \in 1 .. Len(base) : \E j \in 1 .. Len(q) : base[i] = q[j]
      PROVE  /\ Append(base, Head(q)) \in Seq(Packets)
             /\ \A i \in 1 .. Len(Append(base, Head(q))) :
                  \E j \in 1 .. Len(q) : Append(base, Head(q))[i] = q[j]
  <2> DEFINE new == Append(base, Head(q))
  <2>1. /\ new \in Seq(Packets) /\ Len(new) = Len(base) + 1 /\ Len(base) \in Nat
        /\ new[Len(base) + 1] = Head(q) /\ \A i \in 1 .. Len(base) : new[i] = base[i]
    BY <1>2
  <2> HIDE DEF new
  <2>2. ASSUME NEW i \in 1 .. Len(new) PROVE \E j \in 1 .. Len(q) : new[i] = q[j]
    <3>1. CASE i = Len(base) + 1
      <4>1. new[i] = q[1] /\ 1 \in 1 .. Len(q) BY <3>1, <2>1, <1>2
      <4> QED BY <4>1
    <3>2. CASE i # Len(base) + 1
      <4>1. i \in 1 .. Len(base) BY <3>2, <2>1
      <4> QED BY <4>1, <2>1, <1>5
    <3> QED BY <3>1, <3>2
  <2> QED BY <2>1, <2>2 DEF new
<1>6. CASE Lose(e) BY <1>2, <1>3, <1>4, <1>6 DEF Lose, q
<1>7. CASE Repeat(e)
  <2>1. \A i \in 1 .. Len(q) : \E j \in 1 .. Len(q) : q[i] = q[j] OBVIOUS
  <2>2. Misbehave(e, Append(q, Head(q))) BY <1>7 DEF Repeat, q
  <2> QED BY <2>1, <2>2, <1>1, <1>3, <1>5
<1>8. CASE Delay(e)
  <2>1. Misbehave(e, Append(Tail(q), Head(q))) BY <1>8 DEF Delay, q
  <2> QED BY <2>1, <1>2, <1>3, <1>4, <1>5
<1> QED BY <1>6, <1>7, <1>8

(* A reset of the peer's host: from here on resets is not zero. *)
LEMMA ResetKeeps ==
  ASSUME IInv, NEW e \in Endpoints, Reset(e)
  PROVE  IInv' /\ conn' = conn /\ resets' # resets /\ resets' > 0
<1> DEFINE f == Peer(e)
           seg == from_messages(f, e, SenderMessage(ISN[f], FALSE, NoBytes, FALSE, TRUE),
                                ReceiverMessage(None, 0, FALSE))
           new == Append(net[e], seg)
<1>1. /\ conn' = conn /\ net' = [net EXCEPT ![e] = new]
      /\ faults' = faults /\ resets' = resets + 1
  BY DEF Reset
<1>2. f \in Endpoints /\ Peer(f) = e BY TwoEnds
<1>3. ISN[f] \in RawValues BY <1>2, NetworkAssumption DEF NetworkAssumption
<1>4. seg = [src_port |-> f, dst_port |-> e, seqno |-> ISN[f], syn |-> FALSE,
             payload |-> [lo |-> 0, hi |-> 0], fin |-> FALSE, rst |-> TRUE,
             ackno |-> None, window_size |-> 0]
  BY DEF from_messages, SenderMessage, ReceiverMessage, NoBytes, Bytes
<1> HIDE DEF f, seg
<1>5. [lo |-> 0, hi |-> 0] \in ByteRuns BY DEF ByteRuns
<1>6. /\ seg \in Packets /\ seg.src_port = f /\ seg.dst_port = e /\ seg.rst
      /\ seg.ackno = None
  BY <1>2, <1>3, <1>4, <1>5 DEF Packets, Segments
<1>7. SentBy(f, conn[f], seg) BY <1>2, <1>6, SegmentFacts DEF Genuine
<1>8. /\ net[e] \in Seq(Packets) /\ faults \in Nat /\ resets \in Nat
      /\ \A i \in 1 .. Len(net[e]) : SentBy(f, conn[f], net[e][i])
  BY DEF IInv, f
<1>9. /\ new \in Seq(Packets) /\ Len(new) = Len(net[e]) + 1 /\ Len(net[e]) \in Nat
      /\ new[Len(net[e]) + 1] = seg /\ \A i \in 1 .. Len(net[e]) : new[i] = net[e][i]
  BY <1>6, <1>8
<1> HIDE DEF new
<1>10. \A i \in 1 .. Len(new) : SentBy(f, conn[f], new[i])
  <2> SUFFICES ASSUME NEW i \in 1 .. Len(new) PROVE SentBy(f, conn[f], new[i]) OBVIOUS
  <2>1. CASE i = Len(net[e]) + 1 BY <2>1, <1>7, <1>9
  <2>2. CASE i # Len(net[e]) + 1
    <3>1. i \in 1 .. Len(net[e]) BY <2>2, <1>9
    <3> QED BY <3>1, <1>8, <1>9
  <2> QED BY <2>1, <2>2
<1>11. faults' \in Nat /\ resets' \in Nat /\ resets' > 0 /\ resets' # resets BY <1>1, <1>8
<1>12. IInv'
  <2>1. resets' # 0 BY <1>11
  <2> QED BY <2>1, <1>1, <1>9, <1>10, <1>11, NetworkKeeps DEF f
<1> QED BY <1>1, <1>11, <1>12

(* Every step is one of an endpoint or of the network. *)
LEMMA NextKinds ==
  ASSUME ShortStreams, IInv, Next
  PROVE  /\ IInv'
         /\ \/ /\ conn' = conn /\ (faults' # faults \/ resets' # resets)
               /\ faults' > 0 \/ resets' > 0
            \/ \E e \in Endpoints : Acts(e)
<1>1. PICK e \in Endpoints :
        \/ Connect(e) \/ Write(e) \/ Close(e) \/ Read(e)
        \/ Deliver(e) \/ Tick(e)
        \/ Lose(e) \/ Repeat(e) \/ Delay(e) \/ Reset(e)
  BY DEF Next
<1>2. Acts(e) => IInv' BY RunsKeep DEF Acts
<1>3. CASE Connect(e) \/ Write(e) \/ Close(e) \/ Read(e) \/ Deliver(e) \/ Tick(e)
  <2>1. Acts(e)
    BY <1>3, ConnectActs, WriteActs, CloseActs, ReadActs, DeliverActs, TickActs
  <2> QED BY <2>1, <1>2
<1>4. CASE Lose(e) \/ Repeat(e) \/ Delay(e)
  BY <1>4, FaultKeeps
<1>5. CASE Reset(e) BY <1>5, ResetKeeps
<1> QED BY <1>1, <1>3, <1>4, <1>5

(* The invariant is inductive. *)
LEMMA StepIInv ==
  ASSUME ShortStreams, IInv, [Next]_vars
  PROVE  IInv'
<1>1. CASE Next BY <1>1, NextKinds
<1>2. CASE UNCHANGED vars BY <1>2 DEF vars, IInv
<1> QED BY <1>1, <1>2

LEMMA Invariant ==
  ASSUME ShortStreams
  PROVE  Spec => []IInv
<1>1. IInv /\ [Next]_vars => IInv' BY StepIInv
<1> QED BY <1>1, InitIInv, PTL DEF Spec
-----------------------------------------------------------------------------
(* The numbers of the two ends, as the properties use them. *)
LEMMA EndsAgree ==
  ASSUME ShortStreams, IInv, NEW e \in Endpoints
  PROVE  LET s == conn[e].sender
             o == conn[Peer(e)].receiver.reassembler.output IN
         /\ Peer(e) \in Endpoints /\ SenderOK(s)
         /\ Acknowledged(Peer(e)) \in Nat /\ Acknowledged(Peer(e)) <= s.snd_nxt
         /\ o.bytes_pushed \in Nat /\ o.bytes_popped \in Nat
         /\ o.bytes_pushed <= s.outbound.bytes_pushed /\ s.outbound.bytes_pushed \in Nat
         /\ o.closed \in BOOLEAN /\ s.outbound.closed \in BOOLEAN
         /\ o.closed => s.outbound.closed /\ o.bytes_pushed = s.outbound.bytes_pushed
         /\ Acknowledged(Peer(e)) = s.outbound.bytes_popped + 2 => o.closed
<1> DEFINE s == conn[e].sender
           rcv == conn[Peer(e)].receiver
           o == rcv.reassembler.output
<1>1. /\ Peer(e) \in Endpoints BY TwoEnds
<1>2. /\ ConnectionOK(e, conn[e]) /\ ConnectionOK(Peer(e), conn[Peer(e)]) /\ Follows(rcv, s)
  BY BothEnds
<1>3. /\ SenderOK(s) /\ s.outbound.bytes_pushed <= StreamLength[e] /\ ReceiverOK(rcv)
  BY <1>1, <1>2, ConnectionFacts
<1>4. s \in Senders BY <1>3 DEF SenderOK, Placed
<1>5. s.outbound.bytes_pushed \in Nat /\ s.outbound.closed \in BOOLEAN BY <1>4, SenderNumbers
<1>6. o.bytes_popped \in Nat /\ o.closed \in BOOLEAN
  BY <1>3, SoundNumbers DEF ReceiverOK, Whole
<1>7. Acknowledged(Peer(e)) = Reached(rcv) BY DEF Acknowledged, Reached
<1>8. /\ o.bytes_pushed \in Nat /\ o.bytes_pushed <= s.outbound.bytes_popped
      /\ s.outbound.bytes_popped \in Nat
      /\ s.outbound.bytes_popped <= s.outbound.bytes_pushed
      /\ s.snd_nxt \in Nat
      /\ Reached(rcv) \in Nat /\ Reached(rcv) <= s.snd_nxt
      /\ rcv.isn # None => Reached(rcv) = o.bytes_pushed + 1 + One(o.closed)
      /\ rcv.isn = None => Reached(rcv) = 0 /\ o.bytes_pushed = 0 /\ ~o.closed
      /\ o.closed => s.outbound.closed /\ o.bytes_pushed = s.outbound.bytes_pushed
  BY <1>2, <1>3, NetworkEnds, ReachedNumbers
<1> HIDE DEF o, s, rcv
<1>9. Reached(rcv) = s.outbound.bytes_popped + 2 => o.closed BY <1>8 DEF One
<1>10. o.bytes_pushed <= s.outbound.bytes_pushed BY <1>5, <1>8
<1> QED BY <1>1, <1>3, <1>5, <1>6, <1>7, <1>8, <1>9, <1>10 DEF o, s, rcv

(***************************************************************************)
(* Whatever the network loses, repeats or delays, an endpoint forgets a    *)
(* sequence number only when its peer has assembled it, and the peer       *)
(* acknowledges only what was sent.                                        *)
(***************************************************************************)
THEOREM ForgetsOnlyAssembled ==
  ASSUME ShortStreams
  PROVE  Spec => []AckedIsAssembled
<1>1. IInv => AckedIsAssembled
  <2> SUFFICES ASSUME IInv, resets = 0, NEW e \in Endpoints
               PROVE  /\ conn[e].sender.snd_una <= Acknowledged(Peer(e))
                      /\ Acknowledged(Peer(e)) <= conn[e].sender.snd_nxt
    BY DEF AckedIsAssembled
  <2>1. Acknowledged(Peer(e)) <= conn[e].sender.snd_nxt BY EndsAgree
  <2>2. Clean(conn[e], conn[Peer(e)]) BY DEF IInv
  <2>3. conn[e].sender.snd_una <= Acknowledged(Peer(e))
    BY <2>2 DEF Clean, Acknowledged, Reached
  <2> QED BY <2>1, <2>3
<1> QED BY <1>1, Invariant, PTL

(***************************************************************************)
(* No schedule, loss, repeat or delay makes an endpoint fail: the error    *)
(* mark needs a reset that a host has sent.                                *)
(***************************************************************************)
THEOREM FailsOnlyByReset ==
  ASSUME ShortStreams
  PROVE  Spec => []NoSpuriousReset
<1>1. IInv => NoSpuriousReset
  BY DEF IInv, Clean, NoSpuriousReset, outbound, inbound, receiver_output
<1> QED BY <1>1, Invariant, PTL

(***************************************************************************)
(* Without a reset, a sender that is finished has delivered: its peer has  *)
(* assembled every byte written and the end mark.                          *)
(***************************************************************************)
THEOREM FinishedIsDelivered ==
  ASSUME ShortStreams
  PROVE  Spec => []FinishedMeansDelivered
<1>1. IInv => FinishedMeansDelivered
  <2> SUFFICES ASSUME IInv, resets = 0, NEW e \in Endpoints, is_finished(conn[e])
               PROVE  /\ inbound(Peer(e)).closed
                      /\ inbound(Peer(e)).bytes_pushed = outbound(e).bytes_pushed
    BY DEF FinishedMeansDelivered
  <2> DEFINE s == conn[e].sender
             o == conn[Peer(e)].receiver.reassembler.output
             k == Acknowledged(Peer(e))
  <2>1. /\ SenderOK(s) /\ k \in Nat /\ k <= s.snd_nxt
        /\ k = s.outbound.bytes_popped + 2 => o.closed
        /\ o.closed => o.bytes_pushed = s.outbound.bytes_pushed
    BY EndsAgree
  <2>2. Clean(conn[e], conn[Peer(e)]) BY DEF IInv
  <2>3. s.snd_una <= k BY <2>2 DEF Clean, Acknowledged, Reached
  <2>4. s.fin_sent /\ s.outstanding = <<>> BY DEF is_finished, sender_is_finished
  <2>5. s \in Senders /\ Flight(s) /\ Accounting(s) BY <2>1 DEF SenderOK, Placed
  <2>6. /\ s.snd_nxt \in Nat /\ s.snd_una \in Nat /\ s.outbound.bytes_popped \in Nat
    BY <2>5, SenderNumbers
  <2> HIDE DEF s, k, o
  <2>7. s.snd_una = s.snd_nxt BY <2>4, <2>5 DEF Flight
  <2>8. s.snd_nxt = s.outbound.bytes_popped + 2
    <3>1. s.syn_sent /\ s.snd_nxt = One(s.syn_sent) + s.outbound.bytes_popped + One(s.fin_sent)
      BY <2>4, <2>5 DEF Accounting
    <3>2. s.snd_nxt = 1 + s.outbound.bytes_popped + 1 BY <3>1, <2>4 DEF One
    <3> QED BY <3>2, <2>6
  <2>9. k = s.outbound.bytes_popped + 2 BY <2>1, <2>3, <2>6, <2>7, <2>8
  <2> QED BY <2>1, <2>9 DEF inbound, outbound, receiver_output, s, o
<1> QED BY <1>1, Invariant, PTL

(***************************************************************************)
(* An endpoint whose input has failed assembles nothing more, and every    *)
(* segment it still sends says so.                                         *)
(***************************************************************************)
THEOREM FailureIsTold ==
  ASSUME ShortStreams
  PROVE  Spec => FailedEndpointResets
<1> DEFINE Told(e) ==
      inbound(e).error /\ faults' = faults /\ resets' = resets =>
        /\ inbound(e)'.bytes_pushed = inbound(e).bytes_pushed
        /\ \A i \in Len(net[Peer(e)]) + 1 .. Len(net'[Peer(e)]) : net'[Peer(e)][i].rst
<1>1. ASSUME IInv, Next, NEW e \in Endpoints PROVE Told(e)
  <2> SUFFICES ASSUME inbound(e).error, faults' = faults, resets' = resets
               PROVE  /\ inbound(e)'.bytes_pushed = inbound(e).bytes_pushed
                      /\ \A i \in Len(net[Peer(e)]) + 1 .. Len(net'[Peer(e)]) :
                           net'[Peer(e)][i].rst
    OBVIOUS
  <2>1. PICK x \in Endpoints : Acts(x) BY <1>1, NextKinds
  <2>2. PICK d, out : Runs(x, d, out) BY <2>1 DEF Acts
  <2>3. /\ conn' = [conn EXCEPT ![x] = d]
        /\ net'[x] \in {net[x], Tail(net[x])} /\ net'[Peer(x)] = net[Peer(x)] \o out
        /\ net'[x] # net[x] => net[x] # <<>>
        /\ Emits(x, conn[x], d, out) /\ KeepsInput(conn[x].receiver, d.receiver)
    BY <2>2 DEF Runs
  <2>4. conn = [y \in Endpoints |-> conn[y]] BY <1>1 DEF IInv
  <2>5. /\ net[e] \in Seq(Packets) /\ net[Peer(e)] \in Seq(Packets) BY <1>1, BothEnds
  <2>6. CASE x = e
    <3>1. conn'[e] = d BY <2>3, <2>4, <2>6
    <3>2. /\ d.receiver.reassembler.output.error
          /\ d.receiver.reassembler.output.bytes_pushed
               = conn[e].receiver.reassembler.output.bytes_pushed
      BY <2>3, <2>6 DEF KeepsInput, inbound, receiver_output
    <3>3. /\ out \in Seq(Packets) /\ \A i \in 1 .. Len(out) : out[i].rst
      BY <3>2, <2>3, EmitsFacts
    <3>4. ASSUME NEW i \in Len(net[Peer(e)]) + 1 .. Len(net'[Peer(e)])
          PROVE  net'[Peer(e)][i].rst
      <4> DEFINE q == net[Peer(e)]
      <4>1. net'[Peer(e)] = q \o out BY <2>3, <2>6
      <4>2. /\ Len(q \o out) = Len(q) + Len(out) /\ Len(q) \in Nat /\ Len(out) \in Nat
        BY <3>3, <2>5
      <4> HIDE DEF q
      <4>3. i - Len(q) \in 1 .. Len(out) BY <4>1, <4>2 DEF q
      <4>4. i \in Nat /\ i > Len(q) /\ i <= Len(q) + Len(out) BY <4>1, <4>2 DEF q
      <4>5. (q \o out)[i] = out[i - Len(q)]
        <5>1. q \in Seq(Packets) BY <2>5 DEF q
        <5> QED BY <5>1, <4>2, <4>4, <3>3
      <4> QED BY <4>1, <4>3, <4>5, <3>3
    <3> QED BY <3>1, <3>2, <3>4 DEF inbound, receiver_output
  <2>7. CASE x # e
    <3>1. x = Peer(e) BY <2>7, TwoEnds
    <3>2. conn'[e] = conn[e] BY <2>3, <2>4, <2>7
    <3>3. Len(net'[x]) <= Len(net[x]) /\ Len(net[x]) \in Nat /\ Len(net'[x]) \in Nat
      <4>1. net[x] \in Seq(Packets) BY <3>1, <2>5
      <4> QED BY <4>1, <2>3
    <3>4. Len(net[x]) + 1 .. Len(net'[x]) = {} BY <3>3
    <3> QED BY <3>1, <3>2, <3>4 DEF inbound, receiver_output
  <2> QED BY <2>6, <2>7
<1>2. IInv /\ [Next]_vars => [\A e \in Endpoints : Told(e)]_vars BY <1>1
<1>3. [][\A e \in Endpoints : Told(e)]_vars => FailedEndpointResets
  BY DEF FailedEndpointResets
<1> HIDE DEF Told
<1> QED BY <1>2, <1>3, Invariant, PTL DEF Spec

(***************************************************************************)
(* Each direction implements ReliableStream: the reader gets the bytes     *)
(* that were written, in order, once and without holes, and their end only *)
(* after the last of them, whatever the network does and whoever resets.   *)
(***************************************************************************)
THEOREM IsReliableStream ==
  ASSUME ShortStreams
  PROVE  Spec => ImplementsReliableStream
<1> DEFINE Steps == \A e \in Endpoints : [Stream(e)!Next]_(Stream(e)!svars)
<1>1. Init => \A e \in Endpoints : Stream(e)!Init
  <2> SUFFICES ASSUME Init, NEW e \in Endpoints PROVE Stream(e)!Init OBVIOUS
  <2>1. Peer(e) \in Endpoints BY TwoEnds
  <2> DEFINE s == new_sender(SENDER_CAPACITY, ISN[e])
             q == new_reassembler(RECEIVER_CAPACITY)
  <2>2. conn[e].sender = s BY DEF Init, new_connection
  <2>3. conn[Peer(e)].receiver.reassembler = q BY <2>1 DEF Init, new_connection, new_receiver
  <2>4. s.outbound = new_stream(SENDER_CAPACITY) /\ q.output = new_stream(RECEIVER_CAPACITY)
    BY DEF new_sender, new_reassembler
  <2> HIDE DEF s, q
  <2>5. /\ outbound(e) = new_stream(SENDER_CAPACITY)
        /\ inbound(Peer(e)) = new_stream(RECEIVER_CAPACITY)
    BY <2>2, <2>3, <2>4 DEF outbound, inbound, receiver_output
  <2>6. /\ outbound(e).bytes_pushed = 0 /\ outbound(e).closed = FALSE
        /\ inbound(Peer(e)).bytes_pushed = 0 /\ inbound(Peer(e)).bytes_popped = 0
        /\ inbound(Peer(e)).closed = FALSE
    BY <2>5 DEF new_stream
  <2> QED BY <2>6 DEF Stream!Init
<1>2. ASSUME IInv, Next PROVE Steps
  <2> SUFFICES ASSUME NEW e \in Endpoints PROVE [Stream(e)!Next]_(Stream(e)!svars) OBVIOUS
  <2> DEFINE f == Peer(e)
             s == outbound(e)
             o == inbound(f)
  <2>1. /\ f \in Endpoints /\ f # e /\ Peer(f) = e /\ \A x \in Endpoints : x = e \/ x = f
    BY TwoEnds
  <2>2. CASE conn' = conn
    <3>1. s' = s /\ o' = o BY <2>2 DEF outbound, inbound
    <3> QED BY <3>1 DEF Stream!svars
  <2>3. ASSUME NEW x \in Endpoints, Acts(x) PROVE [Stream(e)!Next]_(Stream(e)!svars)
    <3>1. PICK d, out : Runs(x, d, out) /\ Writes(x, conn[x], d) /\ Reads(conn[x], d)
      BY <2>3 DEF Acts
    <3>2. /\ conn' = [conn EXCEPT ![x] = d] /\ KeepsInput(conn[x].receiver, d.receiver)
      BY <3>1 DEF Runs
    <3>3. conn = [y \in Endpoints |-> conn[y]] BY <1>2 DEF IInv
    <3>4. CASE x = e
      <4>1. conn'[e] = d /\ conn'[f] = conn[f] BY <3>2, <3>3, <3>4, <2>1
      <4>2. s' = d.sender.outbound /\ o' = o
        BY <4>1 DEF outbound, inbound, receiver_output
      <4>3. \/ s'.bytes_pushed = s.bytes_pushed /\ s'.closed = s.closed
            \/ /\ ~s.closed /\ s'.closed = s.closed
               /\ s'.bytes_pushed \in s.bytes_pushed + 1 .. StreamLength[e]
            \/ ~s.closed /\ s'.closed = TRUE /\ s'.bytes_pushed = s.bytes_pushed
        BY <4>2, <3>1, <3>4 DEF Writes, outbound
      <4> QED BY <4>2, <4>3 DEF Stream!Next, Stream!Write, Stream!Close, Stream!svars
    <3>5. CASE x = f
      <4>1. conn'[f] = d /\ conn'[e] = conn[e] BY <3>2, <3>3, <3>5, <2>1
      <4>2. s' = s /\ o' = d.receiver.reassembler.output
        BY <4>1 DEF outbound, inbound, receiver_output
      <4>3. \/ o'.bytes_popped = o.bytes_popped
            \/ /\ o'.bytes_popped \in o.bytes_popped + 1 .. o.bytes_pushed
               /\ o'.bytes_pushed = o.bytes_pushed /\ o'.closed = o.closed
        BY <4>2, <3>1, <3>5 DEF Reads, inbound, receiver_output
      <4>4. /\ o'.bytes_pushed >= o.bytes_pushed
            /\ o.closed => o'.closed /\ o'.bytes_pushed = o.bytes_pushed
        BY <4>2, <3>2, <3>5 DEF KeepsInput, inbound, receiver_output
      <4>5. /\ o.bytes_pushed \in Nat /\ o.closed \in BOOLEAN
        BY <1>2, EndsAgree DEF inbound, receiver_output
      <4>6. /\ o'.bytes_pushed \in Nat /\ o'.bytes_pushed <= s.bytes_pushed
            /\ s.bytes_pushed \in Nat /\ o'.closed \in BOOLEAN /\ s.closed \in BOOLEAN
            /\ o'.closed => s.closed /\ o'.bytes_pushed = s.bytes_pushed
        <5>1. Follows(d.receiver, conn[e].sender) BY <3>1, <3>5, <2>1 DEF Runs
        <5>2. /\ SenderOK(conn[e].sender) /\ s.bytes_pushed <= StreamLength[e]
          BY <1>2, BothEnds, ConnectionFacts DEF outbound
        <5>3. ReceiverOK(d.receiver) BY <3>2 DEF KeepsInput
        <5>4. /\ o'.bytes_pushed \in Nat /\ o'.bytes_pushed <= s.bytes_popped
              /\ s.bytes_popped \in Nat /\ s.bytes_popped <= s.bytes_pushed
              /\ o'.closed => s.closed /\ o'.bytes_pushed = s.bytes_pushed
          BY <5>1, <5>2, <5>3, <4>2, NetworkEnds, ReachedNumbers DEF outbound
        <5>5. o'.closed \in BOOLEAN
          BY <5>3, <4>2, SoundNumbers DEF ReceiverOK, Whole
        <5>6. s.bytes_pushed \in Nat /\ s.closed \in BOOLEAN
          BY <1>2, EndsAgree DEF outbound
        <5> HIDE DEF o, s
        <5> QED BY <5>4, <5>5, <5>6
      <4>7. CASE o'.bytes_popped = o.bytes_popped
        <5>1. CASE o.closed
          <6>1. o'.closed = o.closed /\ o'.bytes_pushed = o.bytes_pushed
            BY <5>1, <4>4, <4>5, <4>6
          <6> QED BY <6>1, <4>2, <4>7 DEF Stream!svars
        <5>2. CASE ~o.closed
          <6>1. o'.bytes_pushed \in o.bytes_pushed .. s.bytes_pushed
            BY <4>4, <4>5, <4>6
          <6>2. o'.closed \in {FALSE, s.closed /\ o'.bytes_pushed = s.bytes_pushed}
            <7>1. CASE o'.closed = FALSE BY <7>1
            <7>2. CASE o'.closed = TRUE
              <8>1. (s.closed /\ o'.bytes_pushed = s.bytes_pushed) = TRUE BY <7>2, <4>6, Zenon
              <8> QED BY <8>1, <7>2, Zenon
            <7> QED BY <7>1, <7>2, <4>6
          <6> QED BY <6>1, <6>2, <5>2, <4>2, <4>7 DEF Stream!Next, Stream!Transfer
        <5> QED BY <5>1, <5>2
      <4>8. CASE o'.bytes_popped # o.bytes_popped
        BY <4>2, <4>3, <4>8 DEF Stream!Next, Stream!Consume
      <4> QED BY <4>7, <4>8
    <3> QED BY <3>4, <3>5, <2>1
  <2> QED BY <2>2, <2>3, <1>2, NextKinds
<1>3. IInv /\ [Next]_vars => [Steps]_vars BY <1>2
<1>4. (\A e \in Endpoints : Stream(e)!Init) /\ [][Steps]_vars => ImplementsReliableStream
  BY DEF ImplementsReliableStream
<1> HIDE DEF Steps
<1> QED BY <1>1, <1>3, <1>4, Invariant, PTL DEF Spec
-----------------------------------------------------------------------------
(***************************************************************************)
(* The window, while nothing goes wrong.  Acknowledgments then arrive in   *)
(* the order in which they were sent, so a sender's window always belongs  *)
(* to its SND.UNA.                                                         *)
(***************************************************************************)

(* One past the buffer of a receiver with output o, SYN counted, and the probe. *)
Edge(o) == 2 + o.bytes_popped + o.capacity

(***************************************************************************)
(* Endpoint e has sender s, q is on its way to it and o is its peer's      *)
(* output: what is sent, and what the window of s or of any segment still  *)
(* to come allows to be sent, lies before the edge, and no acknowledgment  *)
(* is older than the one before it.                                        *)
(***************************************************************************)
Ordered(e, s, q, o) ==
  /\ s.snd_nxt <= Edge(o)
  /\ ~s.fin_sent => s.snd_una + EffectiveWindow(s) <= Edge(o)
  /\ \A i \in 1 .. Len(q) :
       /\ s.snd_una <= AckOf(q[i], ISN[e])
       /\ ~s.fin_sent => AckOf(q[i], ISN[e]) + max(q[i].window_size, 1) <= Edge(o)
  /\ \A i, j \in 1 .. Len(q) : i <= j => AckOf(q[i], ISN[e]) <= AckOf(q[j], ISN[e])

Output(e) == conn[e].receiver.reassembler.output

WindowInv ==
  /\ \A e \in Endpoints : Output(e).capacity = RECEIVER_CAPACITY
  /\ faults + resets = 0 => \A e \in Endpoints :
       Ordered(e, conn[e].sender, net[e], Output(Peer(e)))

(* The feedback of a receiver that follows a sender lies before the edge. *)
LEMMA FeedbackFits ==
  ASSUME ShortStreams, NEW f \in Endpoints, NEW s, SenderOK(s), s.isn = ISN[f],
         s.outbound.bytes_pushed <= StreamLength[f],
         NEW rcv, ReceiverOK(rcv), Follows(rcv, s), NEW seg, Reports(seg, rcv)
  PROVE  /\ AckOf(seg, ISN[f]) = Reached(rcv)
         /\ ~s.fin_sent =>
              AckOf(seg, ISN[f]) + max(seg.window_size, 1) <= Edge(rcv.reassembler.output)
<1> DEFINE o == rcv.reassembler.output
           ack == IF rcv.isn = None THEN None ELSE wrap(absolute_ackno(rcv), rcv.isn)
           win == min(available_capacity(o), U16_MAX)
           z == ISN[f]
<1>1. receiver_send(rcv) = [ackno |-> ack, window_size |-> win, rst |-> o.error]
  BY DEF receiver_send, ReceiverMessage, receiver_output
<1>2. seg.ackno = ack /\ seg.window_size = win
  <2> HIDE DEF ack, win
  <2> QED BY <1>1 DEF Reports
<1>3. /\ o.capacity \in Nat /\ o.bytes_buffered \in Nat /\ o.bytes_buffered <= o.capacity
      /\ o.bytes_popped \in Nat /\ o.bytes_pushed \in Nat
      /\ o.bytes_popped + o.bytes_buffered = o.bytes_pushed
  <2>1. Sound(rcv.reassembler) BY DEF ReceiverOK, Whole
  <2>2. Contiguous(o) BY <2>1, SoundNumbers
  <2> QED BY <2>1, <2>2, SoundNumbers DEF Contiguous
<1>4. /\ Reached(rcv) \in Nat /\ Reached(rcv) <= s.snd_nxt /\ s.snd_nxt \in Nat
      /\ s.snd_nxt <= StreamLength[f] + 2
      /\ rcv.isn # None => Reached(rcv) = o.bytes_pushed + 1 + One(o.closed)
      /\ rcv.isn = None => Reached(rcv) = 0
      /\ o.closed => s.fin_sent
  BY NetworkEnds, ReachedNumbers
<1>5. /\ StreamLength[f] \in Nat /\ z \in RawValues /\ MODULUS \in Nat /\ U64_MAX \in Nat
      /\ U16_MAX \in Nat /\ 2 * (StreamLength[f] + 2) <= MODULUS
      /\ StreamLength[f] + 2 <= U64_MAX
  BY NetworkEnds, EndNumbers
<1>6. AckOf(seg, z) = Reached(rcv)
  <2>1. CASE rcv.isn = None BY <2>1, <1>2, <1>4 DEF AckOf
  <2>2. CASE rcv.isn # None
    <3>1. rcv.isn = z BY <2>2 DEF Follows
    <3>2. ack = wrap(Reached(rcv), z) BY <3>1, <2>2 DEF Reached
    <3>3. ack \in RawValues BY <3>2, <1>4, <1>5, WrapEras
    <3>4. ack # None BY <3>3 DEF RawValues, None
    <3>5. 1 <= Reached(rcv) BY <2>2, <1>3, <1>4 DEF One
    <3>6. 2 * abs_diff(Reached(rcv), 1) < MODULUS /\ Reached(rcv) <= U64_MAX
      BY <3>5, <1>4, <1>5 DEF abs_diff
    <3>7. unwrap(wrap(Reached(rcv), z), z, 1) = Reached(rcv)
      BY <3>6, <1>4, <1>5, UnwrapInverts
    <3> HIDE DEF ack
    <3> QED BY <3>2, <3>4, <3>7, <1>2 DEF AckOf
  <2> QED BY <2>1, <2>2
<1>7. max(win, 1) <= o.capacity - o.bytes_buffered + 1
  BY <1>3, <1>5 DEF max, min, available_capacity
<1>8. max(win, 1) \in Nat BY <1>3, <1>5 DEF max, min, available_capacity
<1> HIDE DEF o, win, ack, z
<1>9. ~s.fin_sent => Reached(rcv) <= o.bytes_pushed + 1 BY <1>3, <1>4 DEF One
<1>10. ~s.fin_sent => Reached(rcv) + max(win, 1) <= 2 + o.bytes_popped + o.capacity
  BY <1>3, <1>4, <1>7, <1>8, <1>9
<1> QED BY <1>2, <1>6, <1>10 DEF Edge, o, z

(* The sender of e: a new window comes with the acknowledgment it belongs to. *)
LEMMA HearsInOrder ==
  ASSUME NEW e \in Endpoints, NEW s, SenderOK(s), NEW t, SenderOK(t), Grows(s, t),
         Paced(s, t), net[e] \in Seq(Packets), Hears(e, s, t),
         \A i \in 1 .. Len(net[e]) : AckOf(net[e][i], ISN[e]) \in Nat /\ ~net[e][i].rst,
         NEW o, Edge(o) \in Nat, Ordered(e, s, net[e], o)
  PROVE  Ordered(e, t, net'[e], o)
<1> DEFINE A(x) == AckOf(x, ISN[e])
           q == net[e]
           b == Edge(o)
<1>1. s \in Senders /\ t \in Senders BY DEF SenderOK, Placed
<1>2. /\ s.snd_una \in Nat /\ s.snd_nxt \in Nat /\ s.advertised_window \in Nat
      /\ t.snd_una \in Nat /\ t.snd_nxt \in Nat /\ t.advertised_window \in Nat
      /\ s.fin_sent \in BOOLEAN /\ t.fin_sent \in BOOLEAN
  BY <1>1, SenderNumbers
<1>3. /\ s.snd_nxt <= b
      /\ ~s.fin_sent => s.snd_una + EffectiveWindow(s) <= b
      /\ \A i \in 1 .. Len(q) : /\ s.snd_una <= A(q[i])
                                /\ ~s.fin_sent => A(q[i]) + max(q[i].window_size, 1) <= b
      /\ \A i, j \in 1 .. Len(q) : i <= j => A(q[i]) <= A(q[j])
  BY DEF Ordered
<1>4. \A i \in 1 .. Len(q) : A(q[i]) \in Nat OBVIOUS
<1>5. s.fin_sent => t.fin_sent /\ t.snd_nxt = s.snd_nxt BY DEF Grows
<1> HIDE DEF A, b
<1>6. b \in Nat BY DEF b
<1>7. (~s.fin_sent => t.snd_una + EffectiveWindow(t) <= b) => t.snd_nxt <= b
  <2> SUFFICES ASSUME ~s.fin_sent => t.snd_una + EffectiveWindow(t) <= b
               PROVE  t.snd_nxt <= b
    OBVIOUS
  <2>1. CASE t.snd_nxt = s.snd_nxt BY <2>1, <1>3
  <2>2. CASE t.snd_nxt # s.snd_nxt
    <3>1. t.snd_nxt - t.snd_una <= EffectiveWindow(t) BY <2>2 DEF Paced, bytes_in_flight
    <3>2. ~s.fin_sent BY <2>2, <1>5
    <3>3. EffectiveWindow(t) \in Nat BY <1>2 DEF EffectiveWindow, max
    <3> QED BY <3>1, <3>2, <3>3, <1>2, <1>6
  <2> QED BY <2>1, <2>2
<1>8. CASE net'[e] = q /\ SameFeedback(s, t)
  <2>1. t.snd_una = s.snd_una /\ EffectiveWindow(t) = EffectiveWindow(s)
    BY <1>8 DEF SameFeedback, EffectiveWindow
  <2> QED BY <2>1, <1>3, <1>5, <1>7, <1>8 DEF Ordered, A, b
<1>9. CASE /\ q # <<>> /\ net'[e] = Tail(q)
           /\ ~Head(q).rst => /\ t.snd_una = max(s.snd_una, A(Head(q)))
                              /\ t.advertised_window = Head(q).window_size
  <2>1. 1 \in 1 .. Len(q) /\ Head(q) = q[1] /\ Len(q) \in Nat BY <1>9
  <2>2. /\ t.snd_una = max(s.snd_una, A(q[1])) /\ t.advertised_window = q[1].window_size
    BY <2>1, <1>9
  <2>3. t.snd_una = A(q[1])
    <3>1. s.snd_una <= A(q[1]) /\ A(q[1]) \in Nat BY <2>1, <1>3, <1>4
    <3> QED BY <3>1, <2>2, <1>2 DEF max
  <2>4. ~s.fin_sent => t.snd_una + EffectiveWindow(t) <= b
    BY <2>1, <2>2, <2>3, <1>3 DEF EffectiveWindow
  <2> DEFINE u == Tail(q)
  <2>5. /\ Len(u) = Len(q) - 1 /\ \A i \in 1 .. Len(u) : u[i] = q[i + 1]
    BY <1>9
  <2>6. \A i \in 1 .. Len(u) : i + 1 \in 1 .. Len(q) /\ 1 <= i + 1 BY <2>1, <2>5
  <2> HIDE DEF u
  <2>7. \A i \in 1 .. Len(u) :
          /\ t.snd_una <= A(u[i])
          /\ ~s.fin_sent => A(u[i]) + max(u[i].window_size, 1) <= b
    BY <2>1, <2>3, <2>5, <2>6, <1>3
  <2>8. \A i, j \in 1 .. Len(u) : i <= j => A(u[i]) <= A(u[j])
    <3> SUFFICES ASSUME NEW i \in 1 .. Len(u), NEW j \in 1 .. Len(u), i <= j
                 PROVE  A(u[i]) <= A(u[j])
      OBVIOUS
    <3>1. i + 1 <= j + 1 /\ i + 1 \in 1 .. Len(q) /\ j + 1 \in 1 .. Len(q) BY <2>6
    <3> QED BY <3>1, <2>5, <1>3
  <2>9. Ordered(e, t, u, o) BY <2>4, <2>7, <2>8, <1>5, <1>7 DEF Ordered, A, b
  <2> QED BY <2>9, <1>9 DEF u
<1> QED BY <1>8, <1>9 DEF Hears, A

(* The receiver of the other end: what it reports now is its latest acknowledgment. *)
LEMMA ReportsInOrder ==
  ASSUME ShortStreams, NEW f \in Endpoints, NEW s, SenderOK(s), s.isn = ISN[f],
         s.outbound.bytes_pushed <= StreamLength[f],
         NEW rcv, ReceiverOK(rcv), Follows(rcv, s),
         NEW t, KeepsInput(rcv, t), Follows(t, s),
         t.reassembler.output.bytes_popped >= rcv.reassembler.output.bytes_popped,
         NEW q \in Seq(Packets), NEW out \in Seq(Packets),
         \A i \in 1 .. Len(q) : /\ AckOf(q[i], ISN[f]) \in Nat
                                /\ AckOf(q[i], ISN[f]) <= Reached(rcv),
         \A i \in 1 .. Len(out) : Reports(out[i], t),
         s.snd_una <= Reached(rcv), Ordered(f, s, q, rcv.reassembler.output)
  PROVE  Ordered(f, s, q \o out, t.reassembler.output)
<1> DEFINE A(x) == AckOf(x, ISN[f])
           b == Edge(rcv.reassembler.output)
           c == Edge(t.reassembler.output)
           u == q \o out
           Below(x) == ~s.fin_sent => A(x) + max(x.window_size, 1) <= c
<1>1. s \in Senders BY DEF SenderOK, Placed
<1>2. /\ s.snd_una \in Nat /\ s.snd_nxt \in Nat /\ s.advertised_window \in Nat
  BY <1>1, SenderNumbers
<1>3. ReceiverOK(t) /\ t.reassembler.output.capacity = rcv.reassembler.output.capacity
  BY DEF KeepsInput
<1>4. b \in Nat /\ c \in Nat /\ b <= c
  <2> DEFINE k == rcv.reassembler.output.capacity
             m == rcv.reassembler.output.bytes_popped
             n == t.reassembler.output.bytes_popped
  <2>1. k \in Nat /\ m \in Nat /\ n \in Nat
    BY <1>3, SoundNumbers DEF ReceiverOK, Whole
  <2>2. b = 2 + m + k BY DEF Edge
  <2>3. c = 2 + n + k BY <1>3 DEF Edge
  <2>4. n >= m OBVIOUS
  <2> HIDE DEF k, m, n, b, c
  <2> QED BY <2>1, <2>2, <2>3, <2>4
<1>5. /\ Reached(rcv) \in Nat /\ Reached(t) \in Nat /\ Reached(rcv) <= Reached(t)
  BY NetworkEnds, ReachedGrows
<1>6. \A i \in 1 .. Len(out) : A(out[i]) = Reached(t) /\ Below(out[i])
  BY <1>3, FeedbackFits
<1>7. /\ s.snd_nxt <= b
      /\ ~s.fin_sent => s.snd_una + EffectiveWindow(s) <= b
      /\ \A i \in 1 .. Len(q) : /\ s.snd_una <= A(q[i])
                                /\ ~s.fin_sent => A(q[i]) + max(q[i].window_size, 1) <= b
      /\ \A i, j \in 1 .. Len(q) : i <= j => A(q[i]) <= A(q[j])
  BY DEF Ordered
<1>8. \A i \in 1 .. Len(q) : A(q[i]) \in Nat /\ A(q[i]) <= Reached(rcv) OBVIOUS
<1>9. ASSUME NEW i \in 1 .. Len(q)
      PROVE  max(q[i].window_size, 1) \in Nat
  <2>1. q[i] \in Packets OBVIOUS
  <2>2. q[i].window_size \in Nat BY <2>1 DEF Packets, Segments
  <2> QED BY <2>2 DEF max
<1> HIDE DEF A, b, c
<1>10. /\ s.snd_nxt <= c
       /\ ~s.fin_sent => s.snd_una + EffectiveWindow(s) <= c
  <2>1. EffectiveWindow(s) \in Nat BY <1>2 DEF EffectiveWindow, max
  <2> QED BY <2>1, <1>2, <1>4, <1>7
<1>11. \A i \in 1 .. Len(q) : Below(q[i])
  <2> SUFFICES ASSUME NEW i \in 1 .. Len(q), ~s.fin_sent
               PROVE  A(q[i]) + max(q[i].window_size, 1) <= c
    OBVIOUS
  <2>1. A(q[i]) + max(q[i].window_size, 1) <= b BY <1>7
  <2>2. A(q[i]) \in Nat /\ max(q[i].window_size, 1) \in Nat BY <1>8, <1>9
  <2> QED BY <2>1, <2>2, <1>4
<1> HIDE DEF Below
<1>12. /\ Len(u) = Len(q) + Len(out) /\ Len(q) \in Nat /\ Len(out) \in Nat
       /\ \A i \in 1 .. Len(q) : u[i] = q[i]
  OBVIOUS
<1>13. ASSUME NEW i \in 1 .. Len(u), i > Len(q)
       PROVE  i - Len(q) \in 1 .. Len(out) /\ u[i] = out[i - Len(q)]
  <2>1. i \in Nat /\ i <= Len(q) + Len(out) /\ i > Len(q) BY <1>12, <1>13
  <2>2. i - Len(q) \in 1 .. Len(out) BY <2>1, <1>12
  <2>3. (q \o out)[i] = out[i - Len(q)] BY <2>1, <1>12
  <2> QED BY <2>2, <2>3
<1> HIDE DEF u
<1>14. ASSUME NEW i \in 1 .. Len(u)
       PROVE  /\ s.snd_una <= A(u[i]) /\ Below(u[i]) /\ A(u[i]) \in Nat /\ A(u[i]) <= Reached(t)
              /\ i > Len(q) => A(u[i]) = Reached(t)
  <2>1. CASE i <= Len(q)
    <3>1. i \in 1 .. Len(q) /\ u[i] = q[i] BY <2>1, <1>12
    <3>2. A(q[i]) \in Nat /\ A(q[i]) <= Reached(t) BY <3>1, <1>5, <1>8
    <3>3. ~(i > Len(q)) BY <2>1, <1>12
    <3> QED BY <3>1, <3>2, <3>3, <1>7, <1>11
  <2>2. CASE i > Len(q)
    <3>1. A(u[i]) = Reached(t) /\ Below(u[i]) BY <2>2, <1>6, <1>13
    <3> QED BY <3>1, <1>2, <1>5
  <2> QED BY <2>1, <2>2, <1>12
<1>15. ASSUME NEW i \in 1 .. Len(u), NEW j \in 1 .. Len(u), i <= j
       PROVE  A(u[i]) <= A(u[j])
  <2>1. CASE j > Len(q) BY <2>1, <1>14
  <2>2. CASE j <= Len(q)
    <3>1. i \in 1 .. Len(q) /\ j \in 1 .. Len(q) BY <2>2, <1>12, <1>15
    <3> QED BY <3>1, <1>7, <1>12, <1>15
  <2> QED BY <2>1, <2>2, <1>12
<1> QED BY <1>10, <1>14, <1>15 DEF Ordered, A, c, u, Below

(* Fresh connections: the first window is one, for the SYN. *)
LEMMA InitWindow == Init => WindowInv
<1> SUFFICES ASSUME Init PROVE WindowInv OBVIOUS
<1>1. /\ SENDER_CAPACITY \in Nat /\ RECEIVER_CAPACITY \in Nat
      /\ \A e \in Endpoints : ISN[e] \in RawValues
  BY NetworkAssumption DEF NetworkAssumption
<1>2. ASSUME NEW e \in Endpoints
      PROVE  /\ Output(e).capacity = RECEIVER_CAPACITY /\ Output(e).bytes_popped = 0
             /\ conn[e].sender.snd_nxt = 0 /\ conn[e].sender.snd_una = 0
             /\ conn[e].sender.advertised_window = 1
  <2> DEFINE s == new_sender(SENDER_CAPACITY, ISN[e])
             q == new_reassembler(RECEIVER_CAPACITY)
  <2>1. conn[e].sender = s BY DEF Init, new_connection
  <2>2. conn[e].receiver.reassembler = q BY DEF Init, new_connection, new_receiver
  <2>3. s.snd_nxt = 0 /\ s.snd_una = 0 /\ s.advertised_window = 1 BY <1>1, NewSender
  <2>4. q.output = new_stream(RECEIVER_CAPACITY) BY <1>1, NewReassembler
  <2> HIDE DEF s, q
  <2>5. Output(e) = new_stream(RECEIVER_CAPACITY) BY <2>2, <2>4 DEF Output
  <2>6. Output(e).capacity = RECEIVER_CAPACITY /\ Output(e).bytes_popped = 0
    BY <2>5 DEF new_stream
  <2> QED BY <2>1, <2>3, <2>6
<1>3. ASSUME NEW e \in Endpoints
      PROVE  Ordered(e, conn[e].sender, net[e], Output(Peer(e)))
  <2>1. Peer(e) \in Endpoints BY TwoEnds
  <2>2. Edge(Output(Peer(e))) = 2 + 0 + RECEIVER_CAPACITY BY <2>1, <1>2 DEF Edge
  <2>3. EffectiveWindow(conn[e].sender) = 1 BY <1>2 DEF EffectiveWindow, max
  <2>4. Len(net[e]) = 0 BY DEF Init
  <2>5. \A i \in 1 .. Len(net[e]) : FALSE BY <2>4
  <2>6. 0 <= 2 + 0 + RECEIVER_CAPACITY /\ 0 + 1 <= 2 + 0 + RECEIVER_CAPACITY BY <1>1
  <2> QED BY <2>2, <2>3, <2>5, <2>6, <1>2 DEF Ordered
<1> QED BY <1>2, <1>3 DEF WindowInv

(* An endpoint acts: the order holds in both directions. *)
LEMMA ActsInOrder ==
  ASSUME ShortStreams, IInv, WindowInv, NEW e \in Endpoints, Acts(e)
  PROVE  WindowInv'
<1> DEFINE f == Peer(e)
           c == conn[e]
           p == conn[f]
<1>1. /\ f \in Endpoints /\ f # e /\ Peer(f) = e /\ \A x \in Endpoints : x = e \/ x = f
  BY TwoEnds
<1>2. PICK d, out : /\ Runs(e, d, out) /\ Reads(c, d)
                    /\ Hears(e, c.sender, d.sender) /\ Paced(c.sender, d.sender)
  BY DEF Acts
<1>3. /\ ConnectionOK(e, c) /\ ConnectionOK(f, p)
      /\ Follows(c.receiver, p.sender) /\ Follows(p.receiver, c.sender)
      /\ \A i \in 1 .. Len(net[e]) : SentBy(f, p, net[e][i])
      /\ net[e] \in Seq(Packets) /\ net[f] \in Seq(Packets)
  BY BothEnds
<1>4. \A i \in 1 .. Len(net[f]) : SentBy(e, c, net[f][i]) BY <1>1 DEF IInv
<1>5. /\ conn' = [conn EXCEPT ![e] = d] /\ faults' = faults /\ resets' = resets
      /\ net'[f] = net[f] \o out /\ Emits(e, c, d, out)
      /\ KeepsInput(c.receiver, d.receiver) /\ Follows(d.receiver, p.sender)
  BY <1>2 DEF Runs
<1>6. conn = [x \in Endpoints |-> conn[x]] BY DEF IInv
<1>7. conn'[e] = d /\ conn'[f] = p BY <1>1, <1>5, <1>6
<1>8. /\ SenderOK(c.sender) /\ c.sender.isn = ISN[e] /\ ReceiverOK(c.receiver)
      /\ c.sender.outbound.bytes_pushed <= StreamLength[e]
      /\ SenderOK(p.sender) /\ p.sender.isn = ISN[f] /\ ReceiverOK(p.receiver)
      /\ p.sender.outbound.bytes_pushed <= StreamLength[f]
  BY <1>1, <1>3, ConnectionFacts
<1>9. /\ SenderOK(d.sender) /\ Grows(c.sender, d.sender) /\ out \in Seq(Packets)
      /\ \A i \in 1 .. Len(out) : Reports(out[i], d.receiver)
  BY <1>5, EmitsFacts, ConnectionFacts
<1>10. d.receiver.reassembler.output.capacity = c.receiver.reassembler.output.capacity
  BY <1>5 DEF KeepsInput
<1>11. \A x \in Endpoints : conn'[x].receiver.reassembler.output.capacity = RECEIVER_CAPACITY
  BY <1>1, <1>7, <1>10 DEF WindowInv, Output
<1>12. \A i \in 1 .. Len(net[e]) : AckOf(net[e][i], ISN[e]) \in Nat
  BY <1>3, <1>8, TwoEnds, NetworkEnds, AckMeaning DEF SentBy
<1>13. \A i \in 1 .. Len(net[f]) : /\ AckOf(net[f][i], ISN[f]) \in Nat
                                   /\ AckOf(net[f][i], ISN[f]) <= Reached(c.receiver)
  <2> SUFFICES ASSUME NEW i \in 1 .. Len(net[f])
               PROVE  /\ AckOf(net[f][i], ISN[f]) \in Nat
                      /\ AckOf(net[f][i], ISN[f]) <= Reached(c.receiver)
    OBVIOUS
  <2>1. SentBy(Peer(f), c, net[f][i]) BY <1>1, <1>4
  <2> HIDE DEF f, c, p
  <2> QED BY <2>1, <1>1, <1>3, <1>8, TwoEnds, NetworkEnds, AckMeaning DEF SentBy
<1>14. ASSUME faults + resets = 0
       PROVE  /\ Ordered(e, d.sender, net'[e], p.receiver.reassembler.output)
              /\ Ordered(f, p.sender, net[f] \o out, d.receiver.reassembler.output)
  <2>1. faults \in Nat /\ resets \in Nat BY DEF IInv
  <2>2. resets = 0 BY <2>1, <1>14
  <2>3. /\ \A i \in 1 .. Len(net[e]) : ~net[e][i].rst BY <2>2 DEF IInv
  <2>4. p.sender.snd_una <= Reached(c.receiver)
    <3>1. Clean(p, c) BY <2>2, <1>1 DEF IInv
    <3> QED BY <3>1 DEF Clean
  <2>5. /\ Ordered(e, c.sender, net[e], p.receiver.reassembler.output)
        /\ Ordered(f, p.sender, net[f], c.receiver.reassembler.output)
    BY <1>1, <1>14 DEF WindowInv, Output
  <2>6. Edge(p.receiver.reassembler.output) \in Nat
    <3> DEFINE o == p.receiver.reassembler.output
    <3>1. o.capacity \in Nat /\ o.bytes_popped \in Nat
      BY <1>8, SoundNumbers DEF ReceiverOK, Whole
    <3> HIDE DEF o
    <3> QED BY <3>1 DEF Edge, o
  <2>7. d.receiver.reassembler.output.bytes_popped >= c.receiver.reassembler.output.bytes_popped
    <3> DEFINE o == c.receiver.reassembler.output
               n == d.receiver.reassembler.output
    <3>1. o.bytes_pushed \in Nat /\ o.bytes_popped \in Nat
      BY <1>8, SoundNumbers DEF ReceiverOK, Whole
    <3>2. \/ n.bytes_popped = o.bytes_popped
          \/ n.bytes_popped \in o.bytes_popped + 1 .. o.bytes_pushed
      BY <1>2 DEF Reads
    <3> HIDE DEF o, n
    <3>3. n.bytes_popped >= o.bytes_popped BY <3>1, <3>2
    <3> QED BY <3>3 DEF o, n
  <2>8. \A i \in 1 .. Len(net[e]) : AckOf(net[e][i], ISN[e]) \in Nat /\ ~net[e][i].rst
    BY <2>3, <1>12
  <2> HIDE DEF f, c, p
  <2>9. Ordered(e, d.sender, net'[e], p.receiver.reassembler.output)
    BY <2>5, <2>6, <2>8, <1>2, <1>3, <1>8, <1>9, HearsInOrder
  <2>10. Ordered(f, p.sender, net[f] \o out, d.receiver.reassembler.output)
    BY <2>4, <2>5, <2>7, <1>1, <1>3, <1>5, <1>8, <1>9, <1>13, ReportsInOrder
  <2> QED BY <2>9, <2>10
<1>15. ASSUME faults' + resets' = 0, NEW x \in Endpoints
       PROVE  Ordered(x, conn'[x].sender, net'[x], conn'[Peer(x)].receiver.reassembler.output)
  BY <1>1, <1>5, <1>7, <1>14, <1>15
<1> QED BY <1>11, <1>15 DEF WindowInv, Output

(* Once the network or a host has misbehaved, there is nothing left to show. *)
LEMMA StepWindow ==
  ASSUME ShortStreams, IInv, WindowInv, [Next]_vars
  PROVE  WindowInv'
<1>1. CASE Next
  <2>1. \/ conn' = conn /\ (faults' > 0 \/ resets' > 0)
        \/ \E e \in Endpoints : Acts(e)
    BY <1>1, NextKinds
  <2>2. CASE \E e \in Endpoints : Acts(e) BY <2>2, ActsInOrder
  <2>3. CASE conn' = conn /\ (faults' > 0 \/ resets' > 0)
    <3>1. IInv' BY <1>1, NextKinds
    <3>2. faults' \in Nat /\ resets' \in Nat BY <3>1 DEF IInv
    <3>3. faults' + resets' # 0
      <4> DEFINE a == faults'
                 b == resets'
      <4>1. a \in Nat /\ b \in Nat BY <3>2
      <4>2. a > 0 \/ b > 0 BY <2>3
      <4> HIDE DEF a, b
      <4>3. a + b # 0 BY <4>1, <4>2
      <4> QED BY <4>3 DEF a, b
    <3>4. \A e \in Endpoints : conn'[e].receiver.reassembler.output.capacity = RECEIVER_CAPACITY
      BY <2>3 DEF WindowInv, Output
    <3> QED BY <3>3, <3>4 DEF WindowInv, Output
  <2> QED BY <2>1, <2>2, <2>3
<1>2. CASE UNCHANGED vars BY <1>2 DEF vars, WindowInv, Output
<1> QED BY <1>1, <1>2

(***************************************************************************)
(* While nothing goes wrong, a sender is at most the one probe past its    *)
(* peer's buffer, although it keeps only the last window it was told and   *)
(* takes one from any segment that is not too new.                         *)
(***************************************************************************)
THEOREM StaysInPeerWindow ==
  ASSUME ShortStreams
  PROVE  Spec => []WithinPeerWindow
<1>1. IInv /\ WindowInv => WithinPeerWindow
  <2> SUFFICES ASSUME IInv, WindowInv, faults + resets = 0, NEW e \in Endpoints
               PROVE  conn[e].sender.snd_nxt
                        <= 1 + inbound(Peer(e)).bytes_popped + RECEIVER_CAPACITY + 1
    BY DEF WithinPeerWindow
  <2> DEFINE o == conn[Peer(e)].receiver.reassembler.output
  <2>1. Peer(e) \in Endpoints /\ o.bytes_popped \in Nat BY EndsAgree
  <2>2. o.capacity = RECEIVER_CAPACITY /\ conn[e].sender.snd_nxt <= Edge(o)
    BY <2>1 DEF WindowInv, Ordered, Output
  <2>3. RECEIVER_CAPACITY \in Nat BY NetworkAssumption DEF NetworkAssumption
  <2>4. inbound(Peer(e)) = o BY DEF inbound, receiver_output
  <2> HIDE DEF o
  <2>5. Edge(o) = 1 + o.bytes_popped + RECEIVER_CAPACITY + 1 BY <2>1, <2>2, <2>3 DEF Edge
  <2> QED BY <2>2, <2>4, <2>5
<1>2. IInv /\ WindowInv /\ [Next]_vars => WindowInv' BY StepWindow
<1> QED BY <1>1, <1>2, InitWindow, Invariant, PTL DEF Spec
=============================================================================

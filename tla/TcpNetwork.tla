----------------------------- MODULE TcpNetwork -----------------------------
(***************************************************************************)
(* Two TcpConnections and the network between them.  Each endpoint's       *)
(* operations are atomic (an endpoint runs in one thread), but the two     *)
(* endpoints, their applications, their clocks and the network interleave  *)
(* freely, and the network may lose, repeat and delay segments.            *)
(***************************************************************************)
EXTENDS TcpConnection

CONSTANTS
  Endpoints,          \* the two ends
  Clients,            \* those that call connect()
  ISN,                \* the initial sequence number of each end
  StreamLength,       \* the number of bytes each application has to send
  SENDER_CAPACITY,
  RECEIVER_CAPACITY,
  MAX_FAULTS,         \* bound: how often something goes wrong
  MAX_RESETS,         \* bound: how often that is a reset which a host sends on its own
  MAX_IN_NET          \* bound: no clock ticks while this many segments are in transit

ASSUME NetworkAssumption ==
  /\ \E a, b \in Endpoints : a # b /\ Endpoints = {a, b}
  /\ Clients \subseteq Endpoints
  /\ ISN \in [Endpoints -> RawValues]
  /\ StreamLength \in [Endpoints -> Nat]
  /\ SENDER_CAPACITY \in Nat /\ RECEIVER_CAPACITY \in Nat
  /\ MAX_FAULTS \in Nat /\ MAX_RESETS \in Nat /\ MAX_IN_NET \in Nat

VARIABLES
  conn,      \* the connection at each endpoint
  net,       \* the segments on their way to each endpoint, oldest first
  opened,    \* the clients that have called connect()
  faults,    \* how often the network has misbehaved
  resets     \* how often a host has sent a reset

vars == <<conn, net, opened, faults, resets>>

Peer(e) == CHOOSE p \in Endpoints : p # e

Init ==
  /\ conn = [e \in Endpoints |-> new_connection(e, Peer(e), SENDER_CAPACITY,
                                                RECEIVER_CAPACITY, ISN[e])]
  /\ net = [e \in Endpoints |-> <<>>]
  /\ opened = {}
  /\ faults = 0
  /\ resets = 0

outbound(e) == conn[e].sender.outbound
inbound(e) == receiver_output(conn[e].receiver)

(* Endpoint e is left as r.conn and puts r.out on the network. *)
Perform(e, r) ==
  /\ conn' = [conn EXCEPT ![e] = r.conn]
  /\ net' = [net EXCEPT ![Peer(e)] = @ \o r.out]
-----------------------------------------------------------------------------
(* The applications. *)
Connect(e) ==
  /\ e \in Clients \ opened
  /\ Perform(e, connect(conn[e]))
  /\ opened' = opened \cup {e}
  /\ UNCHANGED <<faults, resets>>

Write(e) ==
  LET next == outbound(e).bytes_pushed IN
  /\ ~outbound(e).closed
  /\ \E n \in 1 .. StreamLength[e] - next :
       Perform(e, write(conn[e], Bytes(next, next + n)))
  /\ UNCHANGED <<opened, faults, resets>>

Close(e) ==
  /\ ~outbound(e).closed
  /\ Perform(e, close(conn[e]))
  /\ UNCHANGED <<opened, faults, resets>>

Read(e) ==
  /\ inbound(e).bytes_buffered > 0
  /\ \E n \in 1 .. inbound(e).bytes_buffered :
       conn' = [conn EXCEPT ![e] = read(@, n)]
  /\ UNCHANGED <<net, opened, faults, resets>>
-----------------------------------------------------------------------------
(* The stack. *)
Deliver(e) ==
  /\ net[e] # <<>>
  /\ LET r == receive_segment(conn[e], Head(net[e])) IN
     /\ conn' = [conn EXCEPT ![e] = r.conn]
     /\ net' = [net EXCEPT ![e] = Tail(@), ![Peer(e)] = @ \o r.out]
  /\ UNCHANGED <<opened, faults, resets>>

Tick(e) ==
  /\ Len(net[e]) + Len(net[Peer(e)]) < MAX_IN_NET
  /\ Perform(e, connection_tick(conn[e], 1))
  /\ UNCHANGED <<opened, faults, resets>>
-----------------------------------------------------------------------------
(* The network. *)
Misbehave(e, new) ==
  /\ net[e] # <<>>
  /\ faults + resets < MAX_FAULTS
  /\ faults' = faults + 1
  /\ net' = [net EXCEPT ![e] = new]
  /\ UNCHANGED <<conn, opened, resets>>

Lose(e) == Misbehave(e, Tail(net[e]))
Repeat(e) == Misbehave(e, Append(net[e], Head(net[e])))
Delay(e) == Len(net[e]) > 1 /\ Misbehave(e, Append(Tail(net[e]), Head(net[e])))

(* The host of e's peer refuses the connection (no listener, a dead process). *)
Reset(e) ==
  /\ resets < MAX_RESETS /\ faults + resets < MAX_FAULTS
  /\ resets' = resets + 1
  /\ net' = [net EXCEPT ![e] = Append(@,
       from_messages(Peer(e), e, SenderMessage(ISN[Peer(e)], FALSE, NoBytes, FALSE, TRUE),
                     ReceiverMessage(None, 0, FALSE)))]
  /\ UNCHANGED <<conn, opened, faults>>

Next == \E e \in Endpoints :
  \/ Connect(e) \/ Write(e) \/ Close(e) \/ Read(e)
  \/ Deliver(e) \/ Tick(e)
  \/ Lose(e) \/ Repeat(e) \/ Delay(e) \/ Reset(e)

Spec == Init /\ [][Next]_vars

(***************************************************************************)
(* The host's loop delivers what arrives and advances the clock (tap_host, *)
(* tun_host), and applications read what is there.  Connecting, writing    *)
(* and closing are up to the applications, and so are the faults.          *)
(*                                                                         *)
(* This is weak fairness of Deliver, Tick and Read with each action's      *)
(* enabling condition written out, which spares TLC from evaluating        *)
(* ENABLED on whole handlers.                                              *)
(***************************************************************************)
CanTick(e) ==
  Len(net[e]) + Len(net[Peer(e)]) < MAX_IN_NET /\ conn[e].sender.timer.running

Fairness == \A e \in Endpoints :
  /\ []<>(net[e] = <<>>) \/ []<><<Deliver(e)>>_vars
  /\ []<>(~CanTick(e)) \/ []<><<Tick(e)>>_vars
  /\ []<>(inbound(e).bytes_buffered = 0) \/ []<><<Read(e)>>_vars

FairSpec == Spec /\ Fairness
-----------------------------------------------------------------------------
(* What the receiver at e would acknowledge, in absolute sequence numbers. *)
Acknowledged(e) ==
  IF conn[e].receiver.isn = None THEN 0 ELSE absolute_ackno(conn[e].receiver)

(***************************************************************************)
(* Without a reset, an endpoint forgets a sequence number (SND.UNA passes  *)
(* it) only when its peer has assembled it, and the peer never             *)
(* acknowledges what was not sent: wrapping, unwrapping, stale and         *)
(* repeated segments never confuse the two ends' absolute numbers.         *)
(***************************************************************************)
AckedIsAssembled ==
  resets = 0 => \A e \in Endpoints :
    /\ conn[e].sender.snd_una <= Acknowledged(Peer(e))
    /\ Acknowledged(Peer(e)) <= conn[e].sender.snd_nxt

(***************************************************************************)
(* Two endpoints never reset each other on their own: no schedule, loss,   *)
(* repeat or delay makes a receiver see a fragment that contradicts the    *)
(* end of the stream, so no stream carries the error mark before a host    *)
(* has sent a reset.                                                       *)
(***************************************************************************)
NoSpuriousReset ==
  resets = 0 => \A e \in Endpoints : ~outbound(e).error /\ ~inbound(e).error

(***************************************************************************)
(* Without a reset, is_finished is believable: once an endpoint's sender   *)
(* is finished, its peer has assembled everything the application wrote    *)
(* and the end mark.                                                       *)
(***************************************************************************)
FinishedMeansDelivered ==
  resets = 0 => \A e \in Endpoints : is_finished(conn[e]) =>
    /\ inbound(Peer(e)).closed
    /\ inbound(Peer(e)).bytes_pushed = outbound(e).bytes_pushed

(***************************************************************************)
(* While nothing goes wrong, a sender is at most one sequence number (the  *)
(* probe of a closed window) past the edge of its peer's buffer.           *)
(***************************************************************************)
WithinPeerWindow ==
  faults + resets = 0 => \A e \in Endpoints :
    conn[e].sender.snd_nxt <= 1 + inbound(Peer(e)).bytes_popped + RECEIVER_CAPACITY + 1

(***************************************************************************)
(* An endpoint whose input has failed says so in every segment it still    *)
(* sends, retransmissions of segments built before the failure included,   *)
(* and delivers nothing more to its application.                           *)
(***************************************************************************)
FailedEndpointResets ==
  [][\A e \in Endpoints :
       inbound(e).error /\ faults' = faults /\ resets' = resets =>
         /\ inbound(e)'.bytes_pushed = inbound(e).bytes_pushed
         /\ \A i \in Len(net[Peer(e)]) + 1 .. Len(net'[Peer(e)]) : net'[Peer(e)][i].rst]_vars

(* Each direction of the connection is a reliable stream. *)
Stream(e) == INSTANCE ReliableStream WITH
  Length <- StreamLength[e],
  written <- outbound(e).bytes_pushed,
  closed <- outbound(e).closed,
  arrived <- inbound(Peer(e)).bytes_pushed,
  ended <- inbound(Peer(e)).closed,
  consumed <- inbound(Peer(e)).bytes_popped

(* Stream(e)!Spec for both directions e, as one formula about the system's steps. *)
ImplementsReliableStream ==
  /\ \A e \in Endpoints : Stream(e)!Init
  /\ [][\A e \in Endpoints : [Stream(e)!Next]_(Stream(e)!svars)]_vars

(***************************************************************************)
(* Whatever the network does before it stops misbehaving, every byte that  *)
(* an application wrote is read by the other, or the writer learns that    *)
(* the connection failed: retransmission and zero-window probes get it     *)
(* through, although reading sends no window update.                       *)
(***************************************************************************)
WrittenIsRead ==
  \A e \in Endpoints : \A k \in 1 .. StreamLength[e] :
    outbound(e).bytes_pushed >= k ~> inbound(Peer(e)).bytes_popped >= k \/ outbound(e).error

(***************************************************************************)
(* An endpoint that has closed finishes: its FIN gets through and is       *)
(* acknowledged, even if the peer never closes, or it learns that the      *)
(* connection failed, even if only the peer was reset.                     *)
(***************************************************************************)
ClosedFinishes ==
  \A e \in Endpoints : outbound(e).closed ~> is_finished(conn[e]) \/ outbound(e).error
=============================================================================

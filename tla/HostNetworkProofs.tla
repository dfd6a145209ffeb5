------------------------- MODULE HostNetworkProofs -------------------------
(***************************************************************************)
(* Two hosts among others' traffic: their connection carries only its own  *)
(* streams, their programs see all that is acknowledged, and a ping is     *)
(* answered once, for every window, capacity, payload size, initial        *)
(* number, number of faults and any traffic of others, damaged or whole.   *)
(*                                                                         *)
(* The hypothesis ShortStreams is that of TcpNetworkProofs: a stream lies  *)
(* within half of the sequence space (2^31 numbers in the code).           *)
(***************************************************************************)
EXTENDS HostNetwork, EndpointLemmas

(* SYN, the bytes and FIN of each stream take at most half of the sequence space. *)
ShortStreams == \A h \in Hosts : 2 * (StreamLength[h] + 2) <= MODULUS

(* A host of this network as an end of its connection. *)
End(h) == [port |-> Port[h], isn |-> ISN[h], length |-> StreamLength[h]]

(* A host between two calls. *)
HostOK(h, x) ==
  /\ x = [local_ip |-> h, peer_ip |-> Peer(h), connection |-> x.connection]
  /\ Connected(End(h), End(Peer(h)), x.connection)

(* A datagram that host h may send: segments to its peer and replies to anyone. *)
TcpDatagram(h, seg) == Datagram(h, Peer(h), "TCP", seg)
ReplyTo(packet) ==
  Datagram(packet.dst, packet.src, "ICMP", Echo("reply", 0, packet.payload.tag))
RequestOf(reply) ==
  Datagram(reply.dst, reply.src, "ICMP", Echo("request", 0, reply.payload.tag))

(* A ping: the one packet that is answered by ICMP, by the host it is addressed to. *)
Asks(packet) ==
  /\ packet # Malformed /\ packet.protocol = "ICMP" /\ packet.payload # Malformed
  /\ packet.payload.icmp_type = "request" /\ packet.payload.code = 0

(* The packets of the network: others', and what the hosts send. *)
Foreign == {s[2] : s \in Stray}
Packets ==
  Foreign \cup [src : Hosts, dst : Hosts \cup {x.src : x \in Foreign},
                protocol : {"TCP", "ICMP"},
                payload : Segments({Port[h] : h \in Hosts})
                            \cup [icmp_type : {"reply"}, code : {0},
                                  tag : {x.payload.tag : x \in Foreign}]]

(* The pings in a queue. *)
Pings(q) == {i \in 1 .. Len(q) : Asks(q[i])}

(* What a packet to host h that belongs to the connection is. *)
Delivers(h, packet) ==
  OfConnection(h, packet) =>
    /\ SegmentOf(End(Peer(h)), End(h), host[Peer(h)].connection, packet.payload)
    /\ ~packet.payload.rst

(* The types. *)
Types ==
  /\ host = [h \in Hosts |-> host[h]] /\ net \in [Hosts -> Seq(Packets)]
  /\ shown = [h \in Hosts |-> shown[h]] /\ echoes \in Seq(Packets)
  /\ faults \in Nat /\ injected \in SUBSET Stray /\ IsFiniteSet(injected)

(***************************************************************************)
(* The connection: each end follows the other, nothing has failed, every   *)
(* segment on its way is its sender's, and the program has been shown what *)
(* the reassembler holds and nothing that was not sent.                    *)
(***************************************************************************)
EndOK(h) ==
  LET c == host[h].connection
      p == host[Peer(h)].connection IN
  /\ HostOK(h, host[h]) /\ Follows(c.receiver, p.sender) /\ Clean(c, p)
  /\ \A i \in 1 .. Len(net[h]) : Delivers(h, net[h][i])
  /\ \A b \in Nat : Holds(c.receiver.reassembler, b) => b \in shown[h]
  /\ shown[h] \subseteq 0 .. p.sender.outbound.bytes_popped - 1

(***************************************************************************)
(* The pings: each one on its way was put there by others, each reply      *)
(* answers one of them, and both together are no more than others have     *)
(* sent and the network has repeated.  Without a fault no two of them are  *)
(* the same, and none on its way has been answered.                        *)
(***************************************************************************)
AskedByOthers ==
  \A h \in Hosts : \A i \in Pings(net[h]) : <<h, net[h][i]>> \in injected
RepliesAnswer ==
  \A k \in 1 .. Len(echoes) :
    /\ echoes[k].payload.icmp_type = "reply" /\ RequestOf(echoes[k]) # Malformed
    /\ <<echoes[k].src, RequestOf(echoes[k])>> \in injected
FewPings ==
  \A h \in Hosts :
    Len(echoes) + Cardinality(Pings(net[h])) + Cardinality(Pings(net[Peer(h)]))
      <= Cardinality(injected) + faults
PingsDiffer ==
  /\ \A h \in Hosts : \A i, j \in Pings(net[h]) : i # j => net[h][i] # net[h][j]
  /\ \A h \in Hosts : \A i \in Pings(net[h]) : \A k \in 1 .. Len(echoes) :
       net[h][i].dst = h => echoes[k] # ReplyTo(net[h][i])
  /\ \A i, j \in 1 .. Len(echoes) : i # j => echoes[i] # echoes[j]

PingInv == AskedByOthers /\ RepliesAnswer /\ FewPings /\ (faults = 0 => PingsDiffer)

(* The inductive invariant. *)
IInv == Types /\ (\A h \in Hosts : EndOK(h)) /\ PingInv
-----------------------------------------------------------------------------
(* There are two hosts, each the other's peer. *)
LEMMA TwoHosts ==
  ASSUME NEW h \in Hosts
  PROVE  /\ Peer(h) \in Hosts /\ Peer(h) # h /\ Peer(Peer(h)) = h
         /\ \A g \in Hosts : g = h \/ g = Peer(h)
<1>1. PICK a \in Hosts, b \in Hosts : a # b /\ Hosts = {a, b}
  BY HostNetworkAssumption DEF HostNetworkAssumption
<1>2. ASSUME NEW g \in Hosts PROVE Peer(g) \in Hosts /\ Peer(g) # g
  <2>1. \E p \in Hosts : p # g BY <1>1
  <2> QED BY <2>1 DEF Peer
<1> QED BY <1>1, <1>2

(* The ends of this network. *)
LEMMA HostEnds ==
  ASSUME ShortStreams, NEW h \in Hosts
  PROVE  /\ IsEnd(End(h)) /\ IsEnd(End(Peer(h)))
         /\ End(h).port = Port[h] /\ End(h).isn = ISN[h] /\ End(h).length = StreamLength[h]
<1>1. Peer(h) \in Hosts BY TwoHosts
<1>2. ASSUME NEW x \in Hosts
      PROVE  /\ End(x).port = Port[x] /\ End(x).isn = ISN[x] /\ End(x).length = StreamLength[x]
             /\ ISN[x] \in RawValues /\ StreamLength[x] \in Nat
             /\ 2 * (StreamLength[x] + 2) <= MODULUS
  BY HostNetworkAssumption DEF HostNetworkAssumption, ShortStreams, End
<1>3. ASSUME NEW x \in Hosts PROVE IsEnd(End(x)) BY <1>2 DEF IsEnd
<1> QED BY <1>1, <1>2, <1>3

(***************************************************************************)
(* What Having keeps of a sequence: elements of it with that value, and no *)
(* more than there are.                                                    *)
(***************************************************************************)
LEMMA HavingKeeps ==
  ASSUME NEW S, NEW q \in Seq(S), NEW field, NEW value
  PROVE  /\ Having(q, field, value) \in Seq(S)
         /\ Len(Having(q, field, value)) <= Len(q)
         /\ \A i \in 1 .. Len(Having(q, field, value)) : \E j \in 1 .. Len(q) :
              Having(q, field, value)[i] = q[j] /\ q[j][field] = value
<1> DEFINE L == Len(q)
           Step(v, k) == IF q[k][field] = value THEN Append(v, q[k]) ELSE v
           Solves(g, n) == g = [k \in 0 .. n |-> IF k = 0 THEN <<>> ELSE Step(g[k - 1], k)]
           N == {n \in 0 .. L : \E g : Solves(g, n)}
           having == CHOOSE g : Solves(g, L)
<1>0. Having(q, field, value) = having[L] BY DEF Having
<1> HIDE DEF Step
<1>1. L \in Nat OBVIOUS
<1>2. 0 \in N
  <2> DEFINE g == [k \in 0 .. 0 |-> <<>>]
  <2>1. g = [k \in 0 .. 0 |-> IF k = 0 THEN <<>> ELSE Step(g[k - 1], k)] OBVIOUS
  <2> HIDE DEF g
  <2>2. Solves(g, 0) BY <2>1
  <2>3. 0 \in 0 .. L BY <1>1
  <2> QED BY <2>2, <2>3
<1>3. ASSUME NEW n \in N, n < L PROVE n + 1 \in N
  <2>1. PICK g : Solves(g, n) OBVIOUS
  <2>2. n \in Nat /\ n + 1 \in 0 .. L BY <1>1, <1>3
  <2> DEFINE h == [k \in 0 .. n + 1 |-> IF k <= n THEN g[k] ELSE Step(g[n], k)]
  <2>3. ASSUME NEW k \in 0 .. n + 1 PROVE h[k] = IF k = 0 THEN <<>> ELSE Step(h[k - 1], k)
    <3>1. CASE k = 0 BY <3>1, <2>1, <2>2
    <3>2. CASE k # 0 /\ k <= n
      <4>1. k \in 0 .. n /\ k - 1 \in 0 .. n /\ k - 1 \in 0 .. n + 1 /\ k - 1 <= n BY <3>2, <2>2
      <4>2. g[k] = Step(g[k - 1], k) BY <4>1, <3>2, <2>1
      <4>3. h[k] = g[k] /\ h[k - 1] = g[k - 1] BY <4>1, <3>2
      <4> QED BY <4>2, <4>3, <3>2
    <3>3. CASE k = n + 1
      <4>1. ~ (k <= n) /\ k # 0 /\ k - 1 = n /\ n \in 0 .. n + 1 /\ n <= n BY <3>3, <2>2
      <4>2. h[k] = Step(g[n], k) /\ h[n] = g[n] BY <4>1
      <4> QED BY <4>1, <4>2
    <3> QED BY <3>1, <3>2, <3>3, <2>2
  <2>4. h = [k \in 0 .. n + 1 |-> h[k]] OBVIOUS
  <2> HIDE DEF h
  <2>5. Solves(h, n + 1) BY <2>3, <2>4
  <2> QED BY <2>2, <2>5
<1>4. L \in N
  <2> HIDE DEF N, L
  <2>1. N \in SUBSET (0 .. L) BY DEF N
  <2> QED BY <1>1, <1>2, <1>3, <2>1, IntervalInduction
<1>5. Solves(having, L)
  <2>1. \E g : Solves(g, L) BY <1>4
  <2> HIDE DEF Solves
  <2> QED BY <2>1
<1> HIDE DEF having
<1> DEFINE Good(v, n) == /\ v \in Seq(S) /\ Len(v) <= n
                         /\ \A i \in 1 .. Len(v) : \E j \in 1 .. n :
                              v[i] = q[j] /\ q[j][field] = value
           T == {n \in 0 .. L : Good(having[n], n)}
<1>6. 0 \in T
  <2>1. 0 \in 0 .. L /\ having[0] = <<>> BY <1>1, <1>5
  <2>2. Good(<<>>, 0)
    <3> DEFINE v == <<>>
    <3>1. v \in Seq(S) /\ Len(v) = 0 OBVIOUS
    <3> HIDE DEF v
    <3>2. \A i \in 1 .. Len(v) : FALSE BY <3>1
    <3>3. Good(v, 0) BY <3>1, <3>2
    <3> QED BY <3>3 DEF v
  <2> HIDE DEF Good
  <2> QED BY <2>1, <2>2
<1>7. ASSUME NEW n \in T, n < L PROVE n + 1 \in T
  <2>1. n \in Nat /\ n + 1 \in 0 .. L /\ n + 1 # 0 /\ n + 1 - 1 = n /\ n + 1 \in 1 .. Len(q)
    BY <1>1, <1>7
  <2> DEFINE v == having[n]
             d == q[n + 1]
             w == Append(v, d)
  <2>2. having[n + 1] = Step(v, n + 1) BY <2>1, <1>5
  <2>3. Good(v, n) OBVIOUS
  <2>4. d \in S BY <2>1
  <2> HIDE DEF v
  <2>5. v \in Seq(S) /\ Len(v) \in Nat /\ Len(v) <= n BY <2>3
  <2>6. \A i \in 1 .. Len(v) : \E j \in 1 .. n + 1 : v[i] = q[j] /\ q[j][field] = value
    BY <2>1, <2>3
  <2>7. CASE d[field] = value
    <3>1. Step(v, n + 1) = w BY <2>7 DEF Step
    <3>2. /\ w \in Seq(S) /\ Len(w) = Len(v) + 1 /\ w[Len(v) + 1] = d
          /\ \A i \in 1 .. Len(v) : w[i] = v[i]
      <4> HIDE DEF d
      <4> QED BY <2>4, <2>5
    <3> HIDE DEF w
    <3>3. ASSUME NEW i \in 1 .. Len(w)
          PROVE  \E j \in 1 .. n + 1 : w[i] = q[j] /\ q[j][field] = value
      <4>1. i = Len(v) + 1 \/ i \in 1 .. Len(v) BY <3>2, <2>5
      <4>2. CASE i = Len(v) + 1
        <5>1. w[i] = q[n + 1] /\ n + 1 \in 1 .. n + 1 BY <4>2, <3>2, <2>1
        <5> QED BY <5>1, <2>7
      <4>3. CASE i \in 1 .. Len(v) BY <4>3, <3>2, <2>6
      <4> QED BY <4>1, <4>2, <4>3
    <3>4. Good(w, n + 1) BY <3>2, <3>3, <2>1, <2>5
    <3>5. having[n + 1] = w BY <3>1, <2>2
    <3> HIDE DEF Good, Step
    <3> QED BY <3>4, <3>5, <2>1
  <2>8. CASE d[field] # value
    <3>1. Step(v, n + 1) = v BY <2>8 DEF Step
    <3>2. Good(v, n + 1)
      <4>1. Len(v) <= n + 1 BY <2>1, <2>5
      <4> HIDE DEF Step, L
      <4> QED BY <4>1, <2>5, <2>6
    <3>3. having[n + 1] = v BY <3>1, <2>2
    <3> HIDE DEF Good, Step
    <3> QED BY <3>2, <3>3, <2>1
  <2> QED BY <2>7, <2>8
<1>8. L \in T
  <2> HIDE DEF T, L
  <2>1. T \in SUBSET (0 .. L) BY DEF T
  <2> QED BY <1>1, <1>6, <1>7, <2>1, IntervalInduction
<1> QED BY <1>0, <1>8
-----------------------------------------------------------------------------
(* The elements of two sequences, one after the other. *)
LEMMA ElementsOf ==
  ASSUME NEW S, NEW q \in Seq(S), NEW r \in Seq(S)
  PROVE  /\ q \o r \in Seq(S) /\ Len(q \o r) = Len(q) + Len(r)
         /\ Len(q) \in Nat /\ Len(r) \in Nat
         /\ \A i \in 1 .. Len(q) : i \in 1 .. Len(q \o r) /\ (q \o r)[i] = q[i]
         /\ \A i \in 1 .. Len(q \o r) :
              \/ i \in 1 .. Len(q) /\ (q \o r)[i] = q[i]
              \/ i - Len(q) \in 1 .. Len(r) /\ (q \o r)[i] = r[i - Len(q)]
<1>1. /\ q \o r \in Seq(S) /\ Len(q \o r) = Len(q) + Len(r)
      /\ Len(q) \in Nat /\ Len(r) \in Nat
  OBVIOUS
<1>2. ASSUME NEW i \in 1 .. Len(q) + Len(r)
      PROVE  \/ i \in 1 .. Len(q) /\ (q \o r)[i] = q[i]
             \/ i - Len(q) \in 1 .. Len(r) /\ (q \o r)[i] = r[i - Len(q)]
  <2>1. CASE i <= Len(q)
    <3>1. i \in 1 .. Len(q) BY <2>1, <1>1
    <3> QED BY <3>1
  <2>2. CASE i > Len(q)
    <3>1. i - Len(q) \in 1 .. Len(r) BY <2>2, <1>1
    <3>2. (q \o r)[i] = r[i - Len(q)] BY <2>2, <3>1, <1>1
    <3> QED BY <3>1, <3>2
  <2>3. i <= Len(q) \/ i > Len(q) BY <1>1
  <2> QED BY <2>1, <2>2, <2>3, Zenon
<1>3. \A i \in 1 .. Len(q) : i \in 1 .. Len(q) + Len(r) /\ (q \o r)[i] = q[i] BY <1>1
<1> QED BY <1>1, <1>2, <1>3

(* A queue without its first packet. *)
LEMMA TailOf ==
  ASSUME NEW S, NEW q \in Seq(S), q # <<>>
  PROVE  /\ Tail(q) \in Seq(S) /\ Len(Tail(q)) = Len(q) - 1 /\ Len(q) \in Nat /\ Len(q) >= 1
         /\ Head(q) \in S /\ Head(q) = q[1] /\ 1 \in 1 .. Len(q)
         /\ \A i \in 1 .. Len(Tail(q)) : i + 1 \in 1 .. Len(q) /\ Tail(q)[i] = q[i + 1]
<1>1. /\ Tail(q) \in Seq(S) /\ Len(Tail(q)) = Len(q) - 1 /\ Len(q) \in Nat /\ Len(q) >= 1
      /\ Head(q) \in S /\ Head(q) = q[1]
      /\ \A i \in 1 .. Len(q) - 1 : Tail(q)[i] = q[i + 1]
  OBVIOUS
<1>2. \A i \in 1 .. Len(q) - 1 : i + 1 \in 1 .. Len(q) BY <1>1
<1> QED BY <1>1, <1>2

(* A host goes on: rest is what is still on its way to it, and its datagrams travel. *)
Moved(h, r, rest) ==
  /\ Types /\ r.datagrams \in Seq(Packets)
  /\ rest = net[h] \/ (net[h] # <<>> /\ rest = Tail(net[h]))
  /\ Perform(h, r, rest)

Queued(h, rest, g) == IF g = h THEN rest ELSE net[g]

(* What the network carries then: what was on its way, and datagrams out of q. *)
Routed(h, q, rest) ==
  /\ rest \in Seq(Packets)
  /\ \A i \in 1 .. Len(rest) : \E j \in 1 .. Len(net[h]) : rest[i] = net[h][j]
  /\ net' \in [Hosts -> Seq(Packets)]
  /\ \A g \in Hosts : \E add \in Seq(Packets) :
       /\ net'[g] = Queued(h, rest, g) \o add
       /\ \A i \in 1 .. Len(add) : \E j \in 1 .. Len(q) : add[i] = q[j] /\ add[i].dst = g
  /\ \E more \in Seq(Packets) :
       /\ echoes' = echoes \o more /\ Len(more) <= Len(q)
       /\ \A i \in 1 .. Len(more) : \E j \in 1 .. Len(q) :
            more[i] = q[j] /\ more[i].protocol = "ICMP"

(* emit_output: every packet of the network after it. *)
LEMMA MovedPackets ==
  ASSUME NEW h \in Hosts, NEW r, NEW rest, Moved(h, r, rest)
  PROVE  Routed(h, r.datagrams, rest)
<1> DEFINE q == r.datagrams
           Add(g) == Having(q, "dst", g)
           more == Having(q, "protocol", "ICMP")
<1>1. /\ net \in [Hosts -> Seq(Packets)] /\ q \in Seq(Packets)
      /\ rest = net[h] \/ (net[h] # <<>> /\ rest = Tail(net[h]))
      /\ net' = [g \in Hosts |-> Queued(h, rest, g) \o Add(g)] /\ echoes' = echoes \o more
  BY DEF Moved, Types, Perform, Queued
<1> HIDE DEF q
<1>2. net[h] \in Seq(Packets) BY <1>1
<1>3. /\ rest \in Seq(Packets)
      /\ \A i \in 1 .. Len(rest) : \E j \in 1 .. Len(net[h]) : rest[i] = net[h][j]
  <2>1. CASE rest = net[h] BY <2>1, <1>2
  <2>2. CASE net[h] # <<>> /\ rest = Tail(net[h])
    <3>1. /\ rest \in Seq(Packets)
          /\ \A i \in 1 .. Len(rest) : i + 1 \in 1 .. Len(net[h]) /\ rest[i] = net[h][i + 1]
      BY <2>2, <1>2, TailOf
    <3> QED BY <3>1
  <2> QED BY <2>1, <2>2, <1>1
<1>4. ASSUME NEW g
      PROVE  /\ Add(g) \in Seq(Packets)
             /\ \A i \in 1 .. Len(Add(g)) : \E j \in 1 .. Len(q) :
                  Add(g)[i] = q[j] /\ Add(g)[i].dst = g
  <2>1. /\ Add(g) \in Seq(Packets)
        /\ \A i \in 1 .. Len(Add(g)) : \E j \in 1 .. Len(q) :
             Add(g)[i] = q[j] /\ q[j]["dst"] = g
    BY <1>1, HavingKeeps
  <2> HIDE DEF Add
  <2> QED BY <2>1
<1>5. /\ more \in Seq(Packets) /\ Len(more) <= Len(q)
      /\ \A i \in 1 .. Len(more) : \E j \in 1 .. Len(q) :
           more[i] = q[j] /\ more[i].protocol = "ICMP"
  <2>1. /\ more \in Seq(Packets) /\ Len(more) <= Len(q)
        /\ \A i \in 1 .. Len(more) : \E j \in 1 .. Len(q) :
             more[i] = q[j] /\ q[j]["protocol"] = "ICMP"
    BY <1>1, HavingKeeps
  <2> HIDE DEF more
  <2> QED BY <2>1
<1> HIDE DEF Add, more
<1>6. ASSUME NEW g \in Hosts PROVE Queued(h, rest, g) \in Seq(Packets)
  BY <1>1, <1>3 DEF Queued
<1>7. \A g \in Hosts : Queued(h, rest, g) \o Add(g) \in Seq(Packets) BY <1>4, <1>6
<1>8. net' \in [Hosts -> Seq(Packets)] /\ \A g \in Hosts : net'[g] = Queued(h, rest, g) \o Add(g)
  BY <1>1, <1>7
<1>9. \A g \in Hosts : \E add \in Seq(Packets) :
        /\ net'[g] = Queued(h, rest, g) \o add
        /\ \A i \in 1 .. Len(add) : \E j \in 1 .. Len(q) : add[i] = q[j] /\ add[i].dst = g
  BY <1>4, <1>8
<1>10. \E m \in Seq(Packets) :
         /\ echoes' = echoes \o m /\ Len(m) <= Len(q)
         /\ \A i \in 1 .. Len(m) : \E j \in 1 .. Len(q) : m[i] = q[j] /\ m[i].protocol = "ICMP"
  BY <1>1, <1>5
<1>11. Routed(h, q, rest) BY <1>3, <1>8, <1>9, <1>10 DEF Routed
<1> QED BY <1>11 DEF q
-----------------------------------------------------------------------------
(***************************************************************************)
(* What every call of host h does, seen from the other end: h's connection *)
(* becomes d and emits `out', the program has been shown `seen', and every *)
(* packet on its way is an old one, one of these segments or an ICMP one.  *)
(***************************************************************************)
Runs(h, d, out, seen) ==
  LET c == host[h].connection
      p == host[Peer(h)].connection IN
  /\ host' = [host EXCEPT ![h] = [local_ip |-> h, peer_ip |-> Peer(h), connection |-> d]]
  /\ Sends(End(h), End(Peer(h)), c, d, out)
  /\ KeepsInput(c.receiver, d.receiver) /\ Follows(d.receiver, p.sender) /\ Clean(d, p)
  /\ shown' = [shown EXCEPT ![h] = seen]
  /\ seen \subseteq 0 .. p.sender.outbound.bytes_popped - 1
  /\ \A b \in Nat : Holds(d.receiver.reassembler, b) => b \in seen
  /\ \A g \in Hosts : \A i \in 1 .. Len(net'[g]) :
       \/ \E j \in 1 .. Len(net[g]) : net'[g][i] = net[g][j]
       \/ g = Peer(h) /\ \E j \in 1 .. Len(out) : net'[g][i] = TcpDatagram(h, out[j])
       \/ net'[g][i].protocol = "ICMP"

(* Such a call keeps the connection in order. *)
LEMMA EndsKeep ==
  ASSUME ShortStreams, Types, \A g \in Hosts : EndOK(g),
         NEW h \in Hosts, NEW d, NEW out, NEW seen, Runs(h, d, out, seen)
  PROVE  \A g \in Hosts : EndOK(g)'
<1> DEFINE f == Peer(h)
           c == host[h].connection
           p == host[f].connection
           x == End(h)
           y == End(f)
           u == [local_ip |-> h, peer_ip |-> f, connection |-> d]
<1>1. /\ f \in Hosts /\ f # h /\ Peer(f) = h /\ \A g \in Hosts : g = h \/ g = f
  BY TwoHosts
<1>2. /\ HostOK(h, host[h]) /\ HostOK(f, host[f])
      /\ Follows(c.receiver, p.sender) /\ Follows(p.receiver, c.sender)
      /\ Clean(c, p) /\ Clean(p, c)
      /\ \A i \in 1 .. Len(net[h]) : Delivers(h, net[h][i])
      /\ \A i \in 1 .. Len(net[f]) : Delivers(f, net[f][i])
      /\ \A b \in Nat : Holds(p.receiver.reassembler, b) => b \in shown[f]
      /\ shown[f] \subseteq 0 .. c.sender.outbound.bytes_popped - 1
  BY <1>1 DEF EndOK
<1>3. /\ host' = [host EXCEPT ![h] = u] /\ Sends(x, y, c, d, out)
      /\ KeepsInput(c.receiver, d.receiver) /\ Follows(d.receiver, p.sender) /\ Clean(d, p)
      /\ shown' = [shown EXCEPT ![h] = seen]
      /\ seen \subseteq 0 .. p.sender.outbound.bytes_popped - 1
      /\ \A b \in Nat : Holds(d.receiver.reassembler, b) => b \in seen
  BY DEF Runs
<1>4. /\ \A i \in 1 .. Len(net'[h]) :
           \/ \E j \in 1 .. Len(net[h]) : net'[h][i] = net[h][j]
           \/ net'[h][i].protocol = "ICMP"
      /\ \A i \in 1 .. Len(net'[f]) :
           \/ \E j \in 1 .. Len(net[f]) : net'[f][i] = net[f][j]
           \/ \E j \in 1 .. Len(out) : net'[f][i] = TcpDatagram(h, out[j])
           \/ net'[f][i].protocol = "ICMP"
  BY <1>1 DEF Runs
<1>5. IsEnd(x) /\ IsEnd(y) /\ x.length = StreamLength[h] /\ y.length = StreamLength[f]
  BY <1>1, HostEnds
<1>6. Connected(x, y, c) /\ Connected(y, x, p) BY <1>1, <1>2 DEF HostOK
<1>7. /\ host'[h] = u /\ host'[f] = host[f] /\ shown'[h] = seen /\ shown'[f] = shown[f]
  BY <1>1, <1>3 DEF Types
<1> HIDE DEF u, c, p, x, y
<1>8. u.connection = d /\ u = [local_ip |-> h, peer_ip |-> f, connection |-> u.connection]
  BY DEF u
<1>9. /\ Connected(x, y, d) /\ Grows(c.sender, d.sender)
      /\ \A i \in 1 .. Len(out) :
           /\ SegmentOf(x, y, d, out[i])
           /\ out[i].rst => d.sender.outbound.error \/ d.receiver.reassembler.output.error
  BY <1>3 DEF Sends
<1>10. /\ SenderOK(c.sender) /\ SenderOK(d.sender) /\ SenderOK(p.sender)
       /\ ReceiverOK(c.receiver) /\ ReceiverOK(p.receiver)
       /\ p.sender.outbound.bytes_pushed <= y.length
  BY <1>6, <1>9 DEF Connected
<1>11. Follows(p.receiver, d.sender) BY <1>2, <1>9, <1>10, FollowsOn
<1>12. /\ Reached(c.receiver) \in Nat /\ Reached(d.receiver) \in Nat
       /\ Reached(c.receiver) <= Reached(d.receiver)
  BY <1>2, <1>3, <1>5, <1>10, ReachedGrows
<1>13. Clean(p, d)
  <2>1. p.sender.snd_una \in Nat
    <3>1. p.sender \in Senders BY <1>10 DEF SenderOK, Placed
    <3> QED BY <3>1, SenderNumbers
  <2> QED BY <2>1, <1>2, <1>12 DEF Clean
<1>14. \A i \in 1 .. Len(out) : ~out[i].rst BY <1>3, <1>9 DEF Clean
<1>15. /\ c.sender.outbound.bytes_popped \in Nat /\ d.sender.outbound.bytes_popped \in Nat
       /\ c.sender.outbound.bytes_popped <= d.sender.outbound.bytes_popped
  <2>1. c.sender \in Senders /\ d.sender \in Senders BY <1>10 DEF SenderOK, Placed
  <2>2. c.sender.outbound.bytes_popped <= d.sender.outbound.bytes_popped BY <1>9 DEF Grows
  <2> QED BY <2>1, <2>2, SenderNumbers
<1>16. shown[f] \subseteq 0 .. d.sender.outbound.bytes_popped - 1 BY <1>2, <1>15
<1> DEFINE Passes(g, k, packet) ==
             OfConnection(g, packet) =>
               /\ SegmentOf(End(Peer(g)), End(g), k, packet.payload)
               /\ ~packet.payload.rst
<1>17. \A i \in 1 .. Len(net'[h]) : Passes(h, p, net'[h][i])
  <2>1. \A i \in 1 .. Len(net[h]) : Passes(h, p, net[h][i]) BY <1>2 DEF Delivers, p
  <2>2. \A packet : packet.protocol = "ICMP" => Passes(h, p, packet) BY DEF OfConnection
  <2> HIDE DEF Passes
  <2> QED BY <2>1, <2>2, <1>4
<1>18. \A i \in 1 .. Len(net'[f]) : Passes(f, d, net'[f][i])
  <2>1. ASSUME NEW i \in 1 .. Len(net[f]) PROVE Passes(f, d, net[f][i])
    <3> SUFFICES ASSUME OfConnection(f, net[f][i])
                 PROVE  SegmentOf(x, y, d, net[f][i].payload) /\ ~net[f][i].payload.rst
      BY <1>1 DEF x, y
    <3>1. SegmentOf(x, y, c, net[f][i].payload) /\ ~net[f][i].payload.rst
      BY <1>1, <1>2 DEF Delivers, x, y, c
    <3> QED BY <3>1, <1>9, <1>10, <1>12, SegmentKept
  <2>2. \A packet : packet.protocol = "ICMP" => Passes(f, d, packet) BY DEF OfConnection
  <2>3. ASSUME NEW j \in 1 .. Len(out) PROVE Passes(f, d, TcpDatagram(h, out[j]))
    <3> DEFINE seg == out[j]
    <3>1. SegmentOf(x, y, d, seg) /\ ~seg.rst BY <1>9, <1>14
    <3> HIDE DEF seg
    <3>2. TcpDatagram(h, seg).payload = seg BY DEF TcpDatagram, Datagram
    <3>3. SegmentOf(End(Peer(f)), End(f), d, seg) BY <3>1, <1>1 DEF x, y
    <3> HIDE DEF x, y
    <3> QED BY <3>1, <3>2, <3>3 DEF seg
  <2> HIDE DEF Passes
  <2> QED BY <2>1, <2>2, <2>3, <1>4
<1>19. EndOK(h)'
  <2>1. HostOK(h, u) BY <1>8, <1>9 DEF HostOK, x, y
  <2>2. host'[h].connection = d /\ host'[f].connection = p BY <1>7, <1>8 DEF p
  <2>3. \A i \in 1 .. Len(net'[h]) : Passes(h, host'[f].connection, net'[h][i])
    <3> HIDE DEF Passes
    <3> QED BY <2>2, <1>17
  <2>4. /\ HostOK(h, host'[h]) /\ Follows(host'[h].connection.receiver, host'[f].connection.sender)
        /\ Clean(host'[h].connection, host'[f].connection)
        /\ \A b \in Nat : Holds(host'[h].connection.receiver.reassembler, b) => b \in shown'[h]
        /\ shown'[h] \subseteq 0 .. host'[f].connection.sender.outbound.bytes_popped - 1
    BY <2>1, <2>2, <1>3, <1>7
  <2> QED BY <2>3, <2>4 DEF EndOK, Delivers
<1>20. EndOK(f)'
  <2>1. host'[h].connection = d /\ host'[f].connection = p BY <1>7, <1>8 DEF p
  <2>2. \A i \in 1 .. Len(net'[f]) : Passes(f, host'[h].connection, net'[f][i])
    <3> HIDE DEF Passes
    <3> QED BY <2>1, <1>18
  <2>3. /\ HostOK(f, host'[f]) /\ Follows(host'[f].connection.receiver, host'[h].connection.sender)
        /\ Clean(host'[f].connection, host'[h].connection)
        /\ \A b \in Nat : Holds(host'[f].connection.receiver.reassembler, b) => b \in shown'[f]
        /\ shown'[f] \subseteq 0 .. host'[h].connection.sender.outbound.bytes_popped - 1
    BY <2>1, <1>2, <1>7, <1>11, <1>13, <1>16
  <2> QED BY <2>2, <2>3, <1>1 DEF EndOK, Delivers
<1> QED BY <1>1, <1>19, <1>20
-----------------------------------------------------------------------------
(* The pings of a queue are finitely many. *)
LEMMA PingsFinite ==
  ASSUME NEW S, NEW q \in Seq(S)
  PROVE  IsFiniteSet(Pings(q)) /\ Cardinality(Pings(q)) \in Nat
<1>1. Len(q) \in Nat OBVIOUS
<1>2. IsFiniteSet(1 .. Len(q)) BY <1>1, FS_Interval
<1>3. Pings(q) \in SUBSET (1 .. Len(q)) BY DEF Pings
<1>4. IsFiniteSet(Pings(q)) BY <1>2, <1>3, FS_Subset
<1> QED BY <1>4, FS_CardinalityType

(* Other packets behind a queue add no ping. *)
LEMMA PingsSame ==
  ASSUME NEW S, NEW q \in Seq(S), NEW r \in Seq(S), \A i \in 1 .. Len(r) : ~Asks(r[i])
  PROVE  /\ Pings(q \o r) = Pings(q)
         /\ \A i \in Pings(q) : (q \o r)[i] = q[i]
<1>1. /\ \A i \in 1 .. Len(q) : i \in 1 .. Len(q \o r) /\ (q \o r)[i] = q[i]
      /\ \A i \in 1 .. Len(q \o r) :
           \/ i \in 1 .. Len(q) /\ (q \o r)[i] = q[i]
           \/ i - Len(q) \in 1 .. Len(r) /\ (q \o r)[i] = r[i - Len(q)]
  BY ElementsOf
<1> DEFINE z == q \o r
<1> HIDE DEF z
<1>2. \A i \in 1 .. Len(q) : i \in 1 .. Len(z) /\ z[i] = q[i] BY <1>1 DEF z
<1>3. \A i \in 1 .. Len(z) : Asks(z[i]) => i \in 1 .. Len(q) /\ z[i] = q[i] BY <1>1 DEF z
<1>4. Pings(z) = Pings(q) BY <1>2, <1>3 DEF Pings
<1> QED BY <1>2, <1>4 DEF z, Pings

(* A packet behind a queue is at most one ping more, at its end. *)
LEMMA PingsAppend ==
  ASSUME NEW S, NEW q \in Seq(S), NEW x \in S
  PROVE  /\ Cardinality(Pings(Append(q, x))) <= Cardinality(Pings(q)) + 1
         /\ \A i \in Pings(Append(q, x)) :
              \/ i \in Pings(q) /\ Append(q, x)[i] = q[i]
              \/ i = Len(q) + 1 /\ Append(q, x)[i] = x /\ Asks(x)
<1> DEFINE z == Append(q, x)
<1>1. /\ z \in Seq(S) /\ Len(z) = Len(q) + 1 /\ Len(q) \in Nat /\ z[Len(q) + 1] = x
      /\ \A i \in 1 .. Len(q) : z[i] = q[i]
  OBVIOUS
<1> HIDE DEF z
<1>2. \A i \in 1 .. Len(z) : i \in 1 .. Len(q) \/ i = Len(q) + 1 BY <1>1
<1>3. ASSUME NEW i \in Pings(z)
      PROVE  \/ i \in Pings(q) /\ z[i] = q[i]
             \/ i = Len(q) + 1 /\ z[i] = x /\ Asks(x)
  <2>1. i \in 1 .. Len(z) /\ Asks(z[i]) BY DEF Pings
  <2> QED BY <2>1, <1>1, <1>2 DEF Pings
<1>4. Pings(z) \in SUBSET (Pings(q) \cup {Len(q) + 1}) BY <1>3
<1> DEFINE P == Pings(q)
           n == Len(q) + 1
<1>5. IsFiniteSet(P) /\ Cardinality(P) \in Nat BY PingsFinite
<1> HIDE DEF P, n
<1>6. IsFiniteSet(P \cup {n}) /\ Cardinality(P \cup {n}) <= Cardinality(P) + 1
  <2>1. /\ IsFiniteSet(P \cup {n})
        /\ Cardinality(P \cup {n}) = IF n \in P THEN Cardinality(P) ELSE Cardinality(P) + 1
    BY <1>5, FS_AddElement
  <2> QED BY <2>1, <1>5
<1>7. Cardinality(Pings(z)) <= Cardinality(P \cup {n}) BY <1>4, <1>6, FS_Subset DEF P, n
<1>8. Cardinality(P \cup {n}) \in Nat /\ Cardinality(Pings(z)) \in Nat
  BY <1>1, <1>6, FS_CardinalityType, PingsFinite
<1>9. Cardinality(Pings(z)) <= Cardinality(P) + 1 BY <1>5, <1>6, <1>7, <1>8
<1> QED BY <1>3, <1>9 DEF z, P

(* Without its first packet, a queue has the same pings, one place further on. *)
LEMMA PingsTail ==
  ASSUME NEW S, NEW q \in Seq(S), q # <<>>
  PROVE  /\ \A i \in Pings(Tail(q)) : i + 1 \in Pings(q) /\ Tail(q)[i] = q[i + 1] /\ i + 1 # 1
         /\ Cardinality(Pings(Tail(q))) <= Cardinality(Pings(q))
         /\ Asks(Head(q)) => /\ 1 \in Pings(q) /\ q[1] = Head(q)
                             /\ Cardinality(Pings(Tail(q))) + 1 <= Cardinality(Pings(q))
<1> DEFINE t == Tail(q)
           A == Pings(t)
           P == Pings(q)
           B == {i + 1 : i \in A}
<1>1. /\ t \in Seq(S) /\ Len(t) = Len(q) - 1 /\ Len(q) \in Nat /\ Len(q) >= 1
      /\ Head(q) = q[1] /\ 1 \in 1 .. Len(q)
      /\ \A i \in 1 .. Len(t) : i + 1 \in 1 .. Len(q) /\ t[i] = q[i + 1]
  BY TailOf
<1> HIDE DEF t
<1>2. \A i \in A : i \in Nat /\ i >= 1 BY <1>1 DEF Pings
<1>3. \A i \in A : i + 1 \in P /\ t[i] = q[i + 1] BY <1>1 DEF Pings
<1>4. \A i \in A : i + 1 # 1 BY <1>2
<1>5. IsFiniteSet(A) /\ Cardinality(A) \in Nat /\ IsFiniteSet(P) /\ Cardinality(P) \in Nat
  BY <1>1, PingsFinite
<1>6. Asks(Head(q)) => 1 \in P BY <1>1 DEF Pings
<1> HIDE DEF A, P
<1>7. ExistsBijection(A, B)
  <2> DEFINE f == [i \in A |-> i + 1]
  <2>1. f \in [A -> B] OBVIOUS
  <2>2. \A a, b \in A : f[a] = f[b] => a = b BY <1>2
  <2>3. \A b \in B : \E a \in A : f[a] = b OBVIOUS
  <2> HIDE DEF f, B
  <2> QED BY <2>1, <2>2, <2>3 DEF ExistsBijection, Bijection, Injection, Surjection, IsInjective
<1>8. B \in SUBSET P /\ B \in SUBSET (P \ {1}) BY <1>3, <1>4
<1> HIDE DEF B
<1>9. Cardinality(B) = Cardinality(A) BY <1>5, <1>7, FS_Bijection
<1>10. Cardinality(A) <= Cardinality(P) BY <1>5, <1>8, <1>9, FS_Subset
<1>11. Asks(Head(q)) => Cardinality(A) + 1 <= Cardinality(P)
  <2> SUFFICES ASSUME Asks(Head(q)) PROVE Cardinality(A) + 1 <= Cardinality(P) OBVIOUS
  <2>1. IsFiniteSet(P \ {1}) /\ Cardinality(P \ {1}) = Cardinality(P) - 1
    BY <1>5, <1>6, FS_RemoveElement
  <2>2. Cardinality(B) <= Cardinality(P \ {1}) BY <2>1, <1>8, FS_Subset
  <2> QED BY <2>1, <2>2, <1>5, <1>9
<1> QED BY <1>1, <1>3, <1>4, <1>6, <1>10, <1>11 DEF t, A, P

(* A ping of others is what its reply answers. *)
LEMMA PingForm ==
  ASSUME NEW h, NEW packet, <<h, packet>> \in Stray, Asks(packet)
  PROVE  /\ RequestOf(ReplyTo(packet)) = packet /\ packet # Malformed
         /\ ReplyTo(packet).payload.icmp_type = "reply" /\ ReplyTo(packet).src = packet.dst
         /\ h \in Hosts /\ packet \in Foreign
<1> DEFINE s == <<h, packet>>
<1>1. s[1] = h /\ s[2] = packet OBVIOUS
<1>2. /\ packet # Malformed /\ packet.protocol = "ICMP" /\ packet.payload # Malformed
      /\ packet.payload.icmp_type = "request" /\ packet.payload.code = 0
  BY DEF Asks
<1>3. /\ s[1] \in Hosts
      /\ s[2] # Malformed =>
           /\ s[2] = Datagram(s[2].src, s[2].dst, s[2].protocol, s[2].payload)
           /\ s[2].protocol = "ICMP" /\ s[2].payload # Malformed =>
                s[2].payload = Echo(s[2].payload.icmp_type, s[2].payload.code, s[2].payload.tag)
  BY StrayAssumption DEF StrayAssumption
<1>4. packet \in Foreign BY <1>1 DEF Foreign
<1> HIDE DEF s
<1>5. /\ h \in Hosts
      /\ packet = Datagram(packet.src, packet.dst, packet.protocol, packet.payload)
      /\ packet.payload = Echo(packet.payload.icmp_type, packet.payload.code, packet.payload.tag)
  BY <1>1, <1>2, <1>3
<1> DEFINE r == ReplyTo(packet)
<1>6. /\ r.src = packet.dst /\ r.dst = packet.src /\ r.payload.icmp_type = "reply"
      /\ r.payload.tag = packet.payload.tag
  BY DEF ReplyTo, Datagram, Echo
<1> HIDE DEF r
<1>7. RequestOf(r) = Datagram(packet.src, packet.dst, "ICMP",
                              Echo("request", 0, packet.payload.tag))
  BY <1>6 DEF RequestOf
<1>8. packet.payload = Echo("request", 0, packet.payload.tag) BY <1>2, <1>5
<1>9. RequestOf(r) = packet BY <1>2, <1>5, <1>7, <1>8
<1> QED BY <1>2, <1>4, <1>5, <1>6, <1>9 DEF r
(***************************************************************************)
(* The pings when host h goes on: `taken' packets leave its queue, only    *)
(* packets that are no pings join any, and if the one taken is a ping to h *)
(* there may be one reply to it.                                           *)
(***************************************************************************)
MovesPings(h, taken, rest, more) ==
  /\ taken \in {0, 1} /\ (taken = 1 => net[h] # <<>>)
  /\ rest = IF taken = 1 THEN Tail(net[h]) ELSE net[h]
  /\ net' \in [Hosts -> Seq(Packets)]
  /\ \A g \in Hosts : /\ Pings(net'[g]) = Pings(Queued(h, rest, g))
                      /\ \A i \in Pings(net'[g]) : net'[g][i] = Queued(h, rest, g)[i]
  /\ more \in Seq(Packets) /\ echoes' = echoes \o more
  /\ faults' = faults /\ injected' = injected
  /\ \/ Len(more) = 0
     \/ /\ Len(more) = 1 /\ taken = 1 /\ Asks(Head(net[h])) /\ Head(net[h]).dst = h
        /\ more[1] = ReplyTo(Head(net[h]))

LEMMA PingsMove ==
  ASSUME Types, PingInv, NEW h \in Hosts, NEW taken, NEW rest, NEW more,
         MovesPings(h, taken, rest, more)
  PROVE  PingInv'
<1>0. /\ taken \in {0, 1} /\ (taken = 1 => net[h] # <<>>)
      /\ rest = IF taken = 1 THEN Tail(net[h]) ELSE net[h]
      /\ net' \in [Hosts -> Seq(Packets)]
      /\ \A g \in Hosts : /\ Pings(net'[g]) = Pings(Queued(h, rest, g))
                          /\ \A i \in Pings(net'[g]) : net'[g][i] = Queued(h, rest, g)[i]
      /\ more \in Seq(Packets) /\ echoes' = echoes \o more
      /\ faults' = faults /\ injected' = injected
      /\ \/ Len(more) = 0
         \/ /\ Len(more) = 1 /\ taken = 1 /\ Asks(Head(net[h])) /\ Head(net[h]).dst = h
            /\ more[1] = ReplyTo(Head(net[h]))
  BY DEF MovesPings
<1> USE <1>0
<1> DEFINE f == Peer(h)
           P == Head(net[h])
           shift(g) == IF g = h THEN taken ELSE 0
           answered == Len(more) = 1
<1>1. /\ f \in Hosts /\ f # h /\ Peer(f) = h /\ \A g \in Hosts : g = h \/ g = f
  BY TwoHosts
<1>2. /\ net \in [Hosts -> Seq(Packets)] /\ echoes \in Seq(Packets) /\ faults \in Nat
      /\ injected \in SUBSET Stray /\ IsFiniteSet(injected)
  BY DEF Types
<1>3. AskedByOthers /\ RepliesAnswer /\ FewPings /\ (faults = 0 => PingsDiffer)
  BY DEF PingInv
<1>4. net[h] \in Seq(Packets) /\ net[f] \in Seq(Packets) BY <1>1, <1>2
<1>5. taken = 1 =>
        /\ \A i \in Pings(Tail(net[h])) : /\ i + 1 \in Pings(net[h]) /\ i + 1 # 1
                                          /\ Tail(net[h])[i] = net[h][i + 1]
        /\ Cardinality(Pings(Tail(net[h]))) <= Cardinality(Pings(net[h]))
        /\ Asks(P) => /\ 1 \in Pings(net[h]) /\ net[h][1] = P
                      /\ Cardinality(Pings(Tail(net[h]))) + 1 <= Cardinality(Pings(net[h]))
  BY <1>4, PingsTail
<1>6. \A g \in Hosts : \A i \in Pings(net[g]) : i \in Nat
  <2>1. \A g \in Hosts : Len(net[g]) \in Nat BY <1>2
  <2> QED BY <2>1 DEF Pings
<1>7. ASSUME NEW g \in Hosts, NEW i \in Pings(net'[g])
      PROVE  i \in Nat /\ i + shift(g) \in Pings(net[g]) /\ net'[g][i] = net[g][i + shift(g)]
  <2>1. i \in Nat
    <3>1. Len(net'[g]) \in Nat OBVIOUS
    <3> QED BY <3>1 DEF Pings
  <2>2. CASE g = h /\ taken = 1
    <3>1. Queued(h, rest, g) = Tail(net[h]) BY <2>2 DEF Queued
    <3>2. i \in Pings(Tail(net[h])) /\ net'[g][i] = Tail(net[h])[i] BY <3>1
    <3> QED BY <3>2, <2>1, <2>2, <1>5
  <2>3. CASE ~ (g = h /\ taken = 1)
    <3>1. Queued(h, rest, g) = net[g] BY <2>3 DEF Queued
    <3>2. shift(g) = 0 BY <2>3
    <3>3. i + shift(g) = i BY <3>2, <2>1
    <3>4. i \in Pings(net[g]) /\ net'[g][i] = net[g][i] BY <3>1
    <3> HIDE DEF shift
    <3> QED BY <3>3, <3>4, <2>1
  <2> QED BY <2>2, <2>3
<1>8. /\ Cardinality(Pings(net[h])) \in Nat /\ Cardinality(Pings(net[f])) \in Nat
      /\ Cardinality(Pings(net'[h])) \in Nat /\ Cardinality(Pings(net'[f])) \in Nat
      /\ Cardinality(injected) \in Nat /\ Len(echoes) \in Nat /\ Len(more) \in Nat
  <2>1. net'[h] \in Seq(Packets) /\ net'[f] \in Seq(Packets) BY <1>1
  <2>2. Cardinality(injected) \in Nat BY <1>2, FS_CardinalityType
  <2>3. Len(echoes) \in Nat /\ Len(more) \in Nat BY <1>2
  <2>4. Cardinality(Pings(net[h])) \in Nat /\ Cardinality(Pings(net[f])) \in Nat
    BY <1>4, PingsFinite
  <2>5. Cardinality(Pings(net'[h])) \in Nat /\ Cardinality(Pings(net'[f])) \in Nat
    BY <2>1, PingsFinite
  <2> QED BY <2>2, <2>3, <2>4, <2>5
<1>9. Pings(net'[f]) = Pings(net[f]) BY <1>1 DEF Queued
<1>10. Cardinality(Pings(net'[h])) + Len(more) <= Cardinality(Pings(net[h]))
  <2>1. Pings(net'[h]) = Pings(rest) BY DEF Queued
  <2>2. CASE taken = 0
    <3>1. rest = net[h] /\ Len(more) = 0 BY <2>2
    <3> QED BY <3>1, <2>1, <1>8
  <2>3. CASE taken = 1
    <3>1. rest = Tail(net[h]) BY <2>3
    <3>2. CASE Len(more) = 0 BY <3>1, <3>2, <2>1, <2>3, <1>5, <1>8
    <3>3. CASE Len(more) # 0
      <4>1. Len(more) = 1 /\ Asks(P) BY <3>3
      <4> QED BY <4>1, <3>1, <2>1, <2>3, <1>5
    <3> QED BY <3>2, <3>3
  <2> QED BY <2>2, <2>3
<1>11. answered => /\ taken = 1 /\ Asks(P) /\ P.dst = h /\ more[1] = ReplyTo(P)
                   /\ 1 \in Pings(net[h]) /\ net[h][1] = P /\ <<h, P>> \in injected
  BY <1>3, <1>5 DEF AskedByOthers
<1>12. answered => /\ RequestOf(more[1]) = P /\ P # Malformed /\ more[1].src = h
                   /\ more[1].payload.icmp_type = "reply"
  BY <1>2, <1>11, PingForm
<1> HIDE DEF P, answered, shift
<1>13. /\ Len(echoes') = Len(echoes) + Len(more)
       /\ \A k \in 1 .. Len(echoes') :
            \/ k \in 1 .. Len(echoes) /\ echoes'[k] = echoes[k]
            \/ k = Len(echoes) + 1 /\ echoes'[k] = more[1] /\ answered
  <2>1. Len(more) = 0 \/ Len(more) = 1 OBVIOUS
  <2>2. /\ Len(echoes') = Len(echoes) + Len(more)
        /\ \A k \in 1 .. Len(echoes') :
             \/ k \in 1 .. Len(echoes) /\ echoes'[k] = echoes[k]
             \/ k - Len(echoes) \in 1 .. Len(more) /\ echoes'[k] = more[k - Len(echoes)]
    BY <1>2, ElementsOf
  <2>3. ASSUME NEW k \in 1 .. Len(echoes'), k - Len(echoes) \in 1 .. Len(more)
        PROVE  k - Len(echoes) = 1 /\ k = Len(echoes) + 1 /\ Len(more) = 1
    <3> DEFINE e == Len(echoes)
               m == Len(more)
               n == k - e
    <3>1. e \in Nat /\ k \in Int /\ (m = 0 \/ m = 1) /\ n \in 1 .. m
      BY <2>1, <2>2, <2>3, <1>8
    <3>2. n = k - e OBVIOUS
    <3> HIDE DEF e, m, n
    <3>3. n = 1 /\ m = 1 BY <3>1
    <3>4. k = e + 1 BY <3>1, <3>2, <3>3
    <3> QED BY <3>3, <3>4 DEF e, m, n
  <2> QED BY <2>2, <2>3 DEF answered
<1>14. AskedByOthers' BY <1>3, <1>7 DEF AskedByOthers
<1>15. RepliesAnswer'
  <2>1. ASSUME NEW k \in 1 .. Len(echoes')
        PROVE  /\ echoes'[k].payload.icmp_type = "reply" /\ RequestOf(echoes'[k]) # Malformed
               /\ <<echoes'[k].src, RequestOf(echoes'[k])>> \in injected
    <3>1. CASE k \in 1 .. Len(echoes) /\ echoes'[k] = echoes[k] BY <3>1, <1>3 DEF RepliesAnswer
    <3>2. CASE echoes'[k] = more[1] /\ answered BY <3>2, <1>11, <1>12
    <3> QED BY <3>1, <3>2, <1>13
  <2> QED BY <2>1 DEF RepliesAnswer
<1>16. FewPings'
  <2>1. Len(echoes) + Cardinality(Pings(net[h])) + Cardinality(Pings(net[f]))
          <= Cardinality(injected) + faults
    BY <1>3 DEF FewPings
  <2>2. /\ Len(echoes') + Cardinality(Pings(net'[h])) + Cardinality(Pings(net'[f]))
             <= Cardinality(injected) + faults
        /\ Len(echoes') + Cardinality(Pings(net'[f])) + Cardinality(Pings(net'[h]))
             <= Cardinality(injected) + faults
    <3> DEFINE e == Len(echoes)
               m == Len(more)
               a == Cardinality(Pings(net[h]))
               b == Cardinality(Pings(net[f]))
               z == Cardinality(Pings(net'[h]))
               n == Cardinality(injected)
    <3>1. /\ e \in Nat /\ m \in Nat /\ a \in Nat /\ b \in Nat /\ z \in Nat /\ n \in Nat
          /\ faults \in Nat
      BY <1>2, <1>8
    <3>2. e + a + b <= n + faults /\ z + m <= a BY <2>1, <1>10
    <3>3. Len(echoes') = e + m /\ Cardinality(Pings(net'[f])) = b BY <1>9, <1>13
    <3> HIDE DEF e, m, a, b, z, n
    <3>4. e + m + z + b <= n + faults /\ e + m + b + z <= n + faults BY <3>1, <3>2
    <3> QED BY <3>3, <3>4 DEF z, n
  <2>3. \A g \in Hosts :
          Len(echoes') + Cardinality(Pings(net'[g])) + Cardinality(Pings(net'[Peer(g)]))
            <= Cardinality(injected) + faults
    BY <2>2, <1>1
  <2> QED BY <2>3 DEF FewPings
<1>17. ASSUME faults = 0 PROVE PingsDiffer'
  <2>1. PingsDiffer BY <1>3, <1>17
  <2>2. \A g \in Hosts : shift(g) \in {0, 1} BY DEF shift
  <2>3. ASSUME NEW g \in Hosts, NEW i \in Pings(net'[g]), NEW j \in Pings(net'[g]), i # j
        PROVE  net'[g][i] # net'[g][j]
    <3>1. i \in Nat /\ j \in Nat BY <1>7
    <3>2. i + shift(g) # j + shift(g)
      <4> DEFINE n == shift(g)
      <4>1. n = 0 \/ n = 1 BY <2>2
      <4> HIDE DEF n
      <4>2. i + n # j + n BY <4>1, <3>1, <2>3
      <4> QED BY <4>2 DEF n
    <3>3. /\ i + shift(g) \in Pings(net[g]) /\ net'[g][i] = net[g][i + shift(g)]
          /\ j + shift(g) \in Pings(net[g]) /\ net'[g][j] = net[g][j + shift(g)]
      BY <1>7
    <3> QED BY <3>2, <3>3, <2>1 DEF PingsDiffer
  <2>4. ASSUME NEW g \in Hosts, NEW i \in Pings(net'[g]), NEW k \in 1 .. Len(echoes'),
               net'[g][i].dst = g
        PROVE  echoes'[k] # ReplyTo(net'[g][i])
    <3> DEFINE Q == net'[g][i]
               j == i + shift(g)
    <3>1. i \in Nat /\ j \in Pings(net[g]) /\ Q = net[g][j] BY <1>7
    <3> HIDE DEF j
    <3>2. CASE k \in 1 .. Len(echoes) /\ echoes'[k] = echoes[k]
      BY <3>1, <3>2, <2>1, <2>4 DEF PingsDiffer
    <3>3. CASE echoes'[k] = more[1] /\ answered
      <4> SUFFICES ASSUME more[1] = ReplyTo(Q) PROVE FALSE BY <3>3
      <4>1. <<g, Q>> \in Stray /\ Asks(Q) BY <3>1, <1>2, <1>3 DEF AskedByOthers, Pings
      <4>2. RequestOf(ReplyTo(Q)) = Q /\ ReplyTo(Q).src = Q.dst BY <4>1, PingForm
      <4>3. Q = P /\ g = h BY <4>2, <3>3, <2>4, <1>12
      <4>4. shift(g) = 1 BY <4>3, <3>3, <1>11 DEF shift
      <4>5. j # 1
        <5>1. i >= 1
          <6>1. Len(net'[g]) \in Nat OBVIOUS
          <6> QED BY <6>1 DEF Pings
        <5> QED BY <5>1, <4>4, <3>1 DEF j
      <4>6. 1 \in Pings(net[h]) /\ net[h][1] = P BY <3>3, <1>11
      <4> QED BY <4>3, <4>5, <4>6, <3>1, <2>1 DEF PingsDiffer
    <3> QED BY <3>2, <3>3, <1>13
  <2>5. ASSUME NEW k \in 1 .. Len(echoes), answered PROVE echoes[k] # more[1]
    BY <2>1, <2>5, <1>11 DEF PingsDiffer
  <2>6. ASSUME NEW i \in 1 .. Len(echoes'), NEW j \in 1 .. Len(echoes'), i # j
        PROVE  echoes'[i] # echoes'[j]
    <3>1. CASE i \in 1 .. Len(echoes) /\ echoes'[i] = echoes[i]
      <4>1. CASE j \in 1 .. Len(echoes) /\ echoes'[j] = echoes[j]
        BY <3>1, <4>1, <2>1, <2>6 DEF PingsDiffer
      <4>2. CASE echoes'[j] = more[1] /\ answered BY <3>1, <4>2, <2>5
      <4> QED BY <4>1, <4>2, <1>13
    <3>2. CASE i = Len(echoes) + 1 /\ echoes'[i] = more[1] /\ answered
      <4>1. j \in 1 .. Len(echoes) /\ echoes'[j] = echoes[j] BY <3>2, <2>6, <1>13
      <4> QED BY <3>2, <4>1, <2>5
    <3> QED BY <3>1, <3>2, <1>13
  <2> QED BY <2>3, <2>4, <2>6 DEF PingsDiffer
<1> QED BY <1>14, <1>15, <1>16, <1>17 DEF PingInv
-----------------------------------------------------------------------------
(***************************************************************************)
(* What a call of host h does: it returns r, takes `taken' packets from    *)
(* its queue, its connection becomes d and emits `out', and the program    *)
(* has been shown `seen'.  Its datagrams are these segments, or one reply  *)
(* to the ping it was given.                                               *)
(***************************************************************************)
Replies(h, r, taken) ==
  /\ taken = 1 /\ Len(r.datagrams) = 1
  /\ Asks(Head(net[h])) /\ Head(net[h]).dst = h

Calls(h, r, taken, d, out, seen) ==
  LET c == host[h].connection
      p == host[Peer(h)].connection IN
  /\ taken \in {0, 1} /\ (taken = 1 => net[h] # <<>>)
  /\ Perform(h, r, IF taken = 1 THEN Tail(net[h]) ELSE net[h])
  /\ faults' = faults /\ injected' = injected
  /\ r.datagrams \in Seq(Packets)
  /\ \A i \in 1 .. Len(r.datagrams) :
       \/ \E j \in 1 .. Len(out) : r.datagrams[i] = TcpDatagram(h, out[j])
       \/ Replies(h, r, taken) /\ r.datagrams[i] = ReplyTo(Head(net[h]))
  /\ r.host = [local_ip |-> h, peer_ip |-> Peer(h), connection |-> d]
  /\ Sends(End(h), End(Peer(h)), c, d, out)
  /\ KeepsInput(c.receiver, d.receiver) /\ Follows(d.receiver, p.sender) /\ Clean(d, p)
  /\ seen = print_events(shown[h], r.payloads)
  /\ seen \subseteq 0 .. p.sender.outbound.bytes_popped - 1
  /\ \A b \in Nat : Holds(d.receiver.reassembler, b) => b \in seen

(* Such a call keeps the invariant. *)
LEMMA CallsKeep ==
  ASSUME ShortStreams, IInv, NEW h \in Hosts, NEW r, NEW taken, NEW d, NEW out, NEW seen,
         Calls(h, r, taken, d, out, seen)
  PROVE  IInv'
<1> DEFINE f == Peer(h)
           q == r.datagrams
           P == Head(net[h])
           rest == IF taken = 1 THEN Tail(net[h]) ELSE net[h]
           replied == Replies(h, r, taken)
<1>1. /\ f \in Hosts /\ f # h /\ Peer(f) = h /\ \A g \in Hosts : g = h \/ g = f
  BY TwoHosts
<1>2. Types /\ (\A g \in Hosts : EndOK(g)) /\ PingInv BY DEF IInv
<1>3. /\ Moved(h, r, rest) /\ Perform(h, r, rest)
      /\ taken \in {0, 1} /\ (taken = 1 => net[h] # <<>>)
      /\ faults' = faults /\ injected' = injected
  BY <1>2 DEF Moved, Calls
<1> HIDE DEF rest
<1>4. /\ rest \in Seq(Packets)
      /\ \A i \in 1 .. Len(rest) : \E j \in 1 .. Len(net[h]) : rest[i] = net[h][j]
      /\ net' \in [Hosts -> Seq(Packets)]
      /\ \A g \in Hosts : \E add \in Seq(Packets) :
           /\ net'[g] = Queued(h, rest, g) \o add
           /\ \A i \in 1 .. Len(add) : \E j \in 1 .. Len(q) : add[i] = q[j] /\ add[i].dst = g
      /\ \E more \in Seq(Packets) :
           /\ echoes' = echoes \o more /\ Len(more) <= Len(q)
           /\ \A i \in 1 .. Len(more) : \E j \in 1 .. Len(q) :
                more[i] = q[j] /\ more[i].protocol = "ICMP"
  <2>1. Routed(h, q, rest) BY <1>3, MovedPackets
  <2> HIDE DEF q
  <2> QED BY <2>1 DEF Routed
<1>5. \A i \in 1 .. Len(q) :
        \/ \E j \in 1 .. Len(out) : q[i] = TcpDatagram(h, out[j])
        \/ replied /\ q[i] = ReplyTo(P)
  BY DEF Calls
<1>6. \A seg : LET packet == TcpDatagram(h, seg) IN
                 packet.dst = f /\ packet.protocol = "TCP" /\ ~Asks(packet)
  BY DEF TcpDatagram, Datagram, Asks
<1>7. ReplyTo(P).protocol = "ICMP" /\ ~Asks(ReplyTo(P))
  <2>1. ReplyTo(P).payload.icmp_type = "reply" /\ ReplyTo(P).protocol = "ICMP"
    BY DEF ReplyTo, Datagram, Echo
  <2> QED BY <2>1 DEF Asks
<1> HIDE DEF q, P, replied
<1>8. ASSUME NEW g \in Hosts
      PROVE  /\ \A i \in 1 .. Len(net'[g]) :
                  \/ \E j \in 1 .. Len(net[g]) : net'[g][i] = net[g][j]
                  \/ g = f /\ \E j \in 1 .. Len(out) : net'[g][i] = TcpDatagram(h, out[j])
                  \/ net'[g][i].protocol = "ICMP"
             /\ Pings(net'[g]) = Pings(Queued(h, rest, g))
             /\ \A i \in Pings(net'[g]) : net'[g][i] = Queued(h, rest, g)[i]
  <2> DEFINE base == Queued(h, rest, g)
  <2>1. PICK add \in Seq(Packets) :
          /\ net'[g] = base \o add
          /\ \A i \in 1 .. Len(add) : \E j \in 1 .. Len(q) : add[i] = q[j] /\ add[i].dst = g
    BY <1>4
  <2>2. /\ base \in Seq(Packets)
        /\ \A i \in 1 .. Len(base) : \E j \in 1 .. Len(net[g]) : base[i] = net[g][j]
    <3>1. CASE g = h
      <4>1. base = rest BY <3>1 DEF Queued
      <4> HIDE DEF base
      <4> QED BY <4>1, <3>1, <1>4
    <3>2. CASE g # h
      <4>1. base = net[g] BY <3>2 DEF Queued
      <4>2. net[g] \in Seq(Packets) BY <1>2 DEF Types
      <4> HIDE DEF base
      <4> QED BY <4>1, <4>2
    <3> QED BY <3>1, <3>2
  <2> HIDE DEF base
  <2>3. ASSUME NEW i \in 1 .. Len(add)
        PROVE  /\ ~Asks(add[i])
               /\ \/ g = f /\ \E j \in 1 .. Len(out) : add[i] = TcpDatagram(h, out[j])
                  \/ add[i].protocol = "ICMP"
    <3>1. PICK j \in 1 .. Len(q) : add[i] = q[j] /\ add[i].dst = g BY <2>1
    <3>2. CASE \E k \in 1 .. Len(out) : q[j] = TcpDatagram(h, out[k])
      <4>1. PICK k \in 1 .. Len(out) : q[j] = TcpDatagram(h, out[k]) BY <3>2
      <4>2. add[i] = TcpDatagram(h, out[k]) BY <4>1, <3>1
      <4> QED BY <4>2, <3>1, <1>6
    <3>3. CASE replied /\ q[j] = ReplyTo(P) BY <3>1, <3>3, <1>7
    <3> QED BY <3>2, <3>3, <1>5
  <2>4. /\ Pings(base \o add) = Pings(base)
        /\ \A i \in Pings(base) : (base \o add)[i] = base[i]
    BY <2>2, <2>3, PingsSame
  <2>5. \A i \in 1 .. Len(base \o add) :
          \/ i \in 1 .. Len(base) /\ (base \o add)[i] = base[i]
          \/ i - Len(base) \in 1 .. Len(add) /\ (base \o add)[i] = add[i - Len(base)]
    BY <2>2, ElementsOf
  <2>6. ASSUME NEW i \in 1 .. Len(net'[g])
        PROVE  \/ \E j \in 1 .. Len(net[g]) : net'[g][i] = net[g][j]
               \/ g = f /\ \E j \in 1 .. Len(out) : net'[g][i] = TcpDatagram(h, out[j])
               \/ net'[g][i].protocol = "ICMP"
    BY <2>1, <2>2, <2>3, <2>5
  <2> QED BY <2>1, <2>4, <2>6 DEF base
<1>9. Runs(h, d, out, seen)
  <2>1. /\ host' = [host EXCEPT ![h] = r.host] /\ shown' = [shown EXCEPT ![h] = seen]
    BY <1>3 DEF Perform, Calls
  <2>2. \A g \in Hosts : \A i \in 1 .. Len(net'[g]) :
          \/ \E j \in 1 .. Len(net[g]) : net'[g][i] = net[g][j]
          \/ g = Peer(h) /\ \E j \in 1 .. Len(out) : net'[g][i] = TcpDatagram(h, out[j])
          \/ net'[g][i].protocol = "ICMP"
    BY <1>8
  <2> QED BY <2>1, <2>2 DEF Runs, Calls
<1>10. \A g \in Hosts : EndOK(g)' BY <1>2, <1>9, EndsKeep
<1>11. PICK more \in Seq(Packets) :
         /\ echoes' = echoes \o more /\ Len(more) <= Len(q)
         /\ \A i \in 1 .. Len(more) : \E j \in 1 .. Len(q) :
              more[i] = q[j] /\ more[i].protocol = "ICMP"
  BY <1>4
<1>12. \/ Len(more) = 0
       \/ /\ Len(more) = 1 /\ taken = 1 /\ Asks(P) /\ P.dst = h
          /\ more[1] = ReplyTo(P)
  <2> SUFFICES ASSUME Len(more) # 0
               PROVE  /\ Len(more) = 1 /\ taken = 1 /\ Asks(P) /\ P.dst = h
                      /\ more[1] = ReplyTo(P)
    OBVIOUS
  <2>1. Len(more) \in Nat OBVIOUS
  <2>2. 1 \in 1 .. Len(more) BY <2>1
  <2>3. PICK j \in 1 .. Len(q) : more[1] = q[j] /\ more[1].protocol = "ICMP" BY <2>2, <1>11
  <2>4. ~ \E k \in 1 .. Len(out) : q[j] = TcpDatagram(h, out[k])
    <3>1. \A k \in 1 .. Len(out) : TcpDatagram(h, out[k]).protocol = "TCP" BY <1>6
    <3> QED BY <3>1, <2>3
  <2>5. replied /\ q[j] = ReplyTo(P) BY <2>4, <1>5
  <2>6. Len(more) = 1
    <3>1. Len(q) = 1 BY <2>5 DEF replied, Replies, q
    <3> DEFINE n == Len(more)
    <3>2. n <= 1 /\ n \in Nat /\ n # 0 BY <3>1, <2>1, <1>11
    <3> HIDE DEF n
    <3>3. n = 1 BY <3>2
    <3> QED BY <3>3 DEF n
  <2> QED BY <2>3, <2>5, <2>6 DEF replied, Replies, P
<1>13. PingInv'
  <2>1. \A g \in Hosts : /\ Pings(net'[g]) = Pings(Queued(h, rest, g))
                         /\ \A i \in Pings(net'[g]) : net'[g][i] = Queued(h, rest, g)[i]
    BY <1>8
  <2>2. \/ Len(more) = 0
        \/ /\ Len(more) = 1 /\ taken = 1 /\ Asks(Head(net[h])) /\ Head(net[h]).dst = h
           /\ more[1] = ReplyTo(Head(net[h]))
    BY <1>12 DEF P
  <2>3. MovesPings(h, taken, rest, more)
    BY <2>1, <2>2, <1>3, <1>4, <1>11 DEF MovesPings, rest
  <2> QED BY <2>3, <1>2, PingsMove
<1>14. Types'
  <2>1. /\ host = [g \in Hosts |-> host[g]] /\ shown = [g \in Hosts |-> shown[g]]
        /\ echoes \in Seq(Packets) /\ faults \in Nat /\ injected \in SUBSET Stray
        /\ IsFiniteSet(injected)
    BY <1>2 DEF Types
  <2>2. host' = [host EXCEPT ![h] = r.host] /\ shown' = [shown EXCEPT ![h] = seen]
    BY <1>3 DEF Perform, Calls
  <2>3. host' = [g \in Hosts |-> host'[g]] BY <2>1, <2>2
  <2>4. shown' = [g \in Hosts |-> shown'[g]] BY <2>1, <2>2
  <2>5. echoes' \in Seq(Packets) BY <2>1, <1>11
  <2> QED BY <2>1, <2>3, <2>4, <2>5, <1>3, <1>4 DEF Types
<1> QED BY <1>10, <1>13, <1>14 DEF IInv
-----------------------------------------------------------------------------
(* The invariant holds when nobody has sent anything. *)
LEMMA InitIInv == Init => IInv
<1> SUFFICES ASSUME Init PROVE IInv OBVIOUS
<1>1. /\ SENDER_CAPACITY \in Nat /\ RECEIVER_CAPACITY \in Nat
      /\ \A h \in Hosts : ISN[h] \in RawValues /\ StreamLength[h] \in Nat
  BY HostNetworkAssumption DEF HostNetworkAssumption
<1>2. ASSUME NEW h \in Hosts
      PROVE  LET c == host[h].connection IN
             /\ HostOK(h, host[h])
             /\ ~c.sender.outbound.error /\ ~c.receiver.reassembler.output.error
             /\ c.sender.snd_una = 0 /\ c.receiver.isn = None
             /\ c.receiver.reassembler.eof_index = None
             /\ \A b \in Nat : ~Holds(c.receiver.reassembler, b)
  <2> DEFINE x == End(h)
             y == End(Peer(h))
             k == new_connection(x.port, y.port, SENDER_CAPACITY, RECEIVER_CAPACITY, x.isn)
  <2>1. x.port = Port[h] /\ x.isn = ISN[h] /\ x.length = StreamLength[h] /\ y.port = Port[Peer(h)]
    BY DEF End
  <2>2. host[h] = new_host(h, Peer(h), new_connection(Port[h], Port[Peer(h)], SENDER_CAPACITY,
                                                      RECEIVER_CAPACITY, ISN[h]))
    BY DEF Init
  <2>3. x.isn \in RawValues /\ x.length \in Nat BY <2>1, <1>1
  <2>4. k = new_connection(Port[h], Port[Peer(h)], SENDER_CAPACITY, RECEIVER_CAPACITY, ISN[h])
    BY <2>1
  <2> HIDE DEF x, y
  <2>5. /\ Connected(x, y, k)
        /\ ~k.sender.outbound.error /\ ~k.receiver.reassembler.output.error
        /\ k.sender.snd_una = 0 /\ k.receiver.isn = None
        /\ k.receiver.reassembler.eof_index = None
        /\ \A b \in Nat : ~Holds(k.receiver.reassembler, b)
    BY <2>3, <1>1, ConnectionStarts
  <2> HIDE DEF k
  <2>6. host[h] = [local_ip |-> h, peer_ip |-> Peer(h), connection |-> k]
    BY <2>2, <2>4 DEF new_host
  <2>7. host[h].connection = k BY <2>6
  <2>8. HostOK(h, host[h]) BY <2>5, <2>6, <2>7 DEF HostOK, x, y
  <2> QED BY <2>5, <2>7, <2>8
<1>3. /\ host = [h \in Hosts |-> host[h]] /\ net = [h \in Hosts |-> <<>>]
      /\ shown = [h \in Hosts |-> {}] /\ echoes = <<>> /\ faults = 0 /\ injected = {}
  BY DEF Init
<1>4. \A h \in Hosts : net[h] = <<>> /\ Len(net[h]) = 0 /\ shown[h] = {} BY <1>3
<1>5. Types
  <2>1. IsFiniteSet({}) BY FS_EmptySet
  <2>2. net \in [Hosts -> Seq(Packets)] /\ echoes \in Seq(Packets) BY <1>3
  <2>3. shown = [h \in Hosts |-> shown[h]] BY <1>3
  <2> QED BY <2>1, <2>2, <2>3, <1>3 DEF Types
<1>6. ASSUME NEW h \in Hosts PROVE EndOK(h)
  <2> DEFINE c == host[h].connection
             p == host[Peer(h)].connection
  <2>1. Peer(h) \in Hosts BY TwoHosts
  <2>2. /\ c.receiver.isn = None /\ c.receiver.reassembler.eof_index = None
        /\ \A b \in Nat : ~Holds(c.receiver.reassembler, b)
        /\ p.receiver.isn = None /\ c.sender.snd_una = 0
        /\ ~c.sender.outbound.error /\ ~c.receiver.reassembler.output.error
        /\ HostOK(h, host[h])
    BY <2>1, <1>2
  <2> HIDE DEF c, p
  <2>3. Follows(c.receiver, p.sender) BY <2>2 DEF Follows
  <2>4. Clean(c, p)
    <3>1. Reached(p.receiver) = 0 BY <2>2 DEF Reached
    <3> QED BY <3>1, <2>2 DEF Clean
  <2>5. \A i \in 1 .. Len(net[h]) : Delivers(h, net[h][i])
    <3>1. \A i \in 1 .. Len(net[h]) : FALSE BY <1>4
    <3> QED BY <3>1
  <2>6. shown[h] = {} BY <1>4
  <2> QED BY <2>2, <2>3, <2>4, <2>5, <2>6 DEF EndOK, c, p
<1>7. \A h \in Hosts : Pings(net[h]) = {}
  <2>1. \A h \in Hosts : \A i \in 1 .. Len(net[h]) : FALSE BY <1>4
  <2> QED BY <2>1 DEF Pings
<1>8. Len(echoes) = 0 /\ \A k \in 1 .. Len(echoes) : FALSE BY <1>3
<1>9. AskedByOthers /\ RepliesAnswer /\ PingsDiffer
  BY <1>7, <1>8 DEF AskedByOthers, RepliesAnswer, PingsDiffer
<1>10. FewPings
  <2>1. Cardinality({}) = 0 BY FS_EmptySet
  <2>2. \A h \in Hosts : Peer(h) \in Hosts BY TwoHosts
  <2>3. \A h \in Hosts : /\ Cardinality(Pings(net[h])) = 0
                         /\ Cardinality(Pings(net[Peer(h)])) = 0
    BY <2>1, <2>2, <1>7
  <2>4. Cardinality(injected) = 0 /\ faults = 0 /\ Len(echoes) = 0 BY <2>1, <1>3, <1>8
  <2> QED BY <2>3, <2>4 DEF FewPings
<1> QED BY <1>5, <1>6, <1>9, <1>10 DEF IInv, PingInv
-----------------------------------------------------------------------------
(* wrap_tcp_segments: the segments as datagrams to the peer. *)
LEMMA Wrapped ==
  ASSUME NEW h \in Hosts, NEW x, HostOK(h, x), NEW t,
         t.out \in Seq(Segments({End(h).port, End(Peer(h)).port}))
  PROVE  LET r == wrap_tcp_segments(x, t) IN
         /\ r.host = [local_ip |-> h, peer_ip |-> Peer(h), connection |-> t.conn]
         /\ r.datagrams \in Seq(Packets) /\ Len(r.datagrams) = Len(t.out)
         /\ \A i \in 1 .. Len(t.out) : r.datagrams[i] = TcpDatagram(h, t.out[i])
         /\ r.payloads = <<>>
<1> DEFINE f == Peer(h)
           out == t.out
           n == Len(out)
           q == [i \in 1 .. n |-> TcpDatagram(h, out[i])]
           r == wrap_tcp_segments(x, t)
           S == Segments({End(h).port, End(f).port})
           T == Segments({Port[g] : g \in Hosts})
<1>1. f \in Hosts BY TwoHosts
<1>2. x = [local_ip |-> h, peer_ip |-> f, connection |-> x.connection] BY DEF HostOK
<1> DEFINE k == x.connection
<1>3. x = [local_ip |-> h, peer_ip |-> f, connection |-> k] BY <1>2
<1> HIDE DEF k
<1>4. x.local_ip = h /\ x.peer_ip = f BY <1>3
<1>5. r = [host |-> [x EXCEPT !.connection = t.conn], datagrams |-> q, payloads |-> <<>>]
  BY <1>4 DEF wrap_tcp_segments, TcpDatagram
<1>6. [x EXCEPT !.connection = t.conn]
        = [local_ip |-> h, peer_ip |-> f, connection |-> t.conn]
  BY <1>3
<1>7. S \subseteq T
  <2>1. End(h).port = Port[h] /\ End(f).port = Port[f] BY DEF End
  <2> DEFINE U == {End(h).port, End(f).port}
             V == {Port[g] : g \in Hosts}
  <2>2. U \subseteq V BY <2>1, <1>1
  <2> HIDE DEF U, V
  <2>3. Segments(U) \subseteq Segments(V) BY <2>2 DEF Segments
  <2> QED BY <2>3 DEF U, V
<1>8. \A i \in 1 .. n : out[i] \in T
  <2>1. \A i \in 1 .. n : out[i] \in S
    <3> HIDE DEF S
    <3> QED BY DEF S
  <2> HIDE DEF S, T
  <2> QED BY <2>1, <1>7
<1> HIDE DEF S, T
<1>9. \A s \in T : TcpDatagram(h, s) \in Packets
  BY <1>1 DEF Packets, TcpDatagram, Datagram, T
<1>10. n \in Nat OBVIOUS
<1> HIDE DEF n, out
<1>11. q \in [1 .. n -> Packets] BY <1>8, <1>9
<1>12. \A i \in 1 .. n : q[i] = TcpDatagram(h, out[i]) OBVIOUS
<1> HIDE DEF q, r
<1>13. q \in Seq(Packets) /\ Len(q) = n BY <1>10, <1>11, FunctionIsSequence
<1>14. r.datagrams = q /\ r.payloads = <<>>
       /\ r.host = [local_ip |-> h, peer_ip |-> f, connection |-> t.conn]
  BY <1>5, <1>6
<1> QED BY <1>12, <1>13, <1>14 DEF n, out, r

(* A call of the program that leaves the receiver alone keeps the invariant. *)
LEMMA OwnCall ==
  ASSUME ShortStreams, IInv, NEW h \in Hosts, NEW t,
         Sends(End(h), End(Peer(h)), host[h].connection, t.conn, t.out),
         t.conn.receiver = host[h].connection.receiver,
         SameFeedback(host[h].connection.sender, t.conn.sender),
         ~t.conn.sender.outbound.error,
         Perform(h, wrap_tcp_segments(host[h], t), net[h]),
         UNCHANGED <<faults, injected>>
  PROVE  IInv'
<1> DEFINE c == host[h].connection
           p == host[Peer(h)].connection
           d == t.conn
           r == wrap_tcp_segments(host[h], t)
<1>1. EndOK(h) BY DEF IInv
<1>2. /\ HostOK(h, host[h]) /\ Follows(c.receiver, p.sender) /\ Clean(c, p)
      /\ \A b \in Nat : Holds(c.receiver.reassembler, b) => b \in shown[h]
      /\ shown[h] \subseteq 0 .. p.sender.outbound.bytes_popped - 1
  BY <1>1 DEF EndOK
<1>3. /\ Connected(End(h), End(Peer(h)), d)
      /\ t.out \in Seq(Segments({End(h).port, End(Peer(h)).port}))
  BY DEF Sends
<1>4. /\ r.host = [local_ip |-> h, peer_ip |-> Peer(h), connection |-> d]
      /\ r.datagrams \in Seq(Packets) /\ Len(r.datagrams) = Len(t.out)
      /\ \A i \in 1 .. Len(t.out) : r.datagrams[i] = TcpDatagram(h, t.out[i])
      /\ r.payloads = <<>>
  BY <1>2, <1>3, Wrapped
<1> HIDE DEF r
<1>5. print_events(shown[h], r.payloads) = shown[h]
  <2>1. \A i \in DOMAIN r.payloads : FALSE BY <1>4
  <2> QED BY <2>1 DEF print_events
<1>6. KeepsInput(c.receiver, d.receiver)
  <2>1. ReceiverOK(d.receiver) BY <1>3 DEF Connected
  <2>2. Accepted(d.receiver, d.receiver, FALSE) BY <2>1, LeftAlone
  <2>3. KeepsInput(d.receiver, d.receiver) BY <2>2 DEF Accepted
  <2> QED BY <2>3
<1>7. Clean(d, p)
  BY <1>2 DEF Clean, SameFeedback
<1>8. Follows(d.receiver, p.sender) BY <1>2
<1>9. \A b \in Nat : Holds(d.receiver.reassembler, b) => b \in shown[h] BY <1>2
<1>10. Perform(h, r, IF 0 = 1 THEN Tail(net[h]) ELSE net[h]) BY DEF r
<1>11. \A i \in 1 .. Len(r.datagrams) :
         \E j \in 1 .. Len(t.out) : r.datagrams[i] = TcpDatagram(h, t.out[j])
  BY <1>4
<1>12. Calls(h, r, 0, d, t.out, shown[h])
  BY <1>2, <1>4, <1>5, <1>6, <1>7, <1>8, <1>9, <1>10, <1>11 DEF Calls
<1> QED BY <1>12, CallsKeep

(* The ends of the connection, as the lemmas about a connection want them. *)
LEMMA HostEnd ==
  ASSUME ShortStreams, IInv, NEW h \in Hosts
  PROVE  LET c == host[h].connection
             p == host[Peer(h)].connection IN
         /\ IsEnd(End(h)) /\ IsEnd(End(Peer(h)))
         /\ Connected(End(h), End(Peer(h)), c) /\ Connected(End(Peer(h)), End(h), p)
         /\ Follows(c.receiver, p.sender) /\ Follows(p.receiver, c.sender)
         /\ Clean(c, p) /\ HostOK(h, host[h])
<1>1. Peer(h) \in Hosts /\ Peer(Peer(h)) = h BY TwoHosts
<1>2. EndOK(h) /\ EndOK(Peer(h)) BY <1>1 DEF IInv
<1>3. IsEnd(End(h)) /\ IsEnd(End(Peer(h))) BY HostEnds
<1> QED BY <1>1, <1>2, <1>3 DEF EndOK, HostOK
-----------------------------------------------------------------------------
(* The program's calls and the clock keep the invariant. *)
LEMMA ProgramKeeps ==
  ASSUME ShortStreams, IInv, NEW h \in Hosts,
         Connect(h) \/ Write(h) \/ Close(h) \/ Tick(h)
  PROVE  IInv'
<1> DEFINE c == host[h].connection
           p == host[Peer(h)].connection
           x == End(h)
           y == End(Peer(h))
<1>1. /\ IsEnd(x) /\ IsEnd(y) /\ Connected(x, y, c) /\ Connected(y, x, p)
      /\ Follows(c.receiver, p.sender) /\ Clean(c, p)
  BY HostEnd
<1>2. ~c.sender.outbound.error BY <1>1 DEF Clean
<1>3. CASE Connect(h)
  <2> DEFINE t == flush_sender(c)
  <2>1. /\ Perform(h, wrap_tcp_segments(host[h], t), net[h]) /\ UNCHANGED <<faults, injected>>
    BY <1>3 DEF Connect, host_connect, connect
  <2> HIDE DEF c, p, x, y
  <2>2. /\ Sends(x, y, c, t.conn, t.out) /\ t.conn.receiver = c.receiver
        /\ SameWriting(c.sender, t.conn.sender) /\ SameFeedback(c.sender, t.conn.sender)
    BY <1>1, FlushSends
  <2> HIDE DEF t
  <2>3. ~t.conn.sender.outbound.error BY <2>2, <1>2 DEF SameWriting
  <2> QED BY <2>1, <2>2, <2>3, OwnCall DEF c, x, y
<1>4. CASE Write(h)
  <2> DEFINE next == c.sender.outbound.bytes_pushed
  <2>1. x.length = StreamLength[h] BY HostEnds
  <2>2. PICK n \in 1 .. x.length - next :
          Perform(h, wrap_tcp_segments(host[h], write(c, Bytes(next, next + n))), net[h])
    BY <2>1, <1>4 DEF Write, host_write, outbound
  <2> DEFINE t == write(c, Bytes(next, next + n))
  <2>3. UNCHANGED <<faults, injected>> BY <1>4 DEF Write
  <2> HIDE DEF c, p, x, y
  <2>4. /\ Sends(x, y, c, t.conn, t.out) /\ t.conn.receiver = c.receiver
        /\ SameFeedback(c.sender, t.conn.sender) /\ WroteOn(c.sender, t.conn.sender, x.length)
    BY <1>1, WriteSends
  <2>5. Perform(h, wrap_tcp_segments(host[h], t), net[h]) BY <2>2
  <2> HIDE DEF t
  <2>6. ~t.conn.sender.outbound.error BY <2>4, <1>2 DEF WroteOn
  <2> QED BY <2>3, <2>4, <2>5, <2>6, OwnCall DEF c, x, y
<1>5. CASE Close(h)
  <2> DEFINE t == close(c)
  <2>1. /\ Perform(h, wrap_tcp_segments(host[h], t), net[h]) /\ UNCHANGED <<faults, injected>>
    BY <1>5 DEF Close, host_close
  <2> HIDE DEF c, p, x, y
  <2>2. /\ Sends(x, y, c, t.conn, t.out) /\ t.conn.receiver = c.receiver
        /\ SameFeedback(c.sender, t.conn.sender) /\ ClosedIt(c.sender, t.conn.sender)
    BY <1>1, CloseSends
  <2> HIDE DEF t
  <2>3. ~t.conn.sender.outbound.error BY <2>2, <1>2 DEF ClosedIt
  <2> QED BY <2>1, <2>2, <2>3, OwnCall DEF c, x, y
<1>6. CASE Tick(h)
  <2> DEFINE t == connection_tick(c, 1)
  <2>1. /\ Perform(h, wrap_tcp_segments(host[h], t), net[h]) /\ UNCHANGED <<faults, injected>>
    BY <1>6 DEF Tick, host_tick
  <2> HIDE DEF c, p, x, y
  <2>2. /\ Sends(x, y, c, t.conn, t.out) /\ t.conn.receiver = c.receiver
        /\ SameWriting(c.sender, t.conn.sender) /\ SameFeedback(c.sender, t.conn.sender)
    BY <1>1, TickSends
  <2> HIDE DEF t
  <2>3. ~t.conn.sender.outbound.error BY <2>2, <1>2 DEF SameWriting
  <2> QED BY <2>1, <2>2, <2>3, OwnCall DEF c, x, y
<1> QED BY <1>3, <1>4, <1>5, <1>6
-----------------------------------------------------------------------------
(***************************************************************************)
(* receive_ipv4_bytes: a segment of the connection goes to it, a ping to   *)
(* the host is answered, and anything else leaves the host as it was.      *)
(***************************************************************************)
LEMMA Dispatches ==
  ASSUME NEW h \in Hosts, NEW x, HostOK(h, x), NEW packet
  PROVE  LET r == receive_ipv4_bytes(x, packet)
             c == x.connection IN
         /\ OfConnection(h, packet) =>
              r = [wrap_tcp_segments(x, receive_segment(c, packet.payload))
                     EXCEPT !.payloads = reported(c, packet.payload)]
         /\ ~OfConnection(h, packet) =>
              /\ r.host = x /\ r.payloads = <<>>
              /\ \/ r.datagrams = <<>>
                 \/ /\ Asks(packet) /\ packet.dst = h
                    /\ r.datagrams = <<ReplyTo(packet)>>
<1> DEFINE r == receive_ipv4_bytes(x, packet)
           c == x.connection
           f == Peer(h)
           seg == packet.payload
           rest == [wrap_tcp_segments(x, receive_segment(c, seg))
                      EXCEPT !.payloads = reported(c, seg)]
<1>1. /\ x = [local_ip |-> h, peer_ip |-> f, connection |-> x.connection]
      /\ Connected(End(h), End(f), x.connection)
  BY DEF HostOK
<1>2. x.local_ip = h /\ x.peer_ip = f
  <2> DEFINE k == x.connection
  <2>1. x = [local_ip |-> h, peer_ip |-> f, connection |-> k] BY <1>1
  <2> HIDE DEF k
  <2> QED BY <2>1
<1>3. c.local_port = Port[h] /\ c.peer_port = Port[f]
  <2> DEFINE s == c.sender
             v == c.receiver
             e == End(h)
             g == End(f)
  <2>1. c = [local_port |-> e.port, peer_port |-> g.port, sender |-> s, receiver |-> v]
    BY <1>1 DEF Connected
  <2>2. e.port = Port[h] /\ g.port = Port[f] BY DEF End
  <2> HIDE DEF c, s, v, e, g
  <2> QED BY <2>1, <2>2
<1> HIDE DEF c, rest
<1>4. Ignored(x).host = x /\ Ignored(x).datagrams = <<>> /\ Ignored(x).payloads = <<>>
  BY DEF Ignored
<1>5. ASSUME OfConnection(h, packet) PROVE r = rest
  <2>1. /\ packet # Malformed /\ packet.src = f /\ packet.dst = h /\ packet.protocol = "TCP"
        /\ seg # Malformed /\ seg.src_port = Port[f] /\ seg.dst_port = Port[h]
    BY <1>5 DEF OfConnection
  <2>2. r = receive_datagram(x, packet) BY <2>1 DEF receive_ipv4_bytes
  <2>3. receive_datagram(x, packet) = receive_tcp(x, seg)
    BY <2>1, <1>2 DEF receive_datagram, is_from_peer
  <2>4. receive_tcp(x, seg) = rest BY <2>1, <1>3 DEF receive_tcp, rest, c
  <2> QED BY <2>2, <2>3, <2>4
<1>6. ASSUME ~OfConnection(h, packet)
      PROVE  /\ r.host = x /\ r.payloads = <<>>
             /\ \/ r.datagrams = <<>>
                \/ /\ Asks(packet) /\ packet.dst = h
                   /\ r.datagrams = <<ReplyTo(packet)>>
  <2>1. CASE packet = Malformed
    <3>1. r = Ignored(x) BY <2>1 DEF receive_ipv4_bytes
    <3> QED BY <3>1, <1>4
  <2>2. CASE packet # Malformed /\ packet.dst # h
    <3>1. r = Ignored(x) BY <2>2, <1>2 DEF receive_ipv4_bytes, receive_datagram
    <3> QED BY <3>1, <1>4
  <2>3. CASE packet # Malformed /\ packet.dst = h /\ packet.protocol = "ICMP"
    <3>1. r = receive_icmp(x, packet.src, h, seg)
      BY <2>3, <1>2 DEF receive_ipv4_bytes, receive_datagram
    <3>2. CASE seg = Malformed
      <4>1. r = Ignored(x) BY <3>1, <3>2 DEF receive_icmp
      <4> QED BY <4>1, <1>4
    <3>3. CASE seg # Malformed
      <4> DEFINE reply == echo_reply_from_request(seg)
                 q == [i \in 1 .. Len(reply) |-> Datagram(h, packet.src, "ICMP", reply[i])]
      <4>1. r = [Ignored(x) EXCEPT !.datagrams = q] BY <3>1, <3>3 DEF receive_icmp
      <4> HIDE DEF q
      <4>2. r = [host |-> x, datagrams |-> q, payloads |-> <<>>] BY <4>1 DEF Ignored
      <4> HIDE DEF r
      <4>3. r.host = x /\ r.datagrams = q /\ r.payloads = <<>> BY <4>2
      <4>4. CASE seg.icmp_type # "request" \/ seg.code # 0
        <5>1. reply = <<>> BY <4>4 DEF echo_reply_from_request
        <5> HIDE DEF reply
        <5>2. q = <<>> BY <5>1 DEF q
        <5> QED BY <5>2, <4>3 DEF r
      <4>5. CASE seg.icmp_type = "request" /\ seg.code = 0
        <5>1. reply = <<Echo("reply", 0, seg.tag)>> BY <4>5 DEF echo_reply_from_request
        <5> HIDE DEF reply
        <5>2. q = <<Datagram(h, packet.src, "ICMP", Echo("reply", 0, seg.tag))>>
          <6> DEFINE e == Echo("reply", 0, seg.tag)
          <6>1. reply = <<e>> BY <5>1
          <6> HIDE DEF e
          <6>2. Len(reply) = 1 /\ reply[1] = e BY <6>1
          <6>3. q = [i \in 1 .. 1 |-> Datagram(h, packet.src, "ICMP", e)] BY <6>2 DEF q
          <6> DEFINE D == Datagram(h, packet.src, "ICMP", e)
          <6> HIDE DEF D
          <6>4. [i \in 1 .. 1 |-> D] = <<D>> OBVIOUS
          <6> QED BY <6>3, <6>4 DEF D, e
        <5>3. q = <<ReplyTo(packet)>> BY <5>2, <2>3 DEF ReplyTo
        <5>4. Asks(packet) BY <4>5, <3>3, <2>3 DEF Asks
        <5> QED BY <5>3, <5>4, <4>3, <2>3 DEF r
      <4> QED BY <4>4, <4>5
    <3> QED BY <3>2, <3>3
  <2>4. CASE packet # Malformed /\ packet.dst = h /\ packet.protocol # "ICMP"
    <3>1. CASE packet.protocol = "TCP" /\ packet.src = f
      <4>1. r = receive_tcp(x, seg)
        BY <3>1, <2>4, <1>2 DEF receive_ipv4_bytes, receive_datagram, is_from_peer
      <4>2. seg = Malformed \/ seg.src_port # Port[f] \/ seg.dst_port # Port[h]
        BY <3>1, <2>4, <1>6 DEF OfConnection
      <4>3. receive_tcp(x, seg) = Ignored(x) BY <4>2, <1>3 DEF receive_tcp, c
      <4> QED BY <4>1, <4>3, <1>4
    <3>2. CASE ~(packet.protocol = "TCP" /\ packet.src = f)
      <4>1. r = Ignored(x)
        BY <3>2, <2>4, <1>2 DEF receive_ipv4_bytes, receive_datagram, is_from_peer
      <4> QED BY <4>1, <1>4
    <3> QED BY <3>1, <3>2
  <2> QED BY <2>1, <2>2, <2>3, <2>4
<1> QED BY <1>5, <1>6 DEF rest, c
(* What the program has seen once a segment has been reported to it. *)
LEMMA SeesPayload ==
  ASSUME NEW c, NEW seg, seg.payload \in ByteRuns, NEW seen
  PROVE  print_events(seen, reported(c, seg)) = seen \cup seg.payload.lo .. seg.payload.hi - 1
<1> DEFINE run == seg.payload
           q == reported(c, seg)
           A == run.lo .. run.hi - 1
<1>1. run.lo \in Nat /\ run.hi \in Nat BY DEF ByteRuns
<1>2. q = IF len(run) = 0 THEN <<>> ELSE <<run>> BY DEF reported
<1> HIDE DEF q, run
<1>3. CASE len(run) = 0
  <2>1. A = {} BY <1>1, <1>3 DEF len
  <2>2. q = <<>> BY <1>2, <1>3
  <2>3. \A i \in DOMAIN q : FALSE BY <2>2
  <2>4. print_events(seen, q) = seen BY <2>3 DEF print_events
  <2> QED BY <2>1, <2>4 DEF q, run
<1>4. CASE len(run) # 0
  <2>1. q = <<run>> BY <1>2, <1>4
  <2>2. DOMAIN q = {1} /\ q[1] = run BY <2>1
  <2> HIDE DEF A
  <2>3. UNION {q[i].lo .. q[i].hi - 1 : i \in DOMAIN q} = A
    <3>1. q[1].lo .. q[1].hi - 1 = A BY <2>2 DEF A
    <3>2. {q[i].lo .. q[i].hi - 1 : i \in DOMAIN q} = {A} BY <3>1, <2>2
    <3> QED BY <3>2
  <2> QED BY <2>3 DEF print_events, A, q, run
<1> QED BY <1>3, <1>4

(* A segment's payload has been sent: it lies in the sender's stream. *)
LEMMA PayloadWasSent ==
  ASSUME NEW e, NEW f, NEW p, NEW seg, SegmentOf(f, e, p, seg), ~seg.rst,
         p.sender.outbound.bytes_popped \in Nat
  PROVE  /\ seg.payload \in ByteRuns
         /\ seg.payload.lo .. seg.payload.hi - 1 \subseteq 0 .. p.sender.outbound.bytes_popped - 1
<1> DEFINE s == p.sender
           m == to_sender_message(seg)
           run == seg.payload
           n == s.outbound.bytes_popped
<1>1. /\ seg \in Segments({f.port, e.port}) /\ Genuine(seg, s, p.receiver, e.isn)
  BY DEF SegmentOf
<1>2. /\ run \in ByteRuns /\ m.payload = run /\ m.syn = seg.syn /\ m.fin = seg.fin
      /\ seg.syn \in BOOLEAN /\ seg.fin \in BOOLEAN
  BY <1>1 DEF Segments, to_sender_message, SenderMessage
<1>3. run.lo \in Nat /\ run.hi \in Nat BY <1>2 DEF ByteRuns
<1>4. sequence_length(m) = 0 \/ \E a \in Nat : Carries(s, m, a) BY <1>1 DEF Genuine
<1> HIDE DEF m, run, n
<1>5. run.hi <= run.lo \/ run.hi <= n
  <2>1. CASE sequence_length(m) = 0
    <3>1. One(m.syn) \in Nat /\ One(m.fin) \in Nat BY DEF One
    <3>2. One(m.syn) + (run.hi - run.lo) + One(m.fin) = 0
      BY <2>1, <1>2 DEF sequence_length, len
    <3> DEFINE u == One(m.syn)
               v == One(m.fin)
    <3> HIDE DEF u, v
    <3>3. u \in Nat /\ v \in Nat /\ u + (run.hi - run.lo) + v = 0 BY <3>1, <3>2 DEF u, v
    <3> QED BY <3>3, <1>3
  <2>2. ASSUME NEW a \in Nat, Carries(s, m, a) PROVE run.hi <= run.lo \/ run.hi <= n
    <3>1. len(run) > 0 => run.hi <= n BY <2>2, <1>2 DEF Carries, n
    <3> QED BY <3>1, <1>3 DEF len
  <2> QED BY <2>1, <2>2, <1>4
<1>6. n \in Nat BY DEF n
<1>7. run.lo .. run.hi - 1 \subseteq 0 .. n - 1 BY <1>3, <1>5, <1>6
<1> QED BY <1>2, <1>7 DEF run, n

(* A packet is taken from the queue and handled. *)
LEMMA DeliverKeeps ==
  ASSUME ShortStreams, IInv, NEW h \in Hosts, Deliver(h)
  PROVE  IInv'
<1> DEFINE f == Peer(h)
           c == host[h].connection
           p == host[f].connection
           x == End(h)
           y == End(f)
           P == Head(net[h])
           r == receive_ipv4_bytes(host[h], P)
           S == shown[h]
<1>1. /\ net[h] # <<>> /\ Perform(h, r, Tail(net[h])) /\ faults' = faults /\ injected' = injected
  BY DEF Deliver
<1>2. Types /\ EndOK(h) /\ PingInv BY DEF IInv
<1>3. /\ IsEnd(x) /\ IsEnd(y) /\ Connected(x, y, c) /\ Connected(y, x, p)
      /\ Follows(c.receiver, p.sender) /\ Follows(p.receiver, c.sender)
      /\ Clean(c, p) /\ HostOK(h, host[h])
  BY HostEnd
<1>4. /\ net[h] \in Seq(Packets) /\ P = net[h][1] /\ 1 \in 1 .. Len(net[h])
  <2>1. net[h] \in Seq(Packets) BY <1>2 DEF Types
  <2> QED BY <2>1, <1>1, TailOf
<1>5. /\ Delivers(h, P) /\ (\A b \in Nat : Holds(c.receiver.reassembler, b) => b \in S)
      /\ S \subseteq 0 .. p.sender.outbound.bytes_popped - 1
  BY <1>2, <1>4 DEF EndOK
<1>6. p.sender.outbound.bytes_popped \in Nat
  <2>1. p.sender \in Senders BY <1>3 DEF Connected, SenderOK, Placed
  <2> QED BY <2>1, SenderNumbers
<1>7. Perform(h, r, IF 1 = 1 THEN Tail(net[h]) ELSE net[h]) BY <1>1
<1>8. /\ OfConnection(h, P) =>
           r = [wrap_tcp_segments(host[h], receive_segment(c, P.payload))
                  EXCEPT !.payloads = reported(c, P.payload)]
      /\ ~OfConnection(h, P) =>
           /\ r.host = host[h] /\ r.payloads = <<>>
           /\ \/ r.datagrams = <<>>
              \/ Asks(P) /\ P.dst = h /\ r.datagrams = <<ReplyTo(P)>>
  BY <1>3, Dispatches
<1> HIDE DEF r
<1>9. CASE OfConnection(h, P)
  <2> DEFINE seg == P.payload
             t == receive_segment(c, seg)
             d == t.conn
             w == wrap_tcp_segments(host[h], t)
             A == seg.payload.lo .. seg.payload.hi - 1
             seen == S \cup A
  <2>1. SegmentOf(y, x, p, seg) /\ ~seg.rst BY <1>5, <1>9 DEF Delivers
  <2> HIDE DEF seg, c, p, x, y
  <2>2. /\ Sends(x, y, c, d, t.out)
        /\ Accepted(c.receiver, d.receiver, seg.rst) /\ Follows(d.receiver, p.sender)
        /\ Gains(c.receiver, d.receiver, seg.payload)
        /\ ~seg.rst => d.sender.outbound.error = c.sender.outbound.error
        /\ ~seg.rst /\ c.sender.snd_una <= Reached(p.receiver) =>
             d.sender.snd_una <= Reached(p.receiver)
    BY <2>1, <1>3, ReceiveSends
  <2> HIDE DEF t
  <2>3. seg.payload \in ByteRuns /\ A \subseteq 0 .. p.sender.outbound.bytes_popped - 1
    BY <2>1, <1>6, PayloadWasSent
  <2>4. r = [w EXCEPT !.payloads = reported(c, seg)] BY <1>8, <1>9 DEF seg, t, c
  <2>5. t.out \in Seq(Segments({x.port, y.port})) BY <2>2 DEF Sends
  <2>6. /\ w.host = [local_ip |-> h, peer_ip |-> f, connection |-> d]
        /\ w.datagrams \in Seq(Packets) /\ Len(w.datagrams) = Len(t.out)
        /\ \A i \in 1 .. Len(t.out) : w.datagrams[i] = TcpDatagram(h, t.out[i])
    BY <2>5, <1>3, Wrapped DEF x, y
  <2>7. /\ r.host = w.host /\ r.datagrams = w.datagrams /\ r.payloads = reported(c, seg)
    <3> DEFINE a == reported(c, seg)
    <3> HIDE DEF a
    <3>1. r = [w EXCEPT !.payloads = a] BY <2>4 DEF a
    <3>2. w = [host |-> w.host, datagrams |-> w.datagrams, payloads |-> w.payloads]
      BY DEF wrap_tcp_segments
    <3> DEFINE w1 == w.host
               w2 == w.datagrams
               w3 == w.payloads
    <3>3. w = [host |-> w1, datagrams |-> w2, payloads |-> w3] BY <3>2
    <3> HIDE DEF w, w1, w2, w3
    <3>4. r.host = w1 /\ r.datagrams = w2 /\ r.payloads = a BY <3>1, <3>3
    <3> QED BY <3>4 DEF w1, w2, a
  <2> HIDE DEF w
  <2>8. print_events(S, r.payloads) = seen BY <2>3, <2>7, SeesPayload
  <2>9. seen \subseteq 0 .. p.sender.outbound.bytes_popped - 1
    <3> HIDE DEF A
    <3> QED BY <2>3, <1>5
  <2>10. \A b \in Nat : Holds(d.receiver.reassembler, b) => b \in seen
    <3>1. \A b \in Nat : Holds(d.receiver.reassembler, b) =>
            Holds(c.receiver.reassembler, b) \/ b \in A
      BY <2>2 DEF Gains
    <3> HIDE DEF A
    <3> QED BY <3>1, <1>5
  <2> HIDE DEF seen, A
  <2>11. Clean(d, p)
    <3>1. /\ ~c.sender.outbound.error /\ ~c.receiver.reassembler.output.error
          /\ c.sender.snd_una <= Reached(p.receiver)
      BY <1>3 DEF Clean
    <3>2. ~d.sender.outbound.error BY <3>1, <2>1, <2>2
    <3>3. ~d.receiver.reassembler.output.error BY <3>1, <2>1, <2>2 DEF Accepted
    <3> QED BY <3>1, <3>2, <3>3, <2>1, <2>2 DEF Clean
  <2>12. KeepsInput(c.receiver, d.receiver) BY <2>2 DEF Accepted
  <2>13. \A i \in 1 .. Len(r.datagrams) :
           \E j \in 1 .. Len(t.out) : r.datagrams[i] = TcpDatagram(h, t.out[j])
    BY <2>6, <2>7
  <2>14. r.host = [local_ip |-> h, peer_ip |-> f, connection |-> d]
         /\ r.datagrams \in Seq(Packets)
    BY <2>6, <2>7
  <2>15. Calls(h, r, 1, d, t.out, seen)
    <3> HIDE DEF d, S
    <3> QED BY <2>2, <2>8, <2>9, <2>10, <2>11, <2>12, <2>13, <2>14, <1>1, <1>7
            DEF Calls, c, p, x, y, S
  <2> QED BY <2>15, CallsKeep
<1>10. CASE ~OfConnection(h, P)
  <2>1. /\ r.host = [local_ip |-> h, peer_ip |-> f, connection |-> c]
        /\ r.payloads = <<>>
        /\ r.datagrams = <<>> \/ (Asks(P) /\ P.dst = h /\ r.datagrams = <<ReplyTo(P)>>)
    BY <1>3, <1>8, <1>10 DEF HostOK
  <2>2. Asks(P) /\ P.dst = h => ReplyTo(P) \in Packets
    <3> SUFFICES ASSUME Asks(P), P.dst = h PROVE ReplyTo(P) \in Packets OBVIOUS
    <3>1. 1 \in Pings(net[h]) BY <1>4 DEF Pings
    <3>2. <<h, P>> \in Stray BY <3>1, <1>2, <1>4 DEF PingInv, AskedByOthers, Types
    <3> HIDE DEF P
    <3>3. P \in Foreign BY <3>2, PingForm
    <3>4. Echo("reply", 0, P.payload.tag) \in [icmp_type : {"reply"}, code : {0},
                                               tag : {z.payload.tag : z \in Foreign}]
      BY <3>3 DEF Echo
    <3> DEFINE e == Echo("reply", 0, P.payload.tag)
    <3> HIDE DEF e
    <3>5. ReplyTo(P) = [src |-> h, dst |-> P.src, protocol |-> "ICMP", payload |-> e]
      BY DEF ReplyTo, Datagram, e
    <3> QED BY <3>3, <3>4, <3>5 DEF Packets, e
  <2>3. /\ r.datagrams \in Seq(Packets)
        /\ \A i \in 1 .. Len(r.datagrams) : Replies(h, r, 1) /\ r.datagrams[i] = ReplyTo(P)
    <3> DEFINE q == r.datagrams
               a == ReplyTo(P)
    <3>1. CASE q = <<>>
      <4> HIDE DEF q
      <4>1. q \in Seq(Packets) /\ \A i \in 1 .. Len(q) : FALSE BY <3>1
      <4> QED BY <4>1 DEF q
    <3>2. CASE Asks(P) /\ P.dst = h /\ q = <<a>>
      <4>1. a \in Packets BY <3>2, <2>2
      <4> HIDE DEF q, a
      <4>2. q \in Seq(Packets) /\ Len(q) = 1 /\ \A i \in 1 .. Len(q) : q[i] = a BY <4>1, <3>2
      <4>3. Replies(h, r, 1) BY <4>2, <3>2 DEF Replies, q
      <4> QED BY <4>2, <4>3 DEF q, a
    <3> QED BY <3>1, <3>2, <2>1
  <2>4. print_events(S, r.payloads) = S
    <3>1. \A i \in DOMAIN r.payloads : FALSE BY <2>1
    <3> QED BY <3>1 DEF print_events
  <2>5. KeepsInput(c.receiver, c.receiver)
    <3>1. ReceiverOK(c.receiver) BY <1>3 DEF Connected
    <3>2. Accepted(c.receiver, c.receiver, FALSE) BY <3>1, LeftAlone
    <3> QED BY <3>2 DEF Accepted
  <2>6. Sends(x, y, c, c, <<>>)
    <3>1. c.sender \in Senders BY <1>3 DEF Connected, SenderOK, Placed
    <3>2. Grows(c.sender, c.sender) BY <3>1, GrowsOrder
    <3> DEFINE T == Segments({x.port, y.port})
    <3> HIDE DEF T
    <3>3. <<>> \in Seq(T) /\ \A i \in 1 .. Len(<<>>) : FALSE OBVIOUS
    <3> QED BY <3>2, <3>3, <1>3 DEF Sends, T
  <2>7. Calls(h, r, 1, c, <<>>, S)
    <3> HIDE DEF x, y
    <3> QED BY <2>1, <2>3, <2>4, <2>5, <2>6, <1>1, <1>3, <1>5, <1>7 DEF Calls, x, y
  <2> QED BY <2>7, CallsKeep
<1> QED BY <1>9, <1>10
-----------------------------------------------------------------------------
(* The network changes the queue of host h alone: it becomes q. *)
Requeues(h, q) ==
  /\ q \in Seq(Packets) /\ net' = [net EXCEPT ![h] = q]
  /\ UNCHANGED <<host, shown, echoes>>
  /\ \A i \in 1 .. Len(q) :
       \/ \E j \in 1 .. Len(net[h]) : q[i] = net[h][j]
       \/ ~OfConnection(h, q[i])

(* The queues then. *)
LEMMA QueuesThen ==
  ASSUME Types, NEW h \in Hosts, NEW q, Requeues(h, q)
  PROVE  /\ net' \in [Hosts -> Seq(Packets)] /\ net'[h] = q /\ net[h] \in Seq(Packets)
         /\ \A g \in Hosts : g # h => net'[g] = net[g]
<1>1. net \in [Hosts -> Seq(Packets)] BY DEF Types
<1>2. q \in Seq(Packets) /\ net' = [net EXCEPT ![h] = q] BY DEF Requeues
<1> QED BY <1>1, <1>2

(* The connection does not notice. *)
LEMMA EndsStay ==
  ASSUME Types, \A g \in Hosts : EndOK(g), NEW h \in Hosts, NEW q, Requeues(h, q)
  PROVE  \A g \in Hosts : EndOK(g)'
<1> SUFFICES ASSUME NEW g \in Hosts PROVE EndOK(g)' OBVIOUS
<1>1. EndOK(g) OBVIOUS
<1>2. host' = host /\ shown' = shown BY DEF Requeues
<1>3. /\ net'[h] = q /\ \A z \in Hosts : z # h => net'[z] = net[z] BY QueuesThen
<1>4. \A i \in 1 .. Len(net[g]) : Delivers(g, net[g][i]) BY <1>1 DEF EndOK
<1>5. \A i \in 1 .. Len(net'[g]) : Delivers(g, net'[g][i])
  <2>1. CASE g # h
    <3>1. net'[g] = net[g] BY <2>1, <1>3
    <3> QED BY <3>1, <1>4
  <2>2. CASE g = h
    <3>1. \A i \in 1 .. Len(q) :
            \/ \E j \in 1 .. Len(net[g]) : q[i] = net[g][j]
            \/ ~OfConnection(g, q[i])
      BY <2>2 DEF Requeues
    <3>2. \A packet : ~OfConnection(g, packet) => Delivers(g, packet) BY DEF Delivers
    <3>3. \A i \in 1 .. Len(q) : Delivers(g, q[i]) BY <3>1, <3>2, <1>4
    <3> QED BY <3>3, <2>2, <1>3
  <2> QED BY <2>1, <2>2
<1>6. \A i \in 1 .. Len(net'[g]) :
        OfConnection(g, net'[g][i]) =>
          /\ SegmentOf(End(Peer(g)), End(g), host'[Peer(g)].connection, net'[g][i].payload)
          /\ ~net'[g][i].payload.rst
  BY <1>2, <1>5 DEF Delivers
<1>7. LET c == host'[g].connection
          p == host'[Peer(g)].connection IN
      /\ HostOK(g, host'[g]) /\ Follows(c.receiver, p.sender) /\ Clean(c, p)
      /\ \A b \in Nat : Holds(c.receiver.reassembler, b) => b \in shown'[g]
      /\ shown'[g] \subseteq 0 .. p.sender.outbound.bytes_popped - 1
  BY <1>1, <1>2 DEF EndOK
<1> QED BY <1>6, <1>7 DEF EndOK, Delivers

(* Nothing but the queue, the faults and others' packets has changed. *)
LEMMA TypesStay ==
  ASSUME Types, NEW h \in Hosts, NEW q, Requeues(h, q),
         faults' \in Nat, injected' \in SUBSET Stray, IsFiniteSet(injected')
  PROVE  Types'
<1>1. host' = host /\ shown' = shown /\ echoes' = echoes BY DEF Requeues
<1>2. net' \in [Hosts -> Seq(Packets)] BY QueuesThen
<1> QED BY <1>1, <1>2 DEF Types

(* The pings when a queue changes: no more than the faults and others' packets. *)
LEMMA PingsCounted ==
  ASSUME Types, FewPings, NEW h \in Hosts, NEW q, Requeues(h, q), NEW n \in Nat,
         Cardinality(Pings(q)) <= Cardinality(Pings(net[h])) + n,
         faults' \in Nat, Cardinality(injected') \in Nat,
         Cardinality(injected) + faults + n <= Cardinality(injected') + faults'
  PROVE  FewPings'
<1> DEFINE f == Peer(h)
           e == Len(echoes)
           a == Cardinality(Pings(net[h]))
           b == Cardinality(Pings(net[f]))
           z == Cardinality(Pings(q))
           i == Cardinality(injected)
           j == Cardinality(injected')
<1>1. /\ f \in Hosts /\ f # h /\ Peer(f) = h /\ \A g \in Hosts : g = h \/ g = f
  BY TwoHosts
<1>2. /\ net \in [Hosts -> Seq(Packets)] /\ echoes \in Seq(Packets) /\ faults \in Nat
      /\ IsFiniteSet(injected)
  BY DEF Types
<1>3. net'[h] = q /\ net'[f] = net[f] BY <1>1, QueuesThen
<1>4. echoes' = echoes /\ q \in Seq(Packets) BY DEF Requeues
<1>5. e + a + b <= i + faults BY DEF FewPings
<1>6. e \in Nat /\ a \in Nat /\ b \in Nat /\ z \in Nat /\ i \in Nat /\ j \in Nat
  <2>1. net[h] \in Seq(Packets) /\ net[f] \in Seq(Packets) BY <1>1, <1>2
  <2>2. i \in Nat BY <1>2, FS_CardinalityType
  <2>3. e \in Nat BY <1>2
  <2> QED BY <2>1, <2>2, <2>3, <1>4, PingsFinite
<1>7. z <= a + n /\ i + faults + n <= j + faults' OBVIOUS
<1> DEFINE t == faults'
<1> HIDE DEF e, a, b, z, i, j, t
<1>8. t \in Nat /\ i + faults + n <= j + t BY <1>7 DEF t
<1>9. e + z + b <= j + t /\ e + b + z <= j + t BY <1>2, <1>5, <1>6, <1>7, <1>8
<1>10. \A g \in Hosts :
         Len(echoes') + Cardinality(Pings(net'[g])) + Cardinality(Pings(net'[Peer(g)]))
           <= Cardinality(injected') + faults'
  BY <1>1, <1>3, <1>4, <1>9 DEF e, b, z, j, t
<1> QED BY <1>10 DEF FewPings

(* A fault keeps the invariant. *)
LEMMA FaultKeeps ==
  ASSUME IInv, NEW h \in Hosts, Lose(h) \/ Repeat(h)
  PROVE  IInv'
<1> DEFINE P == Head(net[h])
           q == IF Lose(h) THEN Tail(net[h]) ELSE Append(net[h], P)
<1>1. Types /\ (\A g \in Hosts : EndOK(g)) /\ PingInv BY DEF IInv
<1>2. /\ net[h] # <<>> /\ faults' = faults + 1 /\ net' = [net EXCEPT ![h] = q]
      /\ UNCHANGED <<host, injected, shown, echoes>>
  BY DEF Lose, Repeat, Misbehave
<1>3. /\ net[h] \in Seq(Packets) /\ faults \in Nat /\ IsFiniteSet(injected)
      /\ injected \in SUBSET Stray
  BY <1>1 DEF Types
<1>4. /\ Head(net[h]) \in Packets /\ P = net[h][1] /\ 1 \in 1 .. Len(net[h])
      /\ Len(net[h]) \in Nat
      /\ Tail(net[h]) \in Seq(Packets)
      /\ \A i \in 1 .. Len(Tail(net[h])) :
           i + 1 \in 1 .. Len(net[h]) /\ Tail(net[h])[i] = net[h][i + 1]
  BY <1>2, <1>3, TailOf
<1>5. /\ q \in Seq(Packets)
      /\ \A i \in 1 .. Len(q) : \E j \in 1 .. Len(net[h]) : q[i] = net[h][j]
      /\ \A i \in Pings(q) : \E j \in Pings(net[h]) : q[i] = net[h][j]
      /\ Cardinality(Pings(q)) <= Cardinality(Pings(net[h])) + 1
  <2>1. CASE Lose(h)
    <3>1. q = Tail(net[h]) BY <2>1
    <3> HIDE DEF q
    <3>2. /\ \A i \in Pings(q) : i + 1 \in Pings(net[h]) /\ q[i] = net[h][i + 1]
          /\ Cardinality(Pings(q)) <= Cardinality(Pings(net[h]))
      BY <3>1, <1>2, <1>3, PingsTail
    <3>3. q \in Seq(Packets) BY <3>1, <1>4
    <3>4. \A i \in 1 .. Len(q) : \E j \in 1 .. Len(net[h]) : q[i] = net[h][j]
      BY <3>1, <1>4
    <3>5. Cardinality(Pings(q)) \in Nat /\ Cardinality(Pings(net[h])) \in Nat
      BY <3>3, <1>3, PingsFinite
    <3>6. Cardinality(Pings(q)) <= Cardinality(Pings(net[h])) + 1 BY <3>2, <3>5
    <3> QED BY <3>2, <3>3, <3>4, <3>6
  <2>2. CASE ~Lose(h)
    <3>1. q = Append(net[h], P) BY <2>2
    <3> HIDE DEF q, P
    <3>2. P \in Packets BY <1>4 DEF P
    <3>3. /\ q \in Seq(Packets) /\ Len(q) = Len(net[h]) + 1 /\ q[Len(net[h]) + 1] = P
          /\ \A i \in 1 .. Len(net[h]) : q[i] = net[h][i]
      BY <3>1, <3>2, <1>3
    <3>4. /\ Cardinality(Pings(q)) <= Cardinality(Pings(net[h])) + 1
          /\ \A i \in Pings(q) : \/ i \in Pings(net[h]) /\ q[i] = net[h][i]
                                 \/ q[i] = P /\ Asks(P)
      <4> DEFINE o == net[h]
                 w == Append(o, P)
      <4>1. o \in Seq(Packets) BY <1>3
      <4> HIDE DEF o
      <4>2. /\ Cardinality(Pings(w)) <= Cardinality(Pings(o)) + 1
            /\ \A i \in Pings(w) : \/ i \in Pings(o) /\ w[i] = o[i]
                                   \/ i = Len(o) + 1 /\ w[i] = P /\ Asks(P)
        BY <4>1, <3>2, PingsAppend
      <4>3. q = w BY <3>1 DEF o
      <4> HIDE DEF w
      <4> QED BY <4>2, <4>3 DEF o
    <3>5. Asks(P) => 1 \in Pings(net[h]) /\ net[h][1] = P BY <1>4 DEF Pings
    <3>6. ASSUME NEW i \in 1 .. Len(q) PROVE \E j \in 1 .. Len(net[h]) : q[i] = net[h][j]
      <4>1. i \in 1 .. Len(net[h]) \/ i = Len(net[h]) + 1 BY <3>3, <1>4
      <4>2. CASE i \in 1 .. Len(net[h]) BY <4>2, <3>3
      <4>3. CASE i = Len(net[h]) + 1
        <5>1. q[i] = net[h][1] BY <4>3, <3>3, <1>4
        <5> QED BY <5>1, <1>4
      <4> QED BY <4>1, <4>2, <4>3
    <3>7. \A i \in Pings(q) : \E j \in Pings(net[h]) : q[i] = net[h][j] BY <3>4, <3>5
    <3> QED BY <3>3, <3>4, <3>6, <3>7
  <2> QED BY <2>1, <2>2
<1> HIDE DEF q
<1>6. Requeues(h, q) BY <1>2, <1>5 DEF Requeues
<1>7. /\ net' \in [Hosts -> Seq(Packets)] /\ net'[h] = q
      /\ \A g \in Hosts : g # h => net'[g] = net[g]
  BY <1>1, <1>6, QueuesThen
<1>8. faults' \in Nat /\ faults' # 0 BY <1>2, <1>3
<1>9. Types' BY <1>1, <1>2, <1>3, <1>6, <1>8, TypesStay
<1>10. \A g \in Hosts : EndOK(g)' BY <1>1, <1>6, EndsStay
<1>11. AskedByOthers'
  <2>1. AskedByOthers BY <1>1 DEF PingInv
  <2>2. ASSUME NEW g \in Hosts, NEW i \in Pings(net'[g]) PROVE <<g, net'[g][i]>> \in injected
    <3>1. CASE g # h
      <4>1. net'[g] = net[g] BY <3>1, <1>7
      <4> QED BY <4>1, <2>1, <2>2 DEF AskedByOthers
    <3>2. CASE g = h
      <4>1. PICK j \in Pings(net[h]) : q[i] = net[h][j] BY <3>2, <1>5, <1>7
      <4> QED BY <4>1, <3>2, <2>1, <1>7 DEF AskedByOthers
    <3> QED BY <3>1, <3>2
  <2> QED BY <2>2, <1>2 DEF AskedByOthers
<1>12. RepliesAnswer' BY <1>1, <1>2 DEF PingInv, RepliesAnswer
<1>13. FewPings'
  <2>1. FewPings BY <1>1 DEF PingInv
  <2>2. Cardinality(injected) \in Nat BY <1>3, FS_CardinalityType
  <2>3. Cardinality(injected') = Cardinality(injected) BY <1>2
  <2>4. Cardinality(injected) + faults + 1 <= Cardinality(injected') + faults'
    <3> DEFINE n == Cardinality(injected)
    <3> HIDE DEF n
    <3>1. n \in Nat /\ Cardinality(injected') = n BY <2>2, <2>3 DEF n
    <3>2. n + faults + 1 <= n + (faults + 1) BY <3>1, <1>3
    <3> QED BY <3>1, <3>2, <1>2 DEF n
  <2>5. Cardinality(injected') \in Nat BY <2>2, <2>3
  <2>6. Types /\ 1 \in Nat /\ Cardinality(Pings(q)) <= Cardinality(Pings(net[h])) + 1
    BY <1>1, <1>5
  <2> QED BY <2>1, <2>4, <2>5, <2>6, <1>6, <1>8, PingsCounted
<1> QED BY <1>8, <1>9, <1>10, <1>11, <1>12, <1>13 DEF IInv, PingInv
(* Others' packet keeps the invariant: it is none of the connection, and new if a ping. *)
LEMMA StrayKeeps ==
  ASSUME IInv, StrayPacket
  PROVE  IInv'
<1>1. Types /\ (\A g \in Hosts : EndOK(g)) /\ PingInv BY DEF IInv
<1>2. PICK s \in Stray \ injected :
        /\ net' = [net EXCEPT ![s[1]] = Append(@, s[2])] /\ injected' = injected \cup {s}
  BY DEF StrayPacket
<1>3. UNCHANGED <<host, faults, shown, echoes>> BY DEF StrayPacket
<1> DEFINE h == s[1]
           x == s[2]
           o == net[h]
           q == Append(o, x)
<1>4. s = <<h, x>> /\ h \in Hosts /\ ~OfConnection(h, x)
  BY StrayAssumption DEF StrayAssumption
<1>5. x \in Packets BY DEF Packets, Foreign
<1>6. <<h, x>> \in Stray /\ <<h, x>> \notin injected
  <2>1. s \in Stray /\ s \notin injected OBVIOUS
  <2> HIDE DEF h, x
  <2> QED BY <2>1, <1>4
<1>7. injected' = injected \cup {<<h, x>>}
  <2> HIDE DEF h, x
  <2> QED BY <1>2, <1>4
<1>8. net' = [net EXCEPT ![h] = q] BY <1>2
<1> HIDE DEF h, x
<1>9. /\ o \in Seq(Packets) /\ faults \in Nat /\ IsFiniteSet(injected)
      /\ injected \in SUBSET Stray
  BY <1>1, <1>4 DEF Types
<1>10. AskedByOthers /\ RepliesAnswer /\ FewPings /\ (faults = 0 => PingsDiffer)
  BY <1>1 DEF PingInv
<1> HIDE DEF o
<1>11. /\ Cardinality(Pings(q)) <= Cardinality(Pings(o)) + 1
       /\ \A i \in Pings(q) : \/ i \in Pings(o) /\ q[i] = o[i]
                              \/ i = Len(o) + 1 /\ q[i] = x /\ Asks(x)
  BY <1>5, <1>9, PingsAppend
<1>12. /\ q \in Seq(Packets) /\ Len(q) = Len(o) + 1 /\ Len(o) \in Nat /\ q[Len(o) + 1] = x
       /\ \A i \in 1 .. Len(o) : q[i] = o[i]
  BY <1>5, <1>9
<1> HIDE DEF q
<1>13. Requeues(h, q)
  <2>1. ASSUME NEW i \in 1 .. Len(q)
        PROVE  (\E j \in 1 .. Len(o) : q[i] = o[j]) \/ ~OfConnection(h, q[i])
    <3>1. i \in 1 .. Len(o) \/ i = Len(o) + 1 BY <1>12
    <3> QED BY <3>1, <1>4, <1>12
  <2> QED BY <2>1, <1>3, <1>8, <1>12 DEF Requeues, o
<1>14. /\ net' \in [Hosts -> Seq(Packets)] /\ net'[h] = q
       /\ \A g \in Hosts : g # h => net'[g] = net[g]
  BY <1>1, <1>4, <1>13, QueuesThen
<1>15. /\ IsFiniteSet(injected') /\ Cardinality(injected') = Cardinality(injected) + 1
       /\ Cardinality(injected) \in Nat /\ injected' \in SUBSET Stray
  <2>1. /\ IsFiniteSet(injected \cup {<<h, x>>})
        /\ Cardinality(injected \cup {<<h, x>>}) = Cardinality(injected) + 1
    BY <1>6, <1>9, FS_AddElement
  <2>2. Cardinality(injected) \in Nat BY <1>9, FS_CardinalityType
  <2>3. injected \cup {<<h, x>>} \in SUBSET Stray BY <1>6, <1>9
  <2> QED BY <2>1, <2>2, <2>3, <1>7
<1>16. faults' = faults /\ echoes' = echoes BY <1>3
<1>17. Types'
  <2>1. faults' \in Nat BY <1>9, <1>16
  <2> QED BY <2>1, <1>1, <1>4, <1>13, <1>15, TypesStay
<1>18. \A g \in Hosts : EndOK(g)' BY <1>1, <1>4, <1>13, EndsStay
<1>19. FewPings'
  <2> DEFINE n == Cardinality(injected)
             k == Cardinality(injected')
  <2>1. n \in Nat /\ k = n + 1 BY <1>15
  <2> HIDE DEF n, k
  <2>2. n + faults + 1 <= k + faults /\ k \in Nat BY <2>1, <1>9
  <2>3. Cardinality(injected) + faults + 1 <= Cardinality(injected') + faults'
    BY <2>2, <1>16 DEF n, k
  <2>4. Types /\ 1 \in Nat /\ Cardinality(Pings(q)) <= Cardinality(Pings(net[h])) + 1
    BY <1>1, <1>11 DEF o
  <2>5. faults' \in Nat /\ Cardinality(injected') \in Nat BY <2>2, <1>9, <1>16 DEF k
  <2> QED BY <2>3, <2>4, <2>5, <1>4, <1>10, <1>13, PingsCounted
<1>20. ASSUME NEW g \in Hosts, NEW i \in Pings(net'[g])
       PROVE  \/ i \in Pings(net[g]) /\ net'[g][i] = net[g][i] /\ <<g, net'[g][i]>> \in injected
              \/ g = h /\ i = Len(o) + 1 /\ net'[g][i] = x /\ Asks(x)
  <2>1. CASE g # h
    <3>1. net'[g] = net[g] BY <2>1, <1>14
    <3> QED BY <3>1, <1>10 DEF AskedByOthers
  <2>2. CASE g = h
    <3>1. i \in Pings(q) /\ net'[g] = q /\ net[g] = o BY <2>2, <1>14 DEF o
    <3>2. CASE i \in Pings(o) /\ q[i] = o[i] BY <3>1, <3>2, <1>10 DEF AskedByOthers
    <3>3. CASE i = Len(o) + 1 /\ q[i] = x /\ Asks(x) BY <3>1, <3>3, <2>2
    <3> QED BY <3>1, <3>2, <3>3, <1>11
  <2> QED BY <2>1, <2>2
<1>21. AskedByOthers' BY <1>7, <1>20 DEF AskedByOthers
<1>22. RepliesAnswer' BY <1>7, <1>10, <1>16 DEF RepliesAnswer
<1>23. ASSUME faults = 0 PROVE PingsDiffer'
  <2>1. PingsDiffer BY <1>10, <1>23
  <2>2. ASSUME NEW g \in Hosts, NEW i \in Pings(net'[g]), NEW j \in Pings(net'[g]), i # j
        PROVE  net'[g][i] # net'[g][j]
    <3>1. CASE /\ i \in Pings(net[g]) /\ net'[g][i] = net[g][i]
               /\ <<g, net'[g][i]>> \in injected
      <4>1. CASE /\ j \in Pings(net[g]) /\ net'[g][j] = net[g][j]
        BY <3>1, <4>1, <2>1, <2>2 DEF PingsDiffer
      <4>2. CASE g = h /\ net'[g][j] = x BY <3>1, <4>2, <1>6
      <4> QED BY <4>1, <4>2, <1>20
    <3>2. CASE g = h /\ i = Len(o) + 1 /\ net'[g][i] = x
      <4>1. CASE <<g, net'[g][j]>> \in injected BY <3>2, <4>1, <1>6
      <4>2. CASE j = Len(o) + 1 BY <3>2, <4>2, <2>2
      <4> QED BY <4>1, <4>2, <1>20
    <3> QED BY <3>1, <3>2, <1>20
  <2>3. ASSUME NEW g \in Hosts, NEW i \in Pings(net'[g]), NEW k \in 1 .. Len(echoes),
               net'[g][i].dst = g
        PROVE  echoes[k] # ReplyTo(net'[g][i])
    <3>1. CASE i \in Pings(net[g]) /\ net'[g][i] = net[g][i]
      BY <3>1, <2>1, <2>3 DEF PingsDiffer
    <3>2. CASE g = h /\ net'[g][i] = x /\ Asks(x)
      <4> SUFFICES ASSUME echoes[k] = ReplyTo(x) PROVE FALSE BY <3>2
      <4>1. RequestOf(ReplyTo(x)) = x /\ ReplyTo(x).src = x.dst BY <3>2, <1>6, PingForm
      <4>2. <<echoes[k].src, RequestOf(echoes[k])>> \in injected BY <1>10 DEF RepliesAnswer
      <4>3. echoes[k].src = h /\ RequestOf(echoes[k]) = x BY <4>1, <3>2, <2>3
      <4> QED BY <4>2, <4>3, <1>6
    <3> QED BY <3>1, <3>2, <1>20
  <2>4. \A i, j \in 1 .. Len(echoes) : i # j => echoes[i] # echoes[j] BY <2>1 DEF PingsDiffer
  <2> QED BY <2>2, <2>3, <2>4, <1>16 DEF PingsDiffer
<1>24. faults' = 0 => PingsDiffer' BY <1>16, <1>23
<1> QED BY <1>17, <1>18, <1>19, <1>21, <1>22, <1>24 DEF IInv, PingInv
-----------------------------------------------------------------------------
(* Every step keeps the invariant. *)
LEMMA NextIInv ==
  ASSUME ShortStreams, IInv, [Next]_vars
  PROVE  IInv'
<1>1. CASE UNCHANGED vars
  <2>1. /\ host' = host /\ net' = net /\ faults' = faults /\ injected' = injected
        /\ shown' = shown /\ echoes' = echoes
    BY <1>1 DEF vars
  <2>2. Types /\ (\A h \in Hosts : EndOK(h)) /\ PingInv BY DEF IInv
  <2>3. Types' BY <2>1, <2>2 DEF Types
  <2>4. ASSUME NEW h \in Hosts PROVE EndOK(h)'
    <3>1. EndOK(h) BY <2>2
    <3> QED BY <3>1, <2>1 DEF EndOK, Delivers
  <2>5. AskedByOthers' /\ RepliesAnswer'
    BY <2>1, <2>2 DEF PingInv, AskedByOthers, RepliesAnswer
  <2>6. FewPings' BY <2>1, <2>2 DEF PingInv, FewPings
  <2>7. faults' = 0 => PingsDiffer' BY <2>1, <2>2 DEF PingInv, PingsDiffer
  <2> QED BY <2>3, <2>4, <2>5, <2>6, <2>7 DEF IInv, PingInv
<1>2. ASSUME NEW h \in Hosts,
             Connect(h) \/ Write(h) \/ Close(h) \/ Tick(h)
      PROVE  IInv'
  BY <1>2, ProgramKeeps
<1>3. ASSUME NEW h \in Hosts, Deliver(h) PROVE IInv' BY <1>3, DeliverKeeps
<1>4. ASSUME NEW h \in Hosts, Lose(h) \/ Repeat(h) PROVE IInv' BY <1>4, FaultKeeps
<1>5. CASE StrayPacket BY <1>5, StrayKeeps
<1> QED BY <1>1, <1>2, <1>3, <1>4, <1>5 DEF Next

(* The invariant holds at every moment. *)
LEMMA HostInvariant ==
  ASSUME ShortStreams
  PROVE  Spec => []IInv
<1>1. Init => IInv BY InitIInv
<1>2. IInv /\ [Next]_vars => IInv' BY NextIInv
<1> QED BY <1>1, <1>2, PTL DEF Spec
-----------------------------------------------------------------------------
(***************************************************************************)
(* Whatever others send to the two hosts, resets, end marks, data and      *)
(* damaged packets included, and whatever the network loses or repeats, no *)
(* stream fails and each host assembles only what its peer has written, up *)
(* to the end the peer has set (UntouchedByOthers).  This rests on the     *)
(* checks of receive_datagram and receive_tcp: destination, source and     *)
(* both ports.                                                             *)
(***************************************************************************)
THEOREM OthersDoNotInterfere ==
  ASSUME ShortStreams
  PROVE  Spec => []UntouchedByOthers
<1>1. ASSUME IInv, NEW h \in Hosts
      PROVE  /\ ~outbound(h).error /\ ~inbound(h).error
             /\ inbound(h).bytes_pushed <= outbound(Peer(h)).bytes_pushed
             /\ inbound(h).closed =>
                  /\ outbound(Peer(h)).closed
                  /\ inbound(h).bytes_pushed = outbound(Peer(h)).bytes_pushed
  <2> DEFINE c == host[h].connection
             p == host[Peer(h)].connection
             s == p.sender
             o == c.receiver.reassembler.output
             y == End(Peer(h))
  <2>1. /\ IsEnd(y) /\ Connected(End(h), y, c) /\ Connected(y, End(h), p)
        /\ Follows(c.receiver, s) /\ Clean(c, p)
    BY <1>1, HostEnd
  <2>2. /\ outbound(h) = c.sender.outbound /\ outbound(Peer(h)) = s.outbound /\ inbound(h) = o
    BY DEF outbound, inbound, receiver_output
  <2>3. ~c.sender.outbound.error /\ ~o.error BY <2>1 DEF Clean
  <2>4. SenderOK(s) /\ s.outbound.bytes_pushed <= y.length /\ ReceiverOK(c.receiver)
    BY <2>1 DEF Connected
  <2> HIDE DEF s, y, c
  <2>5. /\ o.bytes_pushed \in Nat /\ o.bytes_pushed <= s.outbound.bytes_popped
        /\ s.outbound.bytes_popped \in Nat
        /\ s.outbound.bytes_popped <= s.outbound.bytes_pushed
        /\ o.closed => /\ s.outbound.closed
                       /\ o.bytes_pushed = s.outbound.bytes_pushed
    BY <2>1, <2>4, ReachedNumbers
  <2>6. s.outbound.bytes_pushed \in Nat
    <3>1. s \in Senders BY <2>4 DEF SenderOK, Placed
    <3> QED BY <3>1, SenderNumbers
  <2>7. o.bytes_pushed <= s.outbound.bytes_pushed BY <2>5, <2>6
  <2> QED BY <2>2, <2>3, <2>5, <2>7
<1>2. IInv => UntouchedByOthers BY <1>1 DEF UntouchedByOthers
<1> QED BY <1>2, HostInvariant, PTL

(***************************************************************************)
(* The payloads that receive_tcp reports, segment by segment and before    *)
(* reassembly, add up to what the reassembler holds: every assembled byte  *)
(* has been shown, and nothing that the peer has not written               *)
(* (AssembledIsShown).                                                     *)
(***************************************************************************)
THEOREM ShowsWhatItAssembles ==
  ASSUME ShortStreams
  PROVE  Spec => []AssembledIsShown
<1>1. ASSUME IInv, NEW h \in Hosts
      PROVE  /\ 0 .. inbound(h).bytes_pushed - 1 \subseteq shown[h]
             /\ shown[h] \subseteq 0 .. outbound(Peer(h)).bytes_pushed - 1
  <2> DEFINE c == host[h].connection
             s == host[Peer(h)].connection.sender
             r == c.receiver.reassembler
             y == End(Peer(h))
  <2>1. /\ IsEnd(y) /\ Connected(End(h), y, c)
        /\ Connected(y, End(h), host[Peer(h)].connection) /\ Follows(c.receiver, s)
    BY <1>1, HostEnd
  <2>2. /\ \A b \in Nat : Holds(r, b) => b \in shown[h]
        /\ shown[h] \subseteq 0 .. s.outbound.bytes_popped - 1
    BY <1>1 DEF IInv, EndOK
  <2>3. SenderOK(s) /\ s.outbound.bytes_pushed <= y.length /\ ReceiverOK(c.receiver)
    BY <2>1 DEF Connected
  <2>4. inbound(h) = r.output /\ outbound(Peer(h)) = s.outbound
    BY DEF inbound, outbound, receiver_output
  <2> HIDE DEF s, y, c
  <2>5. /\ r.output.bytes_pushed \in Nat /\ s.outbound.bytes_popped \in Nat
        /\ s.outbound.bytes_popped <= s.outbound.bytes_pushed
    BY <2>1, <2>3, ReachedNumbers
  <2>6. s.outbound.bytes_pushed \in Nat
    <3>1. s \in Senders BY <2>3 DEF SenderOK, Placed
    <3> QED BY <3>1, SenderNumbers
  <2> HIDE DEF r
  <2>7. \A b \in 0 .. r.output.bytes_pushed - 1 : b \in Nat /\ Holds(r, b)
    BY <2>5 DEF Holds
  <2>8. 0 .. r.output.bytes_pushed - 1 \subseteq shown[h] BY <2>2, <2>7
  <2>9. shown[h] \subseteq 0 .. s.outbound.bytes_pushed - 1
    <3>1. 0 .. s.outbound.bytes_popped - 1 \subseteq 0 .. s.outbound.bytes_pushed - 1
      BY <2>5, <2>6
    <3> QED BY <3>1, <2>2
  <2> QED BY <2>4, <2>8, <2>9
<1>2. IInv => AssembledIsShown BY <1>1 DEF AssembledIsShown
<1> QED BY <1>2, HostInvariant, PTL

(***************************************************************************)
(* Every ICMP datagram the hosts emit answers a request others have sent,  *)
(* to where it came from; a request is answered once for each time it      *)
(* arrives (AnsweredOnce): echo_reply_from_request takes nothing but a     *)
(* request, so no two hosts ping each other up.                            *)
(***************************************************************************)
THEOREM EveryPingOnce ==
  ASSUME ShortStreams
  PROVE  Spec => []AnsweredOnce
<1>1. ASSUME IInv PROVE AnsweredOnce
  <2>1. /\ Types /\ RepliesAnswer /\ FewPings /\ (faults = 0 => PingsDiffer)
    BY <1>1 DEF IInv, PingInv
  <2>2. /\ net \in [Hosts -> Seq(Packets)] /\ echoes \in Seq(Packets) /\ faults \in Nat
        /\ IsFiniteSet(injected)
    BY <2>1 DEF Types
  <2>3. DOMAIN echoes = 1 .. Len(echoes) BY <2>2
  <2>4. ASSUME NEW i \in 1 .. Len(echoes) PROVE \E s \in injected : Answers(echoes[i], s)
    <3> DEFINE d == echoes[i]
               s == <<d.src, RequestOf(d)>>
    <3>1. /\ d.payload.icmp_type = "reply" /\ RequestOf(d) # Malformed /\ s \in injected
      BY <2>1 DEF RepliesAnswer
    <3>2. s[2] = RequestOf(d) OBVIOUS
    <3> HIDE DEF s, d
    <3>3. Answers(d, s) BY <3>1, <3>2 DEF Answers, RequestOf
    <3> QED BY <3>1, <3>3 DEF d
  <2>5. Len(echoes) <= Cardinality(injected) + faults
    <3>1. PICK h \in Hosts : TRUE
      BY HostNetworkAssumption DEF HostNetworkAssumption
    <3> DEFINE e == Len(echoes)
               a == Cardinality(Pings(net[h]))
               b == Cardinality(Pings(net[Peer(h)]))
               n == Cardinality(injected)
    <3>2. Peer(h) \in Hosts BY TwoHosts
    <3>3. e + a + b <= n + faults BY <2>1 DEF FewPings
    <3>4. net[h] \in Seq(Packets) /\ net[Peer(h)] \in Seq(Packets) BY <3>2, <2>2
    <3>5. a \in Nat /\ b \in Nat BY <3>4, PingsFinite
    <3>6. n \in Nat BY <2>2, FS_CardinalityType
    <3>7. e \in Nat BY <2>2
    <3> HIDE DEF e, a, b, n
    <3>8. e <= n + faults BY <3>3, <3>5, <3>6, <3>7, <2>2
    <3> QED BY <3>8 DEF e, n
  <2>6. ASSUME NEW i \in 1 .. Len(echoes), NEW j \in 1 .. Len(echoes), i # j,
               echoes[i] = echoes[j]
        PROVE  faults > 0
    <3>1. faults # 0 BY <2>1, <2>6 DEF PingsDiffer
    <3> QED BY <3>1, <2>2
  <2> QED BY <2>3, <2>4, <2>5, <2>6 DEF AnsweredOnce
<1> QED BY <1>1, HostInvariant, PTL
=============================================================================

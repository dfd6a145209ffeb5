# A TLA+ verification of minnow-rs

minnow-rs is a user-space network stack in Rust: a TCP (byte stream,
reassembler, receiver, sender, connection) above IPv4, ICMP, ARP and Ethernet,
run over a TUN or a TAP device. This directory models the protocol parts, the formats
on the wire and the loops of the two programs that run them, checks
the models with TLC on small instances, and proves with TLAPS, for every instance, the
safety of the TCP half: the reassembler (and that it implements its abstract
specification), the sender, `unwrap`, and two connections over a faulty network as two
reliable streams; and the safety of the network interface.

Paths are relative to the crate's source directory, `src/`.

## 1. Inventory

| Component | State it keeps | Operations | What makes it correct |
|---|---|---|---|
| `ByteStream` (`byte_stream.rs`) | chunks, counters, closed, error | `push`, `pop`, `close`, `set_error` | what is popped is what was pushed, in order; the counters agree with the chunks |
| `Wrap32` (`wrapping_integers.rs`) | none | `wrap`, `unwrap` | inverse near the checkpoint, also where u32 wraps and at both ends of u64 |
| `Reassembler` (`reassembler.rs`) | output stream, map of pending fragments, end index | `try_insert` (`insert`) | any order and overlap of fragments gives the stream, within the capacity |
| messages (`tcp_message.rs`, `tcp_segment.rs`) | none | `from_messages`, `to_sender_message`, `to_receiver_message`, parse, serialize | both halves of a segment survive the trip |
| `TcpReceiver` (`tcp_receiver.rs`) | reassembler, peer's ISN | `receive`, `send` | acknowledges exactly what is assembled |
| `TcpSender` (`tcp_sender.rs`) | outbound stream, SND.UNA, SND.NXT, window, retransmission queue, timer, two backoffs | `push`, `receive`, `tick`, `abort` | the queue is the flight, the window is respected, nothing is stranded without a timer |
| `TcpConnection` (`tcp_connection.rs`) | a sender, a receiver, two ports | `connect`, `write`, `close`, `receive_segment`, `tick` | two of them carry two reliable streams |
| `NetworkInterface` (`network_interface.rs`, `arp.rs`) | ARP cache, datagrams waiting for a resolution, frame and datagram queues | `send_datagram`, `recv_frame`, `tick` | no datagram to a stale or wrong address, bounded requests, nothing waits for ever |
| `Router` (`router.rs`) | interfaces, routes | `add_route`, `route` | longest prefix, TTL falls at every hop |
| `IpHost` (`ip_host.rs`, `icmp.rs`) | addresses, one connection | `receive_ipv4_bytes`, `tick`, `connect`, `write`, `close` | only its own datagrams reach the connection, the program sees what TCP accepts, a ping is answered once |
| formats (`ethernet_frame.rs`, `arp.rs`, `ipv4_datagram.rs`, `icmp.rs`, `tcp_segment.rs`, `checksum.rs`) | a running sum and a byte left over, in the checksum | `serialize`, `parse`, `add_bytes`, `checksum` | what is sent is what is parsed, padded or not; what was cut or damaged is refused |
| `tap_host` (`bin/tap_host.rs`, `bin/common/host_cli.rs`) | an interface, a host, a channel from the stdin thread | drain frames, drain events, tick, flush | what is typed arrives, through ARP and its losses |
| `tun_host` (`bin/tun_host.rs`, `bin/common/host_cli.rs`) | a host, a channel | the same without an interface | as `IpHost` |
| devices (`tun.rs`, `tap.rs`), capture (`pcap.rs`) | file descriptors | open, read, write | I/O |
| `tun_probe`, `webget` | none of this stack's | print packets; fetch a page over the system's TCP | I/O |

**How they interact.** All protocol code runs by direct calls in one thread: the
program's poll loop reads a frame, hands it up (`NetworkInterface` → `IpHost` →
`TcpConnection::receive_segment` → `TcpSender::receive`,
`TcpReceiver::receive` → `Reassembler` → `ByteStream`), sends down whatever the
handlers return, and calls `tick` with the elapsed time. A handler runs to its end
before the next, so a handler is one step of the model. A second thread reads stdin
and sends lines and the end of the input through a channel, which the loop drains once
in every pass. Concurrency is between the two ends of a connection, their
applications, their clocks and the network, and between the loop, that thread and the
kernel on the other side of the device.

**What is hard.** Segments that arrive late, twice, out of order or never; partial
acknowledgments; windows that close and reopen with no window update; sequence
numbers that wrap; a reset in the middle of anything; a shared buffer whose edge
moves while fragments wait; ARP answers that come late, unasked or with another
address while datagrams wait, under a TCP that retransmits into the same queue; two
clocks that one pass of the loop advances; damaged packets that lie about their own
lengths; routing loops. `PROJECT.json` lists these hazards with their lines
and the properties aimed at them.

## 2. The modules

| Module | Models |
|---|---|
| `Primitives` | saturating arithmetic, maps, `Option::None`, and `Iterate`, which runs one iteration of a loop a bounded number of times |
| `Wrap32` | `wrapping_integers.rs`, with `MODULUS` (2^32) and `U64_MAX` as parameters |
| `ByteStream` | `byte_stream.rs` as operators on a record with the fields of the struct |
| `Reassembler` | `reassembler.rs`; each helper method is an operator with its name, each loop an iteration (`FillNextGap`, `FlushFirst`) and its repetition |
| `ReassemblerSpec` | one reassembler as a state machine: `Insert`, `Read`, `Fail` |
| `ByteAssembly` | the abstract specification: a *set* of held bytes, the longest assembled prefix, the end mark; no fragments, gaps or loops |
| `TcpMessage` | both messages and their mapping to a segment |
| `TcpReceiver`, `TcpSender`, `TcpConnection` | the three components as operators; a sender operation returns `[sender, sent]`, a connection operation `[conn, out]` (the closure `transmit` of the code collects exactly this list) |
| `SenderSpec` | one sender under arbitrary feedback |
| `TcpNetwork` | two connections, their applications and the network between them |
| `ReliableStream` | the abstract specification of one direction: bytes arrive in order, the end only after the last byte, never more than was written |
| `NetworkInterface` | `network_interface.rs` (with the frame and ARP message it handles) as operators on a record with the fields of the struct |
| `InterfaceSpec` | one interface between its IP layer and an arbitrary Ethernet link |
| `Router` | `router.rs`: `find_route`, `route_one_datagram`, `route` |
| `RouterSpec` | the routing table as it grows, against a bit-by-bit definition of longest prefix |
| `RoutedNetwork` | hosts and routers on shared links, every hop with its own ARP |
| `IpHost` | `ip_host.rs` and the echo part of `icmp.rs`; an operation returns `[host, datagrams, payloads]` |
| `HostNetwork` | two hosts, each run by `tun_host`'s loop, and the traffic of others |
| `Checksum` | `checksum.rs`: the sum, fed in pieces, the verification, TCP's pseudo header |
| `WireFormats` | the serializer and parser of each format on sequences of bytes, as `Ok(message)` or `Refused` |
| `WireSpec` | one message on its way through padding, truncation, damage and routers, and its parsing layer by layer |
| `TapHost` | what each part of `tap_host`'s loop does to its interface and its host |
| `TapNetwork` | the loop phase by phase, the stdin thread, the device, and the kernel with the server as environment |
| `WrapSpec` | every pair of absolute number and checkpoint in a whole u64 range |
| `EndpointLemmas` | lemmas about the operators, in four parts: induction, byte stream and wrapping numbers; the reassembler; the sender; the connection |
| `ReassemblerProofs`, `TcpNetworkProofs`, `InterfaceProofs`, `HostNetworkProofs`, `TapNetworkProofs` | the theorems about the specifications of these names |
| `SenderProofs` | the theorems about `SenderSpec` and `WrapSpec` |
| `RoutingProofs` | the theorems about `RouterSpec` and `RoutedNetwork` |
| `MC*` | the instances for TLC |

**Data.** A payload is a run `[lo, hi)` of indices into the stream of the
application that wrote it. A byte's identity is its index, so a misplaced,
repeated or skipped byte shows up as a run in the wrong place
(`Contiguous`, `CarriesItsPlace`). A sequence number is an integer below
`MODULUS`, computed with the code's arithmetic; `None` is -1. A segment is a
record of the header fields the code reads. Bytes are bytes in `Checksum`,
`WireFormats` and `WireSpec` only, whose run shows that a message survives the trip and
damage does not become another message; everywhere else a frame, datagram or segment
carries what its payload parses to, or `Malformed`. An IPv4 address is a sequence of bits in the router (`prefix_mask`
works on them) and a name elsewhere; `identifier`, `sequence_number` and payload of
an echo are one tag. The hash maps of the interface are functions on their keys.

**Debug assertions.** `debug_check_invariants` of the sender and of the
reassembler are not assumed: `QueueIsFlight`, `TimerArmed`, `PendingSorted` and
`JointlyWithinCapacity` say the same and more, and are checked.

Definitions named `X_Something` before a definition `X`, marked "Mutant", are
plausible bugs in the code behind `X`. No specification uses them; substituting
one for `X` shows which property notices it.

## 3. The runs

| Run | Instance | Shows |
|---|---|---|
| `reassembler` | capacity 5, stream of 8 bytes, `U64_MAX` = 7 so that both the overflow check and the saturation bite; 7 582 states | every sequence of fragments with every end mark, reads of any length and an error keeps `OutputInOrder`, `PendingSorted`, `JointlyWithinCapacity`, `NothingWithheld`, `ClosedIsFinal`, and is a behaviour of `ByteAssembly` |
| `sender` | 3 bytes, capacity 2, payload 2, modulus 8 and ISN 6 so that it wraps, windows 0, 1, 2, 4, any ackno, resets, ticks of 0, 1, 2 against timeouts of 1 to 3; 32 038 states | the queue is exactly the flight after any partial acknowledgment, SND.NXT counts the stream, the timer is armed in the right mode, the window is respected, nothing acknowledged is resent |
| `network` | client A sends up to 3 bytes to B, buffers of 2, ISN two before the wrap, at any moment one loss, repeat, late segment or reset of either end; 552 671 states | both ends agree about what arrived (`AckedIsAssembled`), no spurious reset, `is_finished` can be believed, the peer's window is respected while nothing goes wrong, both directions are `ReliableStream`, and a failed endpoint resets its peer with all it still sends (`FailedEndpointResets`) |
| `network_liveness` | one byte each way, receive buffer of 1 (so the window closes), one fault or reset; 236 733 states | everything written is read and every close finishes, or the endpoint that wrote or closed learns that the connection failed |
| `wrap` | modulus 8, a u64 of 8 eras, all zero points, all pairs | `UnwrapIsNearest`: `unwrap` is the nearest solution, at both ends of the u64 range too; within half a modulus of the checkpoint it so inverts `wrap` |
| `interface` | three datagrams to two next hops, either of which may announce one of two addresses at any time, asked or not; cache lifetime, queue lifetime and cooldown of a few ticks in the code's order; queues of one unhandled frame and datagram; 250 644 states | one request per cooldown and address (`OneRequestPerCooldown`), a datagram leaves for the address announced last and no longer ago than the cache lifetime (`SentAsTold`), none waits for an address that is known (`NothingStranded`), and each is sent or dropped in the end (`WaitingEnds`) |
| `routes` | all tables of up to three routes over 2-bit addresses; 1 885 states | `LongestPrefixFirst`: the route found is the first of the longest that match |
| `routed_network` | host H1, router R1; R1, R2 and host H2 on a shared link; in each behaviour one datagram, either across or to an address for which the routers' default routes point at each other; frames lost at any moment; 39 447 states | no datagram is copied (`NeverDuplicated`) or handed to the wrong host (`DeliveredToDestination`), and one caught in the loop leaves the network (`TransitEnds`) |
| `hosts` | a client sends two bytes, twice the server's buffer; one loss or repeat and one of ten stray packets at any moment; 591 660 states | the traffic of others leaves the connection alone (`UntouchedByOthers`), all that is accepted has been shown to the program (`AssembledIsShown`), pings are answered once and replies never (`AnsweredOnce`), and what fits the buffer is shown in the end (`WrittenIsShown`) |
| `wire` | segments with every set of flags, payloads of odd length, echoes and ARP messages, with the demo's addresses; every truncation; at every place every byte of `MCWrongBytes`; up to two routers before or after the damage; 27 284 states | what is sent is received (`SentIsReceived`), a cut or damaged frame yields nothing or what was sent (`DamageIsRefused`), and the checksum does not depend on the pieces it is fed in (`ChecksumInPieces`) |
| `tap_host` | a line of two bytes of which one fits the send buffer, then the end of the input; two faults, each a lost frame or a new Ethernet address of the kernel; a device error at any moment; 187 097 states | the end overtakes no line and no byte (`EndMeansAll`), a retransmission for which the timer has backed off is really under way or waits for an address (`RetransmissionIsHeld`), and what was accepted from stdin arrives unless the program exits (`AcceptedArrives`) |
| `sender_finished` | as `sender` | the disagreement of section 6 |

**Bounds.** Capacity 5 with 8 bytes allows three fragments with holes before,
between and after them, and fragments that cover two others and three holes.
One fault is enough for each of the repair paths (timeout at either end, duplicate
answer, late segment, reset), and every moment is tried; faults and resets share the
budget `MAX_FAULTS`. `MAX_IN_NET` stops the clock
while two segments are in transit: without it, retransmissions would fill the
network without bound; retransmissions that overtake nothing add no new kind of
state, and a duplicate in transit also comes from `Repeat`. The retransmission
counter is capped at `RETX_MAX` the way the code caps it at `u64::MAX`, and the
backoff at `max_timer_interval_ms`, as configured.

The interface's times are small but keep the code's relations (the cache outlives
a queue, and a queue lives as long as the cooldown: `InterfaceTimesAssumption`, without
which `OneRequestPerCooldown` is false); no frame arrives while one of its
queues holds `MAX_QUEUE` entries, and two instead of one finds nothing else (2.2 million
states). Three routes are enough for two of equal length and a shorter one in every
order. In `hosts` one stray packet of each kind meets every state of the
connection: another host with the same ports, another port of the peer, a packet for
someone else, another protocol, damage at each layer, and pings from the peer and
from others.

In `wire` a wrong byte has any upper half and one of the lower halves 0, 1, 4, 6
and 15, which turn the EtherType, the protocol, the header length, the data offset and
the flags into every other value that leads to another branch of a parser. One of the
messages is built so that the checksum of a header one word longer is right by
accident: only the other checks refuse it. In `tap_host` time is counted in units of
a retransmission timeout (1, at most 2), the queue lives for two of them, as long as
the cooldown, and the cache for three, which keeps the code's order; a pass of the
loop takes one unit or none. Two faults allow an ARP request and its repetition to be
lost, or a lost frame around a change of address.

**Deadlock** is checked in all passing runs but `wrap`, which ends at the top of
the u64 range, `routes`, whose table is bounded, `wire`, where a message's trip ends,
and `tap_host`, whose program exits when the device fails.

**Fairness.** `FairSpec` asks for three things of each endpoint: an arrived
segment is eventually handled and time passes while a timer runs (both are the poll
loop of `tap_host` and `tun_host`, which handles whatever is there and calls
`tick` on every turn), and the application reads what is buffered. Nothing is
asked of `connect`, `write`, `close` or of the network, except that it misbehaves
only finitely often (`MAX_FAULTS`). Without the reading application
`WrittenIsRead` would be false, as it should be.

`InterfaceSpec` asks only that the clock ticks; an answer to a request is not
asked for. In `RoutedNetwork` every node's loop keeps time and takes what has
arrived, and a frame on a link is transmitted or lost.
The `FairSpec` of `HostNetwork` asks for arrival and time only: in `tap_host` and
`tun_host` nobody reads the connection's stream, so `WrittenIsShown` speaks of
what fits the buffer, and beyond it flow control holds the peer for ever.

The `FairSpec` of `TapNetwork` asks that the loop goes on (its reads do not block) and
that time passes in it (its sleeps of 10 ms add up), unless it has exited, and that the
kernel handles what was written to it. The kernel is external: it answers ARP
requests for its address and every segment that takes sequence numbers. Nothing is
asked of the stdin thread, and frames are lost at most `MAX_FAULTS` times.

## 4. What is proved

Every theorem holds for every value of the constants that satisfies the named
assumptions of the modules it extends. They say what the types of the code say
(`U64Assumption`, `U16Assumption`, `CapacityAssumption`, `MaxIndexAssumption`: naturals;
`ModulusAssumption`, `U64IsWholeEras`: an even modulus that divides the u64 range, in the
code 2^32 and 2^64), what its configuration checks (`SenderConfigAssumption`: a positive
initial timeout, not above the maximal interval, and a positive payload size), how its
time constants are related (`InterfaceTimesAssumption`), that two different endpoints
take part (`NetworkAssumption`, `HostNetworkAssumption`), and how a network is put together
(`RoutedNetworkAssumption`, `TopologyAssumption`, `StrayAssumption`, see below). TLC evaluates all of them on the instances of section 3.

### Induction, byte streams and wrapping numbers

`EndpointLemmas` derives the induction principles the other modules use (on sets of naturals
and intervals, with no operator as a parameter) from the least element of a set of
naturals; shows what `push`, `pop`, `close` and `set_error` do to an output in order
(`PushKeepsOrder`, `PopKeepsOrder`, `MarkKeepsOrder`); and what `wrap` and `unwrap` do
across eras (`WrapEras`, `UnwrapNearest`, `UnwrapInverts`). `SenderProofs` concludes

* `UnwrapFindsNearest`: `NumbersSpec => []UnwrapIsNearest`

for every zero point, number and checkpoint: the three candidates of the code (the era of
the checkpoint and its neighbours, as far as they exist) always hold the nearest.

### The reassembler

`ReassemblerProofs`, of `ReassemblerSpec`:

* `TypeCorrect`: `Spec => []TypeOK`
* `DeliveredInOrder`: `Spec => []OutputInOrder`
* `FragmentsSorted`: `Spec => []PendingSorted`
* `FlushedCompletely`: `Spec => []NothingWithheld`
* `BufferIsBounded`: `Spec => []JointlyWithinCapacity`
* `ClosedStaysClosed`: `Spec => ClosedIsFinal`
* `AssemblesBytes`: `Spec => ImplementsByteAssembly`

None of these is inductive alone: that a pushed fragment continues the output
needs that fragments carry the bytes of their index; that needs disjointness for
the gap filling; that a flush never overruns the buffer needs the edge of the
window; and that close is final needs that nothing pending passes the end. The
inductive invariant, `Whole` of `EndpointLemmas`, puts them together: the shape of the record, the
output in order (`StreamOK`), fragments sorted, disjoint, within the output, the
window edge and the end (`Frags`), the flush at its fixed point (`Flushed`), and
closed exactly at the end.

The loops are the hard part. `GapStep` shows that one iteration of
`insert_missing_gaps` keeps the fragments sorted and moves the cursor;
`FlushStep` that one iteration of `flush_contiguous` keeps them and, unless it
is at its fixed point, uses up fuel (two units per fragment); `IntervalInduction`
runs the steps up, so that `FlushContiguous` can say that the
bound `2 * Cardinality(DOMAIN pending)` is always enough.

The refinement needs more than that nothing goes wrong: the set of bytes held must be
*exactly* the old one and the new fragment, clipped to the window. `Holds(r, b)` says that
byte `b` is pushed or in a fragment. A flush moves bytes and changes none (`SameBytes`);
an iteration of the gap loop fills everything up to its cursor (`FillGap`, `FirstGapOK`), so
that `InsertMissingGaps` leaves no hole in the clipped range; `VerdictAgrees` shows that
the code's sequence of checks against a known end refuses exactly the fragments that the
abstract specification refuses; and `NextIsMissing` that after a flush the next byte is
held by no fragment, so that the assembled prefix is the longest one.

`JointlyWithinCapacity` bounds a sum over the fragments. `RunsAddUp` shows that the lengths
of disjoint fragments add up to the number of positions they cover, by induction over the
set of fragments; these positions lie between the end of the output and the edge of the
window, which leaves the buffered bytes their room.

### The sender

`SenderProofs`, of `SenderSpec`, for any windows, acknowledgments, resets and ticks:

* `SenderTypes`: `Spec => []TypeOK`
* `QueueStaysFlight`: `Spec => []QueueIsFlight`
* `EveryNumberOnce`: `Spec => []SequenceAccounting`
* `TimerStaysArmed`: `Spec => []TimerArmed`
* `ResendsOnlyUnacknowledged`: `Spec => []NeverResendsAcknowledged`
* `StaysWithinWindow`: `Spec => WindowRespected`

The inductive invariant is `SenderOK` of `EndpointLemmas`: the queue tiles the interval
from SND.UNA to SND.NXT with segments that carry what belongs there (`Flight`), SND.NXT
counts SYN, bytes and FIN (`Accounting`), the timer fits the queue and the window
(`Armed`), and all is typed (`Placed`); with it the history of acknowledgments is below
SND.UNA, and what the last step sent is in flight (`SentIsInFlight`). It has
one lemma per operation (`push` with its loop, `receive` with `trim_prefix` and
`discard_acknowledged_prefix`, `tick` with its two backoffs, `abort`), which
`TcpNetworkProofs` and `TapNetworkProofs` use again. What a trimmed segment carries depends on where the cut
falls: on SYN, in the bytes, or before FIN.

### Two connections over a network

`TcpNetworkProofs`, of `TcpNetwork`, for any capacities, windows, initial numbers,
clients, and any number of faults and resets:

* `ForgetsOnlyAssembled`: `Spec => []AckedIsAssembled`
* `FailsOnlyByReset`: `Spec => []NoSpuriousReset`
* `FinishedIsDelivered`: `Spec => []FinishedMeansDelivered`
* `StaysInPeerWindow`: `Spec => []WithinPeerWindow`
* `FailureIsTold`: `Spec => FailedEndpointResets`
* `IsReliableStream`: `Spec => ImplementsReliableStream`

They have one hypothesis, `ShortStreams`: SYN, bytes and FIN of each stream take at most
half of the sequence space, 2^31 numbers in the code. The model's network may keep a
segment for any time, and TCP relies on segments to die within a wrap; without a bound on
their lifetime a bound on the stream takes its place. The raw numbers still wrap, at any
place of the stream. The instances of section 3 satisfy it (2 * (3 + 2) <= 16).

The inductive invariant ties the ends together through what is in transit. Each connection
is in order (`Connected`: `SenderOK`, and the reassembler's invariant). A receiver knows
only what the sender at the other end has sent (`Follows`). Every segment in transit,
however old, is *genuine* (`SegmentOf`): it is a reset, or it takes no sequence number, or
it carries what belongs at some absolute number of the sender's stream, and what it
acknowledges its own receiver has reached. `FindsPlace` shows that the receiver's `unwrap`
puts it at exactly that number, and `AckMeaning` the same for the acknowledgment. Without a
reset, nothing has failed and no sender has forgotten what its peer has not reached
(`Clean`). The lemmas about one connection, which say what each of its operations does to
these relations (`FlushSends`, `WriteSends`, `CloseSends`, `TickSends`, `ReceiveSends`),
are part four of `EndpointLemmas`; the hosts below use them again.

Ten actions become two kinds of step: the network or a host misbehaves, or one endpoint
acts (`Acts`: it emits genuine segments, keeps its input, and consumes at most the oldest
segment). `NextKinds` does this reduction, and each property is then proved of `Acts` once.
The refinement is `Spec`-step by `Spec`-step: a `Deliver` may move `arrived` and `ended` of
one direction, a `Write` or `Close` the other, and the rest stutters.

`WithinPeerWindow` needs its own invariant, `WindowInv`: the code takes a window from any
segment that is not too new and counts it from SND.UNA, so a window that was sent with an
older acknowledgment would reach past the peer's buffer. While nothing goes wrong, acknowledgments arrive in the
order in which they were sent (`Ordered`), each is below the edge of the buffer that sent
it (`FeedbackFits`), and that edge never moves back.

### Two hosts among others

`HostNetworkProofs`, of `HostNetwork`, for any capacities, windows, initial numbers, number
of faults and any set of packets from others:

* `OthersDoNotInterfere`: `Spec => []UntouchedByOthers`
* `ShowsWhatItAssembles`: `Spec => []AssembledIsShown`
* `EveryPingOnce`: `Spec => []AnsweredOnce`

The hypothesis is `ShortStreams` again. `StrayAssumption` says what others' packets are: any
packet, whole or damaged at any layer, but none with both addresses and both ports of the
connection (`OfConnection`), whose segments no check of the code could tell from the peer's.

The inductive invariant has three parts. `EndOK` is that of the two connections, with one
addition: the program has been shown every byte that the reassembler *holds*, in a fragment
or in its output, and nothing that was not sent. `AssembledIsShown` alone is not inductive,
because a byte is assembled long after its segment was reported; `ReceiveSends` says
that a receiver gains nothing beyond the payload of the segment (`Gains`). `PingInv` counts:
pings in transit and replies together are no more than what others have sent and
the network has repeated (`FewPings`), and without a fault no two pings in a queue are equal
and none of them has been answered (`PingsDiffer`). `Dispatches` shows that
`receive_ipv4_bytes` does one of three things, `CallsKeep` that a call which emits
segments of the connection, or one reply to the ping it was given, keeps all of this.

### The network interface

`InterfaceProofs`, of `InterfaceSpec`, for all sets of neighbours, addresses,
datagrams and elapsed times and all lifetimes related as in the code
(`InterfaceTimesAssumption`: queue lifetime = cooldown, at most the cache lifetime, at
most `U64_MAX`):

* `RequestsKeepDistance`: `Spec => OneRequestPerCooldown`
* `DatagramsGoAsTold`: `Spec => SentAsTold`
* `NothingIsStranded`: `Spec => []NothingStranded`

The code keeps the cooldown inside the queue, so nothing in the program remembers a
request once its queue is gone. The inductive invariant relates three clocks: the last
request to a neighbour is at least as old as its queue and as its mapping
(`AskedLongAgo`), so that when both are gone a cooldown has passed; and what the cache
holds is what the neighbour announced last, at least as old (`KnownAsTold`). `Clocks`
shows that the saturating ages of the code and the capped ages of the histories agree
below the lifetimes. For `NothingStranded` the fates of the datagrams fit the queues
(`Waits`): a queue is never empty, belongs to a neighbour that is not known, holds its
datagrams once each and oldest first (`InOrder`), and is as old as its first. There is one
lemma for each thing that happens to the maps (`QueueGrows`, `QueueStarts`,
`MappingLearnt`, `TimePasses`) and one for each action.

### Routes and routed networks

`RoutingProofs`, of `RouterSpec`, for every width of addresses and every table:

* `LongestPrefixWins`: `TableSpec => []LongestPrefixFirst`

The code compares integers under a mask, the property compares bits. `Halves` shows that
the bit of weight 2^n decides between the two halves of an interval, and `PrefixIsBits`
that two addresses agree under `prefix_mask` exactly if their leading bits do, by induction
on the length of the prefix (`pow2` is a recursive function, whose recurrence `PowersOfTwo`
establishes). `FindsBest` is the loop of `find_route`: after k routes the candidate is the
best of the first k (`IsBest`).

And of `RoutedNetwork`, for any number of hosts, routers, links, routes, datagrams and
losses:

* `ReachesOnlyDestination`: `Spec => []DeliveredToDestination`

A host hands up every datagram in a frame with its Ethernet address; neither `recv_frame`
nor the model looks at the IP address. That the wrong one never comes is a fact about the
whole network, and about how it was set up. `TopologyAssumption` says that on each link
an IP and an Ethernet address belong to one interface, that interfaces start without
mappings or frames, and that gateways and next hops are not hosts: a default route through
a host would indeed hand it the datagrams of others.

The inductive invariant follows a datagram through every place that can hold it. On each
link an IP and an Ethernet address that occur together in an ARP message or in a cache
belong to one interface (`BelongTogether`, `CacheOK`); a datagram waits for the address
of a host only if it is for that host (`MayWait`, `QueuesOK`), and so a frame that would
reach a host carries what is for it (`MayReach`, `GoodFrames`); what the host has taken in
is its own (`IncomingOK`). One lemma per operation of the interface shows that it keeps
`PortOK` (`SendKeepsPort`, `LearnKeepsPort`, `RecvKeepsPort`, `TickKeepsPort`), two do so
for the router's loops (`RouteOneKeepsNode`, `RouteKeepsNode`), and one per action
concludes.

### `tap_host` and the kernel

`TapNetworkProofs`, of `TapNetwork`, for all lines on stdin, windows, capacities,
lifetimes, faults and addresses of the kernel:

* `EndIsLast`: `ShortInput` implies `Spec => []EndMeansAll`
* `ResentIsHeld`: `Spec => RetransmissionIsHeld`

`ShortInput` says that SYN, input and FIN take fewer numbers than the sequence space has,
2^32 in the code: as in `TcpNetwork` a frame may be arbitrarily late, and a server that waits
for a number must not meet it twice. It is not needed for `ResentIsHeld`.

The invariant `IInv` relates the three ends of the pipeline. The channel holds the last
events of stdin in order, and the stream is closed only when all are taken (`EventsOK`); what was
written is part of what was typed (`InputOK`). Every segment, in a frame on the link, in a
queue of the interface that waits for an address or in one to be written, carries what
belongs at its number in the stream (`OutSegment`), which retransmission, trimming and the
change of windows keep. The server has a prefix of what was sent, and the end only with
all of it (`ServerOK`). `ResentIsHeld` follows from the part without the sizes
(`LoopInv`): `tick` ages the interface before the connection, so that the segment joins
what expiry has left.

### Only model-checked

* Liveness: `WaitingEnds`, `WrittenIsRead`, `ClosedFinishes`, `TransitEnds`,
  `WrittenIsShown`, `AcceptedArrives`. Fairness and ENABLED are out of the prover's reach.
* The properties of `wire` (sums over the bytes of any packet): inductions over data.
* `NeverDuplicated` of `RoutedNetwork`: sums of cardinalities over all queues of all ports.

## 5. Not modelled, and why

* `pcap.rs` appends a record for each packet to a file that nothing reads back.
* Opening a device (`tun.rs`, `tap.rs`: interface names, `ioctl`, flags) is a sequence
  of system calls before the loop; reading and writing are in `TapNetwork`, as queues
  that may fail.
* Command lines are parsed before anything runs; what they guarantee (a host is not its
  own peer) is an assumption of `TapNetwork`.
* `tun_probe` prints packets, and `webget` uses the operating system's TCP.
* Log events of `IpHost` change nothing; `print_events` shows payloads, which are kept.
* `Router::add_interface` is called while a router is set up, so the interfaces are
  part of the initial state.
* The order of one pass of `tun_host`'s loop and its exit are those of `tap_host` and
  are checked there.

## 6. Disagreements between the code and what is said of it

`TcpSender::is_finished` ("True after FIN has been transmitted and fully
acknowledged", `tcp_sender.rs:322`) is also true after a reset that clears an
unacknowledged FIN (run `sender_finished`).

Seen while modelling, and shown by no run:

* `push` ignores the error mark, and `receive_segment` calls it right after an abort, so
  that SYN, data and FIN still go out with the RST flag and start the timer again; the
  cleared queue no longer counts against the peer's window.
* Any acknowledgment that is not beyond SND.NXT sets the window, an old one that arrives
  late too. For both reasons `WithinPeerWindow` speaks of executions without faults.
* `TcpConnection::is_established` (`tcp_connection.rs:117`) is true after a reset in
  answer to the SYN, followed by the peer's SYN.
* `NetworkInterface::tick` "drops unresolved queued datagrams after 5 seconds"
  (`network_interface.rs:187`), but a queue has one age, that of its first datagram:
  one that joins late is dropped with it, after less than its five seconds and
  without a request of its own. In `tap_host` TCP's next retransmission repairs this.
* A line on stdin that does not fit the send buffer is cut off with a warning
  (`tap_host.rs:190-207`): `AcceptedArrives` speaks of what was accepted.
* The loops count elapsed time in whole milliseconds, so timers run slightly slow.
* The capture file is buffered and never flushed while a program runs, so one that is
  stopped from outside may leave a capture without its tail.

## 7. How it grew, and what is left

1. *(done)* byte stream, wrapping numbers, reassembler with its abstraction;
   sender; receiver; connection; two connections over a faulty network; the
   reassembler's theorems.
2. *(done)* interface, router, routed network, host.
3. *(done)* the formats on the wire and the checksum; `tap_host`'s loop with `IpHost`
   above `NetworkInterface`, so that retransmission meets resolution.
4. *(done)* proofs of the sender, `unwrap`, the refinement of `ByteAssembly`,
   `NothingStranded`, and the safety of two connections, as in section 4.
5. *(done)* proofs of the longest prefix, of delivery in routed networks, of the
   reassembler's bound and of `tap_host`'s loop.
6. *(done)* the lemmas about one connection, and with them the safety of two hosts among
   others' traffic.
7. Left: `NeverDuplicated`, with an invariant that each datagram is in at most one place.

----------------------------- MODULE TapNetwork -----------------------------
(***************************************************************************)
(* tap_host at work: main's poll loop, the thread that reads stdin, the    *)
(* TAP device, and on its other side the kernel with the TCP server.       *)
(*                                                                         *)
(* The loop goes through its phases for ever: it reads frames until there  *)
(* are none, takes stdin's events until there are none, lets time pass,    *)
(* and writes the frames that are due.  Frames and events arrive at any    *)
(* moment.  Time is counted in units of a retransmission timeout; a pass   *)
(* of the loop takes one unit or less than one, which counts as 0.         *)
(*                                                                         *)
(* The kernel is external.  It answers: ARP requests for its address and   *)
(* every segment that takes sequence numbers; it takes data in order.      *)
(***************************************************************************)
EXTENDS TapHost

CONSTANTS
  LocalIp, PeerIp, LocalPort, PeerPort, LocalMac,
  PeerMacs,            \* the addresses the kernel's side of the link has, in order
  LocalIsn, PeerIsn,
  Lines,               \* the sizes of the lines on stdin, in order
  SENDER_CAPACITY,
  PEER_WINDOW,         \* what the kernel advertises
  MAX_FAULTS,          \* bound: lost frames and changes of the kernel's address
  MAX_IN_NET           \* bound: no unit of time passes while this many frames are in transit

(* parse_args refuses a host that is its own peer; numbers have their types. *)
ASSUME TapNetworkAssumption ==
  /\ LocalIp # PeerIp /\ LocalPort # PeerPort
  /\ LocalIsn \in RawValues /\ PeerIsn \in RawValues
  /\ Lines \in Seq(Nat) /\ SENDER_CAPACITY \in Nat /\ PEER_WINDOW \in Nat
  /\ PeerMacs # <<>> /\ MAX_FAULTS \in Nat /\ MAX_IN_NET \in Nat

VARIABLES
  program,
  phase,       \* "frames", "events", "clock", "flush" or "exited"
  channel,     \* events on their way from stdin's thread to the loop
  typed,       \* how many events stdin's thread has sent
  to_host,     \* frames that wait in the TAP device to be read
  to_kernel,   \* frames that were written to it
  kernel,      \* [macs, next, ended, acked]: the server's side of the connection
  faults

vars == <<program, phase, channel, typed, to_host, to_kernel, kernel, faults>>

Connection == new_connection(LocalPort, PeerPort, SENDER_CAPACITY, 1, LocalIsn)

Init ==
  /\ program = new_program(LocalMac, new_host(LocalIp, PeerIp, Connection))
  /\ phase = "flush"
  /\ channel = <<>> /\ typed = 0
  /\ to_host = <<>> /\ to_kernel = <<>>
  /\ kernel = [macs |-> PeerMacs, next |-> 0, ended |-> FALSE, acked |-> FALSE]
  /\ faults = 0

environment == <<typed, kernel, faults>>

(* The device does not block: read_frame fails instead, and the loop goes on. *)
would_block(device) == device = <<>>

(* write_frame for each of the frames, in order. *)
write_frames(device, frames) == device \o frames
-----------------------------------------------------------------------------
(* drain_tap_frames: reads until read_frame would block. *)
ReadFrame ==
  /\ phase = "frames" /\ ~would_block(to_host)
  /\ program' = receive_frame(program, Head(to_host))
  /\ to_host' = Tail(to_host)
  /\ UNCHANGED <<phase, channel, to_kernel, environment>>

NoMoreFrames ==
  /\ phase = "frames" /\ would_block(to_host)
  /\ phase' = "events"
  /\ UNCHANGED <<program, channel, to_host, to_kernel, environment>>

(* Mutant: the channel is a stack. *)
try_recv_Latest(events) == [event |-> Last(events), rest |-> Front(events)]
(* Events come out of the channel in the order they were sent in. *)
try_recv(events) == [event |-> Head(events), rest |-> Tail(events)]

(* drain_app_events: takes events until the channel is empty. *)
TakeEvent ==
  /\ phase = "events" /\ channel # <<>>
  /\ program' = handle_event(program, try_recv(channel).event)
  /\ channel' = try_recv(channel).rest
  /\ UNCHANGED <<phase, to_host, to_kernel, environment>>

NoMoreEvents ==
  /\ phase = "events" /\ channel = <<>>
  /\ phase' = "clock"
  /\ UNCHANGED <<program, channel, to_host, to_kernel, environment>>

Clock(elapsed) ==
  /\ phase = "clock"
  /\ elapsed > 0 => Len(to_host) + Len(to_kernel) < MAX_IN_NET
  /\ program' = program_tick(program, elapsed)
  /\ phase' = "flush"
  /\ UNCHANGED <<channel, to_host, to_kernel, environment>>

Flush ==
  /\ phase = "flush"
  /\ to_kernel' = write_frames(to_kernel, program.interface.frames_out)
  /\ program' = flush_interface_frames(program)
  /\ phase' = "frames"
  /\ UNCHANGED <<channel, to_host, environment>>

(* An error of the device ends main: on reading, or after `written' frames. *)
Fail(written) ==
  /\ \/ phase = "frames" /\ written = 0
     \/ phase = "flush" /\ written < Len(program.interface.frames_out)
  /\ to_kernel' = write_frames(to_kernel, SubSeq(program.interface.frames_out, 1, written))
  /\ phase' = "exited"
  /\ UNCHANGED <<program, channel, to_host, environment>>
-----------------------------------------------------------------------------
(* spawn_stdin_thread: a line, or after the last one the end of the input. *)
Type ==
  /\ typed <= Len(Lines)
  /\ channel' = Append(channel, IF typed < Len(Lines) THEN Data(Lines[typed + 1]) ELSE Close)
  /\ typed' = typed + 1
  /\ UNCHANGED <<program, phase, to_host, to_kernel, kernel, faults>>

KernelMac == Head(kernel.macs)

KernelFrame(ethertype, payload) == Frame(LocalMac, KernelMac, ethertype, payload, TRUE)

(* The server after a segment, which it takes if it is the next in order. *)
ServerAfter(segment) ==
  LET takes == segment.seqno = wrap(kernel.next, LocalIsn) IN
  [kernel EXCEPT
     !.next = IF takes THEN @ + sequence_length(segment) ELSE @,
     !.ended = @ \/ (takes /\ segment.fin),
     !.acked = @ \/ segment.ackno = wrap(1, PeerIsn)]

(* Its answer repeats its SYN until that is acknowledged. *)
ServerAnswer(server) ==
  from_messages(PeerPort, LocalPort,
    SenderMessage(wrap(One(server.acked), PeerIsn), ~server.acked, Bytes(0, 0), FALSE, FALSE),
    ReceiverMessage(wrap(server.next, LocalIsn), PEER_WINDOW, FALSE))

KernelReceives ==
  LET frame == Head(to_kernel)
      asked == frame.ethertype = "ARP" /\ frame.payload.operation = "Request"
      after == ServerAfter(frame.payload.payload)
  IN  /\ to_kernel # <<>>
      /\ to_kernel' = Tail(to_kernel)
      /\ \/ /\ ~is_for(frame, KernelMac)
            /\ UNCHANGED <<kernel, to_host>>
         \/ /\ is_for(frame, KernelMac) /\ asked
            /\ to_host' = Append(to_host, KernelFrame("ARP",
                 ArpMessage("Reply", KernelMac, PeerIp, LocalIp)))
            /\ UNCHANGED kernel
         \/ /\ is_for(frame, KernelMac) /\ frame.ethertype = "IPv4"
            /\ kernel' = after
            /\ to_host' = IF sequence_length(frame.payload.payload) = 0 THEN to_host
                 ELSE Append(to_host, KernelFrame("IPv4",
                        Datagram(PeerIp, LocalIp, "TCP", ServerAnswer(after))))
      /\ UNCHANGED <<program, phase, channel, typed, faults>>

Lose ==
  /\ faults < MAX_FAULTS
  /\ faults' = faults + 1
  /\ \/ to_host # <<>> /\ to_host' = Tail(to_host) /\ UNCHANGED to_kernel
     \/ to_kernel # <<>> /\ to_kernel' = Tail(to_kernel) /\ UNCHANGED to_host
  /\ UNCHANGED <<program, phase, channel, typed, kernel>>

(* The device is set up anew: the kernel's side gets another Ethernet address. *)
Renumber ==
  /\ faults < MAX_FAULTS /\ Len(kernel.macs) > 1
  /\ faults' = faults + 1
  /\ kernel' = [kernel EXCEPT !.macs = Tail(@)]
  /\ UNCHANGED <<program, phase, channel, typed, to_host, to_kernel>>

LoopStep ==
  \/ ReadFrame \/ NoMoreFrames \/ TakeEvent \/ NoMoreEvents
  \/ Clock(0) \/ Clock(1) \/ Flush

Next ==
  \/ LoopStep
  \/ \E written \in 0 .. Len(program.interface.frames_out) : Fail(written)
  \/ Type \/ KernelReceives \/ Lose \/ Renumber

Spec == Init /\ [][Next]_vars

(* The loop never blocks, its sleeps add up to time, and the kernel handles what it gets. *)
Fairness ==
  /\ \/ <>(phase = "exited")
     \/ []<><<LoopStep>>_vars /\ []<><<Clock(1)>>_vars
  /\ []<>(to_kernel = <<>>) \/ []<><<KernelReceives>>_vars

FairSpec == Spec /\ Fairness
-----------------------------------------------------------------------------
sender == program.host.connection.sender

(***************************************************************************)
(* Unless the program exits, every byte it accepted from stdin reaches the *)
(* server and so does the end of the input: through a SYN that waits for   *)
(* an address, a lost ARP request or reply, a queue that expires, and a    *)
(* kernel that changes its address under a connection.                     *)
(***************************************************************************)
AcceptedArrives ==
  /\ \A k \in 1 .. SumFunction(Lines) :
       sender.outbound.bytes_pushed >= k ~> kernel.next > k \/ phase = "exited"
  /\ sender.outbound.closed ~> kernel.ended \/ phase = "exited"

(* The datagrams that the interface has been given and not yet passed on. *)
Held(i) ==
  {i.frames_out[k].payload : k \in {n \in DOMAIN i.frames_out : i.frames_out[n].ethertype = "IPv4"}}
    \cup UNION {{i.pending[ip].datagrams[k] : k \in DOMAIN i.pending[ip].datagrams} :
                  ip \in DOMAIN i.pending}

(***************************************************************************)
(* A retransmission that has been paid for is under way: whenever the      *)
(* clock restarts the sender's timer, which then backs off, the oldest     *)
(* unacknowledged segment is in a frame to be written or waits for the     *)
(* peer's address; the queue that expires at that moment does not take it. *)
(***************************************************************************)
RetransmissionIsHeld ==
  [][ phase = "clock" /\ sender.timer.running
        /\ sender.timer' # sender.timer /\ sender.timer'.elapsed_ms = 0
      => \E d \in Held(program.interface') :
           d.payload.seqno = Head(sender.outstanding').message.seqno ]_vars

(***************************************************************************)
(* The end overtakes nothing, neither a line on its way from stdin's       *)
(* thread nor a byte on its way to the server: a stream that is closed has *)
(* no event left behind it, and a server that sees the end has every byte  *)
(* the program accepted.                                                   *)
(***************************************************************************)
EndMeansAll ==
  /\ sender.outbound.closed => typed = Len(Lines) + 1 /\ channel = <<>>
  /\ kernel.ended => sender.outbound.closed /\ kernel.next = sender.outbound.bytes_pushed + 2
=============================================================================

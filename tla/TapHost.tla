------------------------------ MODULE TapHost ------------------------------
(***************************************************************************)
(* bin/tap_host.rs: an IpHost on top of a NetworkInterface.  A program is  *)
(* [interface, host]; each operator below is what one call of main's loop  *)
(* does to it.  What print_events shows is left to HostNetwork.            *)
(***************************************************************************)
EXTENDS IpHost, NetworkInterface, SequencesExt

(* What stdin's thread sends: a line of `size' bytes, newline included, or the end. *)
Data(size) == [kind |-> "Data", size |-> size]
Close == [kind |-> "Close", size |-> 0]

(* Peer and host share a link: the next hop is the destination itself. *)
send_host_output_to_interface(p, r) ==
  LET after[k \in 0 .. Len(r.datagrams)] ==
        IF k = 0 THEN p.interface
        ELSE send_datagram(after[k - 1], r.datagrams[k], r.datagrams[k].dst)
  IN  [host |-> r.host, interface |-> after[Len(r.datagrams)]]

(* main before its loop: the SYN is handed over before any address is known. *)
new_program(mac, host) ==
  send_host_output_to_interface(
    [interface |-> new_interface(mac, host.local_ip), host |-> host], host_connect(host))

(* One datagram of the interface's queue goes to the host and its answer back, at once. *)
DrainDatagram(p) ==
  LET waiting == p.interface.datagrams_in IN
  IF waiting = <<>> THEN p
  ELSE send_host_output_to_interface([p EXCEPT !.interface = pop_datagram(@)],
                                     receive_datagram(p.host, Head(waiting)))

drain_interface_datagrams(p) == Iterate(DrainDatagram, p, Len(p.interface.datagrams_in))

receive_frame(p, frame) ==
  drain_interface_datagrams([p EXCEPT !.interface = recv_frame(@, frame)])

(* A line is written at the end of the stream; what does not fit is cut off. *)
handle_event(p, event) ==
  LET end == p.host.connection.sender.outbound.bytes_pushed IN
  send_host_output_to_interface(p,
    IF event = Close THEN host_close(p.host)
    ELSE host_write(p.host, Bytes(end, end + event.size)))

(* Mutant: the host's clock runs before the interface's. *)
program_tick_HostFirst(p, elapsed_ms) ==
  IF elapsed_ms = 0 THEN p
  ELSE LET sent == send_host_output_to_interface(p, host_tick(p.host, elapsed_ms)) IN
       [sent EXCEPT !.interface = interface_tick(@, elapsed_ms)]

(* The interface first: what it drops for age cannot be what the host sends now. *)
program_tick(p, elapsed_ms) ==
  IF elapsed_ms = 0 THEN p
  ELSE LET aged == [p EXCEPT !.interface = interface_tick(@, elapsed_ms)] IN
       send_host_output_to_interface(aged, host_tick(p.host, elapsed_ms))

flush_interface_frames(p) == [p EXCEPT !.interface.frames_out = <<>>]
=============================================================================

--------------------------- MODULE MCHostNetwork ---------------------------
(* A client A and a server B; C is another host, 0 another port. *)
EXTENDS HostNetwork, TLC

CONSTANTS A, B, C

MCHosts == {A, B}
MCClients == {A}
MCPort == (A :> 1) @@ (B :> 2)
MCISN == (A :> MODULUS - 2) @@ (B :> 5)
MCStreamLength == (A :> 2) @@ (B :> 0)

(* A segment with every flag and a byte, at the start of the stream of `of'. *)
Alien(src_port, dst_port, of) ==
  from_messages(src_port, dst_port,
    SenderMessage(MCISN[of], TRUE, Bytes(0, 1), TRUE, TRUE),
    ReceiverMessage(MCISN[Peer(of)], 0, FALSE))

Strange == {
  <<B, Datagram(C, B, "TCP", Alien(1, 2, A))>>,          \* another host, same ports
  <<B, Datagram(A, B, "TCP", Alien(0, 2, A))>>,          \* another port of the peer
  <<B, Datagram(A, C, "TCP", Alien(1, 2, A))>>,          \* meant for another host
  <<A, Datagram(B, A, "UDP", Malformed)>>,
  <<A, Datagram(B, A, "TCP", Malformed)>>,
  <<A, Malformed>>}

Pings == {
  <<A, Datagram(B, A, "ICMP", Echo("request", 0, 1))>>,   \* answered to the other host
  <<A, Datagram(C, A, "ICMP", Echo("request", 0, 2))>>,
  <<B, Datagram(C, B, "ICMP", Echo("request", 1, 3))>>,
  <<B, Datagram(C, B, "ICMP", Malformed)>>}

MCStray == Strange \cup Pings
=============================================================================

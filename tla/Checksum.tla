------------------------------ MODULE Checksum ------------------------------
(***************************************************************************)
(* checksum.rs: the Internet checksum, fed in pieces of any length.  A     *)
(* byte is a number below 256; sums stay far below 2^32 for everything     *)
(* that fits a datagram, so the accumulator does not overflow.             *)
(***************************************************************************)
EXTENDS Primitives, SequencesExt

from_be_bytes(high, low) == 256 * high + low
to_be_bytes(word) == <<word \div 256, word % 256>>

new_checksum == [sum |-> 0, odd_byte |-> None]

(* The words that a piece of even length consists of, added up. *)
AddWords(sum, data) ==
  FoldLeftDomain(LAMBDA s, k :
    s + IF k % 2 = 1 THEN from_be_bytes(data[k], 0) ELSE data[k], sum, data)

(* Mutant: an odd byte left by one piece is not completed by the next. *)
add_bytes_DropsOdd(c, data) ==
  [sum |-> AddWords(c.sum, SubSeq(data, 1, Len(data) - (Len(data) % 2))),
   odd_byte |-> IF Len(data) % 2 = 1 THEN Last(data) ELSE None]

(* A byte left over from the piece before completes its word with the first one. *)
add_bytes(c, data) ==
  IF c.odd_byte # None /\ data = <<>> THEN c
  ELSE LET completes == c.odd_byte # None
           rest == IF completes THEN Tail(data) ELSE data
           first == IF completes THEN from_be_bytes(c.odd_byte, Head(data)) ELSE 0
           even == Len(rest) - (Len(rest) % 2)
       IN  [sum |-> AddWords(c.sum + first, SubSeq(rest, 1, even)),
            odd_byte |-> IF even < Len(rest) THEN rest[even + 1] ELSE None]

FoldCarry(sum) == IF sum \div 65536 = 0 THEN sum ELSE (sum % 65536) + (sum \div 65536)

(* A sum below 2^32 has no carry left after two rounds; the result is inverted. *)
checksum(c) ==
  LET padded == IF c.odd_byte = None THEN c.sum ELSE c.sum + from_be_bytes(c.odd_byte, 0)
  IN  65535 - Iterate(FoldCarry, padded, 2)

internet_checksum(data) == checksum(add_bytes(new_checksum, data))

(* Mutant: takes whatever comes. *)
verify_internet_checksum_Lax(data) == TRUE
verify_internet_checksum(data) == internet_checksum(data) = 0

PROTOCOL_ICMP == 1
PROTOCOL_TCP == 6

(* The pseudo-header is fed piece by piece, the two single bytes included. *)
tcp_checksum_ipv4(src_ip, dst_ip, segment) ==
  checksum(FoldLeft(add_bytes, new_checksum,
    <<src_ip, dst_ip, <<0>>, <<PROTOCOL_TCP>>, to_be_bytes(Len(segment)), segment>>))
=============================================================================

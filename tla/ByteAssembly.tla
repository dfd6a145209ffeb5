---------------------------- MODULE ByteAssembly ----------------------------
(***************************************************************************)
(* What a reassembler promises, one byte at a time and without fragments,  *)
(* chunks or loops: it remembers which bytes of the window it has seen,    *)
(* has always assembled the longest prefix of the stream they make, and    *)
(* has ended exactly when that prefix reaches the announced end.           *)
(***************************************************************************)
EXTENDS Primitives, FiniteSetsExt

CONSTANTS Capacity, MaxIndex

VARIABLES
  held,        \* the set of bytes received and kept
  assembled,   \* the number of bytes in the output, read or not
  read,        \* the number of bytes the application has read
  eof,         \* the announced length of the stream, or None
  ended,       \* the output is closed
  failed       \* the output carries the error mark

avars == <<held, assembled, read, eof, ended, failed>>

Init ==
  /\ held = {} /\ assembled = 0 /\ read = 0
  /\ eof = None /\ ended = FALSE /\ failed = FALSE

(* A fragment that disagrees with what is known of the end is refused. *)
Acceptable(lo, hi, is_last) ==
  /\ hi <= U64_MAX
  /\ eof # None => IF is_last THEN hi = eof ELSE hi <= eof
  /\ is_last => \A b \in held : b < hi

(* The first byte that is missing from `bytes'. *)
FirstMissing(bytes) == Min(0 .. MaxIndex \ bytes)

(***************************************************************************)
(* The fragment's bytes below the edge of the window are kept.  After a    *)
(* failure nothing more is assembled, and a fragment that would have to    *)
(* be, because it carries the next byte, is lost.                          *)
(***************************************************************************)
Insert(lo, hi, is_last) ==
  LET edge == min(read + Capacity, U64_MAX)
      fresh == {b \in lo .. hi - 1 : assembled <= b /\ b < edge} IN
  IF ~Acceptable(lo, hi, is_last) THEN UNCHANGED avars
  ELSE /\ eof' = IF is_last THEN hi ELSE eof
       /\ held' = IF failed /\ assembled \in fresh THEN held ELSE held \cup fresh
       /\ assembled' = IF failed THEN assembled ELSE FirstMissing(held')
       /\ ended' = (eof' = assembled')
       /\ UNCHANGED <<read, failed>>

(* A read returns at least one byte if there is one. *)
Read ==
  /\ read < assembled
  /\ read' \in read + 1 .. assembled
  /\ UNCHANGED <<held, assembled, eof, ended, failed>>

Fail == failed' = TRUE /\ UNCHANGED <<held, assembled, read, eof, ended>>

Next ==
  \/ \E lo \in 0 .. MaxIndex, is_last \in BOOLEAN :
       \E hi \in lo .. MaxIndex : Insert(lo, hi, is_last)
  \/ Read
  \/ Fail

Spec == Init /\ [][Next]_avars
=============================================================================

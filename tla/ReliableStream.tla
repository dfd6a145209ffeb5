--------------------------- MODULE ReliableStream ---------------------------
(***************************************************************************)
(* What one direction of a TCP connection promises its two applications:   *)
(* the reader gets the bytes that were written, once, in order and without *)
(* holes, and sees the end of the stream only after the last of them and   *)
(* only if the writer closed.  With a fair transfer it gets all of them.   *)
(***************************************************************************)
EXTENDS Naturals

CONSTANT Length      \* the most the writer ever writes

VARIABLES
  written,     \* the number of bytes written and taken
  closed,      \* the writer has closed
  arrived,     \* the number of bytes that have reached the reader's side
  ended,       \* the reader's side knows that these were the last
  consumed     \* the number of bytes the reader has taken

svars == <<written, closed, arrived, ended, consumed>>

Init ==
  /\ written = 0 /\ arrived = 0 /\ consumed = 0
  /\ closed = FALSE /\ ended = FALSE

Write ==
  /\ ~closed
  /\ written' \in written + 1 .. Length
  /\ UNCHANGED <<closed, arrived, ended, consumed>>

Close ==
  /\ ~closed
  /\ closed' = TRUE
  /\ UNCHANGED <<written, arrived, ended, consumed>>

Transfer ==
  /\ ~ended
  /\ arrived' \in arrived .. written
  /\ ended' \in {FALSE, closed /\ arrived' = written}
  /\ UNCHANGED <<written, closed, consumed>>

Consume ==
  /\ consumed' \in consumed + 1 .. arrived
  /\ UNCHANGED <<written, closed, arrived, ended>>

Next == Write \/ Close \/ Transfer \/ Consume

Spec == Init /\ [][Next]_svars
=============================================================================

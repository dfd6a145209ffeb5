----------------------------- MODULE ByteStream -----------------------------
(***************************************************************************)
(* byte_stream.rs: the bounded queue of chunks between an application and  *)
(* TCP.                                                                    *)
(*                                                                         *)
(* Bytes.  A byte is identified by its position in the stream its          *)
(* application wrote, so a `Bytes' value is the run of positions           *)
(* lo .. hi - 1, and a byte delivered in the wrong place, twice or not at  *)
(* all shows as a wrong position.                                          *)
(***************************************************************************)
EXTENDS Primitives, Sequences

Bytes(lo, hi) == [lo |-> lo, hi |-> hi]
NoBytes == Bytes(0, 0)
len(data) == data.hi - data.lo

(* Bytes::slice(a..b), a and b relative to the start of the value. *)
slice(data, a, b) == Bytes(data.lo + a, data.lo + b)

new_stream(capacity) ==
  [capacity |-> capacity, chunks |-> <<>>, bytes_buffered |-> 0,
   closed |-> FALSE, error |-> FALSE, bytes_pushed |-> 0, bytes_popped |-> 0]

available_capacity(s) == s.capacity - s.bytes_buffered

(* Mutant: push forgets to refuse a stream that carries the error mark. *)
accepted_IgnoresError(s, data) ==
  IF s.closed THEN 0 ELSE min(len(data), available_capacity(s))

(* The number of bytes that push takes; the rest of `data' is refused. *)
accepted(s, data) ==
  IF s.closed \/ s.error THEN 0 ELSE min(len(data), available_capacity(s))

stream_push(s, data) ==
  LET n == accepted(s, data) IN
  IF n = 0 THEN s
  ELSE [s EXCEPT !.chunks = Append(@, slice(data, 0, n)),
                 !.bytes_buffered = @ + n,
                 !.bytes_pushed = @ + n]

stream_close(s) == [s EXCEPT !.closed = TRUE]
stream_set_error(s) == [s EXCEPT !.error = TRUE]
stream_is_finished(s) == s.closed /\ s.bytes_buffered = 0

(* pop never crosses a chunk boundary: it takes from the front chunk only. *)
popped_bytes(s, n) ==
  IF s.chunks = <<>> \/ n = 0 THEN NoBytes
  ELSE slice(Head(s.chunks), 0, min(n, len(Head(s.chunks))))

(* Mutant: the counter moves by what was asked for, not by what was taken. *)
stream_pop_CountsRequest(s, n) ==
  LET k == len(popped_bytes(s, n))
      front == Head(s.chunks) IN
  IF k = 0 THEN s
  ELSE [s EXCEPT !.chunks = IF k = len(front) THEN Tail(@)
                            ELSE <<slice(front, k, len(front))>> \o Tail(@),
                 !.bytes_buffered = @ - n,
                 !.bytes_popped = @ + k]

stream_pop(s, n) ==
  LET k == len(popped_bytes(s, n))
      front == Head(s.chunks) IN
  IF k = 0 THEN s
  ELSE [s EXCEPT !.chunks = IF k = len(front) THEN Tail(@)
                            ELSE <<slice(front, k, len(front))>> \o Tail(@),
                 !.bytes_buffered = @ - k,
                 !.bytes_popped = @ + k]

(***************************************************************************)
(* A stream that carries a contiguous run of bytes: its chunks are not     *)
(* empty and follow one another from bytes_popped to bytes_pushed, so no   *)
(* byte is repeated, skipped or misplaced, and the counters agree.         *)
(***************************************************************************)
Contiguous(s) ==
  /\ s.bytes_popped + s.bytes_buffered = s.bytes_pushed
  /\ s.bytes_buffered <= s.capacity
  /\ s.chunks = <<>> => s.bytes_buffered = 0
  /\ s.chunks # <<>> => /\ s.chunks[1].lo = s.bytes_popped
                       /\ s.chunks[Len(s.chunks)].hi = s.bytes_pushed
  /\ \A i \in 1 .. Len(s.chunks) : /\ s.chunks[i].lo < s.chunks[i].hi
                                   /\ s.chunks[i].hi <= s.bytes_pushed
  /\ \A i \in 1 .. Len(s.chunks) - 1 : s.chunks[i].hi = s.chunks[i + 1].lo

(* The types of a run of bytes and of a stream. *)
ByteRuns == [lo : Nat, hi : Nat]
Streams == [capacity : Nat, chunks : Seq(ByteRuns), bytes_buffered : Nat,
            closed : BOOLEAN, error : BOOLEAN, bytes_pushed : Nat, bytes_popped : Nat]
=============================================================================

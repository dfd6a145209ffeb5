---------------------------- MODULE Reassembler ----------------------------
(***************************************************************************)
(* reassembler.rs: puts fragments that arrive in any order, overlapping or *)
(* repeated, back into one byte stream, within a window of                 *)
(* `capacity' bytes that starts at the first byte not yet popped.          *)
(*                                                                         *)
(* A reassembler is [output, pending, eof_index]; pending (a BTreeMap)     *)
(* maps the index of a fragment to its bytes.                              *)
(***************************************************************************)
EXTENDS ByteStream, FiniteSetsExt

new_reassembler(capacity) ==
  [output |-> new_stream(capacity), pending |-> EmptyMap, eof_index |-> None]

FragmentEnd(pending, k) == saturating_add(k, len(pending[k]), U64_MAX)

(* Mutant: the window starts at the output instead of at the unread bytes. *)
first_unacceptable_FromPushed(r) ==
  saturating_add(r.output.bytes_pushed, r.output.capacity, U64_MAX)

first_unacceptable(r) ==
  saturating_add(r.output.bytes_popped, r.output.capacity, U64_MAX)

insert_gap(pending, start, data, gap_start, gap_end) ==
  IF gap_start >= gap_end THEN pending
  ELSE map_insert(pending, gap_start, slice(data, gap_start - start, gap_end - start))

(***************************************************************************)
(* insert_missing_gaps: the bytes of `data' (which starts at index         *)
(* `start') that no pending fragment covers yet are added as new           *)
(* fragments.  The cursor first skips the fragment that covers `start';    *)
(* every iteration then fills the hole before the next fragment and jumps  *)
(* past that fragment.                                                     *)
(***************************************************************************)
(* Mutant: the fragment before `start' is not looked at. *)
FirstGap_IgnoresPrevious(pending, start, end) == start

FirstGap(pending, start, end) ==
  LET before == {k \in DOMAIN pending : k <= start} IN
  IF before = {} THEN start
  ELSE LET previous_end == FragmentEnd(pending, Max(before)) IN
       IF previous_end > start THEN min(previous_end, end) ELSE start

FillNextGap(g, start, data, end) ==
  LET next == {k \in DOMAIN g.pending : g.cursor <= k /\ k < end} IN
  IF g.cursor >= end THEN g
  ELSE IF next = {}
  THEN [pending |-> insert_gap(g.pending, start, data, g.cursor, end),
        cursor |-> end]
  ELSE LET next_start == Min(next) IN
       [pending |-> insert_gap(g.pending, start, data, g.cursor, next_start),
        cursor |-> min(max(g.cursor, FragmentEnd(g.pending, next_start)), end)]

(* Mutant: only the first hole is filled. *)
insert_missing_gaps_FirstOnly(pending, start, data) ==
  LET end == start + len(data) IN
  FillNextGap([pending |-> pending, cursor |-> FirstGap(pending, start, end)],
              start, data, end).pending

insert_missing_gaps(pending, start, data) ==
  LET end == start + len(data)
      Step(g) == FillNextGap(g, start, data, end)
  IN  Iterate(Step, [pending |-> pending, cursor |-> FirstGap(pending, start, end)],
              len(data)).pending

(***************************************************************************)
(* flush_contiguous: moves fragments into the output while the first one   *)
(* starts at, or before, the next byte the output needs.                   *)
(***************************************************************************)
trim_stale_prefix(pending, start, next_required) ==
  LET data == pending[start]
      rest == map_remove(pending, start) IN
  IF FragmentEnd(pending, start) <= next_required THEN rest
  ELSE map_insert(rest, next_required, slice(data, next_required - start, len(data)))

(* Mutant: the first fragment is pushed although bytes before it are missing. *)
FlushFirst_SkipsHole(r) ==
  LET start == Min(DOMAIN r.pending) IN
  IF DOMAIN r.pending = {} THEN r
  ELSE [r EXCEPT !.output = stream_push(@, r.pending[start]),
                 !.pending = map_remove(@, start)]

FlushFirst(r) ==
  LET start == Min(DOMAIN r.pending)
      next_required == r.output.bytes_pushed
      data == r.pending[start]
      n == accepted(r.output, data)
      rest == map_remove(r.pending, start) IN
  IF DOMAIN r.pending = {} THEN r
  ELSE IF start < next_required
  THEN [r EXCEPT !.pending = trim_stale_prefix(@, start, next_required)]
  ELSE IF start # next_required THEN r
  ELSE [r EXCEPT !.output = stream_push(@, data),
                 !.pending = IF n = len(data) THEN rest
                             ELSE map_insert(rest, start + n, slice(data, n, len(data)))]

(* A fragment takes at most one trim and one push. *)
flush_contiguous(r) == Iterate(FlushFirst, r, 2 * Cardinality(DOMAIN r.pending))

(* Mutant: an end mark that was seen before is refused. *)
eof_verdict_RefusesRepeat(r, received_eof, is_last) ==
  IF is_last /\ r.eof_index # None THEN "InconsistentEof" ELSE "Ok"

(* Mutant: the last end mark wins. *)
eof_verdict_LastWins(r, received_eof, is_last) ==
  IF is_last /\ r.output.bytes_pushed > received_eof THEN "BufferedDataBeyondEof" ELSE "Ok"

(***************************************************************************)
(* The end of the stream is recorded once; a second, different end, or     *)
(* data already held beyond it, is an error.                               *)
(***************************************************************************)
eof_verdict(r, received_eof, is_last) ==
  IF ~is_last \/ r.eof_index = received_eof THEN "Ok"
  ELSE IF r.eof_index # None THEN "InconsistentEof"
  ELSE IF r.output.bytes_pushed > received_eof THEN "BufferedDataBeyondEof"
  ELSE IF \E k \in DOMAIN r.pending : FragmentEnd(r.pending, k) > received_eof
  THEN "BufferedDataBeyondEof"
  ELSE "Ok"

(* Mutant: the output is closed as soon as the end is known. *)
close_if_complete_Early(r) ==
  IF r.eof_index # None THEN [r EXCEPT !.output = stream_close(@)] ELSE r

close_if_complete(r) ==
  IF r.eof_index # None /\ r.output.bytes_pushed = r.eof_index
  THEN [r EXCEPT !.output = stream_close(@)] ELSE r

(* The result (Ok, or the error) of try_insert. *)
insert_result(r, first_index, data, is_last) ==
  LET original_end == first_index + len(data)
      verdict == eof_verdict(r, original_end, is_last)
      eof == IF is_last THEN original_end ELSE r.eof_index IN
  IF original_end > U64_MAX THEN "IndexOverflow"
  ELSE IF verdict # "Ok" THEN verdict
  ELSE IF eof # None /\ original_end > eof THEN "SegmentBeyondEof"
  ELSE "Ok"

(* The part of try_insert after the checks: clip to the window, store, flush. *)
store_clipped(r, first_index, data) ==
  LET start == max(first_index, r.output.bytes_pushed)
      end == min(first_index + len(data), first_unacceptable(r))
      clipped == slice(data, start - first_index, end - first_index) IN
  IF start >= end THEN r
  ELSE flush_contiguous(
         IF start = r.output.bytes_pushed
         THEN [r EXCEPT !.output = stream_push(@, clipped)]
         ELSE [r EXCEPT !.pending = insert_missing_gaps(@, start, clipped)])

(* Mutant: completeness is tested before the fragment is stored. *)
try_insert_ClosesFirst(r, first_index, data, is_last) ==
  IF insert_result(r, first_index, data, is_last) # "Ok" THEN r
  ELSE store_clipped(
         close_if_complete(
           [r EXCEPT !.eof_index = IF is_last THEN first_index + len(data) ELSE @]),
         first_index, data)

(* An erroneous fragment leaves the reassembler as it was. *)
try_insert(r, first_index, data, is_last) ==
  IF insert_result(r, first_index, data, is_last) # "Ok" THEN r
  ELSE close_if_complete(
         store_clipped(
           [r EXCEPT !.eof_index = IF is_last THEN first_index + len(data) ELSE @],
           first_index, data))
=============================================================================

-------------------------- MODULE ReassemblerSpec --------------------------
(***************************************************************************)
(* One Reassembler, driven by every sequence of calls its owner can make:  *)
(* fragments of the peer's stream in any order, overlapping, repeated and  *)
(* with any end-of-stream mark; reads by the application; and the error    *)
(* mark that TcpReceiver::receive and TcpConnection::receive_segment put   *)
(* on the output.                                                          *)
(***************************************************************************)
EXTENDS Reassembler

CONSTANTS
  Capacity,     \* receiver_capacity
  MaxIndex      \* the peer's stream has bytes 0 .. MaxIndex - 1

ASSUME CapacityAssumption == Capacity \in Nat
ASSUME MaxIndexAssumption == MaxIndex \in Nat

VARIABLES
  reassembler,
  result        \* what the last try_insert returned

vars == <<reassembler, result>>

output == reassembler.output
pending == reassembler.pending
eof_index == reassembler.eof_index

Init ==
  /\ reassembler = new_reassembler(Capacity)
  /\ result = "Ok"

Insert(first_index, n, is_last) ==
  LET data == Bytes(first_index, first_index + n) IN
  /\ reassembler' = try_insert(reassembler, first_index, data, is_last)
  /\ result' = insert_result(reassembler, first_index, data, is_last)

Read(n) ==
  /\ reassembler' = [reassembler EXCEPT !.output = stream_pop(@, n)]
  /\ UNCHANGED result

Fail ==
  /\ reassembler' = [reassembler EXCEPT !.output = stream_set_error(@)]
  /\ UNCHANGED result

Next ==
  \/ \E first_index \in 0 .. MaxIndex, is_last \in BOOLEAN :
       \E n \in 0 .. MaxIndex - first_index : Insert(first_index, n, is_last)
  \/ \E n \in 1 .. Capacity : Read(n)
  \/ Fail

Spec == Init /\ [][Next]_vars
-----------------------------------------------------------------------------
Results == {"Ok", "IndexOverflow", "InconsistentEof", "SegmentBeyondEof",
            "BufferedDataBeyondEof"}

(* The reassembler and the result of try_insert keep their Rust types. *)
TypeOK ==
  /\ output \in Streams
  /\ DOMAIN pending \subseteq Nat
  /\ \A k \in DOMAIN pending : pending[k] \in ByteRuns
  /\ eof_index \in Nat \cup {None}
  /\ DOMAIN reassembler = {"output", "pending", "eof_index"}
  /\ result \in Results

(***************************************************************************)
(* The output buffer holds exactly the bytes bytes_popped .. bytes_pushed  *)
(* - 1 of the peer's stream, in order, in non-empty chunks: ByteStream's   *)
(* counters agree with its chunks and no byte is repeated, skipped or      *)
(* misplaced by the clipping and slicing in try_insert.                    *)
(***************************************************************************)
OutputInOrder == Contiguous(output)

(***************************************************************************)
(* Pending fragments are non-empty, hold the bytes of the index they are   *)
(* filed under, lie between the output and the edge of the window, never   *)
(* overlap, and never reach beyond the end of the stream                   *)
(* (debug_check_invariants).                                               *)
(***************************************************************************)
PendingSorted ==
  /\ \A k \in DOMAIN pending :
       /\ pending[k].lo = k
       /\ k < pending[k].hi
       /\ output.bytes_pushed <= k
       /\ pending[k].hi <= first_unacceptable(reassembler)
       /\ eof_index # None => pending[k].hi <= eof_index
  /\ \A j, k \in DOMAIN pending : j < k => pending[j].hi <= k

(* The output and the pending fragments together fit the receive buffer. *)
JointlyWithinCapacity ==
  output.bytes_buffered + MapThenSumSet(LAMBDA k : len(pending[k]), DOMAIN pending)
    <= Capacity

(***************************************************************************)
(* Nothing is withheld: as long as the stream has not failed, no fragment  *)
(* that could be assembled is left in pending, and the output is closed    *)
(* exactly when it has reached the recorded end.                           *)
(***************************************************************************)
NothingWithheld ==
  /\ ~output.error => output.bytes_pushed \notin DOMAIN pending
  /\ output.closed <=> eof_index = output.bytes_pushed

(* A closed output is final: no later call changes what was assembled. *)
ClosedIsFinal ==
  [][output.closed => /\ output'.closed
                      /\ output'.bytes_pushed = output.bytes_pushed
                      /\ eof_index' = eof_index]_vars

(***************************************************************************)
(* The fragments, gaps and loops of reassembler.rs compute what the        *)
(* byte-at-a-time specification says.                                      *)
(***************************************************************************)
Assembly == INSTANCE ByteAssembly WITH
  held <- 0 .. output.bytes_pushed - 1
          \cup UNION {k .. k + len(pending[k]) - 1 : k \in DOMAIN pending},
  assembled <- output.bytes_pushed,
  read <- output.bytes_popped,
  eof <- eof_index,
  ended <- output.closed,
  failed <- output.error

ImplementsByteAssembly == Assembly!Spec
=============================================================================

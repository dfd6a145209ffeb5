------------------------- MODULE ReassemblerProofs -------------------------
(***************************************************************************)
(* The safety of the Reassembler, for every capacity, every stream and     *)
(* every sequence of calls.                                                *)
(***************************************************************************)
EXTENDS ReassemblerSpec, EndpointLemmas

(***************************************************************************)
(* The inductive invariant: between two calls the reassembler is whole, it *)
(* holds no byte the peer does not have, and its output keeps the capacity *)
(* it was made with.                                                       *)
(***************************************************************************)
IInv ==
  /\ Whole(reassembler)
  /\ \A b \in Nat : Holds(reassembler, b) => b < MaxIndex
  /\ output.capacity = Capacity
  /\ result \in Results

(* The empty reassembler is whole. *)
LEMMA InitIInv == Init => IInv
<1> SUFFICES ASSUME Init PROVE IInv OBVIOUS
<1>1. Capacity \in Nat BY CapacityAssumption DEF CapacityAssumption
<1>2. reassembler = new_reassembler(Capacity) /\ result = "Ok" BY DEF Init
<1>3. /\ Whole(reassembler) /\ reassembler.output = new_stream(Capacity)
      /\ \A b \in Nat : ~Holds(reassembler, b)
  BY <1>1, <1>2, NewReassembler
<1>4. reassembler.output.capacity = Capacity BY <1>3 DEF new_stream
<1> QED BY <1>2, <1>3, <1>4 DEF IInv, output, Results

(* Insert keeps the invariant and never moves a recorded end. *)
LEMMA InsertStep ==
  ASSUME IInv, NEW first_index \in Nat, NEW n \in Nat, first_index + n <= MaxIndex,
         NEW is_last \in BOOLEAN, Insert(first_index, n, is_last)
  PROVE  /\ IInv'
         /\ output'.bytes_pushed >= output.bytes_pushed
         /\ eof_index # None => eof_index' = eof_index
<1> DEFINE t == try_insert(reassembler, first_index, Bytes(first_index, first_index + n), is_last)
<1>1. reassembler' = t BY DEF Insert
<1>2. /\ Whole(t) /\ t.output.capacity = reassembler.output.capacity
      /\ t.output.bytes_pushed >= reassembler.output.bytes_pushed
      /\ reassembler.eof_index # None => t.eof_index = reassembler.eof_index
      /\ Stores(t, reassembler, first_index, first_index + n) \/ t = reassembler
  BY TryInsert, ZenonT(30) DEF IInv
<1>3. result' \in Results
  BY DEF Insert, insert_result, eof_verdict, Results
<1> HIDE DEF t
<1>4. ASSUME NEW b \in Nat, Holds(t, b) PROVE b < MaxIndex
  <2>1. \/ Holds(reassembler, b)
        \/ b < first_index + n
    BY <1>2, <1>4 DEF Stores, Fresh
  <2> QED BY <2>1, MaxIndexAssumption DEF MaxIndexAssumption, IInv
<1> QED BY <1>1, <1>2, <1>3, <1>4 DEF IInv, output, eof_index

(* Read keeps the invariant and the bytes already assembled. *)
LEMMA ReadStep ==
  ASSUME IInv, NEW n \in Nat, Read(n)
  PROVE  /\ IInv'
         /\ output'.bytes_pushed = output.bytes_pushed /\ output'.closed = output.closed
         /\ eof_index' = eof_index
<1> DEFINE t == [reassembler EXCEPT !.output = stream_pop(reassembler.output, n)]
<1>1. reassembler' = t /\ result' = result BY DEF Read
<1>2. /\ Whole(t) /\ SameBytes(t, reassembler) /\ t.eof_index = reassembler.eof_index
      /\ t.output.capacity = reassembler.output.capacity
      /\ t.output.bytes_pushed = reassembler.output.bytes_pushed
      /\ t.output.closed = reassembler.output.closed
  BY PopKeepsWhole DEF IInv
<1> HIDE DEF t
<1> QED BY <1>1, <1>2 DEF IInv, output, eof_index, SameBytes

(* Fail keeps the invariant and the bytes already assembled. *)
LEMMA FailStep ==
  ASSUME IInv, Fail
  PROVE  /\ IInv'
         /\ output'.bytes_pushed = output.bytes_pushed /\ output'.closed = output.closed
         /\ eof_index' = eof_index
<1> DEFINE t == [reassembler EXCEPT !.output = stream_set_error(reassembler.output)]
<1>1. reassembler' = t /\ result' = result BY DEF Fail
<1>2. /\ Whole(t) /\ SameBytes(t, reassembler) /\ t.eof_index = reassembler.eof_index
      /\ t.output.capacity = reassembler.output.capacity
      /\ t.output.bytes_pushed = reassembler.output.bytes_pushed
      /\ t.output.closed = reassembler.output.closed
  BY FailKeepsWhole DEF IInv
<1> HIDE DEF t
<1> QED BY <1>1, <1>2 DEF IInv, output, eof_index, SameBytes

(* Every step keeps the invariant, never retracts a byte and never moves a recorded end. *)
LEMMA NextStep ==
  ASSUME IInv, [Next]_vars
  PROVE  /\ IInv'
         /\ output'.bytes_pushed >= output.bytes_pushed
         /\ eof_index # None => eof_index' = eof_index
<1>0. output.bytes_pushed \in Nat BY SoundNumbers DEF IInv, Whole, output
<1>1. ASSUME NEW first_index \in 0 .. MaxIndex, NEW is_last \in BOOLEAN,
             NEW n \in 0 .. MaxIndex - first_index, Insert(first_index, n, is_last)
      PROVE  /\ IInv'
             /\ output'.bytes_pushed >= output.bytes_pushed
             /\ eof_index # None => eof_index' = eof_index
  <2>1. first_index \in Nat /\ n \in Nat /\ first_index + n <= MaxIndex
    BY MaxIndexAssumption DEF MaxIndexAssumption
  <2> QED BY <2>1, <1>1, InsertStep
<1>2. ASSUME NEW n \in 1 .. Capacity, Read(n)
      PROVE  IInv' /\ output'.bytes_pushed = output.bytes_pushed /\ eof_index' = eof_index
  <2>1. n \in Nat BY CapacityAssumption DEF CapacityAssumption
  <2> QED BY <2>1, <1>2, ReadStep
<1>3. CASE Fail BY <1>0, <1>3, FailStep
<1>4. CASE UNCHANGED vars
  <2>1. reassembler' = reassembler /\ result' = result BY <1>4 DEF vars
  <2> QED BY <2>1, <1>0 DEF IInv, output, eof_index
<1> QED BY <1>0, <1>1, <1>2, <1>3, <1>4 DEF Next

(* IInv holds in every reachable state. *)
LEMMA Invariance == Spec => []IInv
<1>1. Init => IInv BY InitIInv
<1>2. IInv /\ [Next]_vars => IInv' BY NextStep
<1> QED BY <1>1, <1>2, PTL DEF Spec
-----------------------------------------------------------------------------
(* The reassembler keeps its types in every reachable state. *)
THEOREM TypeCorrect == Spec => []TypeOK
<1>1. IInv => TypeOK
  <2> SUFFICES ASSUME IInv PROVE TypeOK OBVIOUS
  <2>1. Sound(reassembler) /\ result \in Results BY DEF IInv, Whole
  <2>2. /\ output \in Streams
        /\ eof_index \in Nat \cup {None}
        /\ reassembler = [output |-> output, pending |-> pending, eof_index |-> eof_index]
    BY <2>1 DEF Sound, StreamOK, output, eof_index, pending
  <2>3. DOMAIN pending \subseteq Nat /\ \A k \in DOMAIN pending : pending[k] \in ByteRuns
    BY <2>1 DEF Sound, Frags, pending
  <2>4. DOMAIN reassembler = {"output", "pending", "eof_index"} BY <2>2
  <2> QED BY <2>1, <2>2, <2>3, <2>4 DEF TypeOK, Streams
<1> QED BY <1>1, Invariance, PTL

(***************************************************************************)
(* The application reads the peer's bytes in order: try_insert and pop     *)
(* never repeat, skip or misplace a byte, whatever arrives in whatever     *)
(* order.                                                                  *)
(***************************************************************************)
THEOREM DeliveredInOrder == Spec => []OutputInOrder
<1>1. IInv => OutputInOrder
  BY DEF IInv, Whole, Sound, StreamOK, OutputInOrder, output
<1> QED BY <1>1, Invariance, PTL

(***************************************************************************)
(* The pending fragments are sorted, disjoint, aligned with their index,   *)
(* ahead of the output, inside the window and before the end of the        *)
(* stream: what debug_check_invariants asserts in debug builds.            *)
(***************************************************************************)
THEOREM FragmentsSorted == Spec => []PendingSorted
<1>1. IInv => PendingSorted
  <2> SUFFICES ASSUME IInv PROVE PendingSorted OBVIOUS
  <2>1. Sound(reassembler) /\ Flushed(reassembler) BY DEF IInv, Whole
  <2>2. Frags(pending, first_unacceptable(reassembler), eof_index)
    BY <2>1 DEF Sound, pending, eof_index
  <2>3. \A k \in DOMAIN pending : k >= output.bytes_pushed
    BY <2>1 DEF Flushed, pending, output
  <2>4. output.bytes_pushed \in Nat BY <2>1, SoundNumbers DEF output
  <2>5. \A k \in DOMAIN pending : output.bytes_pushed <= k
    BY <2>2, <2>3, <2>4 DEF Frags
  <2> QED BY <2>2, <2>5 DEF PendingSorted, Frags
<1> QED BY <1>1, Invariance, PTL

(***************************************************************************)
(* Disjoint runs of bytes between lo and hi: their lengths add up to the   *)
(* number of bytes they cover, hence to hi - lo at most.                   *)
(***************************************************************************)
LEMMA RunsAddUp ==
  ASSUME NEW p, NEW lo \in Nat, NEW hi \in Nat, lo <= hi, DOMAIN p \in SUBSET Nat,
         \A k \in DOMAIN p : /\ p[k] \in ByteRuns /\ p[k].lo = k /\ k < p[k].hi
                             /\ lo <= k /\ p[k].hi <= hi,
         \A j, k \in DOMAIN p : j < k => p[j].hi <= k
  PROVE  /\ MapThenSumSet(LAMBDA k : len(p[k]), DOMAIN p) \in Nat
         /\ MapThenSumSet(LAMBDA k : len(p[k]), DOMAIN p) <= hi - lo
<1> DEFINE D == DOMAIN p
           Run(k) == k .. p[k].hi - 1
           Covered(s) == {b \in lo .. hi - 1 : \E k \in s : b \in Run(k)}
           f == [s \in SUBSET D |-> Cardinality(Covered(s))]
           Def(g) == g = [s \in SUBSET D |->
                            IF s = {} THEN 0
                            ELSE len(p[CHOOSE x \in s : TRUE]) + g[s \ {CHOOSE x \in s : TRUE}]]
           sum == CHOOSE g : Def(g)
<1>1. /\ D \in SUBSET Nat /\ D \subseteq lo .. hi - 1
      /\ \A k \in D : p[k].hi \in Nat /\ len(p[k]) = p[k].hi - k /\ k < p[k].hi
                      /\ lo <= k /\ p[k].hi <= hi
  BY DEF ByteRuns, len
<1>2. IsFiniteSet(lo .. hi - 1) /\ Cardinality(lo .. hi - 1) <= hi - lo BY FS_Interval
<1>3. IsFiniteSet(D) BY <1>1, <1>2, FS_Subset
<1>4. ASSUME NEW s PROVE /\ IsFiniteSet(Covered(s)) /\ Cardinality(Covered(s)) \in Nat
                         /\ Cardinality(Covered(s)) <= hi - lo
  <2>1. Covered(s) \in SUBSET (lo .. hi - 1) OBVIOUS
  <2> HIDE DEF Covered
  <2>2. IsFiniteSet(Covered(s)) /\ Cardinality(Covered(s)) <= Cardinality(lo .. hi - 1)
    BY <2>1, <1>2, FS_Subset
  <2>3. Cardinality(Covered(s)) \in Nat /\ Cardinality(lo .. hi - 1) \in Nat
    BY <2>2, <1>2, FS_CardinalityType
  <2> QED BY <2>2, <2>3, <1>2
<1>5. ASSUME NEW s \in SUBSET D, NEW x \in s
      PROVE  Cardinality(Covered(s)) = len(p[x]) + Cardinality(Covered(s \ {x}))
  <2> DEFINE r == s \ {x}
  <2>1. x \in D /\ r \in SUBSET D OBVIOUS
  <2>2. Covered(s) = Run(x) \cup Covered(r)
    <3>1. Run(x) \subseteq lo .. hi - 1 BY <2>1, <1>1
    <3> HIDE DEF Run
    <3> QED BY <3>1
  <2>3. Run(x) \cap Covered(r) = {}
    <3>1. SUFFICES ASSUME NEW b \in Run(x), NEW k \in r, b \in Run(k) PROVE FALSE OBVIOUS
    <3>2. k \in D /\ k # x BY <2>1
    <3>3. k \in Nat /\ x \in Nat /\ p[k].hi \in Nat /\ p[x].hi \in Nat BY <3>2, <2>1, <1>1
    <3>4. k < x \/ x < k BY <3>2, <3>3
    <3>5. k < x => p[k].hi <= x BY <3>2, <2>1
    <3>6. x < k => p[x].hi <= k BY <3>2, <2>1
    <3> QED BY <3>1, <3>3, <3>4, <3>5, <3>6
  <2>4. IsFiniteSet(Run(x)) /\ Cardinality(Run(x)) = len(p[x])
    <3>1. x \in Int /\ p[x].hi - 1 \in Int /\ p[x].hi \in Nat /\ x \in Nat BY <2>1, <1>1
    <3>2. IsFiniteSet(Run(x)) /\ Cardinality(Run(x)) = IF x > p[x].hi - 1 THEN 0 ELSE p[x].hi - 1 - x + 1
      BY <3>1, FS_Interval
    <3> QED BY <3>1, <3>2, <2>1, <1>1
  <2>5. len(p[x]) \in Nat BY <2>1, <1>1
  <2>6. IsFiniteSet(Covered(r)) /\ Cardinality(Covered(r)) \in Nat BY <1>4
  <2> HIDE DEF Run, Covered, r
  <2>7. Cardinality(Run(x) \cup Covered(r)) = Cardinality(Run(x)) + Cardinality(Covered(r)) - Cardinality({})
    BY <2>3, <2>4, <2>6, FS_Union
  <2>8. Cardinality({}) = 0 BY FS_EmptySet
  <2> QED BY <2>2, <2>4, <2>5, <2>6, <2>7, <2>8 DEF r
<1>6. Cardinality(Covered({})) = 0
  <2>1. Covered({}) = {} OBVIOUS
  <2> HIDE DEF Covered
  <2> QED BY <2>1, FS_EmptySet
<1> HIDE DEF Covered
<1>7. Def(f)
  <2>1. ASSUME NEW s \in SUBSET D
        PROVE  f[s] = IF s = {} THEN 0
                      ELSE len(p[CHOOSE x \in s : TRUE]) + f[s \ {CHOOSE x \in s : TRUE}]
    <3>1. CASE s = {} BY <3>1, <1>6
    <3>2. CASE s # {}
      <4> DEFINE x == CHOOSE x \in s : TRUE
      <4>1. x \in s BY <3>2
      <4> HIDE DEF x
      <4>2. f[s] = len(p[x]) + f[s \ {x}] BY <4>1, <1>5
      <4> HIDE DEF f
      <4> QED BY <3>2, <4>2 DEF x
    <3> QED BY <3>1, <3>2
  <2>2. f = [s \in SUBSET D |-> f[s]] OBVIOUS
  <2> HIDE DEF f
  <2> QED BY <2>1, <2>2
<1> HIDE DEF f
<1>8. Def(sum)
  <2> HIDE DEF Def
  <2> QED BY <1>7
<1>9. sum[D] = f[D]
  <2> DEFINE S == {n \in Nat : \A s \in SUBSET D : Cardinality(s) = n => sum[s] = f[s]}
  <2> HIDE DEF sum
  <2>1. 0 \in S
    <3>1. ASSUME NEW s \in SUBSET D, Cardinality(s) = 0 PROVE sum[s] = f[s]
      <4>1. IsFiniteSet(s) BY <1>3, FS_Subset
      <4>2. s = {} BY <3>1, <4>1, FS_EmptySet
      <4> QED BY <4>2, <1>7, <1>8
    <3> QED BY <3>1
  <2>2. ASSUME NEW n \in S PROVE n + 1 \in S
    <3>1. ASSUME NEW s \in SUBSET D, Cardinality(s) = n + 1 PROVE sum[s] = f[s]
      <4> DEFINE x == CHOOSE x \in s : TRUE
                 r == s \ {x}
      <4>1. IsFiniteSet(s) BY <1>3, FS_Subset
      <4>2. s # {}
        <5>1. Cardinality(s) # 0 BY <3>1
        <5> QED BY <5>1, FS_EmptySet
      <4>3. x \in s BY <4>2
      <4> HIDE DEF x
      <4>4. Cardinality(r) = n
        <5>1. Cardinality(r) = Cardinality(s) - 1 BY <4>1, <4>3, FS_RemoveElement
        <5>2. n \in Nat OBVIOUS
        <5> HIDE DEF r
        <5> QED BY <5>1, <5>2, <3>1
      <4>5. sum[r] = f[r] BY <4>4
      <4>6. sum[s] = len(p[x]) + sum[r] BY <4>2, <1>8 DEF x
      <4>7. f[s] = len(p[x]) + f[r] BY <4>2, <1>7 DEF x
      <4> QED BY <4>5, <4>6, <4>7
    <3> QED BY <3>1
  <2>3. S = Nat
    <3>1. S \in SUBSET Nat OBVIOUS
    <3> HIDE DEF S
    <3> QED BY <2>1, <2>2, <3>1, NatSetInduction
  <2>4. Cardinality(D) \in S BY <2>3, <1>3, FS_CardinalityType
  <2> QED BY <2>4
<1>10. f[D] \in Nat /\ f[D] <= hi - lo BY <1>4 DEF f
<1>11. MapThenSumSet(LAMBDA k : len(p[k]), D) = sum[D]
  BY DEF MapThenSumSet, MapThenFoldSet
<1> QED BY <1>9, <1>10, <1>11

(***************************************************************************)
(* The memory of a receiver is bounded by its capacity: however fragments  *)
(* overlap and repeat, the unread bytes and the fragments that wait never  *)
(* exceed it together.                                                     *)
(***************************************************************************)
THEOREM BufferIsBounded == Spec => []JointlyWithinCapacity
<1>1. IInv => JointlyWithinCapacity
  <2> SUFFICES ASSUME IInv PROVE JointlyWithinCapacity OBVIOUS
  <2> DEFINE o == output
             p == pending
             edge == o.bytes_popped + Capacity
             held == MapThenSumSet(LAMBDA k : len(pending[k]), DOMAIN pending)
  <2>1. Sound(reassembler) /\ Flushed(reassembler) BY DEF IInv, Whole
  <2>2. /\ o.bytes_pushed \in Nat /\ o.bytes_popped \in Nat /\ o.bytes_buffered \in Nat
        /\ o.bytes_popped + o.bytes_buffered = o.bytes_pushed
        /\ o.bytes_buffered <= Capacity /\ Capacity \in Nat
        /\ first_unacceptable(reassembler) \in Nat /\ first_unacceptable(reassembler) <= edge
    BY <2>1, SoundNumbers DEF IInv, output
  <2>3. Frags(p, first_unacceptable(reassembler), eof_index)
    BY <2>1 DEF Sound, pending, eof_index
  <2>4. \A k \in DOMAIN p : k >= o.bytes_pushed BY <2>1 DEF Flushed, pending, output
  <2>5. edge \in Nat /\ o.bytes_pushed <= edge BY <2>2
  <2> HIDE DEF o, p, edge
  <2>6. DOMAIN p \in SUBSET Nat BY <2>3 DEF Frags
  <2>7. ASSUME NEW k \in DOMAIN p
        PROVE  /\ p[k] \in ByteRuns /\ p[k].lo = k /\ k < p[k].hi
               /\ o.bytes_pushed <= k /\ p[k].hi <= edge
    <3>1. /\ p[k] \in ByteRuns /\ p[k].lo = k /\ k < p[k].hi
          /\ p[k].hi <= first_unacceptable(reassembler)
      BY <2>3 DEF Frags
    <3>2. k \in Nat /\ p[k].hi \in Nat BY <3>1, <2>6 DEF ByteRuns
    <3> QED BY <3>1, <3>2, <2>2, <2>4, <2>5
  <2>8. \A j, k \in DOMAIN p : j < k => p[j].hi <= k BY <2>3 DEF Frags
  <2>9. held \in Nat /\ held <= edge - o.bytes_pushed
    <3>1. /\ MapThenSumSet(LAMBDA k : len(p[k]), DOMAIN p) \in Nat
          /\ MapThenSumSet(LAMBDA k : len(p[k]), DOMAIN p) <= edge - o.bytes_pushed
      BY <2>2, <2>5, <2>6, <2>7, <2>8, RunsAddUp
    <3> QED BY <3>1 DEF p
  <2> HIDE DEF held
  <2>10. o.bytes_buffered + held <= Capacity BY <2>2, <2>9 DEF edge
  <2> QED BY <2>10 DEF JointlyWithinCapacity, held, o
<1> QED BY <1>1, Invariance, PTL

(***************************************************************************)
(* Nothing is withheld: flush_contiguous leaves no fragment the output     *)
(* could take, and the output is closed exactly when it is complete.       *)
(***************************************************************************)
THEOREM FlushedCompletely == Spec => []NothingWithheld
<1>1. IInv => NothingWithheld
  BY DEF IInv, Whole, Flushed, NothingWithheld, output, pending, eof_index
<1> QED BY <1>1, Invariance, PTL

(***************************************************************************)
(* Once try_insert has closed the output, no later fragment, read or       *)
(* failure reopens it, adds a byte to it or moves its end.                 *)
(***************************************************************************)
THEOREM ClosedStaysClosed == Spec => ClosedIsFinal
<1> DEFINE Final == output.closed => /\ output'.closed
                                     /\ output'.bytes_pushed = output.bytes_pushed
                                     /\ eof_index' = eof_index
<1>1. IInv /\ [Next]_vars => [Final]_vars
  <2> SUFFICES ASSUME IInv, [Next]_vars, output.closed
               PROVE  /\ output'.closed
                      /\ output'.bytes_pushed = output.bytes_pushed
                      /\ eof_index' = eof_index
    OBVIOUS
  <2>1. /\ IInv' /\ output'.bytes_pushed >= output.bytes_pushed
        /\ eof_index # None => eof_index' = eof_index
    BY NextStep
  <2>2. output.bytes_pushed \in Nat /\ eof_index = output.bytes_pushed
    BY SoundNumbers DEF IInv, Whole, output, eof_index
  <2>3. eof_index' = eof_index /\ eof_index # None BY <2>1, <2>2 DEF None
  <2> DEFINE t == reassembler'
  <2>4. Whole(t) BY <2>1 DEF IInv
  <2>5. output' = t.output /\ eof_index' = t.eof_index BY DEF output, eof_index
  <2> HIDE DEF t
  <2>6. t.output.bytes_pushed \in Nat /\ t.output.bytes_pushed <= t.eof_index
    BY <2>3, <2>4, <2>5, SoundNumbers DEF Whole, Sound
  <2>7. t.output.bytes_pushed = output.bytes_pushed BY <2>1, <2>2, <2>3, <2>5, <2>6
  <2>8. t.output.closed BY <2>2, <2>3, <2>4, <2>5, <2>7 DEF Whole
  <2> QED BY <2>3, <2>5, <2>7, <2>8
<1> QED BY <1>1, Invariance, PTL DEF Spec, ClosedIsFinal
-----------------------------------------------------------------------------
(* The bytes the refinement mapping takes for held. *)
Received(r) ==
  0 .. r.output.bytes_pushed - 1
    \cup UNION {k .. k + len(r.pending[k]) - 1 : k \in DOMAIN r.pending}

(* They are the bytes that the output and the fragments hold. *)
LEMMA ReceivedBytes ==
  ASSUME NEW r, Sound(r), NEW b
  PROVE  b \in Received(r) <=> b \in Nat /\ Holds(r, b)
<1> DEFINE p == r.pending
<1>1. r.output.bytes_pushed \in Nat BY SoundNumbers
<1>2. \A k \in DOMAIN p : k \in Nat /\ p[k].hi \in Nat /\ len(p[k]) = p[k].hi - k
  <2>1. /\ Frags(p, first_unacceptable(r), r.eof_index)
        /\ first_unacceptable(r) \in Nat /\ first_unacceptable(r) <= U64_MAX
    BY SoundNumbers DEF Sound
  <2> QED BY <2>1, FragmentEnds
<1>3. ASSUME NEW k \in DOMAIN p
      PROVE  b \in k .. k + len(p[k]) - 1 <=> b \in Nat /\ k <= b /\ b < p[k].hi
  <2>1. k \in Nat /\ p[k].hi \in Nat /\ len(p[k]) = p[k].hi - k BY <1>2
  <2> QED BY <2>1
<1>4. b \in 0 .. r.output.bytes_pushed - 1 <=> b \in Nat /\ b < r.output.bytes_pushed
  BY <1>1
<1>5. b \in UNION {k .. k + len(p[k]) - 1 : k \in DOMAIN p}
        <=> \E k \in DOMAIN p : b \in k .. k + len(p[k]) - 1
  OBVIOUS
<1> QED BY <1>3, <1>4, <1>5 DEF Received, Holds, Covers

(* The output of a whole reassembler that has not failed ends at the first byte it lacks. *)
LEMMA NextIsMissing ==
  ASSUME NEW r, Whole(r), ~r.output.error, \A b \in Nat : Holds(r, b) => b < MaxIndex
  PROVE  r.output.bytes_pushed = Assembly!FirstMissing(Received(r))
<1> DEFINE pushed == r.output.bytes_pushed
           T == 0 .. MaxIndex \ Received(r)
<1>1. Sound(r) /\ Flushed(r) /\ pushed \in Nat /\ MaxIndex \in Nat
  BY SoundNumbers, MaxIndexAssumption DEF Whole, MaxIndexAssumption
<1>2. ~Holds(r, pushed)
  <2>1. ASSUME NEW k \in DOMAIN r.pending PROVE ~ (k <= pushed)
    <3>1. k \in Nat BY <1>1 DEF Sound, Frags
    <3>2. k >= pushed /\ k # pushed BY <1>1 DEF Flushed
    <3> QED BY <3>1, <3>2, <1>1
  <2> QED BY <2>1, <1>1 DEF Holds, Covers
<1>3. pushed <= MaxIndex
  <2> SUFFICES ASSUME pushed > MaxIndex PROVE FALSE BY <1>1
  <2>1. MaxIndex < pushed BY <1>1
  <2>2. Holds(r, MaxIndex) BY <2>1 DEF Holds
  <2> QED BY <2>2, <1>1
<1>4. pushed \in T
  <2>1. pushed \notin Received(r) BY <1>1, <1>2, ReceivedBytes
  <2> QED BY <2>1, <1>1, <1>3
<1>5. ASSUME NEW x \in T PROVE pushed <= x
  <2>1. x \in Nat /\ ~Holds(r, x) BY <1>1, ReceivedBytes
  <2> QED BY <2>1, <1>1 DEF Holds
<1>6. \A x \in T : x \in Nat BY <1>1
<1> HIDE DEF T
<1>7. pushed = CHOOSE x \in T : \A y \in T : x <= y
  <2> DEFINE m == CHOOSE x \in T : \A y \in T : x <= y
  <2>1. m \in T /\ \A y \in T : m <= y BY <1>4, <1>5
  <2> HIDE DEF m
  <2>2. m <= pushed /\ pushed <= m /\ m \in Nat BY <2>1, <1>4, <1>5, <1>6
  <2>3. pushed = m BY <2>2, <1>1
  <2> QED BY <2>3 DEF m
<1> QED BY <1>7 DEF Assembly!FirstMissing, Assembly!Min, T

(* try_insert adds to the held bytes what the byte-at-a-time specification says. *)
LEMMA InsertRefines ==
  ASSUME IInv, IInv', NEW first_index \in Nat, NEW n \in Nat, NEW is_last \in BOOLEAN,
         Insert(first_index, n, is_last)
  PROVE  Assembly!Insert(first_index, first_index + n, is_last)
<1> DEFINE r == reassembler
           t == reassembler'
           last == first_index + n
           H == 0 .. output.bytes_pushed - 1
                  \cup UNION {k .. k + len(pending[k]) - 1 : k \in DOMAIN pending}
           E == Assembly!min(output.bytes_popped + Capacity, U64_MAX)
           F == {b \in first_index .. last - 1 : output.bytes_pushed <= b /\ b < E}
<1>1. H = Received(r) /\ H' = Received(t) BY DEF Received, output, pending
<1>2. /\ Whole(r) /\ Sound(r) /\ Whole(t) /\ Sound(t)
      /\ \A b \in Nat : Holds(t, b) => b < MaxIndex
  BY DEF IInv, Whole
<1>3. /\ output = r.output /\ output' = t.output /\ eof_index = r.eof_index
      /\ eof_index' = t.eof_index
  BY DEF output, eof_index
<1>4. /\ t.output.bytes_popped = r.output.bytes_popped /\ t.output.error = r.output.error
      /\ IF Agrees(r, last, is_last)
         THEN /\ t.eof_index = IF is_last THEN last ELSE r.eof_index
              /\ Stores(t, r, first_index, last)
              /\ r.output.error => t.output.bytes_pushed = r.output.bytes_pushed
         ELSE t = r
  BY <1>2, TryInsert, SMTT(30) DEF Insert
<1>5. Assembly!Acceptable(first_index, last, is_last) <=> Agrees(r, last, is_last)
  <2>1. (\A b \in H : b < last) <=> (\A b \in Nat : Holds(r, b) => b < last)
    BY <1>1, <1>2, ReceivedBytes
  <2> HIDE DEF last
  <2> QED BY <2>1, <1>3 DEF Assembly!Acceptable, Agrees, Assembly!None, None
<1>6. CASE ~Agrees(r, last, is_last)
  <2>1. reassembler' = reassembler BY <1>4, <1>6
  <2>2. UNCHANGED Assembly!avars BY <2>1 DEF Assembly!avars, output, pending, eof_index
  <2> QED BY <2>2, <1>5, <1>6 DEF Assembly!Insert
<1>7. CASE Agrees(r, last, is_last)
  <2>1. E = first_unacceptable(r)
    BY <1>3 DEF Assembly!min, first_unacceptable, saturating_add, min, IInv
  <2>2. last \in Nat /\ E \in Nat /\ output.bytes_pushed \in Nat
    BY <2>1, <1>2, <1>3, SoundNumbers
  <2>3. \A b : b \in F <=> b \in Nat /\ Fresh(r, first_index, last, b)
    <3> HIDE DEF E, last
    <3> QED BY <2>1, <2>2, <1>3 DEF Fresh
  <2> HIDE DEF H, F, E, last, t, r
  <2>4. H' = IF output.error /\ output.bytes_pushed \in F THEN H ELSE H \cup F
    <3>1. ASSUME NEW b
          PROVE  b \in H' <=> b \in H \/ (b \in F /\ ~ (output.error /\ output.bytes_pushed \in F))
      <4>1. (b \in H' <=> b \in Nat /\ Holds(t, b)) /\ (b \in H <=> b \in Nat /\ Holds(r, b))
        BY <1>1, <1>2, ReceivedBytes
      <4>2. b \in F <=> b \in Nat /\ Fresh(r, first_index, last, b) BY <2>3
      <4>3. output.bytes_pushed \in F <=> Fresh(r, first_index, last, output.bytes_pushed)
        BY <2>2, <2>3
      <4> QED BY <4>1, <4>2, <4>3, <1>3, <1>4, <1>7 DEF Stores
    <3> QED BY <3>1
  <2>5. output'.bytes_pushed
          = IF output.error THEN output.bytes_pushed ELSE Assembly!FirstMissing(H')
    BY <1>1, <1>2, <1>3, <1>4, <1>7, NextIsMissing
  <2>6. output'.closed = (eof_index' = output'.bytes_pushed)
    <3>1. t.output.closed \in BOOLEAN BY <1>2, SoundNumbers
    <3> QED BY <3>1, <1>2, <1>3 DEF Whole
  <2>7. /\ eof_index' = IF is_last THEN last ELSE eof_index
        /\ output'.bytes_popped = output.bytes_popped /\ output'.error = output.error
    BY <1>3, <1>4, <1>7
  <2> QED
    BY <2>4, <2>5, <2>6, <2>7, <1>5, <1>7 DEF Assembly!Insert, H, F, E, last
<1> QED BY <1>6, <1>7

(* pop takes at least one byte if there is one, and nothing else changes. *)
LEMMA ReadRefines ==
  ASSUME IInv, NEW n \in Nat, Read(n)
  PROVE  Assembly!Read \/ UNCHANGED Assembly!avars
<1> DEFINE s == output
           d == popped_bytes(s, n)
           u == stream_pop(s, n)
<1>1. Sound(reassembler) /\ StreamOK(s) BY DEF IInv, Whole, Sound, output
<1>2. reassembler' = [output |-> u, pending |-> pending, eof_index |-> eof_index]
  BY <1>1, Reassembled DEF Read, output, pending, eof_index
<1>3. output' = u /\ pending' = pending /\ eof_index' = eof_index
  <2> HIDE DEF u
  <2> QED BY <1>2 DEF output, pending, eof_index
<1>4. /\ StreamOK(u) /\ u.bytes_pushed = s.bytes_pushed /\ u.closed = s.closed
      /\ u.error = s.error
  BY <1>1, PopKeepsOrder
<1>5. len(d) \in Nat /\ u.bytes_popped = s.bytes_popped + len(d) BY <1>1, PoppedRun
<1>6. /\ s.bytes_popped \in Nat /\ s.bytes_pushed \in Nat /\ u.bytes_popped \in Nat
      /\ u.bytes_popped <= u.bytes_pushed
  <2>1. /\ u.bytes_popped \in Nat /\ u.bytes_buffered \in Nat /\ u.bytes_pushed \in Nat
        /\ s.bytes_popped \in Nat /\ s.bytes_pushed \in Nat
    BY <1>1, <1>4 DEF StreamOK, Streams
  <2>2. u.bytes_popped + u.bytes_buffered = u.bytes_pushed
    BY <1>4 DEF StreamOK, Contiguous
  <2> QED BY <2>1, <2>2
<1> HIDE DEF d, u
<1>7. CASE len(d) = 0
  <2>1. output'.bytes_popped = output.bytes_popped BY <1>3, <1>5, <1>6, <1>7
  <2> QED BY <2>1, <1>3, <1>4 DEF Assembly!avars
<1>8. CASE len(d) > 0
  <2>1. /\ output.bytes_popped < output.bytes_pushed
        /\ output'.bytes_popped \in output.bytes_popped + 1 .. output.bytes_pushed
    BY <1>3, <1>4, <1>5, <1>6, <1>8
  <2> QED BY <2>1, <1>3, <1>4 DEF Assembly!Read
<1> QED BY <1>5, <1>7, <1>8

(* The error mark is all that set_error changes. *)
LEMMA FailRefines ==
  ASSUME IInv, Fail
  PROVE  Assembly!Fail
<1>1. Sound(reassembler) /\ StreamOK(output) BY DEF IInv, Whole, Sound, output
<1> DEFINE u == stream_set_error(output)
<1>2. reassembler' = [output |-> u, pending |-> pending, eof_index |-> eof_index]
  BY <1>1, Reassembled DEF Fail, output, pending, eof_index
<1>3. output' = u /\ pending' = pending /\ eof_index' = eof_index
  <2> HIDE DEF u
  <2> QED BY <1>2 DEF output, pending, eof_index
<1>4. /\ u.error = TRUE /\ u.closed = output.closed
      /\ u.bytes_pushed = output.bytes_pushed /\ u.bytes_popped = output.bytes_popped
  BY <1>1 DEF stream_set_error, StreamOK, Streams
<1> HIDE DEF u
<1> QED BY <1>3, <1>4 DEF Assembly!Fail

(***************************************************************************)
(* The fragments, gaps and loops of reassembler.rs compute what the        *)
(* byte-at-a-time specification says, for every capacity and every stream: *)
(* it holds exactly the bytes it was given inside the window, has          *)
(* assembled the longest prefix they make, and ends with it.               *)
(***************************************************************************)
THEOREM AssemblesBytes == Spec => ImplementsByteAssembly
<1>1. Init => Assembly!Init
  <2> SUFFICES ASSUME Init PROVE Assembly!Init OBVIOUS
  <2>1. /\ output = new_stream(Capacity) /\ pending = EmptyMap /\ eof_index = None
    BY DEF Init, new_reassembler, output, pending, eof_index
  <2>2. /\ output.bytes_pushed = 0 /\ output.bytes_popped = 0
        /\ output.closed = FALSE /\ output.error = FALSE
    BY <2>1 DEF new_stream
  <2>3. DOMAIN pending = {} BY <2>1 DEF EmptyMap
  <2>4. 0 .. output.bytes_pushed - 1
          \cup UNION {k .. k + len(pending[k]) - 1 : k \in DOMAIN pending} = {}
    BY <2>2, <2>3
  <2> QED BY <2>1, <2>2, <2>4 DEF Assembly!Init, Assembly!None, None
<1>2. IInv /\ IInv' /\ [Next]_vars => [Assembly!Next]_Assembly!avars
  <2> SUFFICES ASSUME IInv, IInv', [Next]_vars PROVE Assembly!Next \/ UNCHANGED Assembly!avars
    OBVIOUS
  <2>1. ASSUME NEW first_index \in 0 .. MaxIndex, NEW is_last \in BOOLEAN,
               NEW n \in 0 .. MaxIndex - first_index, Insert(first_index, n, is_last)
        PROVE  Assembly!Next
    <3>1. first_index \in Nat /\ n \in Nat /\ first_index + n \in first_index .. MaxIndex
      BY MaxIndexAssumption DEF MaxIndexAssumption
    <3>2. Assembly!Insert(first_index, first_index + n, is_last)
      BY <3>1, <2>1, InsertRefines
    <3> QED BY <3>1, <3>2 DEF Assembly!Next
  <2>2. ASSUME NEW n \in 1 .. Capacity, Read(n)
        PROVE  Assembly!Next \/ UNCHANGED Assembly!avars
    <3>1. n \in Nat BY CapacityAssumption DEF CapacityAssumption
    <3>2. Assembly!Read \/ UNCHANGED Assembly!avars BY <3>1, <2>2, ReadRefines
    <3> QED BY <3>2 DEF Assembly!Next
  <2>3. CASE Fail
    <3>1. Assembly!Fail BY <2>3, FailRefines
    <3> QED BY <3>1 DEF Assembly!Next
  <2>4. CASE UNCHANGED vars
    <3>1. reassembler' = reassembler BY <2>4 DEF vars
    <3> QED BY <3>1 DEF Assembly!avars, output, pending, eof_index
  <2> QED BY <2>1, <2>2, <2>3, <2>4 DEF Next
<1> QED BY <1>1, <1>2, Invariance, PTL DEF Spec, ImplementsByteAssembly, Assembly!Spec
=============================================================================

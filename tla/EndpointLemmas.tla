-------------------------- MODULE EndpointLemmas --------------------------
(***************************************************************************)
(* What the proofs of several components rest on.  Part 1: induction, byte *)
(* streams and sequence numbers.  Part 2: what each operation of the       *)
(* Reassembler does to a sound reassembler.  Part 3: what every operation  *)
(* of TcpSender keeps true of a sender: its queue is the sequence space in *)
(* flight, its counters agree with the outbound stream, and its timer runs *)
(* while it should.  Parts 2 and 3 hold whoever calls the operations.      *)
(***************************************************************************)
EXTENDS TcpConnection, WellFoundedInduction, FiniteSetTheorems, TLAPS

-----------------------------------------------------------------------------
(***************************************************************************)
(* Part 1.  Induction, byte streams and sequence numbers.                 *)
(***************************************************************************)

(***************************************************************************)
(* First-order forms of the least-number principle and of induction on     *)
(* the natural numbers: about sets, which the provers can instantiate,     *)
(* instead of about predicates.                                            *)
(***************************************************************************)

(* A non-empty set of natural numbers has a least element. *)
LEMMA NatMin ==
  ASSUME NEW T \in SUBSET Nat, T # {}
  PROVE  \E x \in T : \A y \in T : x <= y
<1> DEFINE R == {ss \in Nat \X Nat : ss[1] < ss[2]}
<1>1. R = OpToRel(<, Nat)
  BY DEF OpToRel
<1>2. \A x, y \in Nat : y < x => <<y, x>> \in R
  OBVIOUS
<1> HIDE DEF R
<1>3. PICK x \in T : \A y \in T : ~ (<<y, x>> \in R)
  BY <1>1, NatLessThanWellFounded, WFMin
<1>4. ASSUME NEW y \in T PROVE x <= y
  <2>1. x \in Nat /\ y \in Nat OBVIOUS
  <2>2. ~ (y < x) BY <2>1, <1>3, <1>2
  <2> QED BY <2>1, <2>2
<1> QED BY <1>4

(* Min(T) is that element. *)
LEMMA MinIsLeast ==
  ASSUME NEW T \in SUBSET Nat, T # {}
  PROVE  Min(T) \in T /\ \A y \in T : Min(T) <= y
BY NatMin DEF Min

(* A non-empty set of natural numbers that is bounded has a greatest element. *)
LEMMA MaxIsGreatest ==
  ASSUME NEW T \in SUBSET Nat, T # {}, NEW b \in Nat, \A x \in T : x <= b
  PROVE  Max(T) \in T /\ \A y \in T : y <= Max(T)
<1> DEFINE U == {b - x : x \in T}
<1>1. U \in SUBSET Nat /\ U # {}
  <2>1. ASSUME NEW x \in T PROVE b - x \in Nat
    <3>1. x \in Nat /\ x <= b OBVIOUS
    <3> QED BY <3>1
  <2> QED BY <2>1
<1>2. PICK u \in U : \A v \in U : u <= v BY <1>1, NatMin
<1>3. PICK x \in T : u = b - x BY <1>2
<1>4. ASSUME NEW y \in T PROVE x >= y
  <2>1. b - y \in U OBVIOUS
  <2>2. b - x <= b - y BY <2>1, <1>2, <1>3
  <2> QED BY <2>2
<1>5. \E z \in T : \A y \in T : z >= y BY <1>4
<1>6. Max(T) \in T /\ \A y \in T : Max(T) >= y BY <1>5 DEF Max
<1> QED BY <1>6

(* A set that holds 0 and is closed under successor is all of Nat. *)
LEMMA NatSetInduction ==
  ASSUME NEW S \in SUBSET Nat, 0 \in S, \A n \in S : n + 1 \in S
  PROVE  S = Nat
<1> SUFFICES ASSUME S # Nat PROVE FALSE OBVIOUS
<1>1. PICK m \in Nat \ S : \A y \in Nat \ S : m <= y
  <2> DEFINE T == Nat \ S
  <2>1. T \in SUBSET Nat /\ T # {} OBVIOUS
  <2>2. \E x \in T : \A y \in T : x <= y BY <2>1, NatMin
  <2> QED BY <2>2
<1>2. m # 0 OBVIOUS
<1>3. m - 1 \in S BY <1>1, <1>2
<1> QED BY <1>3

(* The same for a property that holds up to k. *)
LEMMA IntervalInduction ==
  ASSUME NEW k \in Nat, NEW S \in SUBSET (0 .. k), 0 \in S,
         \A n \in S : n < k => n + 1 \in S
  PROVE  k \in S
<1> DEFINE T == S \cup {n \in Nat : n > k}
<1>1. T \in SUBSET Nat /\ 0 \in T
  <2>1. ASSUME NEW n \in T PROVE n \in Nat
    <3>1. CASE n \in S
      <4>1. n \in 0 .. k BY <3>1
      <4> QED BY <4>1
    <3> QED BY <3>1
  <2> QED BY <2>1
<1>2. \A n \in T : n + 1 \in T OBVIOUS
<1> HIDE DEF T
<1>3. T = Nat BY <1>1, <1>2, NatSetInduction
<1>4. k \in T BY <1>3
<1> QED BY <1>4 DEF T
-----------------------------------------------------------------------------
(* A stream with its Rust types whose chunks are in order. *)
StreamOK(s) == s \in Streams /\ Contiguous(s)

(* Lengths and slices of runs of bytes. *)
LEMMA SliceOfRun ==
  ASSUME NEW d \in ByteRuns, NEW a \in Nat, NEW b \in Nat
  PROVE  /\ slice(d, a, b) = Bytes(d.lo + a, d.lo + b)
         /\ slice(d, a, b) \in ByteRuns
         /\ slice(d, a, b).lo = d.lo + a
         /\ slice(d, a, b).hi = d.lo + b
         /\ d = Bytes(d.lo, d.hi)
BY DEF slice, Bytes, ByteRuns

(***************************************************************************)
(* ByteStream::push of the bytes that come next keeps a stream contiguous  *)
(* and moves bytes_pushed by what it accepted.                             *)
(***************************************************************************)
LEMMA PushKeepsOrder ==
  ASSUME NEW s, StreamOK(s), NEW d \in ByteRuns, d.lo <= d.hi, d.lo = s.bytes_pushed
  PROVE  /\ accepted(s, d) \in Nat /\ accepted(s, d) <= len(d)
         /\ StreamOK(stream_push(s, d))
         /\ stream_push(s, d).bytes_pushed = s.bytes_pushed + accepted(s, d)
         /\ stream_push(s, d).bytes_popped = s.bytes_popped
         /\ stream_push(s, d).capacity = s.capacity
         /\ stream_push(s, d).closed = s.closed
         /\ stream_push(s, d).error = s.error
<1> DEFINE n == accepted(s, d)
           c == slice(d, 0, n)
           t == [s EXCEPT !.chunks = Append(@, c), !.bytes_buffered = @ + n,
                          !.bytes_pushed = @ + n]
<1>1. s \in Streams /\ Contiguous(s) BY DEF StreamOK
<1>2. n \in Nat /\ n <= len(d) /\ n <= s.capacity - s.bytes_buffered
  BY <1>1 DEF accepted, available_capacity, min, len, ByteRuns, Streams, Contiguous
<1>3. CASE n = 0
  <2>1. stream_push(s, d) = s BY <1>3 DEF stream_push
  <2> QED BY <1>2, <1>3, <2>1, <1>1 DEF StreamOK, Streams
<1>4. CASE n # 0
  <2>1. stream_push(s, d) = t BY <1>4 DEF stream_push
  <2>2. c \in ByteRuns /\ c.lo = s.bytes_pushed /\ c.hi = s.bytes_pushed + n
    <3>1. 0 \in Nat /\ n \in Nat /\ d.lo \in Nat BY <1>2 DEF ByteRuns
    <3> HIDE DEF n
    <3>2. c \in ByteRuns /\ c.lo = d.lo + 0 /\ c.hi = d.lo + n BY <3>1, SliceOfRun
    <3> QED BY <3>1, <3>2
  <2> HIDE DEF n, c
  <2>3. t \in Streams
    <3>1. Append(s.chunks, c) \in Seq(ByteRuns) BY <1>1, <2>2 DEF Streams
    <3>2. s.bytes_buffered + n \in Nat /\ s.bytes_pushed + n \in Nat
      BY <1>1, <1>2 DEF Streams
    <3> QED BY <1>1, <3>1, <3>2 DEF Streams
  <2>4. /\ t.bytes_pushed = s.bytes_pushed + n /\ t.bytes_popped = s.bytes_popped
        /\ t.capacity = s.capacity /\ t.closed = s.closed /\ t.error = s.error
        /\ t.bytes_buffered = s.bytes_buffered + n /\ t.chunks = Append(s.chunks, c)
    BY <1>1 DEF Streams
  <2> HIDE DEF t
  <2>5. s.chunks \in Seq(ByteRuns) /\ Len(s.chunks) \in Nat BY <1>1 DEF Streams
  <2>6. /\ Len(t.chunks) = Len(s.chunks) + 1
        /\ \A i \in 1 .. Len(s.chunks) : t.chunks[i] = s.chunks[i]
        /\ t.chunks[Len(s.chunks) + 1] = c
        /\ t.chunks # <<>>
    BY <2>4, <2>5, <2>2
  <2>7. /\ t.bytes_popped + t.bytes_buffered = t.bytes_pushed
        /\ t.bytes_buffered <= t.capacity
    BY <1>1, <1>2, <2>4 DEF Contiguous, Streams
  <2>8. s.chunks = <<>> => s.bytes_popped = s.bytes_pushed
    BY <1>1 DEF Contiguous, Streams
  <2>9. t.chunks[1].lo = t.bytes_popped /\ t.chunks[Len(t.chunks)].hi = t.bytes_pushed
    <3>1. CASE s.chunks = <<>>
      <4>1. Len(s.chunks) = 0 BY <3>1
      <4> QED BY <2>2, <2>4, <2>6, <2>8, <3>1, <4>1
    <3>2. CASE s.chunks # <<>>
      <4>1. 1 \in 1 .. Len(s.chunks) BY <2>5, <3>2
      <4> QED BY <2>2, <2>4, <2>6, <4>1, <3>2, <1>1, <2>5 DEF Contiguous
    <3> QED BY <3>1, <3>2
  <2>10. \A i \in 1 .. Len(t.chunks) : /\ t.chunks[i].lo < t.chunks[i].hi
                                       /\ t.chunks[i].hi <= t.bytes_pushed
    <3> SUFFICES ASSUME NEW i \in 1 .. Len(t.chunks)
                 PROVE  /\ t.chunks[i].lo < t.chunks[i].hi
                        /\ t.chunks[i].hi <= t.bytes_pushed
      OBVIOUS
    <3>0. s.bytes_popped <= s.bytes_pushed /\ s.bytes_popped \in Nat /\ s.bytes_pushed \in Nat
      BY <1>1 DEF Contiguous, Streams
    <3>1. CASE i = Len(s.chunks) + 1
      BY <3>0, <3>1, <2>6, <2>2, <2>4, <1>2, <1>4
    <3>2. CASE i # Len(s.chunks) + 1
      <4>1. i \in 1 .. Len(s.chunks) BY <3>2, <2>6, <2>5
      <4>2. t.chunks[i] = s.chunks[i] /\ s.chunks[i] \in ByteRuns BY <4>1, <2>6, <2>5
      <4>3. s.chunks[i].lo \in Nat /\ s.chunks[i].hi \in Nat BY <4>2 DEF ByteRuns
      <4> QED BY <3>0, <4>1, <4>2, <4>3, <2>4, <1>1, <1>2 DEF Contiguous
    <3> QED BY <3>1, <3>2
  <2>11. \A i \in 1 .. Len(t.chunks) - 1 : t.chunks[i].hi = t.chunks[i + 1].lo
    <3> SUFFICES ASSUME NEW i \in 1 .. Len(t.chunks) - 1
                 PROVE  t.chunks[i].hi = t.chunks[i + 1].lo
      OBVIOUS
    <3>0. i \in 1 .. Len(s.chunks) BY <2>6, <2>5
    <3>1. CASE i = Len(s.chunks)
      <4>1. s.chunks # <<>> BY <3>0
      <4>2. s.chunks[i].hi = s.bytes_pushed BY <4>1, <3>1, <1>1 DEF Contiguous
      <4> QED BY <3>0, <3>1, <4>2, <2>6, <2>2
    <3>2. CASE i # Len(s.chunks)
      <4>1. i \in 1 .. Len(s.chunks) - 1 /\ i + 1 \in 1 .. Len(s.chunks)
        BY <3>0, <3>2, <2>5
      <4> QED BY <4>1, <3>0, <2>6, <1>1 DEF Contiguous
    <3> QED BY <3>1, <3>2
  <2>12. Contiguous(t) BY <2>6, <2>7, <2>9, <2>10, <2>11 DEF Contiguous
  <2> QED BY <2>1, <2>3, <2>4, <2>12, <1>2 DEF StreamOK, n
<1> QED BY <1>3, <1>4

(* ByteStream::pop takes a prefix of the front chunk and keeps the rest in order. *)
LEMMA PopKeepsOrder ==
  ASSUME NEW s, StreamOK(s), NEW m \in Nat
  PROVE  /\ StreamOK(stream_pop(s, m))
         /\ stream_pop(s, m).bytes_pushed = s.bytes_pushed
         /\ stream_pop(s, m).bytes_popped >= s.bytes_popped
         /\ stream_pop(s, m).capacity = s.capacity
         /\ stream_pop(s, m).closed = s.closed
         /\ stream_pop(s, m).error = s.error
<1> DEFINE k == len(popped_bytes(s, m))
           f == Head(s.chunks)
           rest == slice(f, k, len(f))
           cs == IF k = len(f) THEN Tail(s.chunks) ELSE <<rest>> \o Tail(s.chunks)
           t == [s EXCEPT !.chunks = cs, !.bytes_buffered = @ - k, !.bytes_popped = @ + k]
<1>1. s \in Streams /\ Contiguous(s) BY DEF StreamOK
<1>2. CASE k = 0
  <2>1. stream_pop(s, m) = s BY <1>2 DEF stream_pop
  <2> QED BY <2>1, <1>1 DEF StreamOK, Streams
<1>3. CASE k # 0
  <2>1. stream_pop(s, m) = t
    BY <1>3 DEF stream_pop
  <2>2. s.chunks # <<>> /\ m # 0
    BY <1>3 DEF popped_bytes, NoBytes, Bytes, len
  <2>3. /\ s.chunks \in Seq(ByteRuns) /\ Len(s.chunks) \in Nat \ {0}
        /\ f = s.chunks[1] /\ f \in ByteRuns
        /\ f.lo = s.bytes_popped /\ f.lo < f.hi
        /\ s.bytes_popped \in Nat /\ s.bytes_buffered \in Nat /\ s.bytes_pushed \in Nat
        /\ s.capacity \in Nat
    BY <1>1, <2>2 DEF Streams, Contiguous
  <2>4. f.lo \in Nat /\ f.hi \in Nat /\ len(f) = f.hi - f.lo /\ len(f) \in Nat
    BY <2>3 DEF ByteRuns, len
  <2>5. k = min(m, len(f))
    <3>1. popped_bytes(s, m) = slice(f, 0, min(m, len(f)))
      BY <2>2 DEF popped_bytes
    <3> QED BY <3>1, <2>4 DEF slice, Bytes, len, min
  <2>6. k \in Nat /\ k > 0 /\ k <= len(f) BY <2>5, <2>4, <1>3 DEF min
  <2>7. rest \in ByteRuns /\ rest.lo = f.lo + k /\ rest.hi = f.hi
    <3>1. rest \in ByteRuns /\ rest.lo = f.lo + k /\ rest.hi = f.lo + len(f)
      BY <2>3, <2>4, <2>6, SliceOfRun, ZenonT(30)
    <3> QED BY <3>1, <2>4
  <2> HIDE DEF k, f, rest
  <2> DEFINE T == Tail(s.chunks)
  <2>8. /\ T \in Seq(ByteRuns) /\ Len(T) = Len(s.chunks) - 1 /\ Len(T) \in Nat
        /\ \A i \in 1 .. Len(T) : T[i] = s.chunks[i + 1]
    BY <2>3, <2>2
  <2> HIDE DEF T
  <2>9. /\ cs \in Seq(ByteRuns)
        /\ k = len(f) => cs = T
        /\ k # len(f) => /\ Len(cs) = Len(s.chunks) /\ cs[1] = rest
                         /\ \A i \in 2 .. Len(cs) : cs[i] = s.chunks[i]
    <3>1. CASE k = len(f) BY <3>1, <2>8 DEF T
    <3>2. CASE k # len(f)
      <4>1. cs = <<rest>> \o T BY <3>2 DEF T
      <4> HIDE DEF cs
      <4>2. <<rest>> \in Seq(ByteRuns) /\ Len(<<rest>>) = 1 /\ <<rest>>[1] = rest BY <2>7
      <4>3. cs \in Seq(ByteRuns) /\ Len(cs) = 1 + Len(T) BY <4>1, <4>2, <2>8
      <4>4. cs[1] = rest /\ \A i \in 2 .. Len(cs) : cs[i] = T[i - 1]
        BY <4>1, <4>2, <4>3, <2>8
      <4>5. \A i \in 2 .. Len(cs) : i - 1 \in 1 .. Len(T) /\ (i - 1) + 1 = i
        BY <4>3, <2>8
      <4> QED BY <3>2, <4>3, <4>4, <4>5, <2>8, <2>3
    <3> QED BY <3>1, <3>2
  <2> HIDE DEF cs
  <2>10. f.hi <= s.bytes_pushed
    BY <2>3, <1>1 DEF Contiguous
  <2>11. t \in Streams
    <3>0. s.bytes_popped + s.bytes_buffered = s.bytes_pushed BY <1>1 DEF Contiguous
    <3>1. s.bytes_buffered - k \in Nat /\ s.bytes_popped + k \in Nat
      BY <2>3, <2>4, <2>6, <2>10, <3>0
    <3> QED BY <1>1, <2>9, <3>1 DEF Streams
  <2>12. /\ t.bytes_pushed = s.bytes_pushed /\ t.bytes_popped = s.bytes_popped + k
         /\ t.capacity = s.capacity /\ t.closed = s.closed /\ t.error = s.error
         /\ t.bytes_buffered = s.bytes_buffered - k /\ t.chunks = cs
    BY <1>1 DEF Streams
  <2> HIDE DEF t
  <2>13. /\ t.bytes_popped + t.bytes_buffered = t.bytes_pushed
         /\ t.bytes_buffered <= t.capacity
    BY <1>1, <2>12, <2>3, <2>6 DEF Contiguous
  <2>14. ASSUME k = len(f) PROVE Contiguous(t)
    <3>1. cs = T /\ t.bytes_popped = f.hi BY <2>14, <2>9, <2>12, <2>3, <2>4
    <3>2. ASSUME NEW i \in 1 .. Len(T)
          PROVE  T[i].lo < T[i].hi /\ T[i].hi <= t.bytes_pushed
      <4>1. i + 1 \in 1 .. Len(s.chunks) BY <2>3, <2>8
      <4> QED BY <4>1, <2>8, <2>12, <1>1 DEF Contiguous
    <3>3. ASSUME NEW i \in 1 .. Len(T) - 1 PROVE T[i].hi = T[i + 1].lo
      <4>1. /\ i + 1 \in 1 .. Len(s.chunks) - 1
            /\ i \in 1 .. Len(T) /\ i + 1 \in 1 .. Len(T)
        BY <2>3, <2>8
      <4> QED BY <4>1, <2>8, <1>1 DEF Contiguous
    <3>4. CASE T = <<>>
      <4>1. Len(s.chunks) = 1 BY <3>4, <2>8, <2>3
      <4>2. f.hi = s.bytes_pushed BY <4>1, <2>2, <2>3, <1>1 DEF Contiguous
      <4>3. t.bytes_buffered = 0 BY <4>2, <3>1, <2>12, <2>13, <2>11 DEF Streams
      <4> QED BY <3>1, <3>2, <3>3, <3>4, <4>3, <2>12, <2>13 DEF Contiguous
    <3>5. CASE T # <<>>
      <4>1. Len(T) > 0 BY <3>5, <2>8
      <4>2. 1 \in 1 .. Len(T) /\ Len(T) \in 1 .. Len(T) BY <4>1, <2>8
      <4>3. T[1] = s.chunks[2] /\ T[Len(T)] = s.chunks[Len(s.chunks)] BY <4>2, <2>8, <2>3
      <4>4. 1 \in 1 .. Len(s.chunks) - 1 BY <4>1, <2>8
      <4>5. T[1].lo = f.hi BY <4>3, <4>4, <2>3, <1>1 DEF Contiguous
      <4>6. T[Len(T)].hi = t.bytes_pushed BY <4>3, <2>2, <2>12, <1>1 DEF Contiguous
      <4> QED BY <3>1, <3>2, <3>3, <3>5, <4>5, <4>6, <2>12, <2>13 DEF Contiguous
    <3> QED BY <3>4, <3>5
  <2>15. ASSUME k # len(f) PROVE Contiguous(t)
    <3>1. /\ Len(cs) = Len(s.chunks) /\ cs[1] = rest
          /\ \A i \in 2 .. Len(cs) : cs[i] = s.chunks[i]
      BY <2>15, <2>9
    <3>2. \A i \in 1 .. Len(cs) : cs[i].hi = s.chunks[i].hi
      BY <3>1, <2>7, <2>3
    <3>3. ASSUME NEW i \in 1 .. Len(cs)
          PROVE  cs[i].lo < cs[i].hi /\ cs[i].hi <= t.bytes_pushed
      <4>1. CASE i = 1
        <5>1. rest.lo < rest.hi BY <2>15, <2>4, <2>6, <2>7
        <5> QED BY <5>1, <4>1, <3>1, <2>7, <2>10, <2>12
      <4>2. CASE i # 1
        <5>1. i \in 2 .. Len(cs) /\ i \in 1 .. Len(s.chunks) BY <4>2, <3>1, <2>3
        <5> QED BY <5>1, <3>1, <2>12, <1>1 DEF Contiguous
      <4> QED BY <4>1, <4>2
    <3>4. ASSUME NEW i \in 1 .. Len(cs) - 1 PROVE cs[i].hi = cs[i + 1].lo
      <4>1. /\ i \in 1 .. Len(cs) /\ i + 1 \in 2 .. Len(cs)
            /\ i \in 1 .. Len(s.chunks) - 1
        BY <3>1, <2>3
      <4> QED BY <4>1, <3>1, <3>2, <1>1 DEF Contiguous
    <3>5. cs # <<>> /\ cs[1].lo = t.bytes_popped /\ cs[Len(cs)].hi = t.bytes_pushed
      <4>1. Len(cs) \in 1 .. Len(cs) BY <3>1, <2>3
      <4>2. s.chunks[Len(s.chunks)].hi = s.bytes_pushed BY <2>2, <1>1 DEF Contiguous
      <4>3. cs # <<>> BY <3>1, <2>3
      <4> QED BY <4>1, <4>2, <4>3, <3>1, <3>2, <2>7, <2>3, <2>12
    <3> QED BY <3>3, <3>4, <3>5, <2>12, <2>13 DEF Contiguous
  <2> QED BY <2>1, <2>11, <2>12, <2>14, <2>15, <2>3, <2>6 DEF StreamOK
<1> QED BY <1>2, <1>3

(* What ByteStream::pop returns: the next bytes of the stream, by which it moves on. *)
LEMMA PoppedRun ==
  ASSUME NEW s, StreamOK(s), NEW m \in Nat
  PROVE  LET d == popped_bytes(s, m) IN
         /\ d \in ByteRuns /\ d.lo <= d.hi /\ len(d) \in Nat /\ len(d) <= m
         /\ len(d) > 0 => d.lo = s.bytes_popped
         /\ stream_pop(s, m).bytes_popped = s.bytes_popped + len(d)
<1> DEFINE d == popped_bytes(s, m)
           f == Head(s.chunks)
           k == min(m, len(f))
<1>1. s \in Streams /\ Contiguous(s) BY DEF StreamOK
<1>2. CASE s.chunks = <<>> \/ m = 0
  <2>1. d = NoBytes BY <1>2 DEF popped_bytes
  <2>2. NoBytes \in ByteRuns /\ NoBytes.lo = 0 /\ NoBytes.hi = 0 /\ len(NoBytes) = 0
    BY DEF NoBytes, Bytes, ByteRuns, len
  <2>3. stream_pop(s, m) = s BY <2>1, <2>2 DEF stream_pop
  <2>4. s.bytes_popped \in Nat BY <1>1 DEF Streams
  <2> HIDE DEF d
  <2>5. stream_pop(s, m).bytes_popped = s.bytes_popped + len(d) BY <2>1, <2>2, <2>3, <2>4
  <2> QED BY <2>1, <2>2, <2>5 DEF d
<1>3. CASE s.chunks # <<>> /\ m # 0
  <2>1. /\ f = s.chunks[1] /\ f \in ByteRuns /\ f.lo = s.bytes_popped /\ f.lo < f.hi
        /\ s.bytes_popped \in Nat
    BY <1>1, <1>3 DEF Streams, Contiguous
  <2>2. f.lo \in Nat /\ f.hi \in Nat /\ len(f) = f.hi - f.lo /\ len(f) \in Nat
    BY <2>1 DEF ByteRuns, len
  <2>3. k \in Nat /\ k <= m /\ k <= len(f) /\ k > 0 BY <1>3, <2>1, <2>2 DEF min
  <2>4. d = slice(f, 0, k) BY <1>3 DEF popped_bytes
  <2> HIDE DEF d, f, k
  <2>5. d \in ByteRuns /\ d.lo = f.lo + 0 /\ d.hi = f.lo + k
    <3>1. 0 \in Nat /\ 0 <= k BY <2>3
    <3> QED BY <3>1, <2>1, <2>3, <2>4, SliceOfRun
  <2>6. len(d) = k BY <2>2, <2>3, <2>5 DEF len
  <2>7. stream_pop(s, m).bytes_popped = s.bytes_popped + len(d)
    <3>1. stream_pop(s, m) =
            [s EXCEPT !.chunks = IF len(d) = len(f) THEN Tail(@)
                                 ELSE <<slice(f, len(d), len(f))>> \o Tail(@),
                      !.bytes_buffered = @ - len(d), !.bytes_popped = @ + len(d)]
      BY <2>3, <2>6 DEF stream_pop, d, f
    <3> QED BY <3>1, <1>1 DEF Streams
  <2>8. d.lo <= d.hi /\ d.lo = s.bytes_popped BY <2>1, <2>2, <2>3, <2>5
  <2> QED BY <2>3, <2>5, <2>6, <2>7, <2>8 DEF d
<1> QED BY <1>2, <1>3

(* Closing a stream and marking it as failed leave its bytes alone. *)
LEMMA MarkKeepsOrder ==
  ASSUME NEW s, StreamOK(s)
  PROVE  /\ StreamOK(stream_close(s)) /\ StreamOK(stream_set_error(s))
         /\ stream_close(s) = [s EXCEPT !.closed = TRUE]
         /\ stream_set_error(s) = [s EXCEPT !.error = TRUE]
         /\ \A t \in {stream_close(s), stream_set_error(s)} :
              /\ t.capacity = s.capacity /\ t.chunks = s.chunks
              /\ t.bytes_buffered = s.bytes_buffered
              /\ t.bytes_pushed = s.bytes_pushed /\ t.bytes_popped = s.bytes_popped
         /\ stream_close(s).closed /\ stream_close(s).error = s.error
         /\ stream_set_error(s).error /\ stream_set_error(s).closed = s.closed
<1>1. s \in Streams /\ Contiguous(s) BY DEF StreamOK
<1> DEFINE c == stream_close(s)
           e == stream_set_error(s)
<1>2. c = [s EXCEPT !.closed = TRUE] /\ e = [s EXCEPT !.error = TRUE]
  BY DEF stream_close, stream_set_error
<1> HIDE DEF c, e
<1>3. /\ c \in Streams /\ c.closed /\ c.error = s.error /\ c.capacity = s.capacity
      /\ c.chunks = s.chunks /\ c.bytes_buffered = s.bytes_buffered
      /\ c.bytes_pushed = s.bytes_pushed /\ c.bytes_popped = s.bytes_popped
  BY <1>1, <1>2 DEF Streams
<1>4. /\ e \in Streams /\ e.error /\ e.closed = s.closed /\ e.capacity = s.capacity
      /\ e.chunks = s.chunks /\ e.bytes_buffered = s.bytes_buffered
      /\ e.bytes_pushed = s.bytes_pushed /\ e.bytes_popped = s.bytes_popped
  BY <1>1, <1>2 DEF Streams
<1>5. Contiguous(c) /\ Contiguous(e) BY <1>1, <1>3, <1>4 DEF Contiguous
<1> QED BY <1>2, <1>3, <1>4, <1>5 DEF StreamOK, c, e
-----------------------------------------------------------------------------
(* Division with remainder by the modulus. *)
LEMMA Remainder ==
  ASSUME NEW a \in Int
  PROVE  /\ a \div MODULUS \in Int /\ a % MODULUS \in RawValues
         /\ a = MODULUS * (a \div MODULUS) + (a % MODULUS)
<1>1. MODULUS \in Nat /\ MODULUS > 0 BY ModulusAssumption DEF ModulusAssumption
<1> QED BY <1>1 DEF RawValues

(* A remainder is unique. *)
LEMMA RemainderUnique ==
  ASSUME NEW q \in Int, NEW r \in RawValues
  PROVE  (MODULUS * q + r) % MODULUS = r
<1>1. MODULUS \in Nat /\ MODULUS > 0 BY ModulusAssumption DEF ModulusAssumption
<1> QED BY <1>1 DEF RawValues

(* Two numbers that differ by a multiple of the modulus are equal or at least that far apart. *)
LEMMA ErasApart ==
  ASSUME NEW j \in Int
  PROVE  /\ j = 0 => MODULUS * j = 0
         /\ j >= 1 => MODULUS * j >= MODULUS
         /\ j <= -1 => MODULUS * j <= -MODULUS
         /\ MODULUS * j \in Int
<1>1. MODULUS \in Nat /\ MODULUS > 0 BY ModulusAssumption DEF ModulusAssumption
<1> QED BY <1>1

(***************************************************************************)
(* wrap gives a raw value, and the numbers that wrap to the same value are *)
(* whole eras apart.                                                       *)
(***************************************************************************)
LEMMA WrapEras ==
  ASSUME NEW z \in RawValues, NEW a \in Nat
  PROVE  /\ wrap(a, z) \in RawValues
         /\ \A k \in Int : a + MODULUS * k \in Nat => wrap(a + MODULUS * k, z) = wrap(a, z)
         /\ \A b \in Nat : wrap(b, z) = wrap(a, z) => \E k \in Int : b = a + MODULUS * k
<1>1. MODULUS \in Nat /\ MODULUS > 0 /\ z \in Nat
  BY ModulusAssumption DEF ModulusAssumption, RawValues
<1> DEFINE q == (z + a) \div MODULUS
           r == (z + a) % MODULUS
<1>2. q \in Int /\ r \in RawValues /\ z + a = MODULUS * q + r
  <2>1. z + a \in Int BY <1>1
  <2> QED BY <2>1, Remainder
<1>3. wrap(a, z) = r BY DEF wrap
<1> HIDE DEF q, r
<1>4. ASSUME NEW k \in Int, a + MODULUS * k \in Nat PROVE wrap(a + MODULUS * k, z) = r
  <2>1. z + (a + MODULUS * k) = MODULUS * (q + k) + r BY <1>1, <1>2 DEF RawValues
  <2>2. q + k \in Int BY <1>2
  <2>3. (MODULUS * (q + k) + r) % MODULUS = r BY <2>2, <1>2, RemainderUnique
  <2> QED BY <2>1, <2>3 DEF wrap
<1>5. ASSUME NEW b \in Nat, wrap(b, z) = r PROVE \E k \in Int : b = a + MODULUS * k
  <2> DEFINE p == (z + b) \div MODULUS
  <2>1. p \in Int /\ z + b = MODULUS * p + r
    <3>1. z + b \in Int BY <1>1
    <3>2. (z + b) % MODULUS = r BY <1>5 DEF wrap
    <3> QED BY <3>1, <3>2, Remainder
  <2> HIDE DEF p
  <2>2. b = a + MODULUS * (p - q) BY <1>1, <1>2, <2>1 DEF RawValues
  <2>3. p - q \in Int BY <1>2, <2>1
  <2> QED BY <2>2, <2>3
<1> QED BY <1>2, <1>3, <1>4, <1>5

(***************************************************************************)
(* unwrap gives a number that wraps to the raw value, and none that does,  *)
(* up to the checkpoint or within u64, is nearer to the checkpoint.        *)
(***************************************************************************)
LEMMA UnwrapNearest ==
  ASSUME NEW z \in RawValues, NEW raw \in RawValues, NEW c \in Nat
  PROVE  LET u == unwrap(raw, z, c) IN
         /\ u \in Nat /\ wrap(u, z) = raw
         /\ c <= U64_MAX => u <= U64_MAX
         /\ \A a \in Nat : wrap(a, z) = raw /\ (a <= U64_MAX \/ a <= c)
              => abs_diff(u, c) <= abs_diff(a, c)
<1>1. MODULUS \in Nat /\ MODULUS > 0 /\ z \in Nat /\ raw \in Nat /\ U64_MAX \in Nat
  BY ModulusAssumption, U64Assumption DEF ModulusAssumption, RawValues, U64Assumption
<1> DEFINE offset == (raw - z) % MODULUS
           era == (c \div MODULUS) * MODULUS
           current == era + offset
           best == IF current >= MODULUS THEN closer(current, current - MODULUS, c)
                   ELSE current
           u == unwrap(raw, z, c)
<1>2. offset \in Nat /\ offset < MODULUS /\ \E q \in Int : raw - z = MODULUS * q + offset
  <2>1. raw - z \in Int BY <1>1
  <2> QED BY <2>1, <1>1, Remainder DEF RawValues
<1>3. era \in Nat /\ era <= c /\ c < era + MODULUS /\ \E e \in Nat : era = MODULUS * e
  <2> DEFINE e == c \div MODULUS
  <2>1. e \in Nat /\ c % MODULUS \in Nat /\ c % MODULUS < MODULUS
        /\ c = MODULUS * e + (c % MODULUS)
    <3>1. e \in Int /\ c % MODULUS \in RawValues /\ c = MODULUS * e + (c % MODULUS)
      BY Remainder
    <3>2. e >= 0 BY <1>1
    <3> QED BY <3>1, <3>2, <1>1 DEF RawValues
  <2> HIDE DEF e
  <2>2. era = MODULUS * e BY <2>1, <1>1 DEF e
  <2>3. MODULUS * e \in Nat BY <2>1, <1>1
  <2> HIDE DEF era
  <2> QED BY <2>1, <2>2, <2>3, <1>1
<1>4. u = IF current + MODULUS <= U64_MAX THEN closer(best, current + MODULUS, c) ELSE best
  BY DEF unwrap
<1> HIDE DEF offset, era
<1>5. current \in Nat /\ current < era + MODULUS BY <1>1, <1>2, <1>3
<1>6. wrap(current, z) = raw
  <2>1. PICK q \in Int : raw - z = MODULUS * q + offset BY <1>2
  <2>2. PICK e \in Nat : era = MODULUS * e BY <1>3
  <2>3. z + current = MODULUS * (e - q) + raw BY <2>1, <2>2, <1>1, <1>2
  <2>4. e - q \in Int OBVIOUS
  <2>5. (MODULUS * (e - q) + raw) % MODULUS = raw BY <2>4, RemainderUnique
  <2> QED BY <2>3, <2>5 DEF wrap
<1> HIDE DEF u
<1>7. /\ u \in {current - MODULUS, current, current + MODULUS} /\ u \in Nat
      /\ u = current + MODULUS => current + MODULUS <= U64_MAX
      /\ abs_diff(u, c) <= abs_diff(current, c)
      /\ current >= MODULUS => abs_diff(u, c) <= abs_diff(current - MODULUS, c)
      /\ current + MODULUS <= U64_MAX => abs_diff(u, c) <= abs_diff(current + MODULUS, c)
  <2> HIDE DEF current
  <2>1. /\ best \in {current - MODULUS, current} /\ best \in Nat
        /\ abs_diff(best, c) <= abs_diff(current, c)
        /\ current >= MODULUS => abs_diff(best, c) <= abs_diff(current - MODULUS, c)
    BY <1>1, <1>5 DEF closer, abs_diff
  <2> HIDE DEF best
  <2> QED BY <2>1, <1>1, <1>4, <1>5 DEF closer, abs_diff
<1>8. wrap(u, z) = raw
  <2>1. \E k \in Int : u = current + MODULUS * k
    <3>1. CASE u = current - MODULUS
      <4>1. current - MODULUS = current + MODULUS * (-1) BY <1>1, <1>5
      <4> QED BY <3>1, <4>1
    <3>2. CASE u = current
      <4>1. current = current + MODULUS * 0 BY <1>1, <1>5
      <4> QED BY <3>2, <4>1
    <3>3. CASE u = current + MODULUS
      <4>1. current + MODULUS = current + MODULUS * 1 BY <1>1, <1>5
      <4> QED BY <3>3, <4>1
    <3> QED BY <3>1, <3>2, <3>3, <1>7
  <2> QED BY <2>1, <1>5, <1>6, <1>7, WrapEras
<1>9. ASSUME c <= U64_MAX PROVE u <= U64_MAX
  <2>1. era + MODULUS <= U64_MAX + 1
    <3>1. PICK e \in Nat : era = MODULUS * e BY <1>3
    <3> DEFINE w == (U64_MAX + 1) \div MODULUS
    <3>2. w \in Int /\ U64_MAX + 1 = MODULUS * w
      <4>1. (U64_MAX + 1) % MODULUS = 0 BY U64IsWholeEras DEF U64IsWholeEras
      <4>2. U64_MAX + 1 \in Int BY <1>1
      <4>3. w \in Int /\ U64_MAX + 1 = MODULUS * w + 0 BY <4>1, <4>2, Remainder
      <4> HIDE DEF w
      <4> QED BY <4>3, <1>1
    <3> HIDE DEF w
    <3>3. MODULUS * e < MODULUS * w BY <3>1, <3>2, <1>1, <1>3, <1>9
    <3>4. e < w BY <3>2, <3>3, <1>1
    <3>5. MODULUS * e + MODULUS <= MODULUS * w BY <3>2, <3>4, <1>1
    <3> QED BY <3>1, <3>2, <3>5
  <2>2. current <= U64_MAX BY <2>1, <1>5, <1>1, <1>3
  <2> HIDE DEF current
  <2> QED BY <2>2, <1>7, <1>5, <1>1
<1>10. ASSUME NEW a \in Nat, wrap(a, z) = raw, a <= U64_MAX \/ a <= c
       PROVE  abs_diff(u, c) <= abs_diff(a, c)
  <2>1. PICK j \in Int : a = current + MODULUS * j BY <1>10, <1>5, <1>6, WrapEras
  <2>2. current \in Nat /\ c < current + MODULUS /\ (current >= MODULUS => current - MODULUS < c)
    BY <1>1, <1>2, <1>3, <1>5
  <2> HIDE DEF current
  <2>3. CASE j = 0
    <3>1. a = current BY <2>1, <2>2, <2>3, ErasApart
    <3> QED BY <3>1, <1>7
  <2>4. CASE j >= 1
    <3>1. a >= current + MODULUS BY <2>1, <2>2, <2>4, <1>1, ErasApart
    <3>2. current + MODULUS <= U64_MAX BY <3>1, <2>2, <1>1, <1>10
    <3> QED BY <3>1, <3>2, <2>2, <1>1, <1>7 DEF abs_diff
  <2>5. CASE j <= -1
    <3>1. a <= current - MODULUS BY <2>1, <2>2, <2>5, <1>1, ErasApart
    <3>2. current >= MODULUS BY <3>1, <2>2, <1>1
    <3> QED BY <3>1, <3>2, <2>2, <1>1, <1>7 DEF abs_diff
  <2> QED BY <2>3, <2>4, <2>5
<1> QED BY <1>7, <1>8, <1>9, <1>10 DEF u

(***************************************************************************)
(* unwrap inverts wrap for numbers less than half the sequence space from  *)
(* the checkpoint; exactly half of it below, the number may be taken for   *)
(* one above the checkpoint, never for one further below.                  *)
(***************************************************************************)
LEMMA UnwrapInverts ==
  ASSUME NEW z \in RawValues, NEW a \in Nat, NEW c \in Nat, a <= U64_MAX \/ a <= c
  PROVE  /\ 2 * abs_diff(a, c) < MODULUS => unwrap(wrap(a, z), z, c) = a
         /\ a <= c /\ 2 * (c - a) <= MODULUS => unwrap(wrap(a, z), z, c) >= a
<1>1. MODULUS \in Nat /\ MODULUS > 0
  BY ModulusAssumption DEF ModulusAssumption
<1> DEFINE u == unwrap(wrap(a, z), z, c)
<1>2. wrap(a, z) \in RawValues BY WrapEras
<1>3. u \in Nat /\ wrap(u, z) = wrap(a, z) /\ abs_diff(u, c) <= abs_diff(a, c)
  BY <1>2, UnwrapNearest
<1>4. PICK k \in Int : u = a + MODULUS * k BY <1>3, WrapEras
<1> HIDE DEF u
<1>5. CASE k = 0
  <2>1. u = a BY <1>4, <1>5, ErasApart
  <2> QED BY <2>1 DEF u
<1>6. CASE k >= 1
  <2>1. u >= a + MODULUS BY <1>1, <1>3, <1>4, <1>6, ErasApart
  <2>2. ~(2 * abs_diff(a, c) < MODULUS) BY <2>1, <1>1, <1>3 DEF abs_diff
  <2> QED BY <2>1, <2>2, <1>1, <1>3 DEF u
<1>7. CASE k <= -1
  <2>1. u <= a - MODULUS BY <1>1, <1>3, <1>4, <1>7, ErasApart
  <2>2. ~(2 * abs_diff(a, c) < MODULUS) /\ ~(a <= c /\ 2 * (c - a) <= MODULUS)
    BY <2>1, <1>1, <1>3 DEF abs_diff
  <2> QED BY <2>2
<1> QED BY <1>5, <1>6, <1>7

-----------------------------------------------------------------------------
(***************************************************************************)
(* Part 2.  The reassembler.                                              *)
(***************************************************************************)

(* Pending fragments: aligned, non-empty, below the edge and the end, disjoint. *)
Frags(p, edge, eof) ==
  /\ p = [k \in DOMAIN p |-> p[k]]
  /\ DOMAIN p \subseteq Nat
  /\ \A k \in DOMAIN p : /\ p[k] \in ByteRuns
                         /\ p[k].lo = k /\ k < p[k].hi /\ p[k].hi <= edge
                         /\ eof # None => p[k].hi <= eof
  /\ \A j, k \in DOMAIN p : j < k => p[j].hi <= k

(* The end of a fragment is where its bytes end. *)
LEMMA FragmentEnds ==
  ASSUME NEW p, NEW edge \in Nat, edge <= U64_MAX, NEW eof, Frags(p, edge, eof),
         NEW k \in DOMAIN p
  PROVE  /\ k \in Nat /\ p[k].hi \in Nat /\ p[k].lo = k
         /\ p[k] = Bytes(k, p[k].hi)
         /\ len(p[k]) = p[k].hi - k
         /\ FragmentEnd(p, k) = p[k].hi
<1>1. /\ k \in Nat /\ p[k] \in ByteRuns /\ p[k].lo = k /\ k < p[k].hi /\ p[k].hi <= edge
  BY DEF Frags
<1>2. p[k].hi \in Nat /\ len(p[k]) = p[k].hi - k BY <1>1 DEF len, ByteRuns
<1>3. p[k] = Bytes(k, p[k].hi) BY <1>1 DEF ByteRuns, Bytes
<1>4. FragmentEnd(p, k) = min(k + (p[k].hi - k), U64_MAX)
  BY <1>2 DEF FragmentEnd, saturating_add
<1> QED BY <1>1, <1>2, <1>3, <1>4, U64Assumption DEF min, U64Assumption

(* There are finitely many fragments. *)
LEMMA FragsFinite ==
  ASSUME NEW p, NEW edge \in Nat, NEW eof, Frags(p, edge, eof)
  PROVE  IsFiniteSet(DOMAIN p) /\ Cardinality(DOMAIN p) \in Nat
<1>1. DOMAIN p \in SUBSET Nat BY DEF Frags
<1>2. ASSUME NEW k \in DOMAIN p PROVE k <= edge
  <2>1. k \in Nat /\ p[k] \in ByteRuns /\ k < p[k].hi /\ p[k].hi <= edge BY DEF Frags
  <2>2. p[k].hi \in Nat BY <2>1 DEF ByteRuns
  <2> QED BY <2>1, <2>2
<1>3. IsFiniteSet(DOMAIN p) BY <1>1, <1>2, FS_BoundedSetOfNaturals
<1> QED BY <1>3, FS_CardinalityType

(* Removing a fragment leaves fragments. *)
LEMMA RemoveFragment ==
  ASSUME NEW p, NEW edge, NEW eof, Frags(p, edge, eof), NEW k
  PROVE  /\ Frags(map_remove(p, k), edge, eof)
         /\ DOMAIN map_remove(p, k) = DOMAIN p \ {k}
         /\ \A j \in DOMAIN p \ {k} : map_remove(p, k)[j] = p[j]
<1> DEFINE q == map_remove(p, k)
<1>1. DOMAIN q = DOMAIN p \ {k} /\ \A j \in DOMAIN p \ {k} : q[j] = p[j]
  BY DEF map_remove
<1>2. q = [j \in DOMAIN q |-> q[j]] BY <1>1 DEF map_remove
<1> HIDE DEF q
<1>3. Frags(q, edge, eof) BY <1>1, <1>2 DEF Frags
<1> QED BY <1>1, <1>3 DEF q

(* A fragment at k .. h - 1 would be in bounds and overlap none of the others. *)
Fits(p, k, h, edge, eof) ==
  /\ k \in Nat /\ h \in Nat /\ k < h /\ h <= edge
  /\ eof # None => h <= eof
  /\ \A j \in DOMAIN p \ {k} : IF j < k THEN p[j].hi <= k ELSE h <= j

(* Adding a run of bytes that no other fragment overlaps leaves fragments. *)
LEMMA InsertFragment ==
  ASSUME NEW p, NEW edge, NEW eof, Frags(p, edge, eof),
         NEW k, NEW h, Fits(p, k, h, edge, eof)
  PROVE  Frags(map_insert(p, k, Bytes(k, h)), edge, eof)
<1> USE DEF Fits
<1> DEFINE q == map_insert(p, k, Bytes(k, h))
<1>1. /\ DOMAIN q = DOMAIN p \cup {k} /\ q[k] = Bytes(k, h)
      /\ \A j \in DOMAIN p \ {k} : q[j] = p[j]
      /\ q = [j \in DOMAIN q |-> q[j]]
  BY DEF map_insert
<1>2. Bytes(k, h) \in ByteRuns /\ Bytes(k, h).lo = k /\ Bytes(k, h).hi = h
  BY DEF Bytes, ByteRuns
<1> HIDE DEF q
<1>3. DOMAIN q \subseteq Nat BY <1>1 DEF Frags
<1>4. ASSUME NEW j \in DOMAIN q
      PROVE  /\ q[j] \in ByteRuns /\ q[j].lo = j /\ j < q[j].hi /\ q[j].hi <= edge
             /\ eof # None => q[j].hi <= eof
  <2>1. CASE j = k BY <2>1, <1>1, <1>2
  <2>2. CASE j # k BY <2>2, <1>1 DEF Frags
  <2> QED BY <2>1, <2>2
<1>5. ASSUME NEW i \in DOMAIN q, NEW j \in DOMAIN q, i < j PROVE q[i].hi <= j
  <2>1. i \in Nat /\ j \in Nat BY <1>3
  <2>2. CASE i = k
    <3>1. j \in DOMAIN p \ {k} /\ ~ (j < k) BY <2>1, <2>2, <1>1, <1>5
    <3> QED BY <3>1, <2>2, <1>1, <1>2
  <2>3. CASE j = k
    <3>1. i \in DOMAIN p \ {k} /\ i < k BY <2>1, <2>3, <1>1, <1>5
    <3> QED BY <3>1, <2>3, <1>1
  <2>4. CASE i # k /\ j # k BY <2>4, <1>1, <1>5 DEF Frags
  <2> QED BY <2>2, <2>3, <2>4
<1>6. Frags(q, edge, eof) BY <1>1, <1>3, <1>4, <1>5 DEF Frags
<1> QED BY <1>1, <1>6 DEF q
-----------------------------------------------------------------------------
(* Byte b lies in one of the fragments p. *)
Covers(p, b) == \E k \in DOMAIN p : k <= b /\ b < p[k].hi

(* A fragment covers its bytes, whatever the others cover. *)
LEMMA CoversRemoved ==
  ASSUME NEW p, NEW k \in DOMAIN p, NEW b
  PROVE  Covers(p, b) <=> (k <= b /\ b < p[k].hi) \/ Covers(map_remove(p, k), b)
<1>1. /\ DOMAIN map_remove(p, k) = DOMAIN p \ {k}
      /\ \A j \in DOMAIN p \ {k} : map_remove(p, k)[j] = p[j]
  BY DEF map_remove
<1> QED BY <1>1 DEF Covers

(* A new fragment adds its bytes. *)
LEMMA CoversInserted ==
  ASSUME NEW p, NEW k, k \notin DOMAIN p, NEW h, NEW b
  PROVE  Covers(map_insert(p, k, Bytes(k, h)), b) <=> (k <= b /\ b < h) \/ Covers(p, b)
<1> DEFINE q == map_insert(p, k, Bytes(k, h))
<1>1. /\ DOMAIN q = DOMAIN p \cup {k} /\ q[k] = Bytes(k, h)
      /\ \A j \in DOMAIN p : q[j] = p[j]
  BY DEF map_insert
<1>2. q[k].hi = h BY <1>1 DEF Bytes
<1> HIDE DEF q
<1>3. Covers(q, b) <=> (k <= b /\ b < h) \/ Covers(p, b) BY <1>1, <1>2 DEF Covers
<1> QED BY <1>3 DEF q
-----------------------------------------------------------------------------
(* A reassembler between the steps of try_insert: fragments may be stale. *)
Sound(r) ==
  /\ r = [output |-> r.output, pending |-> r.pending, eof_index |-> r.eof_index]
  /\ StreamOK(r.output)
  /\ r.eof_index \in Nat \cup {None}
  /\ Frags(r.pending, first_unacceptable(r), r.eof_index)
  /\ r.eof_index # None => r.output.bytes_pushed <= r.eof_index
  /\ r.output.closed => r.eof_index = r.output.bytes_pushed

(* What flush_contiguous leaves alone. *)
SameFrame(t, r) ==
  /\ t.eof_index = r.eof_index
  /\ t.output.capacity = r.output.capacity /\ t.output.bytes_popped = r.output.bytes_popped
  /\ t.output.closed = r.output.closed /\ t.output.error = r.output.error
  /\ t.output.bytes_pushed >= r.output.bytes_pushed
  /\ r.output.error => t.output.bytes_pushed = r.output.bytes_pushed

(* Byte b has been received and kept, in the output or in a fragment. *)
Holds(r, b) == b < r.output.bytes_pushed \/ Covers(r.pending, b)

(* What moves bytes from the fragments to the output loses and adds none. *)
SameBytes(t, r) == \A b \in Nat : Holds(t, b) <=> Holds(r, b)

(* No fragment can be trimmed or pushed any more. *)
Flushed(r) ==
  \A k \in DOMAIN r.pending :
    k >= r.output.bytes_pushed /\ (k = r.output.bytes_pushed => r.output.error)

(* The iterations flush_contiguous still needs, at most. *)
Stale(r) == \E k \in DOMAIN r.pending : k < r.output.bytes_pushed
Fuel(r) == IF Stale(r) THEN 2 * Cardinality(DOMAIN r.pending)
           ELSE 2 * Cardinality(DOMAIN r.pending) - 1

(* The numbers of a sound reassembler. *)
LEMMA SoundNumbers ==
  ASSUME NEW r, Sound(r)
  PROVE  /\ r.output \in Streams /\ Contiguous(r.output)
         /\ r.output.bytes_pushed \in Nat /\ r.output.bytes_popped \in Nat
         /\ r.output.capacity \in Nat /\ r.output.bytes_buffered \in Nat
         /\ r.output.bytes_popped + r.output.bytes_buffered = r.output.bytes_pushed
         /\ r.output.bytes_buffered <= r.output.capacity
         /\ r.output.closed \in BOOLEAN /\ r.output.error \in BOOLEAN
         /\ first_unacceptable(r) \in Nat /\ first_unacceptable(r) <= U64_MAX
         /\ first_unacceptable(r) <= r.output.bytes_popped + r.output.capacity
<1>1. r.output \in Streams /\ Contiguous(r.output) BY DEF Sound, StreamOK
<1>2. /\ r.output.bytes_pushed \in Nat /\ r.output.bytes_popped \in Nat
      /\ r.output.capacity \in Nat /\ r.output.bytes_buffered \in Nat
      /\ r.output.closed \in BOOLEAN /\ r.output.error \in BOOLEAN
  BY <1>1 DEF Streams
<1>3. /\ r.output.bytes_popped + r.output.bytes_buffered = r.output.bytes_pushed
      /\ r.output.bytes_buffered <= r.output.capacity
  BY <1>1 DEF Contiguous
<1>4. /\ first_unacceptable(r) \in Nat /\ first_unacceptable(r) <= U64_MAX
      /\ first_unacceptable(r) <= r.output.bytes_popped + r.output.capacity
  BY <1>2, U64Assumption DEF first_unacceptable, saturating_add, min, U64Assumption
<1> QED BY <1>1, <1>2, <1>3, <1>4

(***************************************************************************)
(* The bytes that come next, up to the edge of the window, are accepted in *)
(* full by an output that has not failed.                                  *)
(***************************************************************************)
LEMMA AcceptedInFull ==
  ASSUME NEW r, Sound(r), NEW h \in Nat, r.output.bytes_pushed < h,
         h <= first_unacceptable(r), r.eof_index # None => h <= r.eof_index
  PROVE  LET d == Bytes(r.output.bytes_pushed, h) IN
         /\ ~r.output.closed
         /\ accepted(r.output, d) = IF r.output.error THEN 0 ELSE len(d)
<1> DEFINE d == Bytes(r.output.bytes_pushed, h)
<1>1. ~r.output.closed
  <2>1. r.output.bytes_pushed \in Nat BY SoundNumbers
  <2>2. ASSUME r.output.closed PROVE FALSE
    <3>1. r.eof_index = r.output.bytes_pushed BY <2>2 DEF Sound
    <3> QED BY <2>1, <3>1 DEF None
  <2> QED BY <2>2
<1>2. len(d) = h - r.output.bytes_pushed BY DEF len, Bytes
<1>3. len(d) <= r.output.capacity - r.output.bytes_buffered BY <1>2, SoundNumbers
<1>4. len(d) \in Nat BY <1>2, SoundNumbers
<1>5. CASE r.output.error BY <1>5, <1>1 DEF accepted
<1>6. CASE ~r.output.error
  <2>1. accepted(r.output, d) = min(len(d), r.output.capacity - r.output.bytes_buffered)
    BY <1>1, <1>6 DEF accepted, available_capacity
  <2> HIDE DEF d
  <2>2. min(len(d), r.output.capacity - r.output.bytes_buffered) = len(d)
    BY <1>3 DEF min
  <2> QED BY <2>1, <2>2, <1>1, <1>6 DEF d
<1> QED BY <1>5, <1>6

(***************************************************************************)
(* One iteration of flush_contiguous keeps the reassembler sound and,      *)
(* until nothing is left to flush, uses up some of its fuel.               *)
(***************************************************************************)
LEMMA FlushStep ==
  ASSUME NEW r, Sound(r)
  PROVE  LET t == FlushFirst(r) IN
         /\ Sound(t) /\ SameFrame(t, r) /\ SameBytes(t, r)
         /\ Fuel(r) \in Int /\ Fuel(t) \in Int
         /\ Flushed(r) => Flushed(t)
         /\ ~Flushed(r) => Fuel(t) <= Fuel(r) - 1
<1> DEFINE t == FlushFirst(r)
           p == r.pending
           D == DOMAIN r.pending
           edge == first_unacceptable(r)
           pushed == r.output.bytes_pushed
           start == Min(D)
           rest == map_remove(p, start)
<1>1. /\ pushed \in Nat /\ edge \in Nat /\ edge <= U64_MAX /\ Frags(p, edge, r.eof_index)
      /\ StreamOK(r.output) /\ r.eof_index \in Nat \cup {None}
      /\ r.output.error \in BOOLEAN
  BY SoundNumbers DEF Sound
<1>2. D \subseteq Nat /\ IsFiniteSet(D) /\ Cardinality(D) \in Nat
  BY <1>1, FragsFinite DEF Frags
<1>3. SameFrame(r, r) /\ SameBytes(r, r) BY <1>1 DEF SameFrame, SameBytes
<1>4. Fuel(r) \in Int BY <1>2 DEF Fuel
<1>5. CASE D = {}
  <2>1. t = r BY <1>5 DEF FlushFirst
  <2>2. Flushed(r) BY <1>5 DEF Flushed
  <2> QED BY <2>1, <2>2, <1>3, <1>4
<1>6. CASE D # {}
  <2>1. start \in D /\ start \in Nat /\ \A k \in D : start <= k
    BY <1>2, <1>6, MinIsLeast
  <2>2. /\ p[start] = Bytes(start, p[start].hi) /\ p[start].hi \in Nat
        /\ p[start] \in ByteRuns /\ p[start].lo = start
        /\ start < p[start].hi /\ p[start].hi <= edge
        /\ r.eof_index # None => p[start].hi <= r.eof_index
        /\ FragmentEnd(p, start) = p[start].hi
        /\ len(p[start]) = p[start].hi - start
    BY <2>1, <1>1, FragmentEnds DEF Frags
  <2>3. /\ Frags(rest, edge, r.eof_index) /\ DOMAIN rest = D \ {start}
        /\ \A j \in D \ {start} : rest[j] = p[j]
    BY <1>1, RemoveFragment
  <2>4. \A j \in D \ {start} : j \in Nat /\ start < j /\ p[start].hi <= j
    BY <2>1, <1>1, <1>2 DEF Frags
  <2>5. IsFiniteSet(D \ {start}) /\ Cardinality(D \ {start}) = Cardinality(D) - 1
    BY <1>2, <2>1, FS_RemoveElement
  <2>9. \A b : Covers(p, b) <=> (start <= b /\ b < p[start].hi) \/ Covers(rest, b)
    BY <2>1, CoversRemoved
  <2> HIDE DEF start, rest
  <2>6. CASE start < pushed
    <3> DEFINE new == trim_stale_prefix(p, start, pushed)
    <3>1. t = [r EXCEPT !.pending = new] BY <1>6, <2>6 DEF FlushFirst, start
    <3>2. /\ t = [output |-> r.output, pending |-> new, eof_index |-> r.eof_index]
          /\ t.output = r.output /\ t.pending = new /\ t.eof_index = r.eof_index
      BY <3>1 DEF Sound
    <3> HIDE DEF t
    <3>3. first_unacceptable(t) = edge BY <3>2 DEF first_unacceptable
    <3>4. SameFrame(t, r) BY <3>2, <1>1 DEF SameFrame
    <3>5. Stale(r) /\ ~Flushed(r)
      BY <2>1, <2>6, <1>1 DEF Stale, Flushed
    <3>6. Fuel(r) = 2 * Cardinality(D) BY <3>5 DEF Fuel
    <3>7. CASE p[start].hi <= pushed
      <4>1. new = rest BY <3>7, <2>2 DEF trim_stale_prefix, rest
      <4>2. Sound(t) BY <4>1, <3>2, <3>3, <2>3, <1>1 DEF Sound
      <4>3. DOMAIN t.pending = D \ {start} BY <4>1, <3>2, <2>3
      <4>4. Fuel(t) \in Int /\ Fuel(t) <= 2 * (Cardinality(D) - 1)
        BY <4>3, <2>5, <1>2 DEF Fuel
      <4>5. SameBytes(t, r)
        <5> SUFFICES ASSUME NEW b \in Nat PROVE Holds(t, b) <=> Holds(r, b) BY DEF SameBytes
        <5>1. b < p[start].hi => b < pushed BY <3>7, <2>2, <1>1
        <5>2. Covers(p, b) <=> (start <= b /\ b < p[start].hi) \/ Covers(rest, b) BY <2>9
        <5> QED BY <5>1, <5>2, <4>1, <3>2 DEF Holds
      <4> QED BY <4>2, <4>4, <4>5, <3>4, <3>5, <3>6, <1>2, <1>4 DEF t
    <3>8. CASE pushed < p[start].hi
      <4> DEFINE h == p[start].hi
      <4>1. slice(p[start], pushed - start, len(p[start])) = Bytes(pushed, h)
        BY <2>1, <2>2, <2>6, <1>1 DEF slice
      <4>2. new = map_insert(rest, pushed, Bytes(pushed, h))
        BY <3>8, <4>1, <2>2, <1>1 DEF trim_stale_prefix, rest
      <4>3. Fits(rest, pushed, h, edge, r.eof_index)
        BY <2>3, <2>4, <3>8, <1>1, <2>2 DEF Fits
      <4>4. Frags(new, edge, r.eof_index) /\ DOMAIN new = DOMAIN rest \cup {pushed}
        <5> HIDE DEF new, h, edge, pushed
        <5>1. Frags(rest, edge, r.eof_index) BY <2>3
        <5>2. Frags(map_insert(rest, pushed, Bytes(pushed, h)), edge, r.eof_index)
          BY <5>1, <4>3, InsertFragment
        <5>3. DOMAIN map_insert(rest, pushed, Bytes(pushed, h)) = DOMAIN rest \cup {pushed}
          BY DEF map_insert
        <5> QED BY <4>2, <5>2, <5>3
      <4>5. Sound(t) BY <4>4, <3>2, <3>3, <1>1 DEF Sound
      <4>6. pushed \notin D \ {start} BY <2>4, <3>8, <2>2, <1>1
      <4>7. Cardinality(DOMAIN t.pending) = Cardinality(D)
        <5>1. DOMAIN t.pending = (D \ {start}) \cup {pushed} BY <4>4, <3>2, <2>3
        <5> DEFINE E == D \ {start}
        <5> HIDE DEF E, D, pushed, start
        <5>2. Cardinality(E \cup {pushed}) = Cardinality(E) + 1
          BY <2>5, <4>6, FS_AddElement DEF E
        <5> QED BY <5>1, <5>2, <2>5, <1>2 DEF E
      <4>8. ~Stale(t)
        BY <4>4, <3>2, <2>3, <2>4, <3>8, <1>1, <2>2 DEF Stale
      <4>9. Fuel(t) = 2 * Cardinality(D) - 1 BY <4>7, <4>8 DEF Fuel
      <4>10. SameBytes(t, r)
        <5> SUFFICES ASSUME NEW b \in Nat PROVE Holds(t, b) <=> Holds(r, b) BY DEF SameBytes
        <5>1. pushed \notin DOMAIN rest BY <4>6, <2>3
        <5>2. Covers(p, b) <=> (start <= b /\ b < h) \/ Covers(rest, b) BY <2>9
        <5> HIDE DEF h, new, pushed, p, rest
        <5>3. Covers(new, b) <=> (pushed <= b /\ b < h) \/ Covers(rest, b)
          BY <5>1, <4>2, CoversInserted
        <5>4. b < pushed \/ pushed <= b BY <1>1
        <5>5. start <= b \/ b < pushed BY <2>1, <2>6, <1>1
        <5> QED BY <5>2, <5>3, <5>4, <5>5, <3>2 DEF Holds, p, pushed
      <4> QED BY <4>5, <4>10, <4>9, <3>4, <3>5, <3>6, <1>2, <1>4 DEF t
    <3> QED BY <3>7, <3>8, <1>1, <2>2
  <2>7. CASE start > pushed
    <3>1. t = r BY <1>6, <2>7, <2>1, <1>1 DEF FlushFirst, start
    <3>2. Flushed(r) BY <2>1, <2>7, <1>1, <1>2 DEF Flushed
    <3> QED BY <3>1, <3>2, <1>3, <1>4
  <2>8. CASE start = pushed
    <3> DEFINE h == p[start].hi
               d == Bytes(pushed, h)
               out == stream_push(r.output, d)
               n == accepted(r.output, d)
               new == IF n = len(d) THEN rest ELSE map_insert(rest, start + n, slice(d, n, len(d)))
    <3>1. p[start] = d BY <2>2, <2>8
    <3>2. t = [r EXCEPT !.output = out, !.pending = new]
      <4>1. ~ (start < pushed) BY <2>8, <1>1
      <4>2. t = [r EXCEPT !.output = stream_push(@, p[start]),
                          !.pending = IF accepted(r.output, p[start]) = len(p[start]) THEN rest
                                      ELSE map_insert(rest, start + accepted(r.output, p[start]),
                                                      slice(p[start], accepted(r.output, p[start]),
                                                            len(p[start])))]
        BY <4>1, <1>6, <2>8 DEF FlushFirst, start, rest
      <4> QED BY <4>2, <3>1
    <3>3. /\ t = [output |-> out, pending |-> new, eof_index |-> r.eof_index]
          /\ t.output = out /\ t.pending = new /\ t.eof_index = r.eof_index
      BY <3>2 DEF Sound
    <3> HIDE DEF t
    <3>4. ~r.output.closed /\ n = IF r.output.error THEN 0 ELSE len(d)
      BY <2>2, <2>8, AcceptedInFull
    <3>5. d \in ByteRuns /\ d.lo = pushed /\ d.lo <= d.hi /\ len(d) = h - pushed
      BY <2>2, <2>8, <1>1 DEF ByteRuns, Bytes, len
    <3>6. /\ StreamOK(out) /\ out.bytes_pushed = pushed + n
          /\ out.bytes_popped = r.output.bytes_popped /\ out.capacity = r.output.capacity
          /\ out.closed = r.output.closed /\ out.error = r.output.error /\ n \in Nat
      BY <3>5, <1>1, PushKeepsOrder
    <3> HIDE DEF d, n, out
    <3>7. first_unacceptable(t) = edge BY <3>3, <3>6 DEF first_unacceptable
    <3>8. SameFrame(t, r)
      <4>1. r.output.error => out.bytes_pushed = pushed BY <3>4, <3>6, <1>1
      <4> QED BY <4>1, <3>3, <3>6, <1>1 DEF SameFrame
    <3>9. ~Stale(r) /\ Fuel(r) = 2 * Cardinality(D) - 1
      BY <2>1, <2>8, <1>1, <1>2 DEF Stale, Fuel
    <3>10. CASE r.output.error
      <4>1. n = 0 /\ len(d) # 0 BY <3>10, <3>4, <3>5, <2>2, <2>8, <1>1
      <4>2. slice(d, n, len(d)) = Bytes(start, h)
        BY <4>1, <3>5, <2>2, <2>8, <1>1 DEF slice
      <4>3. new = map_insert(rest, start, Bytes(start, h)) BY <4>1, <4>2, <2>1
      <4>4. Fits(rest, start, h, edge, r.eof_index)
        BY <2>3, <2>4, <2>1, <2>2, <1>1 DEF Fits
      <4>5. Frags(new, edge, r.eof_index) /\ DOMAIN new = DOMAIN rest \cup {start}
        <5> HIDE DEF new, h, edge
        <5>1. Frags(rest, edge, r.eof_index) BY <2>3
        <5>2. Frags(map_insert(rest, start, Bytes(start, h)), edge, r.eof_index)
          BY <5>1, <4>4, InsertFragment
        <5>3. DOMAIN map_insert(rest, start, Bytes(start, h)) = DOMAIN rest \cup {start}
          BY DEF map_insert
        <5> QED BY <4>3, <5>2, <5>3
      <4>6. Sound(t) BY <4>1, <4>5, <3>3, <3>4, <3>6, <3>7, <1>1 DEF Sound
      <4>8. DOMAIN t.pending = D
        <5>1. DOMAIN t.pending = DOMAIN rest \cup {start} BY <4>5, <3>3
        <5> QED BY <5>1, <2>3, <2>1
      <4>7. Flushed(r) /\ Flushed(t)
        <5>1. t.output.bytes_pushed = pushed /\ t.output.error
          <6>1. t.output.bytes_pushed = pushed + 0 BY <4>1, <3>3, <3>6
          <6>2. t.output.error BY <3>3, <3>6, <3>10
          <6> QED BY <6>1, <6>2, <1>1
        <5>2. \A k \in D : k >= pushed BY <2>1, <2>8, <1>1, <1>2
        <5> QED BY <5>1, <5>2, <4>8, <3>10 DEF Flushed
      <4>9. Fuel(t) \in Int BY <4>8, <1>2 DEF Fuel
      <4>10. SameBytes(t, r)
        <5> SUFFICES ASSUME NEW b \in Nat PROVE Holds(t, b) <=> Holds(r, b) BY DEF SameBytes
        <5>1. start \notin DOMAIN rest BY <2>3
        <5>2. Covers(p, b) <=> (start <= b /\ b < h) \/ Covers(rest, b) BY <2>9
        <5>3. t.output.bytes_pushed = pushed BY <3>3, <3>8, <3>10 DEF SameFrame
        <5> HIDE DEF h, new, pushed, p, rest
        <5>4. Covers(new, b) <=> (start <= b /\ b < h) \/ Covers(rest, b)
          BY <5>1, <4>3, CoversInserted
        <5> QED BY <5>2, <5>3, <5>4, <3>3 DEF Holds, p, pushed
      <4> QED BY <4>6, <4>7, <4>9, <4>10, <3>8, <1>4 DEF t
    <3>11. CASE ~r.output.error
      <4>1. n = len(d) BY <3>4, <3>11
      <4>2. new = rest BY <4>1
      <4>3. r.eof_index # None => out.bytes_pushed <= r.eof_index
        BY <4>1, <3>5, <3>6, <2>2, <1>1
      <4>4. Sound(t) BY <4>2, <4>3, <3>3, <3>4, <3>6, <3>7, <2>3, <1>1 DEF Sound
      <4>5. ~Flushed(r) BY <2>1, <2>8, <3>11, <1>1 DEF Flushed
      <4>6. DOMAIN t.pending = D \ {start} BY <4>2, <3>3, <2>3
      <4>7. Fuel(t) \in Int /\ Fuel(t) <= 2 * (Cardinality(D) - 1)
        BY <4>6, <2>5, <1>2 DEF Fuel
      <4>8. SameBytes(t, r)
        <5> SUFFICES ASSUME NEW b \in Nat PROVE Holds(t, b) <=> Holds(r, b) BY DEF SameBytes
        <5>1. Covers(p, b) <=> (start <= b /\ b < h) \/ Covers(rest, b) BY <2>9
        <5>2. t.output.bytes_pushed = h BY <4>1, <3>3, <3>5, <3>6, <2>2, <1>1
        <5>3. b < h <=> b < pushed \/ (start <= b /\ b < h) BY <2>1, <2>2, <2>8, <1>1
        <5> QED BY <5>1, <5>2, <5>3, <4>2, <3>3 DEF Holds
      <4> QED BY <4>4, <4>5, <4>7, <4>8, <3>8, <3>9, <1>2, <1>4 DEF t
    <3> QED BY <3>10, <3>11
  <2> QED BY <2>6, <2>7, <2>8, <2>1, <1>1
<1> QED BY <1>5, <1>6

(* The states of the first k iterations of flush_contiguous. *)
LEMMA FlushStates ==
  ASSUME NEW r, NEW k \in Nat
  PROVE  \E st : /\ st = [n \in 0 .. k |-> IF n = 0 THEN r ELSE FlushFirst(st[n - 1])]
                 /\ Iterate(FlushFirst, r, k) = st[k]
<1> DEFINE Def(m, g) == g = [n \in 0 .. m |-> IF n = 0 THEN r ELSE FlushFirst(g[n - 1])]
           S == {m \in Nat : \E g : Def(m, g)}
<1>1. 0 \in S
  <2> DEFINE g == [n \in 0 .. 0 |-> r]
  <2>1. g = [n \in 0 .. 0 |-> IF n = 0 THEN r ELSE FlushFirst(g[n - 1])] OBVIOUS
  <2>2. Def(0, g) BY <2>1
  <2> HIDE DEF g, Def
  <2> QED BY <2>2
<1>2. ASSUME NEW m \in S PROVE m + 1 \in S
  <2>1. PICK g : Def(m, g) OBVIOUS
  <2> DEFINE h == [n \in 0 .. m + 1 |-> IF n = m + 1 THEN FlushFirst(g[m]) ELSE g[n]]
  <2>2. \A n \in 0 .. m + 1 : h[n] = IF n = 0 THEN r ELSE FlushFirst(h[n - 1])
    BY <2>1
  <2>3. Def(m + 1, h) BY <2>2
  <2> HIDE DEF h, Def
  <2> QED BY <2>3
<1>3. S = Nat
  <2>1. S \in SUBSET Nat OBVIOUS
  <2> HIDE DEF S
  <2> QED BY <1>1, <1>2, <2>1, NatSetInduction
<1>4. PICK g : Def(k, g) BY <1>3
<1> DEFINE st == CHOOSE f : Def(k, f)
<1>5. Def(k, st) BY <1>4
<1>6. Iterate(FlushFirst, r, k) = st[k] BY DEF Iterate
<1> QED BY <1>5, <1>6

(***************************************************************************)
(* flush_contiguous keeps a reassembler sound, and twice the number of     *)
(* fragments is enough iterations to flush everything that can be flushed. *)
(***************************************************************************)
LEMMA FlushContiguous ==
  ASSUME NEW r, Sound(r)
  PROVE  LET t == flush_contiguous(r) IN
         Sound(t) /\ SameFrame(t, r) /\ SameBytes(t, r) /\ Flushed(t)
<1> DEFINE c == Cardinality(DOMAIN r.pending)
           k == 2 * c
<1>1. c \in Nat /\ k \in Nat
  <2>1. c \in Nat BY SoundNumbers, FragsFinite DEF Sound
  <2> QED BY <2>1
<1>2. PICK st : /\ st = [n \in 0 .. k |-> IF n = 0 THEN r ELSE FlushFirst(st[n - 1])]
                /\ flush_contiguous(r) = st[k]
  <2> HIDE DEF c
  <2>1. flush_contiguous(r) = Iterate(FlushFirst, r, k) BY DEF flush_contiguous, c
  <2> HIDE DEF k
  <2> QED BY <1>1, <2>1, FlushStates
<1> HIDE DEF k
<1> DEFINE P(n) == /\ Sound(st[n]) /\ SameFrame(st[n], r) /\ SameBytes(st[n], r)
                   /\ Flushed(st[n]) \/ Fuel(st[n]) <= k - n
           S == {n \in 0 .. k : P(n)}
<1>3. st[0] = r /\ \A n \in 0 .. k : n < k => st[n + 1] = FlushFirst(st[n])
  BY <1>1, <1>2
<1>4. 0 \in S
  <2>1. SameFrame(r, r) /\ SameBytes(r, r) BY SoundNumbers DEF SameFrame, SameBytes
  <2>2. Fuel(r) <= k - 0 BY <1>1 DEF Fuel, k
  <2>3. P(0) BY <2>1, <2>2, <1>3
  <2> QED BY <2>3, <1>1
<1>5. ASSUME NEW n \in S, n < k PROVE n + 1 \in S
  <2>1. n \in 0 .. k /\ P(n) OBVIOUS
  <2> DEFINE a == st[n]
             b == st[n + 1]
  <2>2. b = FlushFirst(a) /\ n + 1 \in 0 .. k BY <2>1, <1>3, <1>5, <1>1
  <2>3. /\ Sound(a) /\ SameFrame(a, r) /\ SameBytes(a, r)
        /\ Flushed(a) \/ Fuel(a) <= k - n
    BY <2>1
  <2> HIDE DEF a, b, P
  <2>4. /\ Sound(b) /\ SameFrame(b, a) /\ SameBytes(b, a)
        /\ Fuel(a) \in Int /\ Fuel(b) \in Int
        /\ Flushed(a) => Flushed(b)
        /\ ~Flushed(a) => Fuel(b) <= Fuel(a) - 1
    BY <2>2, <2>3, FlushStep
  <2>5. SameFrame(b, r)
    <3>1. /\ a.output.bytes_pushed \in Nat /\ b.output.bytes_pushed \in Nat
          /\ r.output.bytes_pushed \in Nat
      BY <2>3, <2>4, SoundNumbers
    <3> QED BY <3>1, <2>3, <2>4 DEF SameFrame
  <2>8. SameBytes(b, r) BY <2>3, <2>4 DEF SameBytes
  <2>6. Flushed(b) \/ Fuel(b) <= k - (n + 1)
    BY <2>3, <2>4, <2>1, <1>1
  <2>7. P(n + 1) BY <2>4, <2>5, <2>6, <2>8 DEF P, b
  <2> QED BY <2>2, <2>7
<1>6. k \in S
  <2>1. S \in SUBSET (0 .. k) OBVIOUS
  <2> HIDE DEF S
  <2> QED BY <1>1, <1>4, <1>5, <2>1, IntervalInduction
<1> DEFINE t == st[k]
<1>7. /\ Sound(t) /\ SameFrame(t, r) /\ SameBytes(t, r)
      /\ Flushed(t) \/ Fuel(t) <= k - k
  BY <1>6
<1> HIDE DEF t, P, S
<1>8. Flushed(t)
  <2> SUFFICES ASSUME Fuel(t) <= k - k PROVE Flushed(t) BY <1>7
  <2>1. IsFiniteSet(DOMAIN t.pending) /\ Cardinality(DOMAIN t.pending) \in Nat
    BY <1>7, SoundNumbers, FragsFinite DEF Sound
  <2>2. Fuel(t) <= 0 BY <1>1
  <2>3. Cardinality(DOMAIN t.pending) = 0 BY <2>1, <2>2 DEF Fuel
  <2>4. DOMAIN t.pending = {} BY <2>1, <2>3, FS_EmptySet
  <2> QED BY <2>4 DEF Flushed
<1> QED BY <1>7, <1>8, <1>2 DEF t
-----------------------------------------------------------------------------
(***************************************************************************)
(* The loop of insert_missing_gaps for the bytes start .. end - 1: what    *)
(* lies before the cursor is covered by fragments that end at the cursor   *)
(* or before.                                                              *)
(***************************************************************************)
GapOK(g, start, end, edge, eof) ==
  /\ Frags(g.pending, edge, eof)
  /\ g.cursor \in Nat /\ start <= g.cursor /\ g.cursor <= end
  /\ g.cursor < end =>
       \A j \in DOMAIN g.pending : j < g.cursor => g.pending[j].hi <= g.cursor

(* The fragments cover what p covered and the new bytes before the cursor. *)
Filled(g, p, start) ==
  \A b \in Nat : Covers(g.pending, b) <=> Covers(p, b) \/ (start <= b /\ b < g.cursor)

(* The bytes start .. end - 1 lie inside the window and before the end of the stream. *)
Segment(start, end, edge, eof) ==
  /\ start \in Nat /\ end \in Nat /\ start < end /\ end <= edge
  /\ edge \in Nat /\ edge <= U64_MAX
  /\ eof # None => end <= eof
  /\ eof \in Nat \cup {None}

(* insert_gap: filling a hole between the fragments leaves fragments. *)
LEMMA FillGap ==
  ASSUME NEW p, NEW edge, NEW eof, NEW start, NEW end, Segment(start, end, edge, eof),
         Frags(p, edge, eof), NEW a \in Nat, NEW b \in Nat, start <= a, a <= b, b <= end,
         \A j \in DOMAIN p : (j < a /\ p[j].hi <= a) \/ b <= j
  PROVE  LET q == insert_gap(p, start, Bytes(start, end), a, b) IN
         /\ Frags(q, edge, eof)
         /\ \A j \in DOMAIN q : (j = a /\ q[j].hi <= b) \/ (j \in DOMAIN p /\ q[j] = p[j])
         /\ \A x \in Nat : Covers(q, x) <=> Covers(p, x) \/ (a <= x /\ x < b)
<1> DEFINE q == insert_gap(p, start, Bytes(start, end), a, b)
<1>1. start \in Nat /\ end \in Nat /\ edge \in Nat BY DEF Segment
<1>2. CASE a = b
  <2>1. q = p BY <1>2 DEF insert_gap
  <2>2. \A x \in Nat : ~ (a <= x /\ x < b) BY <1>2
  <2> QED BY <2>1, <2>2
<1>3. CASE a < b
  <2>1. slice(Bytes(start, end), a - start, b - start) = Bytes(a, b)
    BY <1>1 DEF slice, Bytes
  <2>2. q = map_insert(p, a, Bytes(a, b)) BY <2>1, <1>3 DEF insert_gap
  <2>3. Fits(p, a, b, edge, eof)
    <3>1. DOMAIN p \subseteq Nat BY DEF Frags
    <3>2. \A j \in DOMAIN p \ {a} : IF j < a THEN p[j].hi <= a ELSE b <= j
      BY <3>1, <1>3
    <3> QED BY <1>1, <1>3, <3>2 DEF Fits, Segment
  <2> HIDE DEF q
  <2>4. Frags(map_insert(p, a, Bytes(a, b)), edge, eof)
    BY <2>3, InsertFragment
  <2>5. /\ DOMAIN map_insert(p, a, Bytes(a, b)) = DOMAIN p \cup {a}
        /\ map_insert(p, a, Bytes(a, b))[a] = Bytes(a, b)
        /\ \A j \in DOMAIN p \ {a} : map_insert(p, a, Bytes(a, b))[j] = p[j]
    BY DEF map_insert
  <2>6. Frags(q, edge, eof) /\ DOMAIN q = DOMAIN p \cup {a} BY <2>2, <2>4, <2>5
  <2>7. q[a].hi = b /\ \A j \in DOMAIN p \ {a} : q[j] = p[j]
    BY <2>2, <2>5 DEF Bytes
  <2>8. a \notin DOMAIN p BY <1>3
  <2>9. \A x : Covers(q, x) <=> (a <= x /\ x < b) \/ Covers(p, x)
    BY <2>2, <2>8, CoversInserted
  <2> QED BY <2>6, <2>7, <2>9 DEF q
<1> QED BY <1>2, <1>3

(* The cursor starts at the first byte that the fragment before it does not cover. *)
LEMMA FirstGapOK ==
  ASSUME NEW p, NEW edge, NEW eof, NEW start, NEW end, Segment(start, end, edge, eof),
         Frags(p, edge, eof)
  PROVE  LET g == [pending |-> p, cursor |-> FirstGap(p, start, end)] IN
         GapOK(g, start, end, edge, eof) /\ Filled(g, p, start)
<1> DEFINE before == {k \in DOMAIN p : k <= start}
           c == FirstGap(p, start, end)
           prev == Max(before)
<1>1. /\ start \in Nat /\ end \in Nat /\ start < end /\ edge \in Nat /\ edge <= U64_MAX
  BY DEF Segment
<1>2. DOMAIN p \subseteq Nat BY DEF Frags
<1> SUFFICES /\ c \in Nat /\ start <= c /\ c <= end
             /\ c < end => \A j \in DOMAIN p : j < c => p[j].hi <= c
             /\ \A b \in Nat : start <= b /\ b < c => Covers(p, b)
  <2> HIDE DEF c
  <2> QED BY DEF GapOK, Filled, c
<1>3. CASE before = {}
  <2>1. c = start BY <1>3 DEF FirstGap
  <2>2. \A j \in DOMAIN p : ~ (j < start) BY <1>3, <1>1, <1>2
  <2>3. \A b \in Nat : ~ (start <= b /\ b < start) BY <1>1
  <2> QED BY <2>1, <2>2, <2>3, <1>1
<1>4. CASE before # {}
  <2>1. prev \in before /\ \A j \in before : j <= prev
    <3>1. before \in SUBSET Nat /\ \A j \in before : j <= start BY <1>2
    <3> HIDE DEF before
    <3> QED BY <3>1, <1>1, <1>4, MaxIsGreatest
  <2>2. /\ prev \in DOMAIN p /\ prev <= start /\ prev \in Nat
        /\ p[prev].hi \in Nat /\ FragmentEnd(p, prev) = p[prev].hi
    BY <2>1, <1>1, <1>2, FragmentEnds
  <2>3. prev < p[prev].hi BY <2>2 DEF Frags
  <2>4. c = IF p[prev].hi > start THEN min(p[prev].hi, end) ELSE start
    BY <2>2, <1>4 DEF FirstGap
  <2>5. \A j \in DOMAIN p : /\ j \in Nat /\ p[j].hi \in Nat
                            /\ j < prev => p[j].hi <= prev
                            /\ prev < j => p[prev].hi <= j
    BY <2>2, <1>2 DEF Frags, ByteRuns
  <2>6. \A j \in DOMAIN p : j <= start => j <= prev BY <2>1
  <2> HIDE DEF c, prev, before
  <2>7. c \in Nat /\ start <= c /\ c <= end BY <2>2, <2>4, <1>1 DEF min
  <2>8. ASSUME c < end, NEW j \in DOMAIN p, j < c PROVE p[j].hi <= c
    <3> DEFINE e == p[prev].hi
               h == p[j].hi
    <3>0. /\ e \in Nat /\ h \in Nat /\ j \in Nat /\ prev \in Nat /\ c \in Nat
          /\ prev < e /\ c = IF e > start THEN min(e, end) ELSE start
          /\ j < prev => h <= prev
          /\ prev < j => e <= j
          /\ prev = j => h = e
          /\ j <= start => j <= prev
      BY <2>2, <2>3, <2>4, <2>5, <2>6, <2>7
    <3> HIDE DEF e, h
    <3>1. c < end /\ j < c BY <2>8
    <3>2. h <= c BY <3>0, <3>1, <1>1 DEF min
    <3> QED BY <3>2 DEF h
  <2>9. ASSUME NEW b \in Nat, start <= b, b < c PROVE Covers(p, b)
    <3> DEFINE e == p[prev].hi
    <3>1. e \in Nat /\ c = IF e > start THEN min(e, end) ELSE start BY <2>2, <2>4
    <3> HIDE DEF e
    <3>2. b < e BY <3>1, <2>9, <1>1 DEF min
    <3>3. prev <= b BY <2>2, <2>9, <1>1
    <3> QED BY <3>2, <3>3, <2>2 DEF Covers, e
  <2> QED BY <2>7, <2>8, <2>9
<1> QED BY <1>3, <1>4

(* One iteration of insert_missing_gaps. *)
LEMMA GapStep ==
  ASSUME NEW g, NEW edge, NEW eof, NEW start, NEW end, Segment(start, end, edge, eof),
         GapOK(g, start, end, edge, eof), NEW old, Filled(g, old, start)
  PROVE  LET t == FillNextGap(g, start, Bytes(start, end), end) IN
         /\ GapOK(t, start, end, edge, eof) /\ Filled(t, old, start)
         /\ g.cursor = end => t.cursor = end
         /\ g.cursor < end => g.cursor < t.cursor
<1> DEFINE t == FillNextGap(g, start, Bytes(start, end), end)
           p == g.pending
           c == g.cursor
           next == {k \in DOMAIN p : c <= k /\ k < end}
<1>1. /\ start \in Nat /\ end \in Nat /\ start < end /\ edge \in Nat /\ edge <= U64_MAX
  BY DEF Segment
<1>2. /\ Frags(p, edge, eof) /\ DOMAIN p \subseteq Nat
      /\ c \in Nat /\ start <= c /\ c <= end
  BY DEF GapOK, Frags
<1>3. CASE c = end
  <2>1. t = g BY <1>1, <1>2, <1>3 DEF FillNextGap
  <2> QED BY <2>1, <1>1, <1>3
<1>4. CASE c < end
  <2>1. \A j \in DOMAIN p : j < c => p[j].hi <= c BY <1>4 DEF GapOK
  <2>2. CASE next = {}
    <3> DEFINE q == insert_gap(p, start, Bytes(start, end), c, end)
    <3>1. t = [pending |-> q, cursor |-> end] BY <1>1, <1>2, <1>4, <2>2 DEF FillNextGap
    <3>2. \A j \in DOMAIN p : (j < c /\ p[j].hi <= c) \/ end <= j
      BY <1>1, <1>2, <2>1, <2>2
    <3>3. /\ Frags(q, edge, eof)
          /\ \A x \in Nat : Covers(q, x) <=> Covers(p, x) \/ (c <= x /\ x < end)
      BY <3>2, <1>1, <1>2, FillGap
    <3> HIDE DEF q, t
    <3>4. t.pending = q /\ t.cursor = end BY <3>1
    <3>5. Filled(t, old, start)
      <4> SUFFICES ASSUME NEW b \in Nat
                   PROVE  Covers(q, b) <=> Covers(old, b) \/ (start <= b /\ b < end)
        BY <3>4 DEF Filled
      <4>1. Covers(p, b) <=> Covers(old, b) \/ (start <= b /\ b < c) BY DEF Filled
      <4>2. start <= b /\ b < end <=> (start <= b /\ b < c) \/ (c <= b /\ b < end)
        BY <1>1, <1>2
      <4> QED BY <4>1, <4>2, <3>3
    <3> QED BY <3>3, <3>4, <3>5, <1>1, <1>4 DEF GapOK, t
  <2>3. CASE next # {}
    <3> DEFINE s == Min(next)
               q == insert_gap(p, start, Bytes(start, end), c, s)
               d == min(max(c, FragmentEnd(p, s)), end)
    <3>1. t = [pending |-> q, cursor |-> d] BY <1>1, <1>2, <1>4, <2>3 DEF FillNextGap
    <3>2. s \in next /\ \A k \in next : s <= k
      <4>1. next \in SUBSET Nat BY <1>2
      <4> HIDE DEF next
      <4> QED BY <4>1, <2>3, MinIsLeast
    <3>3. s \in DOMAIN p /\ s \in Nat /\ c <= s /\ s < end BY <3>2, <1>2
    <3>4. \A j \in DOMAIN p : (j < c /\ p[j].hi <= c) \/ s <= j
      BY <3>2, <3>3, <1>1, <1>2, <2>1
    <3>5. p[s].hi \in Nat /\ FragmentEnd(p, s) = p[s].hi BY <3>3, <1>1, <1>2, FragmentEnds
    <3>6. s < p[s].hi /\ \A j \in DOMAIN p : s < j => p[s].hi <= j
      BY <3>3, <1>2 DEF Frags
    <3> HIDE DEF s, t
    <3>7. d = min(p[s].hi, end) /\ d \in Nat /\ start <= d /\ d <= end
      BY <3>3, <3>5, <3>6, <1>1, <1>2 DEF min, max
    <3>8. /\ Frags(q, edge, eof)
          /\ \A j \in DOMAIN q : (j = c /\ q[j].hi <= s) \/ (j \in DOMAIN p /\ q[j] = p[j])
          /\ \A x \in Nat : Covers(q, x) <=> Covers(p, x) \/ (c <= x /\ x < s)
      <4>1. s <= end BY <3>3, <1>1
      <4> HIDE DEF p, c
      <4> QED BY <3>3, <3>4, <4>1, <1>2, FillGap
    <3> HIDE DEF q, d
    <3>9. ASSUME d < end, NEW j \in DOMAIN q, j < d PROVE q[j].hi <= d
      <4>1. d = p[s].hi BY <3>5, <3>7, <3>9, <1>1 DEF min
      <4>2. j \in Nat /\ q[j].hi \in Nat BY <3>8 DEF Frags, ByteRuns
      <4>3. CASE j = c /\ q[j].hi <= s BY <4>1, <4>2, <4>3, <3>3, <3>5, <3>6
      <4>4. CASE j \in DOMAIN p /\ q[j] = p[j]
        <5>1. j <= s BY <4>1, <4>2, <4>4, <3>3, <3>5, <3>6, <3>9
        <5>2. CASE j = s BY <5>2, <4>1, <4>4, <3>5
        <5>3. CASE j < s
          <6>1. p[j].hi <= s BY <5>3, <4>4, <3>3, <1>2 DEF Frags
          <6> QED BY <6>1, <4>1, <4>2, <4>4, <3>3, <3>5, <3>6
        <5> QED BY <5>1, <5>2, <5>3, <4>2, <3>3
      <4> QED BY <4>3, <4>4, <3>8
    <3>10. t.pending = q /\ t.cursor = d BY <3>1
    <3>11. GapOK(t, start, end, edge, eof)
      BY <3>7, <3>8, <3>9, <3>10 DEF GapOK
    <3>12. c < d BY <3>3, <3>5, <3>6, <3>7, <1>1, <1>2, <1>4 DEF min
    <3>13. Filled(t, old, start)
      <4> SUFFICES ASSUME NEW b \in Nat
                   PROVE  Covers(q, b) <=> Covers(old, b) \/ (start <= b /\ b < d)
        BY <3>10 DEF Filled
      <4>1. Covers(p, b) <=> Covers(old, b) \/ (start <= b /\ b < c) BY DEF Filled
      <4>2. Covers(q, b) <=> Covers(p, b) \/ (c <= b /\ b < s) BY <3>8
      <4>3. s <= b /\ b < d => Covers(p, b)
        <5>1. b < d => b < p[s].hi BY <3>5, <3>7, <1>1 DEF min
        <5> QED BY <5>1, <3>3 DEF Covers
      <4>4. s <= d BY <3>3, <3>5, <3>6, <3>7, <1>1 DEF min
      <4>5. /\ start <= b /\ b < c => start <= b /\ b < d
            /\ c <= b /\ b < s => start <= b /\ b < d
            /\ start <= b /\ b < d =>
                 \/ start <= b /\ b < c
                 \/ c <= b /\ b < s
                 \/ s <= b /\ b < d
        BY <3>3, <3>7, <3>12, <4>4, <1>1, <1>2
      <4> HIDE DEF c, p
      <4> QED BY <4>1, <4>2, <4>3, <4>5
    <3> QED BY <3>10, <3>11, <3>12, <3>13, <1>1, <1>2, <1>4 DEF t
  <2> QED BY <2>2, <2>3
<1> QED BY <1>1, <1>2, <1>3, <1>4

(* insert_missing_gaps adds what is missing and never makes fragments overlap. *)
LEMMA InsertMissingGaps ==
  ASSUME NEW p, NEW edge, NEW eof, NEW start, NEW end, Segment(start, end, edge, eof),
         Frags(p, edge, eof)
  PROVE  LET q == insert_missing_gaps(p, start, Bytes(start, end)) IN
         /\ Frags(q, edge, eof)
         /\ \A b \in Nat : Covers(q, b) <=> Covers(p, b) \/ (start <= b /\ b < end)
<1> DEFINE data == Bytes(start, end)
           x == [pending |-> p, cursor |-> FirstGap(p, start, end)]
           F(g) == FillNextGap(g, start, data, end)
           k == end - start
           Def(m, g) == g = [n \in 0 .. m |-> IF n = 0 THEN x ELSE F(g[n - 1])]
           T == {m \in Nat : \E g : Def(m, g)}
           st == CHOOSE f : Def(k, f)
<1>0. start \in Nat /\ end \in Nat /\ k \in Nat BY DEF Segment
<1>1. insert_missing_gaps(p, start, data) = st[k].pending
  <2>1. len(data) = end - start /\ start + len(data) = end BY <1>0 DEF len, Bytes
  <2> HIDE DEF data
  <2> QED BY <2>1 DEF insert_missing_gaps, Iterate
<1> DEFINE G(g) == GapOK(g, start, end, edge, eof) /\ Filled(g, p, start)
<1>x. G(x) BY FirstGapOK
<1>F. ASSUME NEW g, G(g)
      PROVE  /\ G(F(g))
             /\ g.cursor = end => F(g).cursor = end
             /\ g.cursor < end => g.cursor < F(g).cursor
  BY <1>F, GapStep
<1>G. \A g : G(g) => g.cursor \in Nat /\ start <= g.cursor /\ g.cursor <= end
  BY DEF GapOK
<1> HIDE DEF x, F, G
<1>2. k \in T
  <2>1. 0 \in T
    <3> DEFINE g == [n \in 0 .. 0 |-> x]
    <3>1. g = [n \in 0 .. 0 |-> IF n = 0 THEN x ELSE F(g[n - 1])] OBVIOUS
    <3>2. Def(0, g) BY <3>1
    <3> HIDE DEF g, Def
    <3> QED BY <3>2
  <2>2. ASSUME NEW m \in T PROVE m + 1 \in T
    <3>1. PICK g : Def(m, g) OBVIOUS
    <3> DEFINE h == [n \in 0 .. m + 1 |-> IF n = m + 1 THEN F(g[m]) ELSE g[n]]
    <3>2. \A n \in 0 .. m + 1 : h[n] = IF n = 0 THEN x ELSE F(h[n - 1])
      BY <3>1
    <3>3. Def(m + 1, h) BY <3>2
    <3> HIDE DEF h, Def
    <3> QED BY <3>3
  <2>3. T \in SUBSET Nat OBVIOUS
  <2> HIDE DEF T, k
  <2>4. T = Nat BY <2>1, <2>2, <2>3, NatSetInduction
  <2> QED BY <2>4, <1>0
<1>3. Def(k, st)
  <2> HIDE DEF Def, k
  <2> QED BY <1>2
<1> HIDE DEF st, k
<1>4. st[0] = x /\ \A n \in 0 .. k : n < k => st[n + 1] = F(st[n]) BY <1>0, <1>3
<1> DEFINE S == {n \in 0 .. k : G(st[n]) /\ (st[n].cursor = end \/ st[n].cursor >= start + n)}
<1>5. 0 \in S
  <2>1. x.cursor >= start + 0 BY <1>x, <1>G, <1>0
  <2> QED BY <2>1, <1>x, <1>4, <1>0
<1>6. ASSUME NEW n \in S, n < k PROVE n + 1 \in S
  <2> DEFINE a == st[n]
             b == st[n + 1]
  <2>1. n \in 0 .. k /\ G(a) /\ (a.cursor = end \/ a.cursor >= start + n) OBVIOUS
  <2>2. b = F(a) /\ n + 1 \in 0 .. k BY <2>1, <1>4, <1>6, <1>0
  <2> HIDE DEF a, b
  <2>3. /\ G(b)
        /\ a.cursor = end => b.cursor = end
        /\ a.cursor < end => a.cursor < b.cursor
    BY <2>1, <2>2, <1>F
  <2>4. b.cursor = end \/ b.cursor >= start + (n + 1)
    <3>1. a.cursor \in Nat /\ a.cursor <= end /\ b.cursor \in Nat BY <2>1, <2>3, <1>G
    <3> QED BY <3>1, <2>1, <2>3, <1>0
  <2> QED BY <2>2, <2>3, <2>4 DEF b
<1>7. k \in S
  <2>1. S \in SUBSET (0 .. k) OBVIOUS
  <2> HIDE DEF S
  <2> QED BY <1>0, <1>5, <1>6, <2>1, IntervalInduction
<1> DEFINE z == st[k]
<1>8. G(z) /\ (z.cursor = end \/ z.cursor >= start + k) BY <1>7
<1>9. insert_missing_gaps(p, start, data) = z.pending BY <1>1
<1> HIDE DEF z
<1>10. z.cursor = end BY <1>8, <1>G, <1>0 DEF k
<1> QED BY <1>8, <1>9, <1>10 DEF G, GapOK, Filled
-----------------------------------------------------------------------------
(* Replacing one part of a sound reassembler. *)
LEMMA Reassembled ==
  ASSUME NEW r, Sound(r), NEW v
  PROVE  /\ [r EXCEPT !.output = v]
              = [output |-> v, pending |-> r.pending, eof_index |-> r.eof_index]
         /\ [r EXCEPT !.pending = v]
              = [output |-> r.output, pending |-> v, eof_index |-> r.eof_index]
         /\ [r EXCEPT !.eof_index = v]
              = [output |-> r.output, pending |-> r.pending, eof_index |-> v]
BY DEF Sound

(* Byte b of the fragment first .. last - 1 is in the window and not assembled yet. *)
Fresh(r, first, last, b) ==
  /\ first <= b /\ b < last
  /\ r.output.bytes_pushed <= b /\ b < first_unacceptable(r)

(***************************************************************************)
(* The fragment adds its fresh bytes; but one with the next byte, which a  *)
(* failed output would have to take, adds none.                            *)
(***************************************************************************)
Stores(t, r, first, last) ==
  \A b \in Nat :
    Holds(t, b) <=> \/ Holds(r, b)
                    \/ /\ Fresh(r, first, last, b)
                       /\ ~ (r.output.error /\ Fresh(r, first, last, r.output.bytes_pushed))

(***************************************************************************)
(* The second half of try_insert: the part of a fragment that lies in the  *)
(* window is stored, and whatever became contiguous is flushed.            *)
(***************************************************************************)
LEMMA StoreClipped ==
  ASSUME NEW r, Sound(r), Flushed(r), NEW first \in Nat, NEW n \in Nat,
         first + n <= U64_MAX, r.eof_index # None => first + n <= r.eof_index
  PROVE  LET t == store_clipped(r, first, Bytes(first, first + n)) IN
         Sound(t) /\ SameFrame(t, r) /\ Flushed(t) /\ Stores(t, r, first, first + n)
<1> DEFINE data == Bytes(first, first + n)
           pushed == r.output.bytes_pushed
           edge == first_unacceptable(r)
           start == max(first, pushed)
           end == min(first + n, edge)
           clipped == Bytes(start, end)
           t == store_clipped(r, first, data)
<1>1. /\ pushed \in Nat /\ edge \in Nat /\ edge <= U64_MAX
      /\ StreamOK(r.output) /\ r.eof_index \in Nat \cup {None}
      /\ Frags(r.pending, edge, r.eof_index)
  BY SoundNumbers DEF Sound
<1>2. start \in Nat /\ end \in Nat /\ first <= start /\ pushed <= start
      /\ end <= first + n /\ end <= edge
  BY <1>1 DEF min, max
<1>3. len(data) = n BY DEF len, Bytes
<1>6. \A b \in Nat : Fresh(r, first, first + n, b) <=> start <= b /\ b < end
  BY <1>1 DEF Fresh, min, max
<1>4. CASE start >= end
  <2>1. t = r BY <1>3, <1>4 DEF store_clipped
  <2>2. SameFrame(r, r) BY <1>1 DEF SameFrame
  <2>3. \A b \in Nat : ~Fresh(r, first, first + n, b)
    <3> HIDE DEF start, end
    <3> QED BY <1>2, <1>4, <1>6
  <2>4. Stores(r, r, first, first + n) BY <2>3 DEF Stores
  <2> QED BY <2>1, <2>2, <2>4
<1>5. CASE start < end
  <2>1. slice(data, start - first, end - first) = clipped
    BY <1>2 DEF slice, Bytes
  <2>2. Segment(start, end, edge, r.eof_index)
    <3>1. r.eof_index # None => end <= r.eof_index BY <1>1, <1>2
    <3> HIDE DEF start, end, edge
    <3> QED BY <1>1, <1>2, <1>5, <3>1 DEF Segment
  <2> DEFINE s == IF start = pushed THEN [r EXCEPT !.output = stream_push(@, clipped)]
                  ELSE [r EXCEPT !.pending = insert_missing_gaps(@, start, clipped)]
  <2>3. t = flush_contiguous(s)
    <3>1. ~ (start >= end) BY <1>2, <1>5
    <3>2. t = IF start >= end THEN r
              ELSE flush_contiguous(
                IF start = pushed
                THEN [r EXCEPT !.output = stream_push(@, slice(data, start - first, end - first))]
                ELSE [r EXCEPT !.pending =
                        insert_missing_gaps(@, start, slice(data, start - first, end - first))])
      BY <1>3 DEF store_clipped
    <3> QED BY <2>1, <3>1, <3>2
  <2> HIDE DEF start, end, t
  <2>4. Sound(s) /\ SameFrame(s, r) /\ Stores(s, r, first, first + n)
    <3>1. CASE start = pushed
      <4> DEFINE out == stream_push(r.output, clipped)
                 a == accepted(r.output, clipped)
      <4>1. s = [output |-> out, pending |-> r.pending, eof_index |-> r.eof_index]
        BY <3>1, Reassembled
      <4>2. clipped \in ByteRuns /\ clipped.lo = pushed /\ clipped.lo <= clipped.hi
            /\ len(clipped) = end - pushed
        BY <1>1, <1>2, <1>5, <3>1 DEF Bytes, ByteRuns, len
      <4>3. /\ a \in Nat /\ a <= end - pushed
            /\ StreamOK(out) /\ out.bytes_pushed = pushed + a
            /\ out.bytes_popped = r.output.bytes_popped /\ out.capacity = r.output.capacity
            /\ out.closed = r.output.closed /\ out.error = r.output.error
        BY <4>2, <1>1, PushKeepsOrder
      <4>4. ~r.output.closed /\ a = IF r.output.error THEN 0 ELSE len(clipped)
        <5>1. r.eof_index # None => end <= r.eof_index BY <2>2 DEF Segment
        <5>2. pushed < end BY <1>5, <3>1
        <5> QED BY <5>1, <5>2, <1>2, <3>1, AcceptedInFull
      <4> HIDE DEF out, a, s, clipped
      <4>5. s.output = out /\ s.pending = r.pending /\ s.eof_index = r.eof_index BY <4>1
      <4>6. first_unacceptable(s) = edge BY <4>3, <4>5 DEF first_unacceptable
      <4>7. r.eof_index # None => out.bytes_pushed <= r.eof_index
        BY <2>2, <4>3, <1>1, <1>2 DEF Segment
      <4>8. Sound(s)
        <5>1. s = [output |-> s.output, pending |-> s.pending, eof_index |-> s.eof_index]
          BY <4>1, <4>5
        <5>2. ~s.output.closed BY <4>3, <4>4, <4>5
        <5> HIDE DEF edge
        <5> QED BY <5>1, <5>2, <4>3, <4>5, <4>6, <4>7, <1>1 DEF Sound
      <4>9. SameFrame(s, r)
        <5>1. r.output.error => out.bytes_pushed = pushed BY <4>3, <4>4, <1>1
        <5> QED BY <5>1, <4>3, <4>5, <1>1 DEF SameFrame
      <4>10. Stores(s, r, first, first + n)
        <5>1. Fresh(r, first, first + n, r.output.bytes_pushed) BY <1>1, <1>5, <1>6, <3>1
        <5> SUFFICES ASSUME NEW b \in Nat
                     PROVE  Holds(s, b) <=> \/ Holds(r, b)
                                            \/ Fresh(r, first, first + n, b) /\ ~r.output.error
          BY <5>1 DEF Stores
        <5>2. Fresh(r, first, first + n, b) <=> pushed <= b /\ b < end BY <1>6, <3>1
        <5>3. CASE r.output.error
          <6>1. out.bytes_pushed = pushed BY <5>3, <4>3, <4>4, <1>1
          <6> QED BY <6>1, <5>3, <4>5 DEF Holds
        <5>4. CASE ~r.output.error
          <6>1. out.bytes_pushed = end BY <5>4, <4>2, <4>3, <4>4, <1>1, <1>2
          <6>2. b < end <=> b < pushed \/ (pushed <= b /\ b < end) BY <1>1, <1>2, <1>5, <3>1
          <6> QED BY <6>1, <6>2, <5>2, <5>4, <4>5 DEF Holds
        <5> QED BY <5>3, <5>4
      <4> QED BY <4>8, <4>9, <4>10
    <3>2. CASE start # pushed
      <4> DEFINE new == insert_missing_gaps(r.pending, start, clipped)
      <4>1. s = [output |-> r.output, pending |-> new, eof_index |-> r.eof_index]
        BY <3>2, Reassembled
      <4>2. /\ Frags(new, edge, r.eof_index)
            /\ \A b \in Nat : Covers(new, b) <=> Covers(r.pending, b) \/ (start <= b /\ b < end)
        <5> HIDE DEF edge
        <5> QED BY <2>2, <1>1, InsertMissingGaps
      <4> HIDE DEF new, s
      <4>3. s.output = r.output /\ s.pending = new /\ s.eof_index = r.eof_index BY <4>1
      <4>4. first_unacceptable(s) = edge BY <4>3 DEF first_unacceptable
      <4>5. Sound(s)
        <5>1. s = [output |-> s.output, pending |-> s.pending, eof_index |-> s.eof_index]
          BY <4>1, <4>3
        <5> QED BY <5>1, <4>2, <4>3, <4>4 DEF Sound
      <4>6. SameFrame(s, r) BY <4>3, <1>1 DEF SameFrame
      <4>7. Stores(s, r, first, first + n)
        <5>1. ~Fresh(r, first, first + n, r.output.bytes_pushed) BY <1>1, <1>2, <1>6, <3>2
        <5> SUFFICES ASSUME NEW b \in Nat
                     PROVE  Holds(s, b) <=> Holds(r, b) \/ Fresh(r, first, first + n, b)
          BY <5>1 DEF Stores
        <5> QED BY <1>6, <4>2, <4>3 DEF Holds
      <4> QED BY <4>5, <4>6, <4>7
    <3> QED BY <3>1, <3>2
  <2> HIDE DEF s
  <2>5. Sound(t) /\ SameFrame(t, s) /\ SameBytes(t, s) /\ Flushed(t)
    BY <2>3, <2>4, FlushContiguous
  <2>6. SameFrame(t, r)
    <3>1. t.output.bytes_pushed \in Nat /\ s.output.bytes_pushed \in Nat
      BY <2>4, <2>5, SoundNumbers
    <3> QED BY <3>1, <1>1, <2>4, <2>5 DEF SameFrame
  <2>7. Stores(t, r, first, first + n) BY <2>4, <2>5 DEF Stores, SameBytes
  <2> QED BY <2>5, <2>6, <2>7 DEF t
<1> QED BY <1>2, <1>4, <1>5

(***************************************************************************)
(* A reassembler between two calls: sound, flushed, and closed exactly     *)
(* when the output has reached the end of the stream.                      *)
(***************************************************************************)
Whole(r) ==
  /\ Sound(r)
  /\ Flushed(r)
  /\ r.output.closed <=> r.eof_index = r.output.bytes_pushed

(* close_if_complete closes a stream that is complete and changes nothing else. *)
LEMMA CloseIfComplete ==
  ASSUME NEW r, Sound(r), Flushed(r)
  PROVE  LET t == close_if_complete(r) IN
         /\ Whole(t)
         /\ t.eof_index = r.eof_index /\ t.output.capacity = r.output.capacity
         /\ t.output.bytes_pushed = r.output.bytes_pushed
         /\ t.output.bytes_popped = r.output.bytes_popped
         /\ t.output.error = r.output.error
         /\ SameBytes(t, r)
<1> DEFINE t == close_if_complete(r)
<1>1. r.output \in Streams /\ Contiguous(r.output) /\ r.output.bytes_pushed \in Nat
  BY SoundNumbers
<1>2. CASE r.eof_index # None /\ r.output.bytes_pushed = r.eof_index
  <2> DEFINE out == [r.output EXCEPT !.closed = TRUE]
  <2>1. t = [output |-> out, pending |-> r.pending, eof_index |-> r.eof_index]
    BY <1>2, Reassembled DEF close_if_complete, stream_close
  <2>2. /\ out \in Streams /\ out.closed = TRUE /\ out.error = r.output.error
        /\ out.capacity = r.output.capacity /\ out.bytes_pushed = r.output.bytes_pushed
        /\ out.bytes_popped = r.output.bytes_popped /\ out.chunks = r.output.chunks
        /\ out.bytes_buffered = r.output.bytes_buffered
    BY <1>1 DEF Streams
  <2> HIDE DEF out, t
  <2>3. StreamOK(out) BY <2>2, <1>1 DEF StreamOK, Contiguous
  <2>4. t.output = out /\ t.pending = r.pending /\ t.eof_index = r.eof_index BY <2>1
  <2>5. first_unacceptable(t) = first_unacceptable(r)
    BY <2>2, <2>4 DEF first_unacceptable
  <2>6. Sound(t)
    <3>1. t = [output |-> t.output, pending |-> t.pending, eof_index |-> t.eof_index]
      BY <2>1, <2>4
    <3> QED BY <3>1, <2>2, <2>3, <2>4, <2>5, <1>2 DEF Sound
  <2>7. Flushed(t) BY <2>2, <2>4 DEF Flushed
  <2>8. SameBytes(t, r) BY <2>2, <2>4 DEF SameBytes, Holds
  <2> QED BY <2>2, <2>4, <2>6, <2>7, <2>8, <1>2 DEF Whole, t
<1>3. CASE ~ (r.eof_index # None /\ r.output.bytes_pushed = r.eof_index)
  <2>1. t = r BY <1>3 DEF close_if_complete
  <2>2. r.eof_index # r.output.bytes_pushed BY <1>1, <1>3 DEF None
  <2>3. ~r.output.closed BY <2>2 DEF Sound
  <2> QED BY <2>1, <2>2, <2>3 DEF Whole, SameBytes
<1> QED BY <1>2, <1>3

(***************************************************************************)
(* A fragment first .. last - 1 that agrees with what is known of the end  *)
(* of the stream, and whose last index is a u64.                           *)
(***************************************************************************)
Agrees(r, last, is_last) ==
  /\ last <= U64_MAX
  /\ r.eof_index # None => IF is_last THEN last = r.eof_index ELSE last <= r.eof_index
  /\ is_last => \A b \in Nat : Holds(r, b) => b < last

(* The checks of try_insert refuse exactly the fragments that do not agree. *)
LEMMA VerdictAgrees ==
  ASSUME NEW r, Whole(r), NEW first \in Nat, NEW n \in Nat, NEW is_last \in BOOLEAN
  PROVE  insert_result(r, first, Bytes(first, first + n), is_last) = "Ok"
           <=> Agrees(r, first + n, is_last)
<1> DEFINE data == Bytes(first, first + n)
           last == first + n
           eof == IF is_last THEN last ELSE r.eof_index
           v == eof_verdict(r, last, is_last)
           verdict == insert_result(r, first, data, is_last)
           pushed == r.output.bytes_pushed
           p == r.pending
<1>1. /\ pushed \in Nat /\ r.eof_index \in Nat \cup {None} /\ last \in Nat /\ U64_MAX \in Nat
      /\ r.eof_index # None => pushed <= r.eof_index
  BY SoundNumbers, U64Assumption DEF Whole, Sound, U64Assumption
<1>2. \A k \in DOMAIN p : /\ k \in Nat /\ p[k].hi \in Nat /\ k < p[k].hi
                          /\ FragmentEnd(p, k) = p[k].hi
                          /\ r.eof_index # None => p[k].hi <= r.eof_index
  <2>1. /\ Frags(p, first_unacceptable(r), r.eof_index)
        /\ first_unacceptable(r) \in Nat /\ first_unacceptable(r) <= U64_MAX
    BY SoundNumbers DEF Whole, Sound
  <2>2. \A k \in DOMAIN p : k \in Nat /\ p[k].hi \in Nat /\ FragmentEnd(p, k) = p[k].hi
    BY <2>1, FragmentEnds
  <2> QED BY <2>1, <2>2 DEF Frags
<1>3. verdict = IF last > U64_MAX THEN "IndexOverflow" ELSE IF v # "Ok" THEN v
                ELSE IF eof # None /\ last > eof THEN "SegmentBeyondEof" ELSE "Ok"
  <2>1. len(data) = n BY DEF len, Bytes
  <2> QED BY <2>1 DEF insert_result
<1>4. CASE last > U64_MAX
  <2>1. ~ (last <= U64_MAX) BY <1>1, <1>4
  <2>2. verdict # "Ok" BY <1>3, <1>4
  <2> QED BY <2>1, <2>2 DEF Agrees
<1>5. CASE ~ (last > U64_MAX)
  <2>1. last <= U64_MAX BY <1>1, <1>5
  <2>2. CASE ~is_last
    <3>1. v = "Ok" /\ eof = r.eof_index BY <2>2 DEF eof_verdict
    <3>2. verdict = "Ok" <=> (r.eof_index = None \/ ~ (last > r.eof_index))
      BY <3>1, <1>3, <1>5
    <3>3. r.eof_index = None \/ ~ (last > r.eof_index) <=> (r.eof_index # None => last <= r.eof_index)
      BY <1>1
    <3> HIDE DEF last, verdict
    <3> QED BY <3>2, <3>3, <2>1, <2>2 DEF Agrees, last, verdict
  <2>3. CASE is_last /\ r.eof_index = last
    <3>1. v = "Ok" /\ eof = last BY <2>3 DEF eof_verdict
    <3>2. verdict = "Ok" BY <3>1, <1>1, <1>3, <1>5
    <3>3. ASSUME NEW b \in Nat, Holds(r, b) PROVE b < last
      <4>1. r.eof_index # None BY <2>3, <1>1 DEF None
      <4> HIDE DEF last
      <4>2. CASE b < pushed BY <4>1, <4>2, <2>3, <1>1
      <4>3. ASSUME NEW k \in DOMAIN p, b < p[k].hi PROVE b < last
        BY <4>1, <4>3, <2>3, <1>1, <1>2
      <4> QED BY <4>2, <4>3, <3>3 DEF Holds, Covers
    <3> HIDE DEF last, verdict
    <3> QED BY <3>2, <3>3, <2>1, <2>3 DEF Agrees, last, verdict
  <2>4. CASE is_last /\ r.eof_index # last /\ r.eof_index # None
    <3>1. v = "InconsistentEof" BY <2>4 DEF eof_verdict
    <3>2. verdict # "Ok" BY <3>1, <1>3, <1>5
    <3> HIDE DEF verdict
    <3> QED BY <3>2, <2>4 DEF Agrees, verdict
  <2>5. CASE is_last /\ r.eof_index # last /\ r.eof_index = None
    <3> DEFINE beyond == \E k \in DOMAIN p : FragmentEnd(p, k) > last
    <3>1. v = IF pushed > last THEN "BufferedDataBeyondEof"
              ELSE IF beyond THEN "BufferedDataBeyondEof" ELSE "Ok"
      <4> HIDE DEF last
      <4> QED BY <2>5 DEF eof_verdict
    <3>2. eof = last /\ ~ (last > last) BY <2>5, <1>1
    <3>3. v = "Ok" <=> ~ (pushed > last) /\ ~beyond
      <4> HIDE DEF beyond, pushed, v, last
      <4> QED BY <3>1
    <3>4. verdict = "Ok" <=> v = "Ok"
      <4> HIDE DEF v, last, eof, verdict
      <4> QED BY <3>2, <1>3, <1>5
    <3>5. ASSUME ~ (pushed > last), ~beyond, NEW b \in Nat, Holds(r, b) PROVE b < last
      <4> HIDE DEF last
      <4>1. CASE b < pushed BY <4>1, <3>5, <1>1
      <4>2. ASSUME NEW k \in DOMAIN p, b < p[k].hi PROVE b < last
        BY <4>2, <3>5, <1>1, <1>2
      <4> QED BY <4>1, <4>2, <3>5 DEF Holds, Covers
    <3>6. ASSUME \A b \in Nat : Holds(r, b) => b < last PROVE ~ (pushed > last) /\ ~beyond
      <4> HIDE DEF last
      <4>1. ~ (pushed > last) BY <3>6, <1>1 DEF Holds
      <4>2. ASSUME NEW k \in DOMAIN p, p[k].hi > last PROVE FALSE
        <5> DEFINE h == p[k].hi
        <5>1. h \in Nat /\ k \in Nat /\ k < h /\ h > last BY <4>2, <1>2
        <5> HIDE DEF h
        <5>2. h - 1 \in Nat /\ k <= h - 1 /\ h - 1 < h BY <5>1
        <5>3. Holds(r, h - 1) BY <5>2 DEF Holds, Covers, h
        <5>4. h - 1 < last BY <5>2, <5>3, <3>6
        <5> QED BY <5>1, <5>4, <1>1
      <4> QED BY <4>1, <4>2, <1>2
    <3>7. Agrees(r, last, is_last) <=> \A b \in Nat : Holds(r, b) => b < last
      <4> HIDE DEF last
      <4> QED BY <2>1, <2>5 DEF Agrees
    <3> HIDE DEF v, last, verdict, beyond
    <3> QED BY <3>3, <3>4, <3>5, <3>6, <3>7 DEF last, verdict
  <2> QED BY <2>2, <2>3, <2>4, <2>5
<1> QED BY <1>4, <1>5

(* try_insert, whatever the fragment and whatever its end mark. *)
LEMMA TryInsert ==
  ASSUME NEW r, Whole(r), NEW first \in Nat, NEW n \in Nat, NEW is_last \in BOOLEAN
  PROVE  LET t == try_insert(r, first, Bytes(first, first + n), is_last) IN
         /\ Whole(t)
         /\ t.output.capacity = r.output.capacity
         /\ t.output.bytes_pushed >= r.output.bytes_pushed
         /\ r.eof_index # None => t.eof_index = r.eof_index
         /\ t.output.bytes_popped = r.output.bytes_popped /\ t.output.error = r.output.error
         /\ IF Agrees(r, first + n, is_last)
            THEN /\ t.eof_index = IF is_last THEN first + n ELSE r.eof_index
                 /\ Stores(t, r, first, first + n)
                 /\ r.output.error => t.output.bytes_pushed = r.output.bytes_pushed
            ELSE t = r
<1> DEFINE data == Bytes(first, first + n)
           last == first + n
           t == try_insert(r, first, data, is_last)
           verdict == insert_result(r, first, data, is_last)
<1>1. /\ Sound(r) /\ Flushed(r) /\ (r.output.closed <=> r.eof_index = r.output.bytes_pushed)
      /\ r.output.bytes_pushed \in Nat /\ first_unacceptable(r) \in Nat
      /\ first_unacceptable(r) <= U64_MAX /\ r.eof_index \in Nat \cup {None}
      /\ Frags(r.pending, first_unacceptable(r), r.eof_index) /\ StreamOK(r.output)
  BY SoundNumbers DEF Whole, Sound
<1>4. verdict = "Ok" <=> Agrees(r, last, is_last) BY VerdictAgrees
<1>2. CASE verdict # "Ok"
  <2>1. t = r BY <1>2 DEF try_insert
  <2> QED BY <2>1, <1>1, <1>2, <1>4
<1>3. CASE verdict = "Ok"
  <2> DEFINE eof == IF is_last THEN last ELSE r.eof_index
             s == [r EXCEPT !.eof_index = IF is_last THEN last ELSE @]
  <2>1. /\ last <= U64_MAX /\ eof_verdict(r, last, is_last) = "Ok"
        /\ eof # None => last <= eof
    <3>1. len(data) = n BY DEF len, Bytes
    <3>2. last \in Nat OBVIOUS
    <3>3. verdict = IF last > U64_MAX THEN "IndexOverflow"
                    ELSE IF eof_verdict(r, last, is_last) # "Ok"
                    THEN eof_verdict(r, last, is_last)
                    ELSE IF eof # None /\ last > eof THEN "SegmentBeyondEof" ELSE "Ok"
      BY <3>1 DEF insert_result
    <3>4. eof \in Nat \cup {None} BY <3>2, <1>1
    <3> HIDE DEF verdict, last, eof
    <3>5. ~ (last > U64_MAX) BY <3>3, <1>3
    <3>6. eof_verdict(r, last, is_last) = "Ok" BY <3>3, <3>5, <1>3
    <3>7. ~ (eof # None /\ last > eof) BY <3>3, <3>5, <3>6, <1>3
    <3> QED BY <3>2, <3>4, <3>5, <3>6, <3>7, U64Assumption DEF U64Assumption, None
  <2>2. t = close_if_complete(store_clipped(s, first, data))
    <3>1. len(data) = n BY DEF len, Bytes
    <3>2. t = IF insert_result(r, first, data, is_last) # "Ok" THEN r
              ELSE close_if_complete(store_clipped(
                     [r EXCEPT !.eof_index = IF is_last THEN first + n ELSE @], first, data))
      BY <3>1 DEF try_insert
    <3> QED BY <3>2, <1>3
  <2>3. s = [output |-> r.output, pending |-> r.pending, eof_index |-> eof]
    <3>1. s = [r EXCEPT !.eof_index = eof] OBVIOUS
    <3> HIDE DEF eof, s
    <3> QED BY <3>1, <1>1, Reassembled
  <2>4. /\ r.eof_index # None => eof = r.eof_index
        /\ eof # None => r.output.bytes_pushed <= eof
        /\ \A k \in DOMAIN r.pending : eof # None => r.pending[k].hi <= eof
    <3>1. CASE ~is_last \/ r.eof_index = last
      <4>1. eof = r.eof_index BY <3>1
      <4> QED BY <4>1, <1>1 DEF Sound, Frags
    <3>2. CASE is_last /\ r.eof_index # last
      <4>1. eof = last /\ last \in Nat BY <3>2
      <4>2. \A k \in DOMAIN r.pending : FragmentEnd(r.pending, k) = r.pending[k].hi
                                        /\ r.pending[k].hi \in Nat
        BY <1>1, FragmentEnds
      <4>3. /\ r.eof_index = None /\ ~ (r.output.bytes_pushed > last)
            /\ ~ \E k \in DOMAIN r.pending : FragmentEnd(r.pending, k) > last
        <5> HIDE DEF last
        <5>1. eof_verdict(r, last, is_last)
                = IF r.eof_index # None THEN "InconsistentEof"
                  ELSE IF r.output.bytes_pushed > last THEN "BufferedDataBeyondEof"
                  ELSE IF \E k \in DOMAIN r.pending : FragmentEnd(r.pending, k) > last
                  THEN "BufferedDataBeyondEof" ELSE "Ok"
          BY <3>2 DEF eof_verdict
        <5> QED BY <5>1, <2>1
      <4> HIDE DEF eof, last
      <4> QED BY <4>1, <4>2, <4>3, <1>1
    <3> QED BY <3>1, <3>2
  <2>5. eof \in Nat \cup {None} BY <1>1
  <2> HIDE DEF s, eof
  <2>6. s.output = r.output /\ s.pending = r.pending /\ s.eof_index = eof BY <2>3
  <2>7. first_unacceptable(s) = first_unacceptable(r) BY <2>6 DEF first_unacceptable
  <2>8. Sound(s)
    <3>1. s = [output |-> s.output, pending |-> s.pending, eof_index |-> s.eof_index]
      BY <2>3, <2>6
    <3>2. Frags(s.pending, first_unacceptable(s), s.eof_index)
      BY <2>4, <2>6, <2>7, <1>1 DEF Frags
    <3>3. r.output.closed => r.eof_index # None BY <1>1 DEF None
    <3>4. s.output.closed => s.eof_index = s.output.bytes_pushed
      BY <3>3, <2>4, <2>6, <1>1
    <3>5. s.eof_index # None => s.output.bytes_pushed <= s.eof_index BY <2>4, <2>6
    <3> QED BY <3>1, <3>2, <3>4, <3>5, <2>5, <2>6, <1>1 DEF Sound
  <2>9. Flushed(s) BY <2>6, <1>1 DEF Flushed
  <2> DEFINE u == store_clipped(s, first, data)
  <2>10. Sound(u) /\ SameFrame(u, s) /\ Flushed(u) /\ Stores(u, s, first, last)
    BY <2>1, <2>6, <2>8, <2>9, StoreClipped
  <2> HIDE DEF u
  <2>11. /\ Whole(close_if_complete(u))
         /\ close_if_complete(u).eof_index = u.eof_index
         /\ close_if_complete(u).output.capacity = u.output.capacity
         /\ close_if_complete(u).output.bytes_pushed = u.output.bytes_pushed
         /\ close_if_complete(u).output.bytes_popped = u.output.bytes_popped
         /\ close_if_complete(u).output.error = u.output.error
         /\ SameBytes(close_if_complete(u), u)
    BY <2>10, CloseIfComplete
  <2>12. t = close_if_complete(u) BY <2>2 DEF u
  <2> HIDE DEF t, last
  <2>13. Stores(t, r, first, last)
    <3>1. \A b : Holds(s, b) <=> Holds(r, b) BY <2>6 DEF Holds
    <3>2. \A b : Fresh(s, first, last, b) <=> Fresh(r, first, last, b)
      BY <2>6, <2>7 DEF Fresh
    <3> QED BY <3>1, <3>2, <2>6, <2>10, <2>11, <2>12 DEF Stores, SameBytes
  <2>14. t.eof_index = eof BY <2>6, <2>10, <2>11, <2>12 DEF SameFrame
  <2> QED
    BY <2>4, <2>6, <2>10, <2>11, <2>12, <2>13, <2>14, <1>3, <1>4 DEF SameFrame, eof, last, t
<1> QED BY <1>2, <1>3

(* The empty fragment has no bytes, wherever its payload points. *)
LEMMA EmptyFragment ==
  ASSUME NEW r, Whole(r), NEW first \in Nat, NEW d \in ByteRuns, d.lo = d.hi, NEW is_last
  PROVE  LET e == Bytes(first, first + 0) IN
         /\ try_insert(r, first, d, is_last) = try_insert(r, first, e, is_last)
         /\ insert_result(r, first, d, is_last) = insert_result(r, first, e, is_last)
<1> DEFINE e == Bytes(first, first + 0)
           s == [r EXCEPT !.eof_index = IF is_last THEN first ELSE @]
<1>1. len(d) = 0 /\ len(e) = 0 BY DEF len, ByteRuns, Bytes
<1>2. /\ r.output.bytes_pushed \in Nat /\ first_unacceptable(r) \in Nat /\ Sound(r)
  BY SoundNumbers DEF Whole
<1>3. s.output = r.output
  <2>1. s = [output |-> r.output, pending |-> r.pending,
             eof_index |-> IF is_last THEN first ELSE r.eof_index]
    BY <1>2, Reassembled
  <2> QED BY <2>1
<1>4. first_unacceptable(s) = first_unacceptable(r) BY <1>3 DEF first_unacceptable
<1> HIDE DEF s, e
<1>5. \A x : len(x) = 0 => store_clipped(s, first, x) = s
  <2> SUFFICES ASSUME NEW x, len(x) = 0 PROVE store_clipped(s, first, x) = s OBVIOUS
  <2>1. max(first, s.output.bytes_pushed) >= min(first + len(x), first_unacceptable(s))
    BY <1>2, <1>3, <1>4 DEF max, min
  <2> QED BY <2>1 DEF store_clipped
<1>6. insert_result(r, first, d, is_last) = insert_result(r, first, e, is_last)
  BY <1>1 DEF insert_result
<1>7. \A x : len(x) = 0 => try_insert(r, first, x, is_last) =
        IF insert_result(r, first, x, is_last) # "Ok" THEN r ELSE close_if_complete(s)
  <2> SUFFICES ASSUME NEW x, len(x) = 0
               PROVE  try_insert(r, first, x, is_last) =
                        IF insert_result(r, first, x, is_last) # "Ok" THEN r
                        ELSE close_if_complete(s)
    OBVIOUS
  <2>1. try_insert(r, first, x, is_last) =
          IF insert_result(r, first, x, is_last) # "Ok" THEN r
          ELSE close_if_complete(store_clipped(
                 [r EXCEPT !.eof_index = IF is_last THEN first + len(x) ELSE @], first, x))
    BY DEF try_insert
  <2>2. first + len(x) = first OBVIOUS
  <2> QED BY <2>1, <2>2, <1>5 DEF s
<1> QED BY <1>1, <1>6, <1>7 DEF e
-----------------------------------------------------------------------------
(* The empty reassembler is whole. *)
LEMMA NewReassembler ==
  ASSUME NEW capacity \in Nat
  PROVE  LET r == new_reassembler(capacity) IN
         /\ Whole(r) /\ r.output = new_stream(capacity) /\ r.eof_index = None
         /\ \A b \in Nat : ~Holds(r, b)
<1> DEFINE o == new_stream(capacity)
           r == new_reassembler(capacity)
<1>1. r = [output |-> o, pending |-> EmptyMap, eof_index |-> None] BY DEF new_reassembler
<1>2. /\ o \in Streams /\ o.capacity = capacity /\ o.chunks = <<>> /\ o.bytes_pushed = 0
      /\ o.bytes_popped = 0 /\ o.bytes_buffered = 0 /\ o.closed = FALSE /\ o.error = FALSE
  BY DEF new_stream, Streams
<1> HIDE DEF o, r
<1>3. StreamOK(o) BY <1>2 DEF StreamOK, Contiguous
<1>4. DOMAIN EmptyMap = {} /\ EmptyMap = [k \in DOMAIN EmptyMap |-> EmptyMap[k]]
  BY DEF EmptyMap
<1>5. /\ r.output = o /\ r.pending = EmptyMap /\ r.eof_index = None
      /\ r = [output |-> r.output, pending |-> r.pending, eof_index |-> r.eof_index]
  BY <1>1
<1>6. Frags(EmptyMap, first_unacceptable(r), None) BY <1>4 DEF Frags
<1>7. Sound(r) BY <1>2, <1>3, <1>5, <1>6 DEF Sound
<1>8. Flushed(r) BY <1>4, <1>5 DEF Flushed
<1>9. Whole(r) BY <1>2, <1>5, <1>7, <1>8 DEF Whole, None
<1>10. \A b \in Nat : ~Holds(r, b) BY <1>2, <1>4, <1>5 DEF Holds, Covers
<1> QED BY <1>5, <1>9, <1>10 DEF o, r

(* Reading from the output moves the edge of the window up and nothing else. *)
LEMMA PopKeepsWhole ==
  ASSUME NEW r, Whole(r), NEW n \in Nat
  PROVE  LET out == stream_pop(r.output, n)
             t == [r EXCEPT !.output = out] IN
         /\ Whole(t) /\ SameBytes(t, r)
         /\ t.output = out /\ t.pending = r.pending /\ t.eof_index = r.eof_index
         /\ out.bytes_pushed = r.output.bytes_pushed /\ out.capacity = r.output.capacity
         /\ out.bytes_popped >= r.output.bytes_popped
         /\ out.closed = r.output.closed /\ out.error = r.output.error
<1> DEFINE out == stream_pop(r.output, n)
           t == [r EXCEPT !.output = out]
<1>1. Sound(r) /\ Flushed(r) BY DEF Whole
<1>2. /\ StreamOK(out) /\ out.bytes_pushed = r.output.bytes_pushed
      /\ out.bytes_popped >= r.output.bytes_popped /\ out.capacity = r.output.capacity
      /\ out.closed = r.output.closed /\ out.error = r.output.error
  BY <1>1, PopKeepsOrder DEF Sound
<1> HIDE DEF out
<1>3. t = [output |-> out, pending |-> r.pending, eof_index |-> r.eof_index]
  BY <1>1, Reassembled
<1>4. t.output = out /\ t.pending = r.pending /\ t.eof_index = r.eof_index BY <1>3
<1>5. t = [output |-> t.output, pending |-> t.pending, eof_index |-> t.eof_index]
  BY <1>3, <1>4
<1> HIDE DEF t
<1>6. /\ first_unacceptable(r) \in Nat /\ first_unacceptable(t) \in Nat
      /\ first_unacceptable(r) <= first_unacceptable(t)
  <2>1. /\ r.output.bytes_popped \in Nat /\ r.output.capacity \in Nat
        /\ out.bytes_popped \in Nat
    BY <1>1, <1>2, SoundNumbers DEF StreamOK, Streams
  <2> QED BY <2>1, <1>2, <1>4, U64Assumption
          DEF first_unacceptable, saturating_add, min, U64Assumption
<1>7. Frags(t.pending, first_unacceptable(t), t.eof_index)
  <2>1. Frags(r.pending, first_unacceptable(r), r.eof_index) BY <1>1 DEF Sound
  <2>2. \A k \in DOMAIN r.pending : r.pending[k].hi <= first_unacceptable(t)
    <3> SUFFICES ASSUME NEW k \in DOMAIN r.pending
                 PROVE  r.pending[k].hi <= first_unacceptable(t)
      OBVIOUS
    <3>1. r.pending[k].hi \in Nat /\ r.pending[k].hi <= first_unacceptable(r)
      BY <2>1 DEF Frags, ByteRuns
    <3> QED BY <3>1, <1>6
  <2> QED BY <2>1, <2>2, <1>4 DEF Frags
<1>8. Sound(t) BY <1>1, <1>2, <1>4, <1>5, <1>7 DEF Sound
<1>9. Flushed(t) BY <1>1, <1>2, <1>4 DEF Flushed
<1>10. Whole(t) BY <1>2, <1>4, <1>8, <1>9 DEF Whole
<1>11. SameBytes(t, r) BY <1>2, <1>4 DEF SameBytes, Holds
<1> QED BY <1>2, <1>4, <1>10, <1>11 DEF t, out

(* The error mark changes nothing else. *)
LEMMA FailKeepsWhole ==
  ASSUME NEW r, Whole(r)
  PROVE  LET out == stream_set_error(r.output)
             t == [r EXCEPT !.output = out] IN
         /\ Whole(t) /\ SameBytes(t, r)
         /\ t.output = out /\ t.pending = r.pending /\ t.eof_index = r.eof_index
         /\ out.bytes_pushed = r.output.bytes_pushed /\ out.capacity = r.output.capacity
         /\ out.bytes_popped = r.output.bytes_popped
         /\ out.closed = r.output.closed /\ out.error
<1> DEFINE out == stream_set_error(r.output)
           t == [r EXCEPT !.output = out]
<1>1. Sound(r) /\ Flushed(r) /\ StreamOK(r.output) BY DEF Whole, Sound
<1>2. /\ StreamOK(out) /\ out.error /\ out.closed = r.output.closed
      /\ out.capacity = r.output.capacity /\ out.bytes_pushed = r.output.bytes_pushed
      /\ out.bytes_popped = r.output.bytes_popped
  BY <1>1, MarkKeepsOrder
<1> HIDE DEF out
<1>3. t = [output |-> out, pending |-> r.pending, eof_index |-> r.eof_index]
  BY <1>1, Reassembled
<1>4. t.output = out /\ t.pending = r.pending /\ t.eof_index = r.eof_index BY <1>3
<1>5. t = [output |-> t.output, pending |-> t.pending, eof_index |-> t.eof_index]
  BY <1>3, <1>4
<1> HIDE DEF t
<1>6. first_unacceptable(t) = first_unacceptable(r) BY <1>2, <1>4 DEF first_unacceptable
<1>7. Sound(t) BY <1>1, <1>2, <1>4, <1>5, <1>6 DEF Sound
<1>8. Flushed(t) BY <1>1, <1>2, <1>4 DEF Flushed
<1>9. Whole(t) BY <1>2, <1>4, <1>7, <1>8 DEF Whole
<1>10. SameBytes(t, r) BY <1>2, <1>4 DEF SameBytes, Holds
<1> QED BY <1>2, <1>4, <1>9, <1>10 DEF t, out

-----------------------------------------------------------------------------
(***************************************************************************)
(* Part 3.  The sender.                                                   *)
(***************************************************************************)

(***************************************************************************)
(* Message m, sent by s from absolute sequence number a on, carries what   *)
(* the sequence space has there, and s has given out those numbers.        *)
(***************************************************************************)
Carries(s, m, a) ==
  /\ m \in Messages /\ a \in Nat /\ m.payload.lo <= m.payload.hi
  /\ m.seqno = wrap(a, s.isn)
  /\ m.syn <=> a = 0
  /\ len(m.payload) > 0 => /\ m.payload.lo = a + One(m.syn) - 1
                           /\ m.payload.hi <= s.outbound.bytes_popped
  /\ a + sequence_length(m) <= s.snd_nxt
  /\ m.fin => s.fin_sent /\ a + sequence_length(m) = s.snd_nxt
  /\ m.rst => s.outbound.error

(* The queue is the sequence space in flight. *)
Flight(s) ==
  /\ s.snd_una <= s.snd_nxt
  /\ s.outstanding = <<>> => s.snd_una = s.snd_nxt
  /\ s.outstanding # <<>> =>
       /\ s.outstanding[1].absolute_start = s.snd_una
       /\ absolute_end(s.outstanding[Len(s.outstanding)]) = s.snd_nxt
  /\ \A i \in 1 .. Len(s.outstanding) :
       /\ sequence_length(s.outstanding[i].message) > 0
       /\ Carries(s, s.outstanding[i].message, s.outstanding[i].absolute_start)
  /\ \A i \in 1 .. Len(s.outstanding) - 1 :
       absolute_end(s.outstanding[i]) = s.outstanding[i + 1].absolute_start

(* The sequence numbers given out are those of SYN, the bytes popped and FIN. *)
Accounting(s) ==
  /\ s.snd_nxt = One(s.syn_sent) + s.outbound.bytes_popped + One(s.fin_sent)
  /\ s.outbound.bytes_popped > 0 \/ s.fin_sent => s.syn_sent
  /\ s.fin_sent => stream_is_finished(s.outbound)

(* The timer runs exactly while something is in flight, in the window's mode. *)
Armed(s) ==
  /\ s.timer.running <=> s.outstanding # <<>>
  /\ s.timer.running =>
       /\ s.timer.mode = IF s.advertised_window = 0 THEN "Persist" ELSE "Retransmission"
       /\ s.timer.timeout_ms \in INITIAL_RTO .. MAX_TIMER_INTERVAL
       /\ s.timer.elapsed_ms < s.timer.timeout_ms

(* All of this but the timer, which a handler restarts last. *)
Placed(s) == s \in Senders /\ StreamOK(s.outbound) /\ Flight(s) /\ Accounting(s)

SenderOK(s) == Placed(s) /\ Armed(s)

(* From s to t a sender gives out numbers and takes none back. *)
Grows(s, t) ==
  /\ t.isn = s.isn /\ s.snd_nxt <= t.snd_nxt
  /\ s.outbound.bytes_popped <= t.outbound.bytes_popped
  /\ s.fin_sent => t.fin_sent /\ t.snd_nxt = s.snd_nxt
  /\ s.outbound.error => t.outbound.error

(* What the application and the network did to the outbound stream is as before. *)
SameWriting(s, t) ==
  /\ t.outbound.bytes_pushed = s.outbound.bytes_pushed
  /\ t.outbound.closed = s.outbound.closed /\ t.outbound.error = s.outbound.error

(* The fields that Placed reads. *)
Core(s) == <<s.outbound, s.isn, s.snd_una, s.snd_nxt, s.outstanding, s.syn_sent, s.fin_sent>>
-----------------------------------------------------------------------------
(* The configuration, as numbers. *)
LEMMA ConfigNumbers ==
  /\ INITIAL_RTO \in Nat /\ INITIAL_RTO > 0 /\ MAX_TIMER_INTERVAL \in Nat
  /\ INITIAL_RTO <= MAX_TIMER_INTERVAL /\ MAX_PAYLOAD_SIZE \in Nat /\ MAX_PAYLOAD_SIZE > 0
  /\ RETX_MAX \in Nat /\ U64_MAX \in Nat
BY SenderConfigAssumption, U64Assumption DEF SenderConfigAssumption, U64Assumption

(* A sequence with one more element. *)
LEMMA Appended ==
  ASSUME NEW S, NEW q \in Seq(S), NEW x \in S
  PROVE  /\ Append(q, x) \in Seq(S) /\ Append(q, x) # <<>>
         /\ Len(q) \in Nat /\ Len(Append(q, x)) = Len(q) + 1
         /\ Append(q, x)[Len(q) + 1] = x
         /\ \A i \in 1 .. Len(q) : Append(q, x)[i] = q[i]
OBVIOUS

(* The length of a message in sequence numbers. *)
LEMMA MessageLength ==
  ASSUME NEW m \in Messages, m.payload.lo <= m.payload.hi
  PROVE  /\ len(m.payload) \in Nat /\ sequence_length(m) \in Nat
         /\ One(m.syn) \in Nat /\ One(m.fin) \in Nat
         /\ sequence_length(m) = One(m.syn) + len(m.payload) + One(m.fin)
         /\ m.payload \in ByteRuns /\ m.payload.lo \in Nat /\ m.payload.hi \in Nat
         /\ m.payload.hi = m.payload.lo + len(m.payload)
<1>1. m.payload \in ByteRuns BY DEF Messages
<1>2. m.payload.lo \in Nat /\ m.payload.hi \in Nat BY <1>1 DEF ByteRuns
<1> QED BY <1>1, <1>2 DEF len, sequence_length, One

(* A message keeps its place while its sender goes on. *)
LEMMA CarriedOn ==
  ASSUME NEW s, NEW t, NEW m, NEW a, Carries(s, m, a), Grows(s, t),
         s.snd_nxt \in Nat, t.snd_nxt \in Nat,
         s.outbound.bytes_popped \in Nat, t.outbound.bytes_popped \in Nat
  PROVE  Carries(t, m, a)
<1>1. /\ m \in Messages /\ a \in Nat /\ m.payload.lo <= m.payload.hi
      /\ m.seqno = wrap(a, s.isn)
      /\ m.syn <=> a = 0
      /\ len(m.payload) > 0 => /\ m.payload.lo = a + One(m.syn) - 1
                               /\ m.payload.hi <= s.outbound.bytes_popped
      /\ a + sequence_length(m) <= s.snd_nxt
      /\ m.fin => s.fin_sent /\ a + sequence_length(m) = s.snd_nxt
      /\ m.rst => s.outbound.error
  BY DEF Carries
<1>2. sequence_length(m) \in Nat /\ m.payload.hi \in Nat BY <1>1, MessageLength
<1>3. a + sequence_length(m) <= t.snd_nxt BY <1>1, <1>2 DEF Grows
<1>4. m.fin => t.fin_sent /\ a + sequence_length(m) = t.snd_nxt BY <1>1 DEF Grows
<1>5. len(m.payload) > 0 => m.payload.hi <= t.outbound.bytes_popped BY <1>1, <1>2 DEF Grows
<1>6. m.seqno = wrap(a, t.isn) /\ (m.rst => t.outbound.error) BY <1>1 DEF Grows
<1> QED BY <1>1, <1>3, <1>4, <1>5, <1>6 DEF Carries

(* The numbers of a sender. *)
LEMMA SenderNumbers ==
  ASSUME NEW s \in Senders
  PROVE  /\ s.snd_una \in Nat /\ s.snd_nxt \in Nat /\ s.advertised_window \in Nat
         /\ s.isn \in RawValues /\ s.syn_sent \in BOOLEAN /\ s.fin_sent \in BOOLEAN
         /\ s.outbound \in Streams
         /\ s.outbound.bytes_popped \in Nat /\ s.outbound.bytes_pushed \in Nat
         /\ s.outbound.bytes_buffered \in Nat
         /\ s.outbound.closed \in BOOLEAN /\ s.outbound.error \in BOOLEAN
         /\ s.outstanding \in Seq(TrackedSegments)
         /\ s.current_rto_ms \in INITIAL_RTO .. MAX_TIMER_INTERVAL
         /\ s.persist_interval_ms \in INITIAL_RTO .. MAX_TIMER_INTERVAL
         /\ s.timer \in Timers
         /\ s.consecutive_retransmissions \in 0 .. RETX_MAX
BY DEF Senders, Streams

(* Growing is reflexive and transitive. *)
LEMMA GrowsOrder ==
  ASSUME NEW s \in Senders, NEW t \in Senders, NEW u \in Senders
  PROVE  Grows(s, s) /\ (Grows(s, t) /\ Grows(t, u) => Grows(s, u))
<1>1. /\ s.snd_nxt \in Nat /\ t.snd_nxt \in Nat /\ u.snd_nxt \in Nat
      /\ s.outbound.bytes_popped \in Nat /\ t.outbound.bytes_popped \in Nat
      /\ u.outbound.bytes_popped \in Nat
  BY SenderNumbers
<1> QED BY <1>1 DEF Grows

(* Placed only reads the core. *)
LEMMA SameCore ==
  ASSUME NEW s, Placed(s), NEW t \in Senders, Core(t) = Core(s)
  PROVE  Placed(t) /\ Grows(s, t)
<1>1. /\ t.outbound = s.outbound /\ t.isn = s.isn /\ t.snd_una = s.snd_una
      /\ t.snd_nxt = s.snd_nxt /\ t.outstanding = s.outstanding
      /\ t.syn_sent = s.syn_sent /\ t.fin_sent = s.fin_sent
  BY DEF Core
<1>2. s \in Senders /\ StreamOK(s.outbound) /\ Flight(s) /\ Accounting(s) BY DEF Placed
<1>3. s.snd_nxt \in Nat /\ s.outbound.bytes_popped \in Nat BY <1>2, SenderNumbers
<1>4. Grows(s, t) BY <1>1, <1>3 DEF Grows
<1>5. ASSUME NEW i \in 1 .. Len(s.outstanding)
      PROVE  Carries(t, s.outstanding[i].message, s.outstanding[i].absolute_start)
  <2>1. Carries(s, s.outstanding[i].message, s.outstanding[i].absolute_start)
    BY <1>2 DEF Flight
  <2> QED BY <2>1, <1>1, <1>3, <1>4, CarriedOn
<1>6. Flight(t) BY <1>1, <1>2, <1>5 DEF Flight
<1>7. Accounting(t) BY <1>1, <1>2 DEF Accounting
<1> QED BY <1>1, <1>2, <1>4, <1>6, <1>7 DEF Placed

(* restart_timer_for_current_window arms the timer and changes nothing else. *)
LEMMA RestartArms ==
  ASSUME NEW s, Placed(s)
  PROVE  LET t == restart_timer_for_current_window(s) IN
         /\ SenderOK(t) /\ Core(t) = Core(s)
         /\ t.advertised_window = s.advertised_window
<1> DEFINE r == IF s.outstanding = <<>> THEN StoppedTimer
                ELSE IF s.advertised_window = 0
                     THEN StartedTimer(s.persist_interval_ms, "Persist")
                     ELSE StartedTimer(s.current_rto_ms, "Retransmission")
           t == restart_timer_for_current_window(s)
<1>1. s \in Senders BY DEF Placed
<1>2. /\ INITIAL_RTO \in Nat /\ INITIAL_RTO > 0 /\ MAX_TIMER_INTERVAL \in Nat
      /\ s.current_rto_ms \in INITIAL_RTO .. MAX_TIMER_INTERVAL
      /\ s.persist_interval_ms \in INITIAL_RTO .. MAX_TIMER_INTERVAL
  BY <1>1, ConfigNumbers, SenderNumbers
<1>3. /\ r \in Timers
      /\ r.running <=> s.outstanding # <<>>
      /\ r.running =>
           /\ r.mode = IF s.advertised_window = 0 THEN "Persist" ELSE "Retransmission"
           /\ r.timeout_ms \in INITIAL_RTO .. MAX_TIMER_INTERVAL
           /\ r.elapsed_ms < r.timeout_ms
  <2>1. CASE s.outstanding = <<>> BY <2>1 DEF StoppedTimer, Timers
  <2>2. CASE s.outstanding # <<>> /\ s.advertised_window = 0
    BY <2>2, <1>2 DEF StartedTimer, Timers
  <2>3. CASE s.outstanding # <<>> /\ s.advertised_window # 0
    BY <2>3, <1>2 DEF StartedTimer, Timers
  <2> QED BY <2>1, <2>2, <2>3
<1>4. t = [s EXCEPT !.timer = r] BY DEF restart_timer_for_current_window
<1> HIDE DEF r, t
<1>5. /\ t \in Senders /\ t.timer = r /\ Core(t) = Core(s)
      /\ t.advertised_window = s.advertised_window /\ t.outstanding = s.outstanding
  BY <1>1, <1>3, <1>4 DEF Senders, Core
<1>6. Placed(t) BY <1>5, SameCore
<1>7. Armed(t) BY <1>3, <1>5 DEF Armed
<1> QED BY <1>5, <1>6, <1>7 DEF SenderOK, t
-----------------------------------------------------------------------------
(***************************************************************************)
(* The queue of u is the queue of s and, after it, the message m that takes*)
(* the numbers from the SND.NXT of s to that of u.                         *)
(***************************************************************************)
LEMMA TrackKeepsPlaces ==
  ASSUME NEW s, SenderOK(s), NEW u \in Senders, NEW m \in Messages,
         u.outstanding = Append(s.outstanding, [absolute_start |-> s.snd_nxt, message |-> m]),
         u.snd_una = s.snd_una, u.snd_nxt = s.snd_nxt + sequence_length(m),
         sequence_length(m) \in Nat, sequence_length(m) > 0,
         StreamOK(u.outbound), Grows(s, u), Carries(u, m, s.snd_nxt), Accounting(u)
  PROVE  Placed(u)
<1> DEFINE q == s.outstanding
           x == [absolute_start |-> s.snd_nxt, message |-> m]
<1>1. s \in Senders /\ Flight(s) BY DEF SenderOK, Placed
<1>2. /\ s.snd_nxt \in Nat /\ s.snd_una \in Nat /\ q \in Seq(TrackedSegments)
      /\ s.outbound.bytes_popped \in Nat
  BY <1>1, SenderNumbers
<1>3. x \in TrackedSegments /\ x.message = m /\ x.absolute_start = s.snd_nxt
  BY <1>2 DEF TrackedSegments
<1>4. u.outstanding = Append(q, x) OBVIOUS
<1> HIDE DEF x
<1> DEFINE r == u.outstanding
           n == Len(q)
<1>7. /\ n \in Nat /\ Len(r) = n + 1 /\ r # <<>> /\ r[n + 1] = x
      /\ \A i \in 1 .. n : r[i] = q[i]
  BY <1>2, <1>3, <1>4, Appended
<1>8. u.snd_nxt \in Nat /\ u.outbound.bytes_popped \in Nat BY SenderNumbers
<1>9. absolute_end(x) = u.snd_nxt BY <1>3 DEF absolute_end
<1> HIDE DEF n, r
<1>10. ASSUME NEW i \in 1 .. Len(r)
       PROVE  /\ sequence_length(r[i].message) > 0
              /\ Carries(u, r[i].message, r[i].absolute_start)
  <2>1. CASE i = n + 1 BY <2>1, <1>7, <1>3
  <2>2. CASE i \in 1 .. n
    <3>1. /\ r[i] = q[i] /\ sequence_length(q[i].message) > 0
          /\ Carries(s, q[i].message, q[i].absolute_start)
      BY <2>2, <1>7, <1>1 DEF Flight, n
    <3> QED BY <3>1, <1>2, <1>8, CarriedOn
  <2> QED BY <2>1, <2>2, <1>7
<1>11. ASSUME NEW i \in 1 .. Len(r) - 1
       PROVE  absolute_end(r[i]) = r[i + 1].absolute_start
  <2>1. CASE i = n
    <3>1. q # <<>> /\ i \in 1 .. n BY <2>1, <1>2, <1>7 DEF n
    <3>2. absolute_end(q[n]) = s.snd_nxt BY <3>1, <1>1 DEF Flight, n
    <3> QED BY <2>1, <3>1, <3>2, <1>7, <1>3
  <2>2. CASE i \in 1 .. n - 1
    <3>1. i \in 1 .. n /\ i + 1 \in 1 .. n BY <2>2, <1>7
    <3> QED BY <3>1, <2>2, <1>7, <1>1 DEF Flight, n
  <2> QED BY <2>1, <2>2, <1>7
<1>12. r[1].absolute_start = u.snd_una
  <2>1. CASE q = <<>>
    <3>1. n = 0 /\ s.snd_una = s.snd_nxt BY <2>1, <1>1 DEF Flight, n
    <3> QED BY <3>1, <1>3, <1>7
  <2>2. CASE q # <<>>
    <3>1. 1 \in 1 .. n BY <2>2, <1>2, <1>7 DEF n
    <3> QED BY <2>2, <3>1, <1>1, <1>7 DEF Flight
  <2> QED BY <2>1, <2>2
<1>13. u.snd_una <= u.snd_nxt BY <1>1, <1>2 DEF Flight
<1>14. absolute_end(r[Len(r)]) = u.snd_nxt BY <1>7, <1>9
<1>15. Flight(u) BY <1>7, <1>10, <1>11, <1>12, <1>13, <1>14 DEF Flight, r
<1> QED BY <1>15 DEF Placed

(***************************************************************************)
(* An iteration of push that sends stays within the window and gives the   *)
(* new message the numbers from SND.NXT on.                                *)
(***************************************************************************)
LEMMA PushSends ==
  ASSUME NEW p, SenderOK(p.sender), PushSegment(p) # p
  PROVE  LET s == p.sender
             r == PushSegment(p)
             t == r.sender IN
         /\ SenderOK(t) /\ Grows(s, t) /\ SameWriting(s, t)
         /\ t.snd_una = s.snd_una /\ t.advertised_window = s.advertised_window
         /\ bytes_in_flight(t) <= EffectiveWindow(t)
         /\ \E m : r.sent = Append(p.sent, m) /\ Carries(t, m, s.snd_nxt)
<1> DEFINE s == p.sender
           room == EffectiveWindow(s) - bytes_in_flight(s)
           syn == ~s.syn_sent
           b == payload_budget(room, syn)
           d == read_outbound_payload(s, b).payload
           o == read_outbound_payload(s, b).outbound
           fin == /\ ~s.fin_sent
                  /\ stream_is_finished(o)
                  /\ room - One(syn) - len(d) > 0
           m == [make_empty_message(s) EXCEPT !.syn = syn, !.payload = d, !.fin = fin]
           v == [s EXCEPT !.syn_sent = TRUE, !.outbound = o, !.fin_sent = @ \/ fin]
           r == PushSegment(p)
           t == r.sender
<1>0. r = IF room <= 0 \/ sequence_length(m) = 0 THEN p
           ELSE [sender |-> track(v, m), sent |-> Append(p.sent, m)]
  BY DEF PushSegment
<1>2. /\ s \in Senders /\ StreamOK(s.outbound) /\ Flight(s) /\ Accounting(s) /\ Armed(s)
  BY DEF SenderOK, Placed
<1>3. /\ s.snd_nxt \in Nat /\ s.snd_una \in Nat /\ s.advertised_window \in Nat
      /\ s.isn \in RawValues /\ s.syn_sent \in BOOLEAN /\ s.fin_sent \in BOOLEAN
      /\ s.outbound.bytes_popped \in Nat /\ s.outbound.bytes_buffered \in Nat
      /\ s.outbound.bytes_pushed \in Nat /\ s.outbound.error \in BOOLEAN
  BY <1>2, SenderNumbers
<1>4. MAX_PAYLOAD_SIZE \in Nat BY ConfigNumbers
<1>5. room \in Int /\ room = EffectiveWindow(s) - (s.snd_nxt - s.snd_una)
  BY <1>3 DEF EffectiveWindow, bytes_in_flight, max
<1>6. One(syn) \in {0, 1} BY DEF One
<1>1. /\ room \in Nat /\ room > 0 /\ sequence_length(m) # 0
      /\ r = [sender |-> track(v, m), sent |-> Append(p.sent, m)]
  <2> HIDE DEF room, m, v
  <2>1. ~(room <= 0 \/ sequence_length(m) = 0) BY <1>0
  <2> QED BY <2>1, <1>0, <1>5
<1>21. b \in Nat /\ One(syn) + b <= room
  <2> HIDE DEF room, syn
  <2> QED BY <1>1, <1>4, <1>6 DEF payload_budget, min
<1>22. d = popped_bytes(s.outbound, b) /\ o = stream_pop(s.outbound, b)
  <2> HIDE DEF b, s
  <2> QED BY DEF read_outbound_payload
<1> HIDE DEF room, b, d, o
<1>7. /\ d \in ByteRuns /\ d.lo <= d.hi /\ len(d) \in Nat /\ len(d) <= b
      /\ len(d) > 0 => d.lo = s.outbound.bytes_popped
      /\ o.bytes_popped = s.outbound.bytes_popped + len(d)
  BY <1>2, <1>21, <1>22, PoppedRun
<1>8. /\ StreamOK(o) /\ o.bytes_pushed = s.outbound.bytes_pushed
      /\ o.closed = s.outbound.closed /\ o.error = s.outbound.error
  BY <1>2, <1>21, <1>22, PopKeepsOrder
<1>9. o \in Streams /\ Contiguous(o) /\ Contiguous(s.outbound) BY <1>2, <1>8 DEF StreamOK
<1>10. o.bytes_buffered = s.outbound.bytes_buffered - len(d) /\ o.bytes_buffered \in Nat
  <2>1. o.bytes_popped \in Nat /\ o.bytes_buffered \in Nat BY <1>9 DEF Streams
  <2>2. o.bytes_popped + o.bytes_buffered = o.bytes_pushed BY <1>9 DEF Contiguous
  <2>3. s.outbound.bytes_popped + s.outbound.bytes_buffered = s.outbound.bytes_pushed
    BY <1>9 DEF Contiguous
  <2> HIDE DEF s
  <2> QED BY <2>1, <2>2, <2>3, <1>3, <1>7, <1>8
<1>11. syn \in BOOLEAN /\ fin \in BOOLEAN /\ (fin => ~s.fin_sent /\ stream_is_finished(o))
  BY <1>3 DEF stream_is_finished
<1>12. s.fin_sent => s.syn_sent /\ len(d) = 0 /\ stream_is_finished(o)
  BY <1>2, <1>3, <1>7, <1>8, <1>10 DEF Accounting, stream_is_finished
<1>13. fin => room - One(syn) - len(d) > 0 OBVIOUS
<1> HIDE DEF fin
<1>14. s.snd_nxt = One(s.syn_sent) + s.outbound.bytes_popped + One(s.fin_sent)
  BY <1>2 DEF Accounting
<1>15. syn <=> s.snd_nxt = 0 BY <1>2, <1>3, <1>14 DEF Accounting, One
<1>16. len(d) > 0 => /\ d.lo = s.snd_nxt + One(syn) - 1
                     /\ d.hi <= o.bytes_popped
  <2>1. d.lo \in Nat /\ d.hi \in Nat /\ d.hi = d.lo + len(d) BY <1>7 DEF ByteRuns, len
  <2> QED BY <2>1, <1>3, <1>7, <1>12, <1>14, <1>2 DEF Accounting, One
<1>17. /\ m \in Messages /\ m.seqno = wrap(s.snd_nxt, s.isn) /\ m.syn = syn
       /\ m.payload = d /\ m.fin = fin /\ m.rst = s.outbound.error
  <2>1. wrap(s.snd_nxt, s.isn) \in RawValues BY <1>3, WrapEras
  <2> DEFINE e == make_empty_message(s)
  <2>2. e = [seqno |-> wrap(s.snd_nxt, s.isn), syn |-> FALSE, payload |-> NoBytes,
             fin |-> FALSE, rst |-> s.outbound.error]
    BY DEF make_empty_message, SenderMessage
  <2>3. NoBytes \in ByteRuns BY DEF NoBytes, Bytes, ByteRuns
  <2> HIDE DEF e
  <2>4. e \in Messages /\ e.seqno = wrap(s.snd_nxt, s.isn) /\ e.rst = s.outbound.error
    BY <2>1, <2>2, <2>3, <1>3 DEF Messages
  <2>5. m = [e EXCEPT !.syn = syn, !.payload = d, !.fin = fin] BY DEF e
  <2> HIDE DEF syn, m
  <2>6. /\ m \in Messages /\ m.seqno = e.seqno /\ m.syn = syn
        /\ m.payload = d /\ m.fin = fin /\ m.rst = e.rst
    BY <2>4, <2>5, <1>7, <1>11 DEF Messages
  <2> QED BY <2>4, <2>6
<1> HIDE DEF m
<1>18. sequence_length(m) = One(syn) + len(d) + One(fin) BY <1>17 DEF sequence_length
<1>19. sequence_length(m) \in Nat /\ sequence_length(m) > 0 /\ sequence_length(m) <= room
  BY <1>1, <1>6, <1>7, <1>11, <1>13, <1>18, <1>21 DEF One
<1>20. /\ v \in Senders /\ v.outbound = o /\ v.snd_nxt = s.snd_nxt /\ v.snd_una = s.snd_una
       /\ v.outstanding = s.outstanding /\ v.advertised_window = s.advertised_window
       /\ v.syn_sent = TRUE /\ v.fin_sent = (s.fin_sent \/ fin) /\ v.isn = s.isn
       /\ v.timer = s.timer
  BY <1>2, <1>3, <1>9, <1>11 DEF Senders
<1> HIDE DEF v
<1> DEFINE x == [absolute_start |-> s.snd_nxt, message |-> m]
           y == Append(s.outstanding, x)
           z == s.snd_nxt + sequence_length(m)
           u == [v EXCEPT !.snd_nxt = z, !.outstanding = y]
<1>23. /\ u \in Senders /\ u.outbound = o /\ u.snd_nxt = z /\ u.snd_una = s.snd_una
       /\ u.outstanding = y /\ u.advertised_window = s.advertised_window
       /\ u.syn_sent = TRUE /\ u.fin_sent = (s.fin_sent \/ fin) /\ u.isn = s.isn
       /\ u.timer = s.timer
  <2>1. x \in TrackedSegments /\ z \in Nat BY <1>3, <1>17, <1>19 DEF TrackedSegments
  <2>2. s.outstanding \in Seq(TrackedSegments) BY <1>2, SenderNumbers
  <2>3. y \in Seq(TrackedSegments) BY <2>1, <2>2
  <2> HIDE DEF y, z
  <2> QED BY <2>1, <2>3, <1>20 DEF Senders
<1>24. t = (IF s.outstanding = <<>> THEN restart_timer_for_current_window(u) ELSE u)
       /\ r.sent = Append(p.sent, m)
  <2>1. track(v, m) = IF s.outstanding = <<>> THEN restart_timer_for_current_window(u) ELSE u
    BY <1>20 DEF track
  <2> QED BY <2>1, <1>1
<1> HIDE DEF u
<1>25. Grows(s, u)
  <2>1. s.fin_sent => sequence_length(m) = 0 BY <1>11, <1>12, <1>18 DEF One
  <2>2. s.snd_nxt <= u.snd_nxt /\ (s.fin_sent => u.snd_nxt = s.snd_nxt)
    BY <2>1, <1>3, <1>19, <1>23
  <2>3. s.outbound.bytes_popped <= o.bytes_popped BY <1>3, <1>7
  <2> QED BY <2>2, <2>3, <1>8, <1>23 DEF Grows
<1>26. Accounting(u)
  <2>1. One(s.syn_sent) + One(syn) = 1 /\ One(TRUE) = 1 BY <1>3 DEF One
  <2>2. One(s.fin_sent) + One(fin) = One(s.fin_sent \/ fin) BY <1>3, <1>11 DEF One
  <2>3. One(s.syn_sent) \in Nat /\ One(s.fin_sent) \in Nat /\ One(fin) \in Nat BY DEF One
  <2> HIDE DEF s, syn
  <2>4. z = 1 + o.bytes_popped + One(s.fin_sent \/ fin)
    BY <2>1, <2>2, <2>3, <1>3, <1>6, <1>7, <1>14, <1>18
  <2> QED BY <2>1, <2>4, <1>11, <1>12, <1>23 DEF Accounting
<1>27. Carries(u, m, s.snd_nxt)
  <2>1. m.fin => u.fin_sent BY <1>17, <1>23
  <2>2. len(m.payload) > 0 => /\ m.payload.lo = s.snd_nxt + One(m.syn) - 1
                              /\ m.payload.hi <= u.outbound.bytes_popped
    BY <1>16, <1>17, <1>23
  <2>3. m.syn <=> s.snd_nxt = 0 BY <1>15, <1>17
  <2>4. m.rst => u.outbound.error BY <1>8, <1>17, <1>23
  <2>5. s.snd_nxt + sequence_length(m) <= u.snd_nxt BY <1>3, <1>19, <1>23
  <2> QED BY <2>1, <2>2, <2>3, <2>4, <2>5, <1>3, <1>7, <1>17, <1>23 DEF Carries
<1>28. Placed(u) BY <1>2, <1>8, <1>17, <1>19, <1>23, <1>25, <1>26, <1>27, TrackKeepsPlaces
<1>29. bytes_in_flight(u) <= EffectiveWindow(u)
  <2>1. EffectiveWindow(u) = EffectiveWindow(s) /\ EffectiveWindow(s) \in Int
    BY <1>3, <1>23 DEF EffectiveWindow, max
  <2>2. bytes_in_flight(u) = z - s.snd_una BY <1>23 DEF bytes_in_flight
  <2> HIDE DEF s
  <2> QED BY <2>1, <2>2, <1>1, <1>3, <1>5, <1>19
<1>30. CASE s.outstanding = <<>>
  <2>1. t = restart_timer_for_current_window(u) BY <1>24, <1>30
  <2>2. SenderOK(t) /\ Core(t) = Core(u) /\ t.advertised_window = u.advertised_window
    BY <2>1, <1>28, RestartArms
  <2>3. /\ t.outbound = u.outbound /\ t.isn = u.isn /\ t.snd_una = u.snd_una
        /\ t.snd_nxt = u.snd_nxt /\ t.fin_sent = u.fin_sent
    BY <2>2 DEF Core
  <2>4. t \in Senders BY <2>2 DEF SenderOK, Placed
  <2>5. Grows(u, t) BY <2>2, <2>4, <1>28, SameCore
  <2>6. Grows(s, t) BY <2>4, <2>5, <1>2, <1>23, <1>25, GrowsOrder
  <2>7. Carries(t, m, s.snd_nxt) BY <2>4, <2>5, <1>23, <1>27, CarriedOn, SenderNumbers
  <2>8. bytes_in_flight(t) <= EffectiveWindow(t)
    BY <2>2, <2>3, <1>29 DEF bytes_in_flight, EffectiveWindow
  <2> HIDE DEF t, r
  <2>9. SameWriting(s, t) BY <2>3, <1>8, <1>23 DEF SameWriting
  <2> QED BY <2>2, <2>3, <2>6, <2>7, <2>8, <2>9, <1>23, <1>24 DEF t, r
<1>31. CASE s.outstanding # <<>>
  <2>1. t = u BY <1>24, <1>31
  <2>2. u.outstanding # <<>>
    <3>1. s.outstanding \in Seq(TrackedSegments) BY <1>2, SenderNumbers
    <3> HIDE DEF x
    <3> QED BY <3>1, <1>23
  <2>3. Armed(u) BY <2>2, <1>2, <1>23, <1>31 DEF Armed
  <2>4. SameWriting(s, u) BY <1>8, <1>23 DEF SameWriting
  <2> QED BY <2>1, <2>3, <2>4, <1>23, <1>24, <1>25, <1>27, <1>28, <1>29 DEF SenderOK
<1> QED BY <1>30, <1>31

(* The states of the first k iterations of push. *)
LEMMA PushStates ==
  ASSUME NEW p, NEW k \in Nat
  PROVE  \E st : /\ st = [n \in 0 .. k |-> IF n = 0 THEN p ELSE PushSegment(st[n - 1])]
                 /\ Iterate(PushSegment, p, k) = st[k]
<1> DEFINE Def(m, g) == g = [n \in 0 .. m |-> IF n = 0 THEN p ELSE PushSegment(g[n - 1])]
           S == {m \in Nat : \E g : Def(m, g)}
<1>1. 0 \in S
  <2> DEFINE g == [n \in 0 .. 0 |-> p]
  <2>1. g = [n \in 0 .. 0 |-> IF n = 0 THEN p ELSE PushSegment(g[n - 1])] OBVIOUS
  <2>2. Def(0, g) BY <2>1
  <2> HIDE DEF g, Def
  <2> QED BY <2>2
<1>2. ASSUME NEW m \in S PROVE m + 1 \in S
  <2>1. PICK g : Def(m, g) OBVIOUS
  <2> DEFINE h == [n \in 0 .. m + 1 |-> IF n = m + 1 THEN PushSegment(g[m]) ELSE g[n]]
  <2>2. \A n \in 0 .. m + 1 : h[n] = IF n = 0 THEN p ELSE PushSegment(h[n - 1])
    BY <2>1
  <2>3. Def(m + 1, h) BY <2>2
  <2> HIDE DEF h, Def
  <2> QED BY <2>3
<1>3. S = Nat
  <2>1. S \in SUBSET Nat OBVIOUS
  <2> HIDE DEF S
  <2> QED BY <1>1, <1>2, <2>1, NatSetInduction
<1>4. PICK g : Def(k, g) BY <1>3
<1> DEFINE st == CHOOSE f : Def(k, f)
<1>5. Def(k, st) BY <1>4
<1>6. Iterate(PushSegment, p, k) = st[k] BY DEF Iterate
<1> QED BY <1>5, <1>6

(* Where push has got to, from s: a sender t and the messages sent. *)
Pushed(s, t, sent) ==
  /\ SenderOK(t) /\ Grows(s, t) /\ SameWriting(s, t)
  /\ t.snd_una = s.snd_una /\ t.advertised_window = s.advertised_window
  /\ t.snd_nxt = s.snd_nxt \/ bytes_in_flight(t) <= EffectiveWindow(t)
  /\ sent \in Seq(Messages)
  /\ \A i \in 1 .. Len(sent) : \E a \in Nat : a >= s.snd_nxt /\ Carries(t, sent[i], a)

(* One iteration goes from such a state to such a state. *)
LEMMA PushStep ==
  ASSUME NEW s \in Senders, NEW p, Pushed(s, p.sender, p.sent)
  PROVE  Pushed(s, PushSegment(p).sender, PushSegment(p).sent)
<1> DEFINE t == p.sender
           r == PushSegment(p)
           u == r.sender
<1>1. CASE r = p BY <1>1
<1>2. CASE r # p
  <2>1. SenderOK(t) BY DEF Pushed
  <2>2. /\ SenderOK(u) /\ Grows(t, u) /\ SameWriting(t, u)
        /\ u.snd_una = t.snd_una /\ u.advertised_window = t.advertised_window
        /\ bytes_in_flight(u) <= EffectiveWindow(u)
        /\ \E m : r.sent = Append(p.sent, m) /\ Carries(u, m, t.snd_nxt)
    BY <1>2, <2>1, PushSends
  <2>3. t \in Senders /\ u \in Senders BY <2>1, <2>2 DEF SenderOK, Placed
  <2>4. /\ s.snd_nxt \in Nat /\ t.snd_nxt \in Nat /\ u.snd_nxt \in Nat
        /\ t.outbound.bytes_popped \in Nat /\ u.outbound.bytes_popped \in Nat
    BY <2>3, SenderNumbers
  <2>5. Grows(s, t) BY DEF Pushed
  <2>6. Grows(s, u) BY <2>2, <2>3, <2>5, GrowsOrder
  <2>7. PICK m : r.sent = Append(p.sent, m) /\ Carries(u, m, t.snd_nxt) BY <2>2
  <2>8. m \in Messages /\ p.sent \in Seq(Messages) BY <2>7 DEF Carries, Pushed
  <2> DEFINE n == Len(p.sent)
  <2>9. /\ r.sent \in Seq(Messages) /\ n \in Nat /\ Len(r.sent) = n + 1 /\ r.sent[n + 1] = m
        /\ \A i \in 1 .. n : r.sent[i] = p.sent[i]
    BY <2>7, <2>8, Appended
  <2> HIDE DEF n, r, t, u
  <2>10. ASSUME NEW i \in 1 .. Len(r.sent)
         PROVE  \E a \in Nat : a >= s.snd_nxt /\ Carries(u, r.sent[i], a)
    <3>1. CASE i = n + 1
      <4>1. t.snd_nxt >= s.snd_nxt BY <2>4, <2>5 DEF Grows
      <4> QED BY <3>1, <4>1, <2>4, <2>7, <2>9
    <3>2. CASE i \in 1 .. n
      <4>1. PICK a \in Nat : a >= s.snd_nxt /\ Carries(t, p.sent[i], a)
        BY <3>2 DEF Pushed, n, t
      <4>2. Carries(u, p.sent[i], a) BY <4>1, <2>2, <2>4, CarriedOn
      <4> QED BY <3>2, <4>1, <4>2, <2>9
    <3> QED BY <3>1, <3>2, <2>9
  <2>11. /\ u.snd_una = s.snd_una /\ u.advertised_window = s.advertised_window
         /\ SameWriting(s, u)
    BY <2>2 DEF Pushed, SameWriting, t
  <2> QED BY <2>2, <2>6, <2>9, <2>10, <2>11 DEF Pushed, u, r
<1> QED BY <1>1, <1>2

(***************************************************************************)
(* TcpSender::push: whatever it transmits is placed from SND.NXT on, and   *)
(* fits the window that the peer advertised, or is the one probe.          *)
(***************************************************************************)
LEMMA PushFillsWindow ==
  ASSUME NEW s, SenderOK(s)
  PROVE  Pushed(s, sender_push(s).sender, sender_push(s).sent)
<1> DEFINE p == [sender |-> s, sent |-> <<>>]
           k == max(EffectiveWindow(s) - bytes_in_flight(s), 0)
<1>1. s \in Senders BY DEF SenderOK, Placed
<1>2. k \in Nat
  <2>1. s.snd_nxt \in Nat /\ s.snd_una \in Nat /\ s.advertised_window \in Nat
    BY <1>1, SenderNumbers
  <2> QED BY <2>1 DEF EffectiveWindow, bytes_in_flight, max
<1>3. PICK st : /\ st = [n \in 0 .. k |-> IF n = 0 THEN p ELSE PushSegment(st[n - 1])]
                /\ sender_push(s) = st[k]
  <2> HIDE DEF p
  <2>1. sender_push(s) = Iterate(PushSegment, p, k) BY DEF sender_push, p
  <2> HIDE DEF k
  <2> QED BY <1>2, <2>1, PushStates, ZenonT(30)
<1>4. Pushed(s, p.sender, p.sent)
  <2>1. Grows(s, s) /\ SameWriting(s, s) BY <1>1, GrowsOrder DEF SameWriting
  <2>2. p.sender = s /\ p.sent = <<>> OBVIOUS
  <2>3. p.sent \in Seq(Messages) /\ Len(p.sent) = 0 BY <2>2
  <2> HIDE DEF p
  <2> QED BY <2>1, <2>2, <2>3 DEF Pushed
<1> HIDE DEF k, p
<1> DEFINE S == {n \in 0 .. k : Pushed(s, st[n].sender, st[n].sent)}
<1>5. st[0] = p /\ \A n \in 0 .. k : n < k => st[n + 1] = PushSegment(st[n])
  BY <1>2, <1>3
<1>6. 0 \in S BY <1>2, <1>4, <1>5
<1>7. ASSUME NEW n \in S, n < k PROVE n + 1 \in S
  <2>1. n \in 0 .. k /\ Pushed(s, st[n].sender, st[n].sent) OBVIOUS
  <2>2. st[n + 1] = PushSegment(st[n]) /\ n + 1 \in 0 .. k BY <2>1, <1>2, <1>5, <1>7
  <2>3. Pushed(s, st[n + 1].sender, st[n + 1].sent) BY <2>1, <2>2, <1>1, PushStep
  <2> QED BY <2>2, <2>3
<1>8. S \in SUBSET (0 .. k) OBVIOUS
<1>9. k \in S
  <2> HIDE DEF S
  <2> QED BY <1>2, <1>6, <1>7, <1>8, IntervalInduction
<1> QED BY <1>3, <1>9
-----------------------------------------------------------------------------
(* A sequence without its first n elements, and with another first element. *)
LEMMA Suffix ==
  ASSUME NEW S, NEW q \in Seq(S), NEW n \in Nat, n <= Len(q), NEW y \in S
  PROVE  LET k == SubSeq(q, n + 1, Len(q))
             r == <<y>> \o Tail(k) IN
         /\ k \in Seq(S) /\ Len(k) = Len(q) - n /\ Len(q) \in Nat
         /\ \A i \in 1 .. Len(q) - n : k[i] = q[n + i]
         /\ n = Len(q) => k = <<>>
         /\ n < Len(q) => /\ k # <<>> /\ Head(k) = q[n + 1]
                          /\ r \in Seq(S) /\ Len(r) = Len(q) - n /\ r[1] = y /\ r # <<>>
                          /\ \A i \in 2 .. Len(q) - n : r[i] = q[n + i]
<1> DEFINE k == SubSeq(q, n + 1, Len(q))
           r == <<y>> \o Tail(k)
<1>1. Len(q) \in Nat OBVIOUS
<1>2. /\ k \in Seq(S) /\ Len(k) = Len(q) - n
      /\ \A i \in 1 .. Len(q) - n : k[i] = q[n + i]
  BY <1>1
<1> HIDE DEF k
<1>3. n = Len(q) => k = <<>> BY <1>1, <1>2
<1>4. ASSUME n < Len(q)
      PROVE  /\ k # <<>> /\ Head(k) = q[n + 1]
             /\ r \in Seq(S) /\ Len(r) = Len(q) - n /\ r[1] = y /\ r # <<>>
             /\ \A i \in 2 .. Len(q) - n : r[i] = q[n + i]
  <2>1. k # <<>> /\ Head(k) = q[n + 1] BY <1>1, <1>2, <1>4
  <2>2. /\ Tail(k) \in Seq(S) /\ Len(Tail(k)) = Len(k) - 1
        /\ \A i \in 1 .. Len(k) - 1 : Tail(k)[i] = k[i + 1]
    BY <2>1, <1>2
  <2> DEFINE w == Tail(k)
  <2> HIDE DEF w
  <2>3. /\ r = <<y>> \o w /\ w \in Seq(S) /\ Len(w) = Len(q) - n - 1
        /\ \A i \in 1 .. Len(q) - n - 1 : w[i] = k[i + 1]
    BY <2>2, <1>2 DEF w
  <2> HIDE DEF r
  <2>4. r \in Seq(S) /\ Len(r) = Len(q) - n /\ r[1] = y /\ r # <<>> BY <2>3, <1>1, <1>4
  <2>5. ASSUME NEW i \in 2 .. Len(q) - n PROVE r[i] = q[n + i]
    <3>1. i - 1 \in 1 .. Len(q) - n - 1 /\ (i - 1) + 1 = i /\ i \in 1 .. Len(q) - n
      BY <1>1
    <3>2. r[i] = w[i - 1] BY <3>1, <2>3, <1>1
    <3>3. w[i - 1] = k[i] BY <3>1, <2>3
    <3> QED BY <3>1, <3>2, <3>3, <1>2
  <2> QED BY <2>1, <2>4, <2>5
<1> QED BY <1>1, <1>2, <1>3, <1>4 DEF k

(***************************************************************************)
(* trim_prefix: what is left of a partly acknowledged segment is what the  *)
(* sequence space has from the acknowledgment on: SYN has gone, the payload*)
(* starts later, FIN stays.                                                *)
(***************************************************************************)
LEMMA TrimKeepsPlace ==
  ASSUME NEW s \in Senders, NEW h \in TrackedSegments, NEW a \in Nat,
         Carries(s, h.message, h.absolute_start),
         h.absolute_start < a, a < absolute_end(h)
  PROVE  LET y == trim_prefix(h, a - h.absolute_start, s.isn) IN
         /\ y \in TrackedSegments /\ y.absolute_start = a
         /\ absolute_end(y) = absolute_end(h)
         /\ sequence_length(y.message) > 0
         /\ Carries(s, y.message, a)
<1> DEFINE m == h.message
           b == h.absolute_start
           c == a - b
           n == len(m.payload)
           after_syn == c - One(m.syn)
           drop == min(after_syn, n)
           y == trim_prefix(h, c, s.isn)
           pl == slice(m.payload, drop, n)
           fin == m.fin /\ after_syn = drop
           x == SenderMessage(wrap(a, s.isn), FALSE, pl, fin, m.rst)
<1>1. /\ m \in Messages /\ b \in Nat /\ m.payload.lo <= m.payload.hi
      /\ m.syn <=> b = 0
      /\ n > 0 => m.payload.lo = b + One(m.syn) - 1 /\ m.payload.hi <= s.outbound.bytes_popped
      /\ b + sequence_length(m) <= s.snd_nxt
      /\ m.fin => s.fin_sent /\ b + sequence_length(m) = s.snd_nxt
      /\ m.rst => s.outbound.error
  BY DEF Carries
<1>2. m.fin \in BOOLEAN /\ m.rst \in BOOLEAN /\ m.syn \in BOOLEAN BY <1>1 DEF Messages
<1>3. /\ n \in Nat /\ sequence_length(m) \in Nat
      /\ sequence_length(m) = One(m.syn) + n + One(m.fin)
      /\ m.payload \in ByteRuns /\ m.payload.lo \in Nat /\ m.payload.hi \in Nat
      /\ m.payload.hi = m.payload.lo + n
  BY <1>1, MessageLength
<1>4. absolute_end(h) = b + sequence_length(m) BY DEF absolute_end
<1>5. One(m.syn) \in {0, 1} /\ One(m.fin) \in {0, 1} /\ One(FALSE) = 0 BY DEF One
<1> HIDE DEF n, b, m
<1>6. /\ c \in Nat /\ after_syn \in Nat /\ after_syn <= n /\ drop = after_syn
      /\ b + c = a /\ n - drop \in Nat
  BY <1>1, <1>3, <1>4, <1>5 DEF min, b
<1>7. b + (b - b) = b /\ b + c = a BY <1>1, <1>6
<1>8. y = [absolute_start |-> a, message |-> x]
  BY <1>7 DEF trim_prefix, m, n, b
<1>9. fin = m.fin BY <1>2, <1>6
<1>10. /\ pl \in ByteRuns /\ pl.lo = m.payload.lo + drop /\ pl.hi = m.payload.lo + n
  <2>1. drop \in Nat BY <1>6
  <2> HIDE DEF drop
  <2> QED BY <2>1, <1>3, SliceOfRun, ZenonT(30)
<1>11. pl.lo <= pl.hi /\ len(pl) = n - drop /\ pl.hi = m.payload.hi
  <2> HIDE DEF pl, drop
  <2> QED BY <1>3, <1>6, <1>10 DEF len
<1>12. wrap(a, s.isn) \in RawValues
  <2>1. s.isn \in RawValues BY SenderNumbers
  <2> QED BY <2>1, WrapEras
<1> HIDE DEF pl, fin
<1>13. /\ x \in Messages /\ x.seqno = wrap(a, s.isn) /\ x.syn = FALSE /\ x.payload = pl
       /\ x.fin = m.fin /\ x.rst = m.rst
  BY <1>2, <1>9, <1>10, <1>12 DEF SenderMessage, Messages
<1> HIDE DEF x, y
<1>14. y \in TrackedSegments /\ y.absolute_start = a /\ y.message = x
  BY <1>8, <1>13 DEF TrackedSegments
<1>15. sequence_length(x) = n - drop + One(m.fin)
  <2> HIDE DEF drop
  <2>1. sequence_length(x) = One(x.syn) + len(pl) + One(m.fin) BY <1>13 DEF sequence_length
  <2>2. One(x.syn) = 0 BY <1>13 DEF One
  <2>3. n - drop \in Int /\ One(m.fin) \in Int BY <1>5, <1>6
  <2> QED BY <2>1, <2>2, <2>3, <1>11
<1> HIDE DEF c, after_syn, drop
<1>16. a + sequence_length(x) = b + sequence_length(m) /\ sequence_length(x) > 0
  <2>1. drop = c - One(m.syn) BY <1>6 DEF after_syn
  <2>2. One(m.syn) \in Int /\ One(m.fin) \in Int BY <1>5
  <2>3. a < b + sequence_length(m) BY <1>4
  <2>4. c \in Nat /\ b \in Nat /\ b + c = a /\ n \in Nat BY <1>1, <1>3, <1>6
  <2>5. sequence_length(x) = n - (c - One(m.syn)) + One(m.fin) BY <2>1, <1>15
  <2>6. sequence_length(m) = One(m.syn) + n + One(m.fin) BY <1>3
  <2> QED BY <2>2, <2>3, <2>4, <2>5, <2>6
<1>17. len(x.payload) > 0 => /\ x.payload.lo = a + One(x.syn) - 1
                             /\ x.payload.hi <= s.outbound.bytes_popped
  <2> SUFFICES ASSUME len(x.payload) > 0
               PROVE  /\ x.payload.lo = a + One(x.syn) - 1
                      /\ x.payload.hi <= s.outbound.bytes_popped
    OBVIOUS
  <2>1. n > 0 BY <1>3, <1>6, <1>11, <1>13
  <2>2. drop = c - One(m.syn) /\ One(m.syn) \in Int BY <1>5, <1>6 DEF after_syn
  <2>3. pl.lo = b + One(m.syn) - 1 + (c - One(m.syn)) BY <2>1, <2>2, <1>1, <1>10
  <2>4. pl.lo = a - 1 BY <2>2, <2>3, <1>1, <1>6
  <2>5. One(x.syn) = 0 BY <1>5, <1>13
  <2> QED BY <2>1, <2>4, <2>5, <1>1, <1>11, <1>13
<1>18. x.syn <=> a = 0 BY <1>1, <1>13 DEF b
<1>19. Carries(s, x, a) BY <1>1, <1>11, <1>13, <1>16, <1>17, <1>18 DEF Carries
<1>20. absolute_end(y) = absolute_end(h) BY <1>4, <1>14, <1>16 DEF absolute_end
<1> QED BY <1>14, <1>16, <1>19, <1>20 DEF y, c, b

(***************************************************************************)
(* acknowledge: the queue from the acknowledgment on is again the sequence *)
(* space in flight, and both backoffs start anew.                          *)
(***************************************************************************)
LEMMA AcknowledgeDrops ==
  ASSUME NEW s, Placed(s), NEW a \in Nat, s.snd_una <= a, a <= s.snd_nxt
  PROVE  LET t == acknowledge(s, a) IN
         /\ Placed(t) /\ Grows(s, t) /\ t.snd_una = a /\ t.snd_nxt = s.snd_nxt
         /\ t.outbound = s.outbound /\ t.fin_sent = s.fin_sent
         /\ t.syn_sent = s.syn_sent /\ t.advertised_window = s.advertised_window
<1> DEFINE q == s.outstanding
           A == {n \in 0 .. Len(q) : \A i \in 1 .. n : absolute_end(q[i]) <= a}
           N == Max(A)
           o == [s EXCEPT !.snd_una = a]
           k == SubSeq(q, N + 1, Len(q))
           y == trim_prefix(Head(k), a - Head(k).absolute_start, s.isn)
           r == IF k = <<>> \/ Head(k).absolute_start >= a THEN k ELSE <<y>> \o Tail(k)
           t == acknowledge(s, a)
<1>1. s \in Senders /\ StreamOK(s.outbound) /\ Flight(s) /\ Accounting(s) BY DEF Placed
<1>2. /\ s.snd_una \in Nat /\ s.snd_nxt \in Nat /\ q \in Seq(TrackedSegments)
      /\ s.outbound.bytes_popped \in Nat
  BY <1>1, SenderNumbers
<1>3. Len(q) \in Nat /\ \A i \in 1 .. Len(q) : q[i] \in TrackedSegments BY <1>2
<1>4. /\ N \in 0 .. Len(q) /\ \A i \in 1 .. N : absolute_end(q[i]) <= a
      /\ N < Len(q) => ~(absolute_end(q[N + 1]) <= a)
  <2>1. A \in SUBSET Nat /\ 0 \in A /\ \A x \in A : x <= Len(q) BY <1>3
  <2> HIDE DEF A
  <2>2. N \in A /\ \A x \in A : x <= N BY <2>1, <1>3, MaxIsGreatest
  <2> HIDE DEF N
  <2>3. N \in 0 .. Len(q) /\ \A i \in 1 .. N : absolute_end(q[i]) <= a BY <2>2 DEF A
  <2>4. ASSUME N < Len(q), absolute_end(q[N + 1]) <= a PROVE FALSE
    <3>1. \A i \in 1 .. N + 1 : absolute_end(q[i]) <= a BY <2>3, <2>4
    <3>2. N + 1 \in A BY <3>1, <2>3, <2>4, <1>3 DEF A
    <3> QED BY <3>2, <2>2, <2>3
  <2> QED BY <2>3, <2>4
<1>5. discard_acknowledged_prefix(o) = [o EXCEPT !.outstanding = r]
  <2>1. o.outstanding = q /\ o.snd_una = a /\ o.isn = s.isn BY <1>1 DEF Senders
  <2> HIDE DEF o
  <2> QED BY <2>1 DEF discard_acknowledged_prefix
<1> HIDE DEF N, A
<1>6. ASSUME NEW i \in 1 .. Len(q)
      PROVE  /\ Carries(s, q[i].message, q[i].absolute_start)
             /\ sequence_length(q[i].message) > 0 /\ q[i] \in TrackedSegments
             /\ q[i].absolute_start \in Nat /\ absolute_end(q[i]) \in Nat
  <2>1. Carries(s, q[i].message, q[i].absolute_start) /\ sequence_length(q[i].message) > 0
    BY <1>1 DEF Flight
  <2>2. /\ q[i].message \in Messages /\ q[i].absolute_start \in Nat
        /\ q[i].message.payload.lo <= q[i].message.payload.hi
    BY <2>1 DEF Carries
  <2>3. sequence_length(q[i].message) \in Nat BY <2>2, MessageLength
  <2> QED BY <2>1, <2>2, <2>3, <1>3 DEF absolute_end
<1>7. N = Len(q) => a = s.snd_nxt
  <2> SUFFICES ASSUME N = Len(q) PROVE a = s.snd_nxt OBVIOUS
  <2>1. CASE q = <<>> BY <2>1, <1>1, <1>2 DEF Flight
  <2>2. CASE q # <<>>
    <3>1. Len(q) \in 1 .. N BY <2>2, <1>2, <1>3
    <3>2. absolute_end(q[Len(q)]) <= a BY <3>1, <1>4
    <3>3. absolute_end(q[Len(q)]) = s.snd_nxt BY <2>2, <1>1 DEF Flight
    <3> QED BY <3>2, <3>3, <1>2
  <2> QED BY <2>1, <2>2
<1>8. ASSUME N < Len(q)
      PROVE  /\ N + 1 \in 1 .. Len(q)
             /\ q[N + 1].absolute_start <= a /\ a < absolute_end(q[N + 1])
  <2>1. N + 1 \in 1 .. Len(q) /\ N \in Nat BY <1>3, <1>4, <1>8
  <2>2. a < absolute_end(q[N + 1]) BY <2>1, <1>4, <1>6, <1>8
  <2>3. q[N + 1].absolute_start <= a
    <3>1. CASE N = 0
      <4>1. q # <<>> BY <2>1
      <4>2. q[1].absolute_start = s.snd_una BY <4>1, <1>1 DEF Flight
      <4> QED BY <3>1, <4>2
    <3>2. CASE N # 0
      <4>1. N \in 1 .. Len(q) - 1 /\ N \in 1 .. N BY <3>2, <2>1, <1>3, <1>8
      <4>2. absolute_end(q[N]) = q[N + 1].absolute_start BY <4>1, <1>1 DEF Flight
      <4> QED BY <4>1, <4>2, <1>4
    <3> QED BY <3>1, <3>2
  <2> QED BY <2>1, <2>2, <2>3
<1> DEFINE L == Len(q) - N
<1>9. /\ r \in Seq(TrackedSegments) /\ Len(r) = L
      /\ N = Len(q) => r = <<>>
      /\ N < Len(q) => /\ r # <<>> /\ r[1].absolute_start = a
                       /\ absolute_end(r[1]) = absolute_end(q[N + 1])
                       /\ sequence_length(r[1].message) > 0
                       /\ Carries(s, r[1].message, a)
      /\ \A i \in 2 .. L : r[i] = q[N + i]
  <2>1. CASE N = Len(q)
    <3>1. k = <<>>
      <4> HIDE DEF q
      <4> QED BY <2>1, <1>3
    <3>2. r = <<>> /\ Len(q) - N = 0 BY <3>1, <2>1, <1>3
    <3> HIDE DEF r
    <3> QED BY <3>2, <2>1
  <2>2. CASE N < Len(q)
    <3> DEFINE h == q[N + 1]
    <3>1. /\ N + 1 \in 1 .. Len(q) /\ h.absolute_start <= a /\ a < absolute_end(h)
          /\ h \in TrackedSegments /\ h.absolute_start \in Nat
          /\ Carries(s, h.message, h.absolute_start) /\ sequence_length(h.message) > 0
      BY <2>2, <1>6, <1>8
    <3>2. N \in Nat /\ N <= Len(q) BY <1>3, <1>4
    <3> HIDE DEF h, q
    <3>3. CASE h.absolute_start = a
      <4>1. /\ k \in Seq(TrackedSegments) /\ Len(k) = L /\ k # <<>> /\ Head(k) = h
            /\ \A i \in 1 .. L : k[i] = q[N + i]
        <5>1. /\ k \in Seq(TrackedSegments) /\ Len(k) = Len(q) - N
              /\ \A i \in 1 .. Len(q) - N : k[i] = q[N + i]
          BY <3>1, <3>2, <1>2, Suffix
        <5>2. k # <<>> /\ Head(k) = q[N + 1] BY <2>2, <3>1, <3>2, <1>2, Suffix
        <5> QED BY <5>1, <5>2 DEF h
      <4> HIDE DEF k
      <4>2. r = k BY <3>3, <4>1
      <4>3. k[1] = h /\ \A i \in 2 .. L : k[i] = q[N + i] BY <4>1
      <4> HIDE DEF r, L
      <4> QED BY <4>1, <4>2, <4>3, <2>2, <3>1, <3>3 DEF h
    <3>4. CASE h.absolute_start < a
      <4> DEFINE z == trim_prefix(h, a - h.absolute_start, s.isn)
      <4>1. /\ z \in TrackedSegments /\ z.absolute_start = a
            /\ absolute_end(z) = absolute_end(h)
            /\ sequence_length(z.message) > 0
            /\ Carries(s, z.message, a)
        BY <3>1, <3>4, <1>1, TrimKeepsPlace
      <4> DEFINE w == <<z>> \o Tail(k)
      <4> HIDE DEF z
      <4>2. /\ k # <<>> /\ Head(k) = h
            /\ w \in Seq(TrackedSegments) /\ Len(w) = L /\ w[1] = z /\ w # <<>>
            /\ \A i \in 2 .. L : w[i] = q[N + i]
        BY <2>2, <4>1, <3>2, <1>2, Suffix, SMTT(30) DEF h
      <4>3. ~(Head(k).absolute_start >= a) BY <4>2, <3>1, <3>4
      <4>4. r = w
        <5> HIDE DEF k
        <5> QED BY <4>2, <4>3 DEF z
      <4> HIDE DEF r, w, L
      <4> QED BY <4>1, <4>2, <4>4, <2>2 DEF h
    <3> HIDE DEF r, L
    <3> QED BY <3>1, <3>3, <3>4
  <2> HIDE DEF r, L
  <2> QED BY <2>1, <2>2, <1>3, <1>4
<1> HIDE DEF r
<1>10. t = [[o EXCEPT !.outstanding = r] EXCEPT !.current_rto_ms = INITIAL_RTO,
              !.persist_interval_ms = INITIAL_RTO, !.consecutive_retransmissions = 0]
  BY <1>5 DEF acknowledge
<1> HIDE DEF t
<1>11. /\ t \in Senders /\ t.snd_una = a /\ t.snd_nxt = s.snd_nxt /\ t.outbound = s.outbound
       /\ t.isn = s.isn /\ t.fin_sent = s.fin_sent /\ t.syn_sent = s.syn_sent
       /\ t.outstanding = r /\ t.advertised_window = s.advertised_window
  <2>1. INITIAL_RTO \in INITIAL_RTO .. MAX_TIMER_INTERVAL /\ 0 \in 0 .. RETX_MAX
    BY ConfigNumbers
  <2>2. o \in Senders /\ o.snd_una = a /\ o.snd_nxt = s.snd_nxt /\ o.outbound = s.outbound
        /\ o.isn = s.isn /\ o.fin_sent = s.fin_sent /\ o.syn_sent = s.syn_sent
        /\ o.advertised_window = s.advertised_window
    BY <1>1 DEF Senders
  <2> HIDE DEF o
  <2> QED BY <2>1, <2>2, <1>9, <1>10 DEF Senders
<1>12. Grows(s, t) BY <1>2, <1>11 DEF Grows
<1>13. ASSUME NEW i \in 1 .. Len(r)
       PROVE  sequence_length(r[i].message) > 0 /\ Carries(t, r[i].message, r[i].absolute_start)
  <2>1. sequence_length(r[i].message) > 0 /\ Carries(s, r[i].message, r[i].absolute_start)
    <3>1. CASE i = 1
      <4>1. N < Len(q) BY <1>3, <1>4, <1>9
      <4> QED BY <3>1, <4>1, <1>9
    <3>2. CASE i # 1
      <4>1. i \in 2 .. L /\ N + i \in 1 .. Len(q) BY <3>2, <1>3, <1>4, <1>9
      <4> QED BY <4>1, <1>6, <1>9
    <3> QED BY <3>1, <3>2
  <2> QED BY <2>1, <1>2, <1>11, <1>12, CarriedOn
<1>14. ASSUME NEW i \in 1 .. Len(r) - 1 PROVE absolute_end(r[i]) = r[i + 1].absolute_start
  <2>1. /\ N + i \in 1 .. Len(q) - 1 /\ (N + i) + 1 = N + (i + 1)
        /\ i + 1 \in 2 .. L /\ N < Len(q)
    BY <1>3, <1>4, <1>9
  <2>2. absolute_end(q[N + i]) = q[N + (i + 1)].absolute_start BY <2>1, <1>1 DEF Flight
  <2>3. absolute_end(r[i]) = absolute_end(q[N + i])
    <3>1. CASE i = 1 BY <3>1, <2>1, <1>9
    <3>2. CASE i # 1
      <4>1. i \in 2 .. L BY <3>2, <2>1, <1>3, <1>4
      <4> QED BY <4>1, <1>9
    <3> QED BY <3>1, <3>2
  <2> QED BY <2>1, <2>2, <2>3, <1>9
<1>15. ASSUME r # <<>> PROVE absolute_end(r[Len(r)]) = s.snd_nxt
  <2>1. N < Len(q) BY <1>15, <1>3, <1>4, <1>9
  <2>2. q # <<>> /\ N + L = Len(q) /\ L \in Nat /\ L >= 1 BY <2>1, <1>3, <1>4
  <2>3. absolute_end(q[N + L]) = s.snd_nxt BY <2>2, <1>1 DEF Flight
  <2>4. CASE L = 1 BY <2>1, <2>3, <2>4, <1>9
  <2>5. CASE L # 1
    <3>1. L \in 2 .. L BY <2>5, <2>2
    <3>2. r[L] = q[N + L] BY <3>1, <1>9
    <3> QED BY <3>2, <2>3, <1>9
  <2> QED BY <2>4, <2>5
<1>16. r # <<>> => r[1].absolute_start = a BY <1>3, <1>4, <1>9
<1>17. r = <<>> => a = s.snd_nxt BY <1>3, <1>4, <1>7, <1>9
<1>18. Flight(t) BY <1>11, <1>13, <1>14, <1>15, <1>16, <1>17 DEF Flight
<1>19. Accounting(t) BY <1>1, <1>11 DEF Accounting
<1> QED BY <1>1, <1>11, <1>12, <1>18, <1>19 DEF Placed, t
-----------------------------------------------------------------------------
(* A new sender has everything in order. *)
LEMMA NewSender ==
  ASSUME NEW capacity \in Nat, NEW isn \in RawValues
  PROVE  LET s == new_sender(capacity, isn) IN
         /\ SenderOK(s) /\ s.isn = isn /\ s.snd_una = 0 /\ s.snd_nxt = 0
         /\ s.advertised_window = 1 /\ s.outbound = new_stream(capacity)
         /\ s.syn_sent = FALSE /\ s.fin_sent = FALSE
<1> DEFINE s == new_sender(capacity, isn)
           o == new_stream(capacity)
           w == StoppedTimer
           e == <<>>
<1>1. o \in Streams /\ Contiguous(o) /\ o.bytes_popped = 0
  BY DEF new_stream, Streams, Contiguous
<1>2. /\ w \in Timers /\ w.running = FALSE BY DEF StoppedTimer, Timers
<1>3. e \in Seq(TrackedSegments) /\ Len(e) = 0 OBVIOUS
<1>4. INITIAL_RTO \in INITIAL_RTO .. MAX_TIMER_INTERVAL /\ 0 \in 0 .. RETX_MAX
  BY ConfigNumbers
<1>5. s = [outbound |-> o, isn |-> isn, snd_una |-> 0, snd_nxt |-> 0,
           advertised_window |-> 1, outstanding |-> e, syn_sent |-> FALSE,
           fin_sent |-> FALSE, current_rto_ms |-> INITIAL_RTO,
           persist_interval_ms |-> INITIAL_RTO, timer |-> w,
           consecutive_retransmissions |-> 0]
  BY DEF new_sender
<1> HIDE DEF s, o, w, e
<1>6. /\ s \in Senders /\ s.isn = isn /\ s.snd_una = 0 /\ s.snd_nxt = 0
      /\ s.advertised_window = 1 /\ s.outbound = o /\ s.syn_sent = FALSE
      /\ s.fin_sent = FALSE /\ s.outstanding = e /\ s.timer = w
  BY <1>1, <1>2, <1>3, <1>4, <1>5 DEF Senders
<1>7. Flight(s) BY <1>3, <1>6 DEF Flight, e
<1>8. Accounting(s) BY <1>1, <1>6 DEF Accounting, One
<1>9. Armed(s) BY <1>2, <1>6 DEF Armed, e
<1> QED BY <1>1, <1>6, <1>7, <1>8, <1>9 DEF SenderOK, Placed, StreamOK, s, o

(* The application only changes the outbound stream, and pops nothing from it. *)
LEMMA OutboundChanges ==
  ASSUME NEW s, SenderOK(s), NEW o, StreamOK(o), NEW t, t = [s EXCEPT !.outbound = o],
         o.bytes_popped = s.outbound.bytes_popped, s.outbound.error => o.error,
         stream_is_finished(s.outbound) => stream_is_finished(o)
  PROVE  /\ SenderOK(t) /\ Grows(s, t) /\ t.outbound = o
         /\ t.snd_una = s.snd_una /\ t.snd_nxt = s.snd_nxt /\ t.isn = s.isn
         /\ t.advertised_window = s.advertised_window /\ t.fin_sent = s.fin_sent
<1>1. /\ s \in Senders /\ StreamOK(s.outbound) /\ Flight(s) /\ Accounting(s) /\ Armed(s)
  BY DEF SenderOK, Placed
<1>2. o \in Streams BY DEF StreamOK
<1>3. /\ t \in Senders /\ t.outbound = o /\ t.snd_una = s.snd_una /\ t.snd_nxt = s.snd_nxt
      /\ t.isn = s.isn /\ t.advertised_window = s.advertised_window
      /\ t.fin_sent = s.fin_sent /\ t.syn_sent = s.syn_sent /\ t.timer = s.timer
      /\ t.outstanding = s.outstanding
  BY <1>1, <1>2 DEF Senders
<1>4. s.snd_nxt \in Nat /\ s.outbound.bytes_popped \in Nat BY <1>1, SenderNumbers
<1>5. Grows(s, t) BY <1>3, <1>4 DEF Grows
<1>6. ASSUME NEW i \in 1 .. Len(s.outstanding)
      PROVE  Carries(t, s.outstanding[i].message, s.outstanding[i].absolute_start)
  <2>1. Carries(s, s.outstanding[i].message, s.outstanding[i].absolute_start)
    BY <1>1 DEF Flight
  <2> QED BY <2>1, <1>3, <1>4, <1>5, CarriedOn
<1>7. Flight(t) BY <1>1, <1>3, <1>6 DEF Flight
<1>8. Accounting(t) BY <1>1, <1>3 DEF Accounting
<1>9. Armed(t) BY <1>1, <1>3 DEF Armed
<1> QED BY <1>3, <1>5, <1>7, <1>8, <1>9 DEF SenderOK, Placed

(* The application writes its next n bytes; a closed stream refuses them. *)
LEMMA WriteKeeps ==
  ASSUME NEW s, SenderOK(s), NEW n \in Nat
  PROVE  LET p == s.outbound.bytes_pushed
             o == stream_push(s.outbound, Bytes(p, p + n))
             t == [s EXCEPT !.outbound = o] IN
         /\ SenderOK(t) /\ Grows(s, t) /\ t.outbound = o
         /\ t.snd_una = s.snd_una /\ t.snd_nxt = s.snd_nxt /\ t.isn = s.isn
         /\ t.advertised_window = s.advertised_window /\ t.fin_sent = s.fin_sent
         /\ o.bytes_pushed \in p .. p + n /\ o.closed = s.outbound.closed
         /\ o.error = s.outbound.error /\ o.bytes_popped = s.outbound.bytes_popped
<1> DEFINE p == s.outbound.bytes_pushed
           d == Bytes(p, p + n)
           o == stream_push(s.outbound, d)
<1>1. s \in Senders /\ StreamOK(s.outbound) BY DEF SenderOK, Placed
<1>2. p \in Nat BY <1>1, SenderNumbers
<1>3. d \in ByteRuns /\ d.lo = p /\ d.hi = p + n /\ d.lo <= d.hi /\ len(d) = n
  BY <1>2 DEF Bytes, ByteRuns, len
<1> HIDE DEF d
<1>4. /\ StreamOK(o) /\ accepted(s.outbound, d) \in Nat /\ accepted(s.outbound, d) <= len(d)
      /\ o.bytes_pushed = p + accepted(s.outbound, d)
      /\ o.bytes_popped = s.outbound.bytes_popped
      /\ o.closed = s.outbound.closed /\ o.error = s.outbound.error
  BY <1>1, <1>3, PushKeepsOrder
<1>5. ASSUME s.outbound.closed PROVE o = s.outbound
  BY <1>5 DEF stream_push, accepted
<1>6. stream_is_finished(s.outbound) => stream_is_finished(o)
  BY <1>5 DEF stream_is_finished
<1>7. o.bytes_pushed \in p .. p + n BY <1>2, <1>3, <1>4
<1> DEFINE t == [s EXCEPT !.outbound = o]
<1> HIDE DEF o, p
<1>8. /\ SenderOK(t) /\ Grows(s, t) /\ t.outbound = o
      /\ t.snd_una = s.snd_una /\ t.snd_nxt = s.snd_nxt /\ t.isn = s.isn
      /\ t.advertised_window = s.advertised_window /\ t.fin_sent = s.fin_sent
  BY <1>4, <1>6, OutboundChanges
<1> QED BY <1>4, <1>7, <1>8 DEF t, o, d, p

(* The application closes the outbound stream. *)
LEMMA CloseKeeps ==
  ASSUME NEW s, SenderOK(s)
  PROVE  LET o == stream_close(s.outbound)
             t == [s EXCEPT !.outbound = o] IN
         /\ SenderOK(t) /\ Grows(s, t) /\ t.outbound = o
         /\ t.snd_una = s.snd_una /\ t.snd_nxt = s.snd_nxt /\ t.isn = s.isn
         /\ t.advertised_window = s.advertised_window /\ t.fin_sent = s.fin_sent
         /\ o.bytes_pushed = s.outbound.bytes_pushed /\ o.closed
         /\ o.error = s.outbound.error /\ o.bytes_popped = s.outbound.bytes_popped
<1> DEFINE o == stream_close(s.outbound)
           t == [s EXCEPT !.outbound = o]
<1>1. s \in Senders /\ StreamOK(s.outbound) BY DEF SenderOK, Placed
<1>2. /\ StreamOK(o) /\ o.bytes_popped = s.outbound.bytes_popped /\ o.closed
      /\ o.bytes_pushed = s.outbound.bytes_pushed /\ o.error = s.outbound.error
      /\ o.bytes_buffered = s.outbound.bytes_buffered
  BY <1>1, MarkKeepsOrder
<1> HIDE DEF o
<1>3. stream_is_finished(s.outbound) => stream_is_finished(o)
  BY <1>2 DEF stream_is_finished
<1>4. /\ SenderOK(t) /\ Grows(s, t) /\ t.outbound = o
      /\ t.snd_una = s.snd_una /\ t.snd_nxt = s.snd_nxt /\ t.isn = s.isn
      /\ t.advertised_window = s.advertised_window /\ t.fin_sent = s.fin_sent
  BY <1>2, <1>3, OutboundChanges
<1> QED BY <1>2, <1>4 DEF t, o

(* abort gives up everything in flight and marks the outbound stream. *)
LEMMA AbortKeeps ==
  ASSUME NEW s, SenderOK(s)
  PROVE  LET t == abort(s) IN
         /\ SenderOK(t) /\ Grows(s, t)
         /\ t.snd_una = s.snd_nxt /\ t.snd_nxt = s.snd_nxt /\ t.fin_sent = s.fin_sent
         /\ t.advertised_window = s.advertised_window
         /\ t.outbound = stream_set_error(s.outbound)
<1> DEFINE t == abort(s)
           o == stream_set_error(s.outbound)
           w == StoppedTimer
           e == <<>>
<1>1. s \in Senders /\ StreamOK(s.outbound) /\ Flight(s) /\ Accounting(s)
  BY DEF SenderOK, Placed
<1>2. /\ StreamOK(o) /\ o.bytes_popped = s.outbound.bytes_popped /\ o.error
      /\ o.closed = s.outbound.closed /\ o.bytes_buffered = s.outbound.bytes_buffered
  BY <1>1, MarkKeepsOrder
<1>3. o \in Streams BY <1>2 DEF StreamOK
<1>4. w \in Timers /\ w.running = FALSE BY DEF StoppedTimer, Timers
<1>5. e \in Seq(TrackedSegments) /\ Len(e) = 0 OBVIOUS
<1>6. t = [s EXCEPT !.outbound = o, !.outstanding = e, !.snd_una = s.snd_nxt, !.timer = w]
  BY DEF abort
<1> HIDE DEF t, o, w, e
<1>7. /\ t \in Senders /\ t.outbound = o /\ t.outstanding = e /\ t.snd_una = s.snd_nxt
      /\ t.snd_nxt = s.snd_nxt /\ t.timer = w /\ t.isn = s.isn
      /\ t.syn_sent = s.syn_sent /\ t.fin_sent = s.fin_sent
      /\ t.advertised_window = s.advertised_window
  <2>1. s.snd_nxt \in Nat BY <1>1, SenderNumbers
  <2> QED BY <2>1, <1>1, <1>3, <1>4, <1>5, <1>6 DEF Senders
<1>8. s.snd_nxt \in Nat /\ s.outbound.bytes_popped \in Nat BY <1>1, SenderNumbers
<1>9. Flight(t) BY <1>5, <1>7, <1>8 DEF Flight, e
<1>10. Accounting(t) BY <1>1, <1>2, <1>7 DEF Accounting, stream_is_finished
<1>11. Armed(t) BY <1>4, <1>7 DEF Armed, e
<1>12. Grows(s, t) BY <1>2, <1>7, <1>8 DEF Grows
<1> QED BY <1>2, <1>7, <1>9, <1>10, <1>11, <1>12 DEF SenderOK, Placed, t, o

(* The messages of a receiver. *)
Feedback == [ackno : RawValues \cup {None}, window_size : Nat, rst : BOOLEAN]

(* An acknowledgment that TcpSender::receive takes into account. *)
Accepts(s, f) ==
  /\ ~f.rst /\ f.ackno # None
  /\ unwrap(f.ackno, s.isn, s.snd_nxt) <= s.snd_nxt

(***************************************************************************)
(* TcpSender::receive: SND.UNA only goes up, to what an acceptable         *)
(* acknowledgment says, and never past SND.NXT; the timer fits the queue   *)
(* and the window that result, also where receive leaves it alone.         *)
(***************************************************************************)
LEMMA ReceiveKeeps ==
  ASSUME NEW s, SenderOK(s), NEW f \in Feedback
  PROVE  LET t == sender_receive(s, f)
             u == unwrap(f.ackno, s.isn, s.snd_nxt) IN
         /\ SenderOK(t) /\ Grows(s, t)
         /\ t.snd_nxt = s.snd_nxt /\ t.fin_sent = s.fin_sent
         /\ t.snd_una >= s.snd_una
         /\ Accepts(s, f) => u \in Nat /\ t.snd_una = max(s.snd_una, u)
         /\ ~f.rst /\ ~Accepts(s, f) => t.snd_una = s.snd_una
         /\ ~f.rst => t.outbound = s.outbound
         /\ Accepts(s, f) \/ (~f.rst /\ f.ackno = None) => t.advertised_window = f.window_size
         /\ f.rst => t = abort(s)
<1> DEFINE acks == f.ackno # None
           u == unwrap(f.ackno, s.isn, s.snd_nxt)
           changed == s.advertised_window # f.window_size
           advanced == acks /\ u > s.snd_una
           o == [s EXCEPT !.advertised_window = f.window_size]
           k == IF advanced THEN acknowledge(o, u) ELSE o
           restart == \/ k.outstanding # <<>> /\ (advanced \/ changed)
                      \/ k.outstanding = <<>> /\ acks
           t == sender_receive(s, f)
<1>1. s \in Senders /\ Placed(s) /\ Armed(s) /\ Flight(s) BY DEF SenderOK, Placed
<1>2. /\ s.snd_una \in Nat /\ s.snd_nxt \in Nat /\ s.isn \in RawValues
      /\ s.outbound.bytes_popped \in Nat /\ s.snd_una <= s.snd_nxt
  BY <1>1, SenderNumbers DEF Flight
<1>3. /\ f.ackno \in RawValues \cup {None} /\ f.window_size \in Nat /\ f.rst \in BOOLEAN
  BY DEF Feedback
<1>4. acks => u \in Nat
  <2> SUFFICES ASSUME acks PROVE u \in Nat OBVIOUS
  <2>1. f.ackno \in RawValues BY <1>3
  <2> QED BY <2>1, <1>2, UnwrapNearest
<1>5. t = IF f.rst THEN abort(s)
          ELSE IF acks /\ u > s.snd_nxt THEN s
          ELSE IF restart THEN restart_timer_for_current_window(k) ELSE k
  BY DEF sender_receive
<1>6. Accepts(s, f) <=> ~f.rst /\ acks /\ u <= s.snd_nxt BY DEF Accepts
<1> HIDE DEF u
<1>7. CASE f.rst
  <2>1. t = abort(s) BY <1>5, <1>7
  <2>2. /\ SenderOK(t) /\ Grows(s, t)
        /\ t.snd_una = s.snd_nxt /\ t.snd_nxt = s.snd_nxt /\ t.fin_sent = s.fin_sent
    BY <2>1, AbortKeeps
  <2> HIDE DEF t
  <2>3. t.snd_una >= s.snd_una BY <2>2, <1>2
  <2> QED BY <2>1, <2>2, <2>3, <1>6, <1>7 DEF t, u
<1>8. CASE ~f.rst /\ acks /\ u > s.snd_nxt
  <2>1. t = s BY <1>5, <1>8
  <2>2. Grows(s, s) BY <1>1, GrowsOrder
  <2>3. ~Accepts(s, f) BY <1>2, <1>4, <1>6, <1>8
  <2> HIDE DEF t
  <2>4. SenderOK(t) /\ Grows(s, t) /\ t.snd_una >= s.snd_una BY <2>1, <2>2, <1>2
  <2> QED BY <2>1, <2>3, <2>4, <1>8 DEF t, u
<1>9. CASE ~f.rst /\ ~(acks /\ u > s.snd_nxt)
  <2>1. t = IF restart THEN restart_timer_for_current_window(k) ELSE k BY <1>5, <1>9
  <2>2. /\ o \in Senders /\ Core(o) = Core(s) /\ o.advertised_window = f.window_size
        /\ o.timer = s.timer
    BY <1>1, <1>3 DEF Senders, Core
  <2>3. /\ o.outbound = s.outbound /\ o.isn = s.isn /\ o.snd_una = s.snd_una
        /\ o.snd_nxt = s.snd_nxt /\ o.outstanding = s.outstanding /\ o.fin_sent = s.fin_sent
    BY <2>2 DEF Core
  <2>4. Placed(o) /\ Grows(s, o) BY <2>2, <1>1, SameCore
  <2>5. /\ Placed(k) /\ Grows(s, k) /\ k.snd_nxt = s.snd_nxt /\ k.outbound = s.outbound
        /\ k.fin_sent = s.fin_sent /\ k.advertised_window = f.window_size
        /\ k.snd_una = IF advanced THEN u ELSE s.snd_una
    <3>1. CASE advanced
      <4>1. k = acknowledge(o, u) BY <3>1
      <4>2. u \in Nat /\ o.snd_una <= u /\ u <= o.snd_nxt
        BY <3>1, <2>3, <1>2, <1>4, <1>9
      <4> HIDE DEF o, k
      <4>3. /\ Placed(k) /\ Grows(o, k) /\ k.snd_una = u /\ k.snd_nxt = o.snd_nxt
            /\ k.outbound = o.outbound /\ k.fin_sent = o.fin_sent
            /\ k.advertised_window = o.advertised_window
        BY <4>1, <4>2, <2>4, AcknowledgeDrops
      <4>4. k \in Senders BY <4>3 DEF Placed
      <4>5. Grows(s, k) BY <4>3, <4>4, <2>2, <2>4, <1>1, GrowsOrder
      <4> QED BY <4>3, <4>5, <3>1, <2>2, <2>3
    <3>2. CASE ~advanced
      <4>1. k = o BY <3>2
      <4> HIDE DEF o, k, advanced
      <4> QED BY <4>1, <3>2, <2>2, <2>3, <2>4
    <3> HIDE DEF k
    <3> QED BY <3>1, <3>2
  <2>6. ASSUME ~restart PROVE Armed(k)
    <3>1. ~advanced
      <4>1. advanced => acks OBVIOUS
      <4> HIDE DEF advanced, k, acks
      <4> QED BY <4>1, <2>6
    <3>2. k = o BY <3>1
    <3>3. CASE k.outstanding # <<>>
      <4>1. ~changed BY <3>3, <2>6
      <4>2. f.window_size = s.advertised_window BY <4>1
      <4> HIDE DEF o, k
      <4> QED BY <4>2, <3>2, <2>2, <2>3, <1>1 DEF Armed
    <3>4. CASE k.outstanding = <<>>
      <4> HIDE DEF o, k
      <4>1. s.outstanding = <<>> BY <3>2, <3>4, <2>3
      <4> QED BY <4>1, <3>2, <2>2, <2>3, <1>1 DEF Armed
    <3> QED BY <3>3, <3>4
  <2>7. SenderOK(t) /\ Core(t) = Core(k) /\ t.advertised_window = k.advertised_window
    <3>1. CASE restart
      <4>1. t = restart_timer_for_current_window(k) BY <3>1, <2>1
      <4> HIDE DEF t, k
      <4> QED BY <4>1, <2>5, RestartArms
    <3>2. CASE ~restart
      <4>1. t = k BY <3>2, <2>1
      <4>2. Armed(k) BY <3>2, <2>6
      <4> HIDE DEF t, k
      <4> QED BY <4>1, <4>2, <2>5 DEF SenderOK
    <3> HIDE DEF restart, t, k
    <3> QED BY <3>1, <3>2
  <2> HIDE DEF t, k
  <2>8. /\ t.outbound = k.outbound /\ t.snd_una = k.snd_una /\ t.snd_nxt = k.snd_nxt
        /\ t.fin_sent = k.fin_sent
    BY <2>7 DEF Core
  <2>9. t \in Senders /\ k \in Senders BY <2>5, <2>7 DEF SenderOK, Placed
  <2>10. Grows(s, t)
    <3>1. Grows(k, t) BY <2>5, <2>7, <2>9, SameCore
    <3> QED BY <3>1, <2>5, <2>9, <1>1, GrowsOrder
  <2>11. t.snd_una = IF advanced THEN u ELSE s.snd_una BY <2>5, <2>8
  <2>12. t.snd_una >= s.snd_una BY <2>11, <1>2, <1>4
  <2>13. Accepts(s, f) => u \in Nat /\ t.snd_una = max(s.snd_una, u)
    BY <2>11, <1>2, <1>4, <1>6 DEF max
  <2>14. ~Accepts(s, f) => t.snd_una = s.snd_una
    BY <2>11, <1>2, <1>4, <1>6, <1>9
  <2> QED BY <2>5, <2>7, <2>8, <2>10, <2>12, <2>13, <2>14, <1>9 DEF t, u
<1> HIDE DEF acks
<1> QED BY <1>7, <1>8, <1>9

(* Backing off keeps both timeouts between the initial RTO and the limit. *)
LEMMA BackOffKeeps ==
  ASSUME NEW s, Placed(s)
  PROVE  /\ Placed(back_off(s)) /\ Core(back_off(s)) = Core(s)
         /\ back_off(s).advertised_window = s.advertised_window
<1> DEFINE t == back_off(s)
<1>1. s \in Senders BY DEF Placed
<1>2. ASSUME NEW x \in INITIAL_RTO .. MAX_TIMER_INTERVAL
      PROVE  backed_off(x) \in INITIAL_RTO .. MAX_TIMER_INTERVAL
  BY ConfigNumbers DEF backed_off, min
<1>3. ASSUME NEW n \in 0 .. RETX_MAX PROVE saturating_add(n, 1, RETX_MAX) \in 0 .. RETX_MAX
  BY ConfigNumbers DEF saturating_add, min
<1> DEFINE r == backed_off(s.current_rto_ms)
           p == backed_off(s.persist_interval_ms)
           n == saturating_add(s.consecutive_retransmissions, 1, RETX_MAX)
<1>4. /\ r \in INITIAL_RTO .. MAX_TIMER_INTERVAL /\ p \in INITIAL_RTO .. MAX_TIMER_INTERVAL
      /\ n \in 0 .. RETX_MAX
  BY <1>1, <1>2, <1>3, SenderNumbers
<1>5. \/ t = [s EXCEPT !.persist_interval_ms = p]
      \/ t = [s EXCEPT !.consecutive_retransmissions = n, !.current_rto_ms = r]
  BY DEF back_off
<1> HIDE DEF t, r, p, n
<1>6. t \in Senders /\ Core(t) = Core(s) /\ t.advertised_window = s.advertised_window
  BY <1>1, <1>4, <1>5 DEF Senders, Core
<1>7. Placed(t) BY <1>6, SameCore
<1> QED BY <1>6, <1>7 DEF t

(***************************************************************************)
(* TcpSender::tick: the timer runs on or, expired, is armed again, and     *)
(* what it resends is the segment at SND.UNA.                              *)
(***************************************************************************)
LEMMA TickKeeps ==
  ASSUME NEW s, SenderOK(s), NEW e \in Nat
  PROVE  LET r == sender_tick(s, e)
             t == r.sender IN
         /\ SenderOK(t) /\ Core(t) = Core(s) /\ Grows(s, t)
         /\ t.advertised_window = s.advertised_window
         /\ r.sent \in Seq(Messages)
         /\ \A i \in 1 .. Len(r.sent) : Carries(t, r.sent[i], s.snd_una)
<1> DEFINE r == sender_tick(s, e)
           t == r.sender
           w == timer_tick(s.timer, e)
           k == [s EXCEPT !.timer = w]
           q == s.outstanding
<1>1. s \in Senders /\ Placed(s) /\ Armed(s) /\ Flight(s) BY DEF SenderOK, Placed
<1>2. s.timer \in Timers /\ q \in Seq(TrackedSegments) /\ s.snd_una \in Nat
  BY <1>1, SenderNumbers
<1>3. /\ w \in Timers /\ w.running = s.timer.running /\ w.mode = s.timer.mode
      /\ w.timeout_ms = s.timer.timeout_ms
      /\ ~w.running => w = s.timer
  <2>1. s.timer.elapsed_ms \in Nat BY <1>2 DEF Timers
  <2> DEFINE n == saturating_add(s.timer.elapsed_ms, e, U64_MAX)
  <2>2. n \in Nat BY <2>1, ConfigNumbers DEF saturating_add, min
  <2>3. w = IF ~s.timer.running THEN s.timer ELSE [s.timer EXCEPT !.elapsed_ms = n]
    BY DEF timer_tick
  <2> HIDE DEF n, w
  <2> QED BY <2>2, <2>3, <1>2 DEF Timers
<1> HIDE DEF w
<1>4. /\ k \in Senders /\ k.timer = w /\ Core(k) = Core(s)
      /\ k.advertised_window = s.advertised_window
  BY <1>1, <1>3 DEF Senders, Core
<1>5. k.outstanding = s.outstanding BY <1>4 DEF Core
<1>6. r = IF ~Expired(w) THEN [sender |-> k, sent |-> <<>>]
          ELSE IF q = <<>> THEN [sender |-> [s EXCEPT !.timer = StoppedTimer], sent |-> <<>>]
          ELSE [sender |-> restart_timer_for_current_window(back_off(s)),
                sent |-> <<Head(q).message>>]
  <2>1. k.timer = w BY <1>4
  <2> QED BY <2>1 DEF sender_tick, w
<1> HIDE DEF k
<1>7. CASE ~Expired(w)
  <2>1. t = k /\ r.sent = <<>> BY <1>6, <1>7
  <2>2. Placed(k) /\ Grows(s, k) BY <1>1, <1>4, SameCore
  <2>3. w.running => w.elapsed_ms < w.timeout_ms
    <3>1. w.elapsed_ms \in Nat /\ w.timeout_ms \in Nat BY <1>3 DEF Timers
    <3> QED BY <3>1, <1>7 DEF Expired
  <2>4. Armed(k) BY <2>3, <1>1, <1>3, <1>4, <1>5 DEF Armed
  <2>5. r.sent \in Seq(Messages) /\ Len(r.sent) = 0
    <3>1. <<>> \in Seq(Messages) /\ Len(<<>>) = 0 OBVIOUS
    <3> QED BY <3>1, <2>1
  <2> HIDE DEF r
  <2> QED BY <2>1, <2>2, <2>4, <2>5, <1>4 DEF SenderOK, r
<1>8. CASE Expired(w)
  <2>1. q # <<>> BY <1>8, <1>1, <1>3 DEF Expired, Armed
  <2> DEFINE m == Head(q).message
             b == back_off(s)
  <2>2. t = restart_timer_for_current_window(b) /\ r.sent = <<m>> BY <2>1, <1>6, <1>8
  <2>3. Placed(b) /\ Core(b) = Core(s) /\ b.advertised_window = s.advertised_window
    BY <1>1, BackOffKeeps
  <2>4. SenderOK(t) /\ Core(t) = Core(b) /\ t.advertised_window = b.advertised_window
    BY <2>2, <2>3, RestartArms
  <2>5. 1 \in 1 .. Len(q) /\ Head(q) = q[1] BY <2>1, <1>2
  <2>6. Carries(s, m, s.snd_una)
    <3>1. q[1].absolute_start = s.snd_una BY <2>1, <1>1 DEF Flight
    <3>2. Carries(s, q[1].message, q[1].absolute_start) BY <2>5, <1>1 DEF Flight
    <3> QED BY <3>1, <3>2, <2>5
  <2>7. m \in Messages BY <2>6 DEF Carries
  <2> HIDE DEF m, b, t
  <2>8. t \in Senders BY <2>4 DEF SenderOK, Placed
  <2>9. Grows(s, t) BY <2>3, <2>4, <2>8, <1>1, SameCore
  <2>10. Carries(t, m, s.snd_una) BY <2>6, <2>8, <2>9, <1>1, CarriedOn, SenderNumbers
  <2>11. r.sent \in Seq(Messages) /\ Len(r.sent) = 1 /\ r.sent[1] = m
    <3> HIDE DEF r
    <3> QED BY <2>2, <2>7
  <2> HIDE DEF r
  <2> QED BY <2>3, <2>4, <2>9, <2>10, <2>11 DEF t, r
<1> QED BY <1>7, <1>8
-----------------------------------------------------------------------------
(***************************************************************************)
(* Part four: a connection.  An end is its port, its initial number and    *)
(* the length of its stream.  SYN, bytes and FIN take at most half of the  *)
(* sequence space: the network may keep a segment for any time, so what a  *)
(* number stands for is only clear if all of the stream lies that near.    *)
(***************************************************************************)
IsEnd(e) == e.isn \in RawValues /\ e.length \in Nat /\ 2 * (e.length + 2) <= MODULUS

(* What a receiver would acknowledge. *)
Reached(rcv) == IF rcv.isn = None THEN 0 ELSE absolute_ackno(rcv)

(* A receiver between two calls. *)
ReceiverOK(rcv) ==
  /\ rcv = [reassembler |-> rcv.reassembler, isn |-> rcv.isn]
  /\ Whole(rcv.reassembler)

(* A connection of end e to end f between two calls. *)
Connected(e, f, c) ==
  /\ c = [local_port |-> e.port, peer_port |-> f.port,
          sender |-> c.sender, receiver |-> c.receiver]
  /\ SenderOK(c.sender) /\ c.sender.isn = e.isn
  /\ c.sender.outbound.bytes_pushed <= e.length
  /\ ReceiverOK(c.receiver)

(* All that the receiver knows comes from the sender s at the other end. *)
Follows(rcv, s) ==
  /\ rcv.isn \in {None, s.isn}
  /\ rcv.isn # None => s.syn_sent
  /\ rcv.isn = None => rcv.reassembler.eof_index = None
  /\ rcv.isn = None => \A b \in Nat : ~Holds(rcv.reassembler, b)
  /\ \A b \in Nat : Holds(rcv.reassembler, b) => b < s.outbound.bytes_popped
  /\ rcv.reassembler.eof_index # None =>
       s.fin_sent /\ rcv.reassembler.eof_index = s.outbound.bytes_popped

(* The number a segment acknowledges, 0 if none, to a sender whose numbers start at isn. *)
AckOf(seg, isn) == IF seg.ackno = None THEN 0 ELSE unwrap(seg.ackno, isn, 1)

(* The segment carries the feedback of receiver rcv as it is. *)
Reports(seg, rcv) ==
  /\ seg.ackno = receiver_send(rcv).ackno
  /\ seg.window_size = receiver_send(rcv).window_size

(* From s to t a sender sends nothing new, or no more than its window. *)
Paced(s, t) ==
  t.snd_nxt = s.snd_nxt \/ bytes_in_flight(t) <= EffectiveWindow(t)

(* It has heard nothing from its peer. *)
SameFeedback(s, t) ==
  t.snd_una = s.snd_una /\ t.advertised_window = s.advertised_window

(* The types of the segments between ports P. *)
Segments(P) ==
  [src_port : P, dst_port : P, seqno : RawValues, syn : BOOLEAN,
   payload : ByteRuns, fin : BOOLEAN, rst : BOOLEAN,
   ackno : RawValues \cup {None}, window_size : Nat]

(***************************************************************************)
(* A segment, however old, of a connection with sender s and receiver rcv   *)
(* to a peer whose numbers start at isn: a reset, or without a number of   *)
(* its own, or at its place in the stream of s; and what it acknowledges   *)
(* the receiver still has.                                                 *)
(***************************************************************************)
Genuine(seg, s, rcv, isn) ==
  /\ \/ seg.rst
     \/ sequence_length(to_sender_message(seg)) = 0
     \/ \E a \in Nat : Carries(s, to_sender_message(seg), a)
  /\ seg.ackno # None => \E k \in Nat : /\ 1 <= k /\ k <= Reached(rcv)
                                        /\ seg.ackno = wrap(k, isn)

(* The segment goes from end e, connection c, to end f. *)
SegmentOf(e, f, c, seg) ==
  /\ seg \in Segments({e.port, f.port}) /\ seg.src_port = e.port /\ seg.dst_port = f.port
  /\ Genuine(seg, c.sender, c.receiver, f.isn)

(* Nothing has failed yet, and the peer p of c has everything that c has forgotten. *)
Clean(c, p) ==
  /\ ~c.sender.outbound.error /\ ~c.receiver.reassembler.output.error
  /\ c.sender.snd_una <= Reached(p.receiver)

-----------------------------------------------------------------------------
(* The numbers of an end. *)
LEMMA EndNumbers ==
  ASSUME NEW e, IsEnd(e)
  PROVE  /\ e.length \in Nat /\ e.isn \in RawValues
         /\ MODULUS \in Nat /\ U64_MAX \in Nat /\ U16_MAX \in Nat
         /\ 2 * (e.length + 2) <= MODULUS
         /\ e.length + 2 <= U64_MAX
<1>1. e.length \in Nat /\ e.isn \in RawValues
  BY DEF IsEnd
<1>2. MODULUS \in Nat /\ MODULUS > 0 /\ U64_MAX \in Nat /\ U16_MAX \in Nat
  BY ModulusAssumption, U64Assumption, U16Assumption
     DEF ModulusAssumption, U64Assumption, U16Assumption
<1>3. 2 * (e.length + 2) <= MODULUS BY DEF IsEnd
<1>4. MODULUS <= U64_MAX + 1
  <2> SUFFICES ASSUME U64_MAX + 1 < MODULUS PROVE FALSE BY <1>2
  <2>1. U64_MAX + 1 \in RawValues BY <1>2 DEF RawValues
  <2>2. (MODULUS * 0 + (U64_MAX + 1)) % MODULUS = U64_MAX + 1 BY <2>1, RemainderUnique
  <2>3. MODULUS * 0 + (U64_MAX + 1) = U64_MAX + 1 BY <1>2
  <2> QED BY <2>2, <2>3, <1>2, U64IsWholeEras DEF U64IsWholeEras
<1> QED BY <1>1, <1>2, <1>3, <1>4

(***************************************************************************)
(* A receiver that follows a sender has assembled what that sender has     *)
(* sent, and its acknowledgment lies within what was sent.                 *)
(***************************************************************************)
LEMMA ReachedNumbers ==
  ASSUME NEW e, IsEnd(e), NEW s, SenderOK(s),
         s.outbound.bytes_pushed <= e.length, NEW rcv, ReceiverOK(rcv), Follows(rcv, s)
  PROVE  LET o == rcv.reassembler.output IN
         /\ o.bytes_pushed \in Nat /\ o.bytes_pushed <= s.outbound.bytes_popped
         /\ s.outbound.bytes_popped \in Nat
         /\ s.outbound.bytes_popped <= s.outbound.bytes_pushed
         /\ s.snd_nxt \in Nat /\ s.snd_nxt <= e.length + 2
         /\ Reached(rcv) \in Nat /\ Reached(rcv) <= s.snd_nxt
         /\ rcv.isn # None => Reached(rcv) = o.bytes_pushed + 1 + One(o.closed)
         /\ rcv.isn = None => Reached(rcv) = 0 /\ o.bytes_pushed = 0 /\ ~o.closed
         /\ o.closed => /\ s.fin_sent /\ s.outbound.closed
                        /\ o.bytes_pushed = s.outbound.bytes_pushed
                        /\ o.bytes_pushed = s.outbound.bytes_popped
<1> DEFINE r == rcv.reassembler
           o == r.output
<1>1. /\ o.bytes_pushed \in Nat /\ o.closed \in BOOLEAN
      /\ o.closed <=> r.eof_index = o.bytes_pushed
  BY SoundNumbers DEF ReceiverOK, Whole
<1>2. s \in Senders /\ Accounting(s) /\ StreamOK(s.outbound) BY DEF SenderOK, Placed
<1>3. /\ s.outbound.bytes_popped \in Nat /\ s.outbound.bytes_pushed \in Nat
      /\ s.outbound.bytes_buffered \in Nat /\ s.snd_nxt \in Nat
      /\ s.syn_sent \in BOOLEAN /\ s.fin_sent \in BOOLEAN
  BY <1>2, SenderNumbers
<1>4. s.outbound.bytes_popped + s.outbound.bytes_buffered = s.outbound.bytes_pushed
  BY <1>2 DEF StreamOK, Contiguous
<1>5. /\ e.length \in Nat /\ U64_MAX \in Nat /\ e.length + 2 <= U64_MAX
  BY EndNumbers
<1>6. \A b \in Nat : b < o.bytes_pushed => b < s.outbound.bytes_popped /\ rcv.isn # None
  BY DEF Follows, Holds
<1>7. /\ o.bytes_pushed <= s.outbound.bytes_popped
      /\ rcv.isn = None => o.bytes_pushed = 0
  <2> HIDE DEF o
  <2>1. CASE o.bytes_pushed = 0 BY <2>1, <1>3
  <2>2. CASE o.bytes_pushed > 0
    <3>1. o.bytes_pushed - 1 \in Nat BY <2>2, <1>1
    <3> QED BY <3>1, <1>1, <1>3, <1>6
  <2> QED BY <2>1, <2>2, <1>1
<1>8. o.closed => /\ s.fin_sent /\ s.outbound.closed /\ s.outbound.bytes_buffered = 0
                  /\ o.bytes_pushed = s.outbound.bytes_popped /\ rcv.isn # None
  <2> SUFFICES ASSUME o.closed
               PROVE  /\ s.fin_sent /\ s.outbound.closed /\ s.outbound.bytes_buffered = 0
                      /\ o.bytes_pushed = s.outbound.bytes_popped /\ rcv.isn # None
    OBVIOUS
  <2>1. r.eof_index = o.bytes_pushed /\ r.eof_index # None BY <1>1 DEF None
  <2> QED BY <2>1, <1>2 DEF Follows, Accounting, stream_is_finished
<1>9. /\ s.snd_nxt = One(s.syn_sent) + s.outbound.bytes_popped + One(s.fin_sent)
      /\ rcv.isn # None => s.syn_sent
  BY <1>2 DEF Accounting, Follows
<1>10. /\ One(s.syn_sent) \in {0, 1} /\ One(s.fin_sent) \in {0, 1} /\ One(o.closed) \in {0, 1}
       /\ s.syn_sent => One(s.syn_sent) = 1
       /\ o.closed => One(s.fin_sent) = 1
       /\ o.closed => One(o.closed) = 1
       /\ ~o.closed => One(o.closed) = 0
  BY <1>8 DEF One
<1> DEFINE after == saturating_add(o.bytes_pushed, 1, U64_MAX)
<1>11. absolute_ackno(rcv) = IF o.closed THEN saturating_add(after, 1, U64_MAX) ELSE after
  BY DEF absolute_ackno, receiver_output
<1> HIDE DEF o, r
<1>12. absolute_ackno(rcv) = o.bytes_pushed + 1 + One(o.closed)
  BY <1>1, <1>3, <1>4, <1>5, <1>7, <1>10, <1>11 DEF saturating_add, min
<1>13. s.snd_nxt <= e.length + 2 BY <1>3, <1>4, <1>5, <1>9, <1>10
<1>14. CASE rcv.isn = None
  <2>1. Reached(rcv) = 0 /\ ~o.closed BY <1>8, <1>14 DEF Reached
  <2> QED BY <2>1, <1>1, <1>3, <1>4, <1>7, <1>13, <1>14 DEF o, r
<1>15. CASE rcv.isn # None
  <2>1. Reached(rcv) = o.bytes_pushed + 1 + One(o.closed) BY <1>12, <1>15 DEF Reached
  <2>2. Reached(rcv) <= s.snd_nxt BY <2>1, <1>1, <1>3, <1>7, <1>8, <1>9, <1>10, <1>15
  <2>3. Reached(rcv) \in Nat BY <2>1, <1>1, <1>10
  <2>4. o.closed => o.bytes_pushed = s.outbound.bytes_pushed BY <1>3, <1>4, <1>8
  <2> HIDE DEF after
  <2> QED BY <2>1, <2>2, <2>3, <2>4, <1>1, <1>3, <1>4, <1>7, <1>8, <1>13, <1>15 DEF o, r
<1> QED BY <1>14, <1>15

(* A receiver still follows a sender that has gone on. *)
LEMMA FollowsOn ==
  ASSUME NEW s, SenderOK(s), NEW t, SenderOK(t), Grows(s, t), NEW rcv, Follows(rcv, s)
  PROVE  Follows(rcv, t)
<1>1. /\ s \in Senders /\ t \in Senders /\ Accounting(s) /\ Accounting(t)
  BY DEF SenderOK, Placed
<1>2. /\ s.snd_nxt \in Nat /\ s.syn_sent \in BOOLEAN /\ s.fin_sent \in BOOLEAN
      /\ t.snd_nxt \in Nat /\ t.syn_sent \in BOOLEAN /\ t.fin_sent \in BOOLEAN
      /\ s.outbound.bytes_popped \in Nat /\ t.outbound.bytes_popped \in Nat
  BY <1>1, SenderNumbers
<1>3. /\ s.snd_nxt = One(s.syn_sent) + s.outbound.bytes_popped + One(s.fin_sent)
      /\ t.snd_nxt = One(t.syn_sent) + t.outbound.bytes_popped + One(t.fin_sent)
      /\ s.fin_sent => s.syn_sent
      /\ t.outbound.bytes_popped > 0 \/ t.fin_sent => t.syn_sent
  BY <1>1 DEF Accounting
<1>4. /\ t.isn = s.isn /\ s.snd_nxt <= t.snd_nxt
      /\ s.outbound.bytes_popped <= t.outbound.bytes_popped
      /\ s.fin_sent => t.fin_sent /\ t.snd_nxt = s.snd_nxt
  BY DEF Grows
<1>5. s.syn_sent => t.syn_sent BY <1>2, <1>3, <1>4 DEF One
<1>6. s.fin_sent => t.outbound.bytes_popped = s.outbound.bytes_popped
  BY <1>2, <1>3, <1>4, <1>5 DEF One
<1>7. \A b \in Nat : b < s.outbound.bytes_popped => b < t.outbound.bytes_popped
  BY <1>2, <1>4
<1> QED BY <1>4, <1>5, <1>6, <1>7 DEF Follows

(* A segment stays what it was while its endpoint goes on. *)
LEMMA SegmentKept ==
  ASSUME NEW e, NEW f, NEW c, NEW d, SenderOK(c.sender), SenderOK(d.sender),
         Grows(c.sender, d.sender), Reached(c.receiver) \in Nat, Reached(d.receiver) \in Nat,
         Reached(c.receiver) <= Reached(d.receiver), NEW seg, SegmentOf(e, f, c, seg)
  PROVE  SegmentOf(e, f, d, seg)
<1> DEFINE m == to_sender_message(seg)
<1>1. c.sender \in Senders /\ d.sender \in Senders BY DEF SenderOK, Placed
<1>2. /\ c.sender.snd_nxt \in Nat /\ c.sender.outbound.bytes_popped \in Nat
      /\ d.sender.snd_nxt \in Nat /\ d.sender.outbound.bytes_popped \in Nat
  BY <1>1, SenderNumbers
<1> HIDE DEF m
<1>3. ASSUME NEW a \in Nat, Carries(c.sender, m, a) PROVE Carries(d.sender, m, a)
  BY <1>2, <1>3, CarriedOn
<1>4. \A k \in Nat : k <= Reached(c.receiver) => k <= Reached(d.receiver) OBVIOUS
<1>5. Genuine(seg, c.sender, c.receiver, f.isn) BY DEF SegmentOf
<1>6. Genuine(seg, d.sender, d.receiver, f.isn) BY <1>3, <1>4, <1>5 DEF Genuine, m
<1> QED BY <1>6 DEF SegmentOf

(* The segment that build_segment makes for a message of the sender. *)
LEMMA SegmentBuilt ==
  ASSUME NEW e, NEW f, IsEnd(e), IsEnd(f), NEW c, Connected(e, f, c),
         NEW p, Connected(f, e, p), Follows(c.receiver, p.sender),
         NEW d, d.receiver = c.receiver, NEW m \in Messages,
         sequence_length(m) = 0 \/ \E a \in Nat : Carries(d.sender, m, a)
  PROVE  LET seg == build_segment(c, m) IN
         /\ SegmentOf(e, f, d, seg) /\ Reports(seg, c.receiver)
         /\ seg.rst = (m.rst \/ c.receiver.reassembler.output.error)
<1> DEFINE rcv == c.receiver
           o == rcv.reassembler.output
           ack == IF rcv.isn = None THEN None ELSE wrap(absolute_ackno(rcv), rcv.isn)
           win == min(available_capacity(o), U16_MAX)
           seg == build_segment(c, m)
<1>1. IsEnd(f) OBVIOUS
<1>2. /\ c = [local_port |-> e.port, peer_port |-> f.port, sender |-> c.sender, receiver |-> rcv]
      /\ ReceiverOK(rcv) /\ SenderOK(p.sender) /\ p.sender.isn = f.isn
      /\ p.sender.outbound.bytes_pushed <= f.length
  BY DEF Connected
<1>3. c.local_port = e.port /\ c.peer_port = f.port
  <2> HIDE DEF rcv
  <2> QED BY <1>2
<1>4. /\ o.capacity \in Nat /\ o.bytes_buffered \in Nat /\ o.bytes_buffered <= o.capacity
      /\ o.error \in BOOLEAN
  BY <1>2, SoundNumbers DEF ReceiverOK, Whole
<1>5. U16_MAX \in Nat /\ f.isn \in RawValues BY <1>1, EndNumbers
<1>6. win \in Nat BY <1>4, <1>5 DEF available_capacity, min
<1>7. /\ Reached(rcv) \in Nat /\ o.bytes_pushed \in Nat
      /\ rcv.isn # None => Reached(rcv) = o.bytes_pushed + 1 + One(o.closed)
  BY <1>1, <1>2, ReachedNumbers
<1>8. rcv.isn \in {None, f.isn} BY <1>2 DEF Follows
<1>9. rcv.isn # None => /\ ack = wrap(Reached(rcv), f.isn) /\ 1 <= Reached(rcv)
                        /\ ack \in RawValues
  <2> SUFFICES ASSUME rcv.isn # None
               PROVE  /\ ack = wrap(Reached(rcv), f.isn) /\ 1 <= Reached(rcv)
                      /\ ack \in RawValues
    OBVIOUS
  <2>1. ack = wrap(Reached(rcv), f.isn) BY <1>8 DEF Reached
  <2>2. 1 <= Reached(rcv) BY <1>7 DEF One
  <2> QED BY <2>1, <2>2, <1>5, <1>7, WrapEras
<1>10. ack \in RawValues \cup {None} BY <1>9
<1>11. receiver_send(rcv) = [ackno |-> ack, window_size |-> win, rst |-> o.error]
  BY DEF receiver_send, ReceiverMessage, receiver_output
<1> HIDE DEF ack, win, o, rcv
<1>12. seg = [src_port |-> e.port, dst_port |-> f.port, seqno |-> m.seqno, syn |-> m.syn,
              payload |-> m.payload, fin |-> m.fin, rst |-> m.rst \/ o.error,
              ackno |-> ack, window_size |-> win]
  BY <1>3, <1>11 DEF build_segment, from_messages, rcv
<1> HIDE DEF seg
<1>13. /\ m.seqno \in RawValues /\ m.syn \in BOOLEAN /\ m.payload \in ByteRuns
       /\ m.fin \in BOOLEAN /\ m.rst \in BOOLEAN
       /\ m = [seqno |-> m.seqno, syn |-> m.syn, payload |-> m.payload, fin |-> m.fin,
               rst |-> m.rst]
  BY DEF Messages
<1>14. /\ seg \in Segments({e.port, f.port}) /\ seg.src_port = e.port /\ seg.dst_port = f.port
       /\ seg.ackno = ack /\ seg.window_size = win /\ seg.rst = (m.rst \/ o.error)
  BY <1>1, <1>4, <1>6, <1>10, <1>12, <1>13 DEF Segments
<1>15. to_sender_message(seg) = [seqno |-> m.seqno, syn |-> m.syn, payload |-> m.payload,
                                 fin |-> m.fin, rst |-> m.rst \/ o.error]
  BY <1>12 DEF to_sender_message, SenderMessage
<1>16. ~seg.rst => to_sender_message(seg) = m
  <2> SUFFICES ASSUME ~seg.rst PROVE to_sender_message(seg) = m OBVIOUS
  <2>1. (m.rst \/ o.error) = m.rst BY <1>4, <1>13, <1>14
  <2> QED BY <2>1, <1>13, <1>15
<1>17. Genuine(seg, d.sender, d.receiver, f.isn)
  <2>1. seg.ackno # None => rcv.isn # None BY <1>14 DEF ack
  <2>2. seg.ackno # None => \E k \in Nat : /\ 1 <= k /\ k <= Reached(d.receiver)
                                           /\ seg.ackno = wrap(k, f.isn)
    BY <2>1, <1>7, <1>9, <1>14 DEF rcv
  <2> QED BY <2>2, <1>16 DEF Genuine
<1>18. Reports(seg, rcv)
  <2>1. receiver_send(rcv).ackno = ack /\ receiver_send(rcv).window_size = win BY <1>11
  <2> QED BY <2>1, <1>14 DEF Reports
<1> QED BY <1>14, <1>17, <1>18 DEF SegmentOf, seg, o, rcv

(***************************************************************************)
(* Endpoint e goes from c to d and emits `out': the connection is in       *)
(* order, its sender has only gone on, and every segment is its own, with  *)
(* RST only if the endpoint knows of a failure and always if its input has *)
(* failed.                                                                 *)
(***************************************************************************)
Sends(e, f, c, d, out) ==
  /\ Connected(e, f, d) /\ Grows(c.sender, d.sender)
  /\ out \in Seq(Segments({e.port, f.port}))
  /\ \A i \in 1 .. Len(out) :
       /\ SegmentOf(e, f, d, out[i]) /\ Reports(out[i], d.receiver)
       /\ out[i].rst => d.sender.outbound.error \/ d.receiver.reassembler.output.error
       /\ d.receiver.reassembler.output.error => out[i].rst

(* A function on 1 .. n is a sequence of length n. *)
LEMMA FunctionIsSequence ==
  ASSUME NEW n \in Nat, NEW S, NEW q \in [1 .. n -> S]
  PROVE  q \in Seq(S) /\ Len(q) = n
OBVIOUS

(* emit: the sender's messages, with the latest feedback. *)
LEMMA SendsMessages ==
  ASSUME NEW e, NEW f, IsEnd(e), IsEnd(f), NEW c, Connected(e, f, c),
         NEW p, Connected(f, e, p), Follows(c.receiver, p.sender),
         NEW q, SenderOK(q.sender), Grows(c.sender, q.sender),
         q.sender.outbound.bytes_pushed <= e.length,
         q.sent \in Seq(Messages),
         \A i \in 1 .. Len(q.sent) : \E a \in Nat : Carries(q.sender, q.sent[i], a)
  PROVE  LET r == emit(c, q) IN
         /\ Sends(e, f, c, r.conn, r.out)
         /\ r.conn.sender = q.sender /\ r.conn.receiver = c.receiver
         /\ Len(r.out) = Len(q.sent)
<1> DEFINE d == [c EXCEPT !.sender = q.sender]
           out == [i \in 1 .. Len(q.sent) |-> build_segment(c, q.sent[i])]
           r == emit(c, q)
           failed == c.receiver.reassembler.output.error
<1>1. r.conn = d /\ r.out = out
  <2>1. r = [conn |-> d, out |-> out] BY DEF emit
  <2> HIDE DEF d, out
  <2> QED BY <2>1
<1>2. /\ c = [local_port |-> e.port, peer_port |-> f.port, sender |-> c.sender,
              receiver |-> c.receiver]
      /\ c.sender.isn = e.isn /\ ReceiverOK(c.receiver)
  BY DEF Connected
<1>3. d = [local_port |-> e.port, peer_port |-> f.port, sender |-> q.sender,
           receiver |-> c.receiver]
  BY <1>2
<1> HIDE DEF d
<1>4. d.sender = q.sender /\ d.receiver = c.receiver BY <1>3
<1>5. d.sender.isn = e.isn BY <1>2, <1>4 DEF Grows
<1>6. Connected(e, f, d) BY <1>2, <1>3, <1>4, <1>5 DEF Connected
<1>7. Len(q.sent) \in Nat OBVIOUS
<1>8. ASSUME NEW i \in 1 .. Len(q.sent)
      PROVE  /\ SegmentOf(e, f, d, build_segment(c, q.sent[i]))
             /\ Reports(build_segment(c, q.sent[i]), d.receiver)
             /\ build_segment(c, q.sent[i]).rst = (q.sent[i].rst \/ failed)
             /\ q.sent[i].rst => d.sender.outbound.error
  <2>1. PICK a \in Nat : Carries(q.sender, q.sent[i], a) OBVIOUS
  <2>2. q.sent[i] \in Messages OBVIOUS
  <2>3. Carries(d.sender, q.sent[i], a) BY <2>1, <1>4
  <2>4. \E b \in Nat : Carries(d.sender, q.sent[i], b) BY <2>3
  <2>5. q.sent[i].rst => d.sender.outbound.error BY <2>3 DEF Carries
  <2> QED BY <2>2, <2>4, <2>5, <1>4, SegmentBuilt
<1>9. \A i \in 1 .. Len(q.sent) : out[i] = build_segment(c, q.sent[i]) OBVIOUS
<1>10. out \in Seq(Segments({e.port, f.port})) /\ Len(out) = Len(q.sent)
  <2>1. \A i \in 1 .. Len(q.sent) : build_segment(c, q.sent[i]) \in Segments({e.port, f.port})
    BY <1>8 DEF SegmentOf
  <2> DEFINE n == Len(q.sent)
             S == Segments({e.port, f.port})
  <2>2. out \in [1 .. n -> S] BY <2>1
  <2>3. n \in Nat BY <1>7
  <2> HIDE DEF out, n, S
  <2>4. out \in Seq(S) /\ Len(out) = n BY <2>2, <2>3, FunctionIsSequence
  <2> QED BY <2>4 DEF n, S
<1> HIDE DEF out, r
<1>11. \A i \in 1 .. Len(out) :
         /\ SegmentOf(e, f, d, out[i]) /\ Reports(out[i], d.receiver)
         /\ out[i].rst => d.sender.outbound.error \/ d.receiver.reassembler.output.error
         /\ d.receiver.reassembler.output.error => out[i].rst
  BY <1>4, <1>8, <1>9, <1>10
<1>12. Grows(c.sender, d.sender) BY <1>4
<1>13. Sends(e, f, c, d, out) BY <1>6, <1>10, <1>11, <1>12 DEF Sends
<1> QED BY <1>1, <1>4, <1>10, <1>13 DEF r

(* flush_sender: what push lets out. *)
LEMMA FlushSends ==
  ASSUME NEW e, NEW f, IsEnd(e), IsEnd(f), NEW c, Connected(e, f, c),
         NEW p, Connected(f, e, p), Follows(c.receiver, p.sender)
  PROVE  LET r == flush_sender(c) IN
         /\ Sends(e, f, c, r.conn, r.out)
         /\ r.conn.receiver = c.receiver
         /\ SameWriting(c.sender, r.conn.sender)
         /\ SameFeedback(c.sender, r.conn.sender) /\ Paced(c.sender, r.conn.sender)
<1> DEFINE q == sender_push(c.sender)
<1>1. SenderOK(c.sender) /\ c.sender.outbound.bytes_pushed <= e.length
  BY DEF Connected
<1>2. Pushed(c.sender, q.sender, q.sent) BY <1>1, PushFillsWindow
<1>3. flush_sender(c) = emit(c, q) BY DEF flush_sender
<1> HIDE DEF q
<1>4. /\ SenderOK(q.sender) /\ Grows(c.sender, q.sender) /\ SameWriting(c.sender, q.sender)
      /\ SameFeedback(c.sender, q.sender) /\ Paced(c.sender, q.sender)
      /\ q.sent \in Seq(Messages)
      /\ \A i \in 1 .. Len(q.sent) : \E a \in Nat : Carries(q.sender, q.sent[i], a)
  BY <1>2 DEF Pushed, SameFeedback, Paced
<1>5. q.sender.outbound.bytes_pushed <= e.length BY <1>1, <1>4 DEF SameWriting
<1>6. /\ Sends(e, f, c, emit(c, q).conn, emit(c, q).out)
      /\ emit(c, q).conn.sender = q.sender /\ emit(c, q).conn.receiver = c.receiver
  BY <1>4, <1>5, SendsMessages
<1> QED BY <1>3, <1>4, <1>6

(* connection_tick: what the timer resends. *)
LEMMA TickSends ==
  ASSUME NEW e, NEW f, IsEnd(e), IsEnd(f), NEW c, Connected(e, f, c),
         NEW p, Connected(f, e, p), Follows(c.receiver, p.sender), NEW n \in Nat
  PROVE  LET r == connection_tick(c, n) IN
         /\ Sends(e, f, c, r.conn, r.out)
         /\ r.conn.receiver = c.receiver
         /\ SameWriting(c.sender, r.conn.sender)
         /\ SameFeedback(c.sender, r.conn.sender) /\ Paced(c.sender, r.conn.sender)
<1> DEFINE q == sender_tick(c.sender, n)
<1>1. SenderOK(c.sender) /\ c.sender.outbound.bytes_pushed <= e.length
  BY DEF Connected
<1>2. /\ SenderOK(q.sender) /\ Core(q.sender) = Core(c.sender) /\ Grows(c.sender, q.sender)
      /\ q.sender.advertised_window = c.sender.advertised_window
      /\ q.sent \in Seq(Messages)
      /\ \A i \in 1 .. Len(q.sent) : Carries(q.sender, q.sent[i], c.sender.snd_una)
  BY <1>1, TickKeeps
<1>3. connection_tick(c, n) = emit(c, q) BY DEF connection_tick
<1>4. c.sender.snd_una \in Nat
  <2>1. c.sender \in Senders BY <1>1 DEF SenderOK, Placed
  <2> QED BY <2>1, SenderNumbers
<1> HIDE DEF q
<1>5. /\ q.sender.outbound = c.sender.outbound /\ q.sender.snd_una = c.sender.snd_una
      /\ q.sender.snd_nxt = c.sender.snd_nxt
  BY <1>2 DEF Core
<1>6. \A i \in 1 .. Len(q.sent) : \E a \in Nat : Carries(q.sender, q.sent[i], a)
  BY <1>2, <1>4
<1>7. /\ Sends(e, f, c, emit(c, q).conn, emit(c, q).out)
      /\ emit(c, q).conn.sender = q.sender /\ emit(c, q).conn.receiver = c.receiver
  BY <1>1, <1>2, <1>5, <1>6, SendsMessages
<1>8. /\ SameWriting(c.sender, q.sender) /\ SameFeedback(c.sender, q.sender)
      /\ Paced(c.sender, q.sender)
  BY <1>2, <1>5 DEF SameWriting, SameFeedback, Paced
<1> QED BY <1>3, <1>7, <1>8

-----------------------------------------------------------------------------
(***************************************************************************)
(* The place of a message with numbers of its own: unwrap finds the        *)
(* absolute number it was sent with, and the payload lies at the stream    *)
(* index it is filed under.                                                *)
(***************************************************************************)
LEMMA FindsPlace ==
  ASSUME NEW f, IsEnd(f), NEW s, SenderOK(s), s.isn = f.isn,
         s.outbound.bytes_pushed <= f.length,
         NEW rcv, ReceiverOK(rcv), Follows(rcv, s),
         NEW m, NEW a \in Nat, Carries(s, m, a), sequence_length(m) > 0,
         rcv.isn # None \/ m.syn
  PROVE  LET index == StreamIndex(rcv, m)
             last == index + len(m.payload) IN
         /\ index \in Nat /\ len(m.payload) \in Nat /\ m.fin \in BOOLEAN
         /\ len(m.payload) > 0 => m.payload = Bytes(index, last)
         /\ last <= s.outbound.bytes_popped /\ last <= U64_MAX
         /\ m.fin => s.fin_sent /\ last = s.outbound.bytes_popped
         /\ s.syn_sent
         /\ (IF rcv.isn = None THEN m.seqno ELSE rcv.isn) = s.isn
<1> DEFINE o == rcv.reassembler.output
           i == IF rcv.isn = None THEN m.seqno ELSE rcv.isn
           n == len(m.payload)
           index == StreamIndex(rcv, m)
<1>1. s \in Senders /\ Accounting(s) BY DEF SenderOK, Placed
<1>2. /\ o.bytes_pushed \in Nat /\ o.bytes_pushed <= s.outbound.bytes_popped
      /\ s.outbound.bytes_popped \in Nat
      /\ s.outbound.bytes_popped <= s.outbound.bytes_pushed
      /\ s.snd_nxt \in Nat /\ s.snd_nxt <= f.length + 2
  BY ReachedNumbers
<1>3. /\ f.length \in Nat /\ f.isn \in RawValues /\ MODULUS \in Nat
      /\ U64_MAX \in Nat /\ 2 * (f.length + 2) <= MODULUS
      /\ f.length + 2 <= U64_MAX
  BY EndNumbers
<1>4. /\ m \in Messages /\ m.payload.lo <= m.payload.hi /\ m.seqno = wrap(a, s.isn)
      /\ m.syn <=> a = 0
      /\ n > 0 => m.payload.lo = a + One(m.syn) - 1 /\ m.payload.hi <= s.outbound.bytes_popped
      /\ a + sequence_length(m) <= s.snd_nxt
      /\ m.fin => s.fin_sent /\ a + sequence_length(m) = s.snd_nxt
  BY DEF Carries
<1>5. /\ n \in Nat /\ sequence_length(m) = One(m.syn) + n + One(m.fin)
      /\ m.payload \in ByteRuns /\ m.payload.lo \in Nat /\ m.payload.hi \in Nat
      /\ m.payload.hi = m.payload.lo + n
  BY <1>4, MessageLength
<1>6. m.syn \in BOOLEAN /\ m.fin \in BOOLEAN BY <1>4 DEF Messages
<1>7. s.outbound.bytes_pushed \in Nat /\ s.syn_sent \in BOOLEAN /\ s.fin_sent \in BOOLEAN
  BY <1>1, SenderNumbers
<1>8. /\ s.snd_nxt = One(s.syn_sent) + s.outbound.bytes_popped + One(s.fin_sent)
      /\ s.outbound.bytes_popped > 0 \/ s.fin_sent => s.syn_sent
  BY <1>1 DEF Accounting
<1> HIDE DEF n
<1>9. s.syn_sent BY <1>2, <1>4, <1>5, <1>6, <1>7, <1>8 DEF One
<1>10. a <= f.length + 1 BY <1>2, <1>3, <1>4, <1>5, <1>6 DEF One
<1>11. i = s.isn
  <2>1. CASE rcv.isn # None BY <2>1 DEF Follows
  <2>2. CASE rcv.isn = None
    <3>1. m.seqno = (s.isn + 0) % MODULUS BY <2>2, <1>4 DEF wrap
    <3>2. MODULUS * 0 + s.isn = s.isn + 0 /\ s.isn \in RawValues BY <1>3 DEF RawValues
    <3>3. (MODULUS * 0 + s.isn) % MODULUS = s.isn BY <3>2, RemainderUnique
    <3> QED BY <3>1, <3>2, <3>3, <2>2
  <2> QED BY <2>1, <2>2
<1>12. absolute_seqno(rcv, s.isn, m) = a
  <2> DEFINE c == o.bytes_pushed + 1
  <2>1. saturating_add(o.bytes_pushed, 1, U64_MAX) = c
    BY <1>2, <1>3, <1>7 DEF saturating_add, min
  <2>2. c \in Nat /\ c <= f.length + 1 /\ 1 <= c BY <1>2, <1>3, <1>7
  <2>3. absolute_seqno(rcv, s.isn, m) = unwrap(wrap(a, s.isn), s.isn, c)
    BY <2>1, <1>4 DEF absolute_seqno, receiver_output
  <2> HIDE DEF c
  <2>4. 2 * abs_diff(a, c) < MODULUS BY <2>2, <1>3, <1>10 DEF abs_diff
  <2>5. a <= U64_MAX BY <1>3, <1>10
  <2> QED BY <2>2, <2>3, <2>4, <2>5, <1>3, UnwrapInverts
<1>13. index = a + One(m.syn) - 1 /\ index \in Nat
  <2>1. index = IF m.syn
                THEN IF m.seqno # i THEN None ELSE absolute_seqno(rcv, i, m)
                ELSE IF rcv.isn = None \/ absolute_seqno(rcv, i, m) = 0 THEN None
                     ELSE absolute_seqno(rcv, i, m) - 1
    BY DEF StreamIndex
  <2> HIDE DEF index, i
  <2>2. CASE m.syn
    <3>1. m.seqno = s.isn
      <4>1. m.seqno = (s.isn + 0) % MODULUS BY <2>2, <1>4 DEF wrap
      <4>2. MODULUS * 0 + s.isn = s.isn + 0 /\ s.isn \in RawValues BY <1>3 DEF RawValues
      <4>3. (MODULUS * 0 + s.isn) % MODULUS = s.isn BY <4>2, RemainderUnique
      <4> QED BY <4>1, <4>2, <4>3
    <3>2. index = a BY <3>1, <2>1, <2>2, <1>11, <1>12
    <3>3. One(m.syn) = 1 BY <2>2 DEF One
    <3> QED BY <3>2, <3>3
  <2>3. CASE ~m.syn
    <3>1. a # 0 /\ rcv.isn # None BY <2>3, <1>4
    <3>2. index = a - 1 BY <3>1, <2>1, <2>3, <1>11, <1>12
    <3> QED BY <3>1, <3>2, <2>3 DEF One
  <2> QED BY <2>2, <2>3
<1> HIDE DEF index, i
<1>14. n > 0 => m.payload = Bytes(index, index + n)
  <2> SUFFICES ASSUME n > 0 PROVE m.payload = Bytes(index, index + n) OBVIOUS
  <2>1. m.payload.lo = index /\ m.payload.hi = index + n BY <1>4, <1>5, <1>13
  <2> QED BY <2>1, <1>5 DEF Bytes, ByteRuns
<1>15. m.fin => s.fin_sent /\ index + n = s.outbound.bytes_popped
  <2> SUFFICES ASSUME m.fin PROVE s.fin_sent /\ index + n = s.outbound.bytes_popped OBVIOUS
  <2>1. One(m.fin) = 1 /\ One(s.fin_sent) = 1 /\ One(s.syn_sent) = 1
    BY <1>4, <1>9 DEF One
  <2>2. One(m.syn) \in Nat BY DEF One
  <2> QED BY <2>1, <2>2, <1>2, <1>4, <1>5, <1>8, <1>13
<1>16. index + n <= s.outbound.bytes_popped
  <2>1. CASE m.fin BY <2>1, <1>2, <1>15
  <2>2. CASE n > 0
    <3>1. m.payload.hi = index + n BY <2>2, <1>4, <1>5, <1>13
    <3> QED BY <3>1, <2>2, <1>4
  <2>3. CASE ~m.fin /\ ~(n > 0)
    <3>1. n = 0 /\ m.syn BY <2>3, <1>5, <1>6 DEF One
    <3>2. index + n = 0 BY <3>1, <1>4, <1>13 DEF One
    <3> QED BY <3>2, <1>2
  <2> QED BY <2>1, <2>2, <2>3
<1>17. index + n <= U64_MAX BY <1>2, <1>3, <1>5, <1>7, <1>13, <1>16
<1> QED BY <1>5, <1>6, <1>9, <1>11, <1>13, <1>14, <1>15, <1>16, <1>17 DEF index, n, i

(* From rcv to t a receiver keeps what it has. *)
KeepsInput(rcv, t) ==
  LET o == rcv.reassembler.output
      n == t.reassembler.output IN
  /\ ReceiverOK(t)
  /\ rcv.isn # None => t.isn = rcv.isn
  /\ n.capacity = o.capacity /\ n.bytes_pushed >= o.bytes_pushed
  /\ o.error => n.error /\ n.bytes_pushed = o.bytes_pushed
  /\ o.closed => n.closed /\ n.bytes_pushed = o.bytes_pushed

(* A segment has come: nothing is read, and only a reset is an error. *)
Accepted(rcv, t, rst) ==
  /\ KeepsInput(rcv, t)
  /\ t.reassembler.output.bytes_popped = rcv.reassembler.output.bytes_popped
  /\ ~rst => t.reassembler.output.error = rcv.reassembler.output.error

(* What receiver t holds beyond rcv is in the run. *)
Gains(rcv, t, run) ==
  \A b \in Nat : Holds(t.reassembler, b) =>
    Holds(rcv.reassembler, b) \/ b \in run.lo .. run.hi - 1

(***************************************************************************)
(* What a segment with numbers of its own, or a reset, does to a receiver  *)
(* that follows a sender: it still does, it keeps what it has, it never    *)
(* refuses a segment of the sender, and it fails only on a reset.          *)
(***************************************************************************)
LEMMA AcceptsStream ==
  ASSUME NEW e, NEW f, IsEnd(f), NEW p, Connected(f, e, p),
         NEW rcv, ReceiverOK(rcv), Follows(rcv, p.sender), NEW seg, SegmentOf(f, e, p, seg),
         sequence_length(to_sender_message(seg)) > 0 \/ seg.rst
  PROVE  LET t == accept_stream(rcv, to_sender_message(seg)) IN
         Accepted(rcv, t, seg.rst) /\ Follows(t, p.sender) /\ Gains(rcv, t, seg.payload)
<1> DEFINE s == p.sender
           r == rcv.reassembler
           o == r.output
           m == to_sender_message(seg)
           t == accept_stream(rcv, m)
<1>1. /\ SenderOK(s) /\ s.isn = f.isn /\ s.outbound.bytes_pushed <= f.length
  BY DEF Connected
<1>2. /\ Whole(r) /\ rcv = [reassembler |-> r, isn |-> rcv.isn] BY DEF ReceiverOK
<1>3. /\ o.bytes_pushed \in Nat /\ o.error \in BOOLEAN /\ o.closed \in BOOLEAN
      /\ o.bytes_popped \in Nat
      /\ r.eof_index \in Nat \cup {None} /\ (o.closed <=> r.eof_index = o.bytes_pushed)
  BY <1>2, SoundNumbers DEF Whole, Sound
<1>4. seg \in Segments({f.port, e.port}) /\ Genuine(seg, s, p.receiver, e.isn) BY DEF SegmentOf
<1>5. m.rst = seg.rst /\ seg.rst \in BOOLEAN /\ m.payload = seg.payload
  BY <1>4 DEF Segments, to_sender_message, SenderMessage
<1> HIDE DEF m
<1>6. CASE seg.rst
  <2> DEFINE u == [r EXCEPT !.output = stream_set_error(r.output)]
  <2>1. t = [rcv EXCEPT !.reassembler.output = stream_set_error(@)]
    BY <1>5, <1>6 DEF accept_stream, receive_result, receiver_receive, fail_output
  <2>2. t = [reassembler |-> u, isn |-> rcv.isn] BY <2>1, <1>2
  <2>3. /\ Whole(u) /\ SameBytes(u, r) /\ u.eof_index = r.eof_index
        /\ u.output.bytes_pushed = o.bytes_pushed /\ u.output.capacity = o.capacity
        /\ u.output.bytes_popped = o.bytes_popped
        /\ u.output.closed = o.closed /\ u.output.error
    BY <1>2, FailKeepsWhole
  <2> HIDE DEF u, t, r
  <2>4. t.reassembler = u /\ t.isn = rcv.isn BY <2>2
  <2>5. ReceiverOK(t) BY <2>2, <2>3, <2>4 DEF ReceiverOK
  <2>6. Accepted(rcv, t, seg.rst) BY <2>3, <2>4, <2>5, <1>3, <1>6 DEF Accepted, KeepsInput, r
  <2>7. Follows(t, s) BY <2>3, <2>4 DEF Follows, SameBytes, r
  <2>8. Gains(rcv, t, seg.payload) BY <2>3, <2>4 DEF Gains, SameBytes, r
  <2> QED BY <2>6, <2>7, <2>8 DEF t, m
<1>7. CASE ~seg.rst /\ rcv.isn = None /\ ~m.syn
  <2>1. StreamIndex(rcv, m) = None BY <1>7 DEF StreamIndex
  <2>2. t = rcv BY <2>1, <1>5, <1>7 DEF accept_stream, receive_result, receiver_receive
  <2> HIDE DEF t
  <2> QED BY <2>2, <1>3 DEF Accepted, KeepsInput, Gains, t, m
<1>8. CASE ~seg.rst /\ (rcv.isn # None \/ m.syn)
  <2>1. PICK a \in Nat : Carries(s, m, a)
    <3>1. sequence_length(m) > 0 BY <1>8 DEF m
    <3>2. sequence_length(m) # 0 BY <3>1
    <3> QED BY <3>2, <1>4, <1>8 DEF Genuine, m
  <2> DEFINE first == StreamIndex(rcv, m)
             n == len(m.payload)
             last == first + n
             u == try_insert(r, first, Bytes(first, first + n), m.fin)
  <2>2. /\ first \in Nat /\ n \in Nat /\ m.fin \in BOOLEAN
        /\ n > 0 => m.payload = Bytes(first, last)
        /\ last <= s.outbound.bytes_popped /\ last <= U64_MAX
        /\ m.fin => s.fin_sent /\ last = s.outbound.bytes_popped
        /\ s.syn_sent
        /\ (IF rcv.isn = None THEN m.seqno ELSE rcv.isn) = s.isn
    <3>1. sequence_length(m) > 0 BY <1>8 DEF m
    <3> HIDE DEF s
    <3> QED BY <3>1, <2>1, <1>1, <1>8, FindsPlace DEF s
  <2>3. m.payload \in ByteRuns /\ m.payload.lo <= m.payload.hi
    BY <2>1 DEF Carries, Messages
  <2> HIDE DEF first
  <2>4. /\ try_insert(r, first, m.payload, m.fin) = u
        /\ insert_result(r, first, m.payload, m.fin)
             = insert_result(r, first, Bytes(first, first + n), m.fin)
    <3>1. CASE n > 0 BY <3>1, <2>2
    <3>2. CASE n = 0
      <4>1. m.payload.lo = m.payload.hi BY <3>2, <2>3 DEF len, ByteRuns
      <4> HIDE DEF r, n
      <4> QED BY <3>2, <4>1, <2>2, <2>3, <1>2, EmptyFragment
    <3> QED BY <3>1, <3>2, <2>2
  <2>5. Agrees(r, last, m.fin)
    <3>1. \A b \in Nat : Holds(r, b) => b < s.outbound.bytes_popped BY DEF Follows
    <3>2. r.eof_index # None => r.eof_index = s.outbound.bytes_popped BY DEF Follows
    <3> HIDE DEF r, last, s
    <3> QED BY <3>1, <3>2, <2>2 DEF Agrees
  <2>6. insert_result(r, first, Bytes(first, first + n), m.fin) = "Ok"
    <3> HIDE DEF r, n
    <3> QED BY <2>2, <2>5, <1>2, VerdictAgrees
  <2>7. /\ Whole(u) /\ u.output.capacity = o.capacity
        /\ u.output.bytes_pushed >= o.bytes_pushed
        /\ r.eof_index # None => u.eof_index = r.eof_index
        /\ u.output.bytes_popped = o.bytes_popped /\ u.output.error = o.error
        /\ u.eof_index = IF m.fin THEN last ELSE r.eof_index
        /\ Stores(u, r, first, last)
        /\ o.error => u.output.bytes_pushed = o.bytes_pushed
    <3> HIDE DEF n
    <3> QED BY <2>2, <2>5, <1>2, TryInsert
  <2>8. t = [reassembler |-> u, isn |-> s.isn]
    <3>1. first # None BY <2>2 DEF None
    <3>2. receive_result(rcv, m) = "Ok"
      BY <2>4, <2>6, <1>5, <1>8 DEF receive_result, first
    <3>3. t = receiver_receive(rcv, m) BY <3>2 DEF accept_stream
    <3>4. receiver_receive(rcv, m) = [reassembler |-> try_insert(r, first, m.payload, m.fin),
            isn |-> IF rcv.isn = None THEN m.seqno ELSE rcv.isn]
      BY <3>1, <1>5, <1>8 DEF receiver_receive, first
    <3> QED BY <3>3, <3>4, <2>2, <2>4
  <2> HIDE DEF u, t
  <2>9. t.reassembler = u /\ t.isn = s.isn BY <2>8
  <2>10. ReceiverOK(t) BY <2>7, <2>8, <2>9 DEF ReceiverOK
  <2>11. u.output.bytes_pushed \in Nat
         /\ (u.eof_index # None => u.output.bytes_pushed <= u.eof_index)
         /\ (u.output.closed <=> u.eof_index = u.output.bytes_pushed)
    BY <2>7, SoundNumbers DEF Whole, Sound
  <2>12. o.closed => u.output.closed /\ u.output.bytes_pushed = o.bytes_pushed
    <3> HIDE DEF o
    <3>1. o.closed => r.eof_index # None BY <1>3 DEF None
    <3> QED BY <3>1, <2>7, <2>11, <1>3
  <2>13. rcv.isn # None => t.isn = rcv.isn BY <2>9 DEF Follows
  <2>14. Accepted(rcv, t, seg.rst)
    BY <2>7, <2>9, <2>10, <2>12, <2>13, <1>3 DEF Accepted, KeepsInput
  <2>15. \A b \in Nat : Holds(u, b) => b < s.outbound.bytes_popped
    <3> SUFFICES ASSUME NEW b \in Nat, Holds(u, b) PROVE b < s.outbound.bytes_popped
      OBVIOUS
    <3>1. Holds(r, b) \/ b < last BY <2>7 DEF Stores, Fresh
    <3>2. Holds(r, b) => b < s.outbound.bytes_popped BY DEF Follows
    <3>3. s.outbound.bytes_popped \in Nat /\ last \in Nat
      <4>1. s \in Senders BY <1>1 DEF SenderOK, Placed
      <4> QED BY <4>1, <2>2, SenderNumbers
    <3> HIDE DEF last
    <3> QED BY <3>1, <3>2, <3>3, <2>2
  <2>16. u.eof_index # None => s.fin_sent /\ u.eof_index = s.outbound.bytes_popped
    BY <2>2, <2>7 DEF Follows
  <2>17. s.isn # None
    <3>1. s \in Senders BY <1>1 DEF SenderOK, Placed
    <3>2. s.isn \in RawValues BY <3>1, SenderNumbers
    <3> QED BY <3>2 DEF RawValues, None
  <2>18. Follows(t, s) BY <2>2, <2>9, <2>15, <2>16, <2>17 DEF Follows
  <2>19. Gains(rcv, t, seg.payload)
    <3> SUFFICES ASSUME NEW b \in Nat, Holds(u, b), ~Holds(r, b)
                 PROVE  b \in seg.payload.lo .. seg.payload.hi - 1
      BY <2>9 DEF Gains
    <3>1. first <= b /\ b < last BY <2>7 DEF Stores, Fresh
    <3>2. n > 0 /\ first \in Nat /\ last \in Nat BY <3>1, <2>2
    <3>3. m.payload = Bytes(first, last) BY <3>2, <2>2
    <3> HIDE DEF last
    <3>4. m.payload.lo = first /\ m.payload.hi = last BY <3>3 DEF Bytes
    <3> QED BY <3>1, <3>2, <3>4, <1>5
  <2> QED BY <2>14, <2>18, <2>19 DEF t, m
<1> QED BY <1>5, <1>6, <1>7, <1>8

(* A receiver never takes an acknowledgment back. *)
LEMMA ReachedGrows ==
  ASSUME NEW f, IsEnd(f), NEW s, SenderOK(s),
         s.outbound.bytes_pushed <= f.length, NEW rcv, ReceiverOK(rcv), Follows(rcv, s),
         NEW t, Follows(t, s), KeepsInput(rcv, t)
  PROVE  /\ Reached(rcv) \in Nat /\ Reached(t) \in Nat /\ Reached(rcv) <= Reached(t)
<1> DEFINE o == rcv.reassembler.output
           n == t.reassembler.output
<1>1. /\ ReceiverOK(t) /\ (rcv.isn # None => t.isn = rcv.isn)
      /\ n.bytes_pushed >= o.bytes_pushed
      /\ o.closed => n.closed /\ n.bytes_pushed = o.bytes_pushed
  BY DEF KeepsInput
<1>2. /\ o.bytes_pushed \in Nat /\ Reached(rcv) \in Nat
      /\ rcv.isn # None => Reached(rcv) = o.bytes_pushed + 1 + One(o.closed)
      /\ rcv.isn = None => Reached(rcv) = 0
  BY ReachedNumbers
<1>3. /\ n.bytes_pushed \in Nat /\ Reached(t) \in Nat
      /\ t.isn # None => Reached(t) = n.bytes_pushed + 1 + One(n.closed)
  BY <1>1, ReachedNumbers
<1>4. /\ One(o.closed) \in {0, 1} /\ One(n.closed) \in {0, 1}
      /\ n.closed => One(n.closed) = 1
      /\ ~o.closed => One(o.closed) = 0
  BY DEF One
<1> HIDE DEF o, n
<1> QED BY <1>1, <1>2, <1>3, <1>4

(* A receiver that is left alone. *)
LEMMA LeftAlone ==
  ASSUME NEW rcv, ReceiverOK(rcv), NEW rst
  PROVE  Accepted(rcv, rcv, rst)
<1>1. rcv.reassembler.output.bytes_pushed \in Nat
  BY SoundNumbers DEF ReceiverOK, Whole
<1> QED BY <1>1 DEF Accepted, KeepsInput

(* The number in an acknowledgment, old or new, is one that its sender had reached. *)
LEMMA AckMeaning ==
  ASSUME NEW e, NEW f, IsEnd(e), IsEnd(f), NEW s, SenderOK(s), s.isn = e.isn,
         s.outbound.bytes_pushed <= e.length,
         NEW p, ReceiverOK(p.receiver), Follows(p.receiver, s),
         NEW seg, SegmentOf(f, e, p, seg)
  PROVE  /\ AckOf(seg, e.isn) \in Nat /\ AckOf(seg, e.isn) <= Reached(p.receiver)
         /\ seg.ackno # None => unwrap(seg.ackno, e.isn, s.snd_nxt) = AckOf(seg, e.isn)
<1> DEFINE k == Reached(p.receiver)
           z == e.isn
<1>1. IsEnd(f) OBVIOUS
<1>2. Genuine(seg, p.sender, p.receiver, z) BY <1>1 DEF SegmentOf
<1>3. /\ k \in Nat /\ k <= s.snd_nxt /\ s.snd_nxt \in Nat /\ s.snd_nxt <= e.length + 2
  BY ReachedNumbers
<1>4. /\ e.length \in Nat /\ z \in RawValues /\ MODULUS \in Nat /\ U64_MAX \in Nat
      /\ 2 * (e.length + 2) <= MODULUS /\ e.length + 2 <= U64_MAX
  BY EndNumbers
<1> HIDE DEF k, z
<1>5. CASE seg.ackno = None BY <1>3, <1>5 DEF AckOf, k
<1>6. CASE seg.ackno # None
  <2>1. PICK j \in Nat : 1 <= j /\ j <= k /\ seg.ackno = wrap(j, z)
    BY <1>2, <1>6 DEF Genuine, k
  <2>2. 2 * abs_diff(j, s.snd_nxt) < MODULUS BY <2>1, <1>3, <1>4 DEF abs_diff
  <2>3. j <= s.snd_nxt BY <2>1, <1>3
  <2>4. unwrap(wrap(j, z), z, s.snd_nxt) = j BY <2>2, <2>3, <1>3, <1>4, UnwrapInverts
  <2>5. 2 * abs_diff(j, 1) < MODULUS /\ j <= U64_MAX BY <2>1, <1>3, <1>4 DEF abs_diff
  <2>6. unwrap(wrap(j, z), z, 1) = j BY <2>5, <1>4, UnwrapInverts
  <2>7. AckOf(seg, z) = j BY <2>1, <2>6, <1>6 DEF AckOf
  <2> QED BY <2>1, <2>4, <2>7 DEF k, z
<1> QED BY <1>5, <1>6

(***************************************************************************)
(* The feedback of a segment: an acknowledgment unwraps to the number that *)
(* the peer had reached, so SND.UNA only passes what the peer has.         *)
(***************************************************************************)
LEMMA TakesFeedback ==
  ASSUME NEW e, NEW f, IsEnd(e), IsEnd(f), NEW s, SenderOK(s), s.isn = e.isn,
         s.outbound.bytes_pushed <= e.length,
         NEW p, ReceiverOK(p.receiver), Follows(p.receiver, s),
         NEW seg, SegmentOf(f, e, p, seg)
  PROVE  LET t == sender_receive(s, to_receiver_message(seg)) IN
         /\ SenderOK(t) /\ Grows(s, t)
         /\ t.outbound.bytes_pushed = s.outbound.bytes_pushed
         /\ t.outbound.closed = s.outbound.closed
         /\ t.snd_nxt = s.snd_nxt
         /\ ~seg.rst =>
              /\ t.outbound.error = s.outbound.error
              /\ t.snd_una = max(s.snd_una, AckOf(seg, s.isn))
              /\ t.advertised_window = seg.window_size
         /\ ~seg.rst /\ s.snd_una <= Reached(p.receiver) => t.snd_una <= Reached(p.receiver)
<1> DEFINE fb == to_receiver_message(seg)
           t == sender_receive(s, fb)
           u == unwrap(fb.ackno, s.isn, s.snd_nxt)
           k == Reached(p.receiver)
<1>1. IsEnd(f) OBVIOUS
<1>2. seg \in Segments({f.port, e.port}) /\ Genuine(seg, p.sender, p.receiver, e.isn) BY <1>1 DEF SegmentOf
<1>3. /\ fb \in Feedback /\ fb.ackno = seg.ackno /\ fb.rst = seg.rst
      /\ fb.window_size = seg.window_size
  BY <1>2 DEF Segments, Feedback, to_receiver_message, ReceiverMessage
<1> HIDE DEF fb
<1>4. /\ SenderOK(t) /\ Grows(s, t) /\ t.snd_una >= s.snd_una /\ t.snd_nxt = s.snd_nxt
      /\ Accepts(s, fb) \/ (~fb.rst /\ fb.ackno = None) => t.advertised_window = fb.window_size
      /\ Accepts(s, fb) => u \in Nat /\ t.snd_una = max(s.snd_una, u)
      /\ ~fb.rst /\ ~Accepts(s, fb) => t.snd_una = s.snd_una
      /\ ~fb.rst => t.outbound = s.outbound
      /\ fb.rst => t = abort(s)
  BY <1>3, ReceiveKeeps
<1>5. /\ t.outbound.bytes_pushed = s.outbound.bytes_pushed
      /\ t.outbound.closed = s.outbound.closed
      /\ ~fb.rst => t.outbound.error = s.outbound.error
  <2>1. CASE fb.rst
    <3>1. t.outbound = stream_set_error(s.outbound) BY <2>1, <1>4, AbortKeeps
    <3>2. StreamOK(s.outbound) BY DEF SenderOK, Placed
    <3>3. /\ stream_set_error(s.outbound).bytes_pushed = s.outbound.bytes_pushed
          /\ stream_set_error(s.outbound).closed = s.outbound.closed
      BY <3>2, MarkKeepsOrder
    <3> QED BY <3>1, <3>3, <2>1
  <2>2. CASE ~fb.rst
    <3> HIDE DEF t
    <3> QED BY <2>2, <1>4
  <2> QED BY <2>1, <2>2
<1>6. /\ k \in Nat /\ k <= s.snd_nxt /\ s.snd_nxt \in Nat /\ s.snd_nxt <= e.length + 2
  BY ReachedNumbers
<1>7. /\ e.length \in Nat /\ e.isn \in RawValues /\ MODULUS \in Nat
      /\ 2 * (e.length + 2) <= MODULUS
  BY EndNumbers
<1> HIDE DEF k, t
<1>8. seg.ackno # None => u \in Nat /\ u <= k /\ AckOf(seg, s.isn) = u
  BY <1>3, AckMeaning DEF k
<1>9. ~seg.rst /\ s.snd_una <= k => t.snd_una <= k
  <2> SUFFICES ASSUME ~seg.rst, s.snd_una <= k PROVE t.snd_una <= k OBVIOUS
  <2> HIDE DEF u
  <2>1. CASE Accepts(s, fb)
    <3>1. seg.ackno # None BY <2>1, <1>3 DEF Accepts
    <3> QED BY <3>1, <2>1, <1>4, <1>8 DEF max
  <2>2. CASE ~Accepts(s, fb) BY <2>2, <1>3, <1>4
  <2> QED BY <2>1, <2>2
<1>10. ~seg.rst => /\ t.snd_una = max(s.snd_una, AckOf(seg, s.isn))
                  /\ t.advertised_window = seg.window_size
  <2> SUFFICES ASSUME ~seg.rst PROVE /\ t.snd_una = max(s.snd_una, AckOf(seg, s.isn))
                                     /\ t.advertised_window = seg.window_size
    OBVIOUS
  <2>1. CASE seg.ackno # None
    <3>1. u \in Nat /\ u <= s.snd_nxt /\ AckOf(seg, s.isn) = u BY <2>1, <1>6, <1>8
    <3>2. Accepts(s, fb) BY <3>1, <2>1, <1>3 DEF Accepts
    <3> HIDE DEF u
    <3> QED BY <3>1, <3>2, <1>3, <1>4
  <2>2. CASE seg.ackno = None
    <3>1. AckOf(seg, s.isn) = 0 BY <2>2 DEF AckOf
    <3>2. ~Accepts(s, fb) BY <2>2, <1>3 DEF Accepts
    <3>3. s.snd_una \in Nat
      <4>1. s \in Senders BY DEF SenderOK, Placed
      <4> QED BY <4>1, SenderNumbers
    <3>4. max(s.snd_una, 0) = s.snd_una BY <3>3 DEF max
    <3> QED BY <3>1, <3>2, <3>4, <2>2, <1>3, <1>4
  <2> QED BY <2>1, <2>2
<1> QED BY <1>3, <1>4, <1>5, <1>9, <1>10 DEF t, fb, k

(* make_pure_ack_segment: feedback without a number of its own. *)
LEMMA PureAckSends ==
  ASSUME NEW e, NEW f, IsEnd(e), IsEnd(f), NEW c, NEW d, Sends(e, f, c, d, <<>>),
         NEW p, Connected(f, e, p), Follows(d.receiver, p.sender)
  PROVE  Sends(e, f, c, d, make_pure_ack_segment(d))
<1> DEFINE m == make_empty_message(d.sender)
           seg == build_segment(d, m)
           out == make_pure_ack_segment(d)
<1>1. Connected(e, f, d) /\ Grows(c.sender, d.sender) BY DEF Sends
<1>2. d.sender \in Senders BY <1>1 DEF Connected, SenderOK, Placed
<1>3. /\ m \in Messages /\ sequence_length(m) = 0 /\ m.rst = d.sender.outbound.error
  <2>1. /\ d.sender.snd_nxt \in Nat /\ d.sender.isn \in RawValues
        /\ d.sender.outbound.error \in BOOLEAN
    BY <1>2, SenderNumbers
  <2>2. wrap(d.sender.snd_nxt, d.sender.isn) \in RawValues BY <2>1, WrapEras
  <2>3. m = [seqno |-> wrap(d.sender.snd_nxt, d.sender.isn), syn |-> FALSE,
             payload |-> [lo |-> 0, hi |-> 0], fin |-> FALSE, rst |-> d.sender.outbound.error]
    BY DEF make_empty_message, SenderMessage, NoBytes, Bytes
  <2> HIDE DEF m
  <2>4. [lo |-> 0, hi |-> 0] \in ByteRuns BY DEF ByteRuns
  <2>5. /\ m \in Messages /\ m.rst = d.sender.outbound.error /\ m.syn = FALSE
        /\ m.fin = FALSE /\ m.payload = [lo |-> 0, hi |-> 0]
    BY <2>1, <2>2, <2>3, <2>4 DEF Messages
  <2>6. len(m.payload) = 0 BY <2>5 DEF len
  <2> QED BY <2>5, <2>6 DEF sequence_length, One
<1> HIDE DEF m
<1>4. /\ SegmentOf(e, f, d, seg) /\ Reports(seg, d.receiver)
      /\ seg.rst = (m.rst \/ d.receiver.reassembler.output.error)
  BY <1>1, <1>3, SegmentBuilt
<1>5. seg \in Segments({e.port, f.port}) BY <1>4 DEF SegmentOf
<1>6. out = <<>> \/ out = <<seg>> BY DEF make_pure_ack_segment, m
<1> HIDE DEF seg, out
<1>7. CASE out = <<>> BY <1>7 DEF out
<1>8. CASE out = <<seg>>
  <2>1. out \in Seq(Segments({e.port, f.port})) /\ Len(out) = 1 /\ out[1] = seg BY <1>5, <1>8
  <2>2. \A i \in 1 .. Len(out) : out[i] = seg BY <2>1
  <2>3. Sends(e, f, c, d, out) BY <2>1, <2>2, <1>1, <1>3, <1>4 DEF Sends
  <2> QED BY <2>3 DEF out
<1> QED BY <1>6, <1>7, <1>8

(***************************************************************************)
(* receive_segment as a whole: feedback, stream, flush, and the pure ACK   *)
(* if nothing else answers.                                                *)
(***************************************************************************)
LEMMA ReceiveSends ==
  ASSUME NEW e, NEW f, IsEnd(e), IsEnd(f), NEW c, Connected(e, f, c),
         NEW p, Connected(f, e, p), Follows(c.receiver, p.sender),
         Follows(p.receiver, c.sender), NEW seg, SegmentOf(f, e, p, seg)
  PROVE  LET r == receive_segment(c, seg)
             d == r.conn IN
         /\ Sends(e, f, c, d, r.out)
         /\ Accepted(c.receiver, d.receiver, seg.rst) /\ Follows(d.receiver, p.sender)
         /\ Gains(c.receiver, d.receiver, seg.payload)
         /\ d.sender.outbound.bytes_pushed = c.sender.outbound.bytes_pushed
         /\ d.sender.outbound.closed = c.sender.outbound.closed
         /\ Paced(c.sender, d.sender)
         /\ ~seg.rst =>
              /\ d.sender.outbound.error = c.sender.outbound.error
              /\ d.sender.snd_una = max(c.sender.snd_una, AckOf(seg, e.isn))
              /\ d.sender.advertised_window = seg.window_size
         /\ ~seg.rst /\ c.sender.snd_una <= Reached(p.receiver) =>
              d.sender.snd_una <= Reached(p.receiver)
<1> DEFINE m == to_sender_message(seg)
           occupies == sequence_length(m) > 0
           snd == sender_receive(c.sender, to_receiver_message(seg))
           rcv == IF occupies \/ m.rst THEN accept_stream(c.receiver, m) ELSE c.receiver
           k == [local_port |-> e.port, peer_port |-> f.port, sender |-> snd, receiver |-> rcv]
           fl == flush_sender(k)
           r == receive_segment(c, seg)
<1>1. IsEnd(f) OBVIOUS
<1>2. /\ c = [local_port |-> e.port, peer_port |-> f.port, sender |-> c.sender,
              receiver |-> c.receiver]
      /\ SenderOK(c.sender) /\ c.sender.isn = e.isn /\ ReceiverOK(c.receiver)
      /\ c.sender.outbound.bytes_pushed <= e.length /\ ReceiverOK(p.receiver)
  BY DEF Connected
<1>3. /\ SenderOK(snd) /\ Grows(c.sender, snd)
      /\ snd.outbound.bytes_pushed = c.sender.outbound.bytes_pushed
      /\ snd.outbound.closed = c.sender.outbound.closed
      /\ snd.snd_nxt = c.sender.snd_nxt
      /\ ~seg.rst =>
           /\ snd.outbound.error = c.sender.outbound.error
           /\ snd.snd_una = max(c.sender.snd_una, AckOf(seg, e.isn))
           /\ snd.advertised_window = seg.window_size
      /\ ~seg.rst /\ c.sender.snd_una <= Reached(p.receiver) =>
           snd.snd_una <= Reached(p.receiver)
  BY <1>2, TakesFeedback
<1>4. m.rst = seg.rst BY DEF to_sender_message, SenderMessage
<1>5. /\ Accepted(c.receiver, rcv, seg.rst) /\ Follows(rcv, p.sender)
      /\ Gains(c.receiver, rcv, seg.payload)
  <2>1. CASE occupies \/ m.rst
    <3>1. sequence_length(to_sender_message(seg)) > 0 \/ seg.rst BY <2>1, <1>4
    <3>2. rcv = accept_stream(c.receiver, to_sender_message(seg)) BY <2>1
    <3> HIDE DEF rcv
    <3> QED BY <3>1, <3>2, <1>1, <1>2, AcceptsStream
  <2>2. CASE ~(occupies \/ m.rst) BY <2>2, <1>2, LeftAlone DEF Gains
  <2> QED BY <2>1, <2>2
<1>6. [c EXCEPT !.sender = snd, !.receiver = rcv] = k
  <2> HIDE DEF snd, rcv
  <2> DEFINE d == [c EXCEPT !.sender = snd]
  <2>1. [c EXCEPT !.sender = snd, !.receiver = rcv] = [d EXCEPT !.receiver = rcv] OBVIOUS
  <2>2. d = [local_port |-> e.port, peer_port |-> f.port, sender |-> snd, receiver |-> c.receiver]
    BY <1>2
  <2> HIDE DEF d
  <2>3. d.receiver = c.receiver BY <2>2
  <2>4. d = [local_port |-> e.port, peer_port |-> f.port, sender |-> snd, receiver |-> d.receiver]
    BY <2>2, <2>3
  <2>5. [d EXCEPT !.receiver = rcv] = k BY <2>4
  <2> QED BY <2>1, <2>5
<1>7. belongs_to_this_connection(c, seg)
  <2>1. c.local_port = e.port /\ c.peer_port = f.port BY <1>2
  <2> QED BY <2>1, <1>1 DEF belongs_to_this_connection, SegmentOf
<1>8. r = IF occupies /\ fl.out = <<>>
          THEN [fl EXCEPT !.out = make_pure_ack_segment(fl.conn)] ELSE fl
  <2> DEFINE j == [c EXCEPT !.sender = snd, !.receiver = rcv]
             fj == flush_sender(j)
  <2>1. r = IF ~belongs_to_this_connection(c, seg) THEN [conn |-> c, out |-> <<>>]
            ELSE IF occupies /\ fj.out = <<>>
            THEN [fj EXCEPT !.out = make_pure_ack_segment(fj.conn)] ELSE fj
    BY DEF receive_segment
  <2> HIDE DEF r, j, snd, rcv, occupies
  <2>2. fj = fl BY <1>6 DEF j
  <2> QED BY <2>1, <2>2, <1>7
<1> HIDE DEF snd, rcv, occupies, r
<1>9. /\ k.sender = snd /\ k.receiver = rcv /\ k.local_port = e.port /\ k.peer_port = f.port
      /\ k = [local_port |-> e.port, peer_port |-> f.port, sender |-> k.sender,
              receiver |-> k.receiver]
  OBVIOUS
<1> HIDE DEF k
<1>10. Connected(e, f, k)
  <2>1. ReceiverOK(rcv) BY <1>5 DEF Accepted, KeepsInput
  <2>2. snd.isn = e.isn BY <1>2, <1>3 DEF Grows
  <2> QED BY <2>1, <2>2, <1>2, <1>3, <1>9 DEF Connected
<1>11. /\ Sends(e, f, k, fl.conn, fl.out) /\ fl.conn.receiver = rcv
       /\ SameWriting(snd, fl.conn.sender) /\ SameFeedback(snd, fl.conn.sender)
       /\ Paced(snd, fl.conn.sender)
  BY <1>5, <1>9, <1>10, FlushSends
<1>12. fl = [conn |-> fl.conn, out |-> fl.out] BY DEF flush_sender, emit
<1> HIDE DEF fl
<1>13. Sends(e, f, c, fl.conn, fl.out)
  <2>1. Grows(snd, fl.conn.sender) /\ SenderOK(fl.conn.sender)
    BY <1>9, <1>11 DEF Sends, Connected
  <2>2. c.sender \in Senders /\ snd \in Senders /\ fl.conn.sender \in Senders
    BY <2>1, <1>2, <1>3 DEF SenderOK, Placed
  <2>3. Grows(c.sender, fl.conn.sender) BY <2>1, <2>2, <1>3, GrowsOrder
  <2> QED BY <2>3, <1>11 DEF Sends
<1>14. r.conn = fl.conn /\ Sends(e, f, c, fl.conn, r.out)
  <2>1. CASE occupies /\ fl.out = <<>>
    <3>1. r.conn = fl.conn /\ r.out = make_pure_ack_segment(fl.conn)
      BY <2>1, <1>8, <1>12
    <3>2. Sends(e, f, c, fl.conn, make_pure_ack_segment(fl.conn))
      BY <2>1, <1>5, <1>11, <1>13, PureAckSends
    <3> QED BY <3>1, <3>2
  <2>2. CASE ~(occupies /\ fl.out = <<>>) BY <2>2, <1>8, <1>13
  <2> QED BY <2>1, <2>2
<1>15. Paced(c.sender, fl.conn.sender) BY <1>3, <1>11 DEF Paced
<1> QED BY <1>3, <1>5, <1>11, <1>14, <1>15 DEF SameWriting, SameFeedback, r

-----------------------------------------------------------------------------

(* flush_sender after the application has left its outbound stream as o. *)
LEMMA FlushedAfter ==
  ASSUME NEW e, NEW f, IsEnd(e), IsEnd(f), NEW c, Connected(e, f, c),
         NEW p, Connected(f, e, p), Follows(c.receiver, p.sender), NEW o,
         SenderOK([c.sender EXCEPT !.outbound = o]),
         Grows(c.sender, [c.sender EXCEPT !.outbound = o]),
         [c.sender EXCEPT !.outbound = o].outbound = o,
         SameFeedback(c.sender, [c.sender EXCEPT !.outbound = o]),
         [c.sender EXCEPT !.outbound = o].snd_nxt = c.sender.snd_nxt,
         o.bytes_pushed <= e.length
  PROVE  LET r == flush_sender([c EXCEPT !.sender.outbound = o])
             n == r.conn.sender.outbound IN
         /\ Sends(e, f, c, r.conn, r.out) /\ r.conn.receiver = c.receiver
         /\ SameFeedback(c.sender, r.conn.sender) /\ Paced(c.sender, r.conn.sender)
         /\ n.bytes_pushed = o.bytes_pushed /\ n.closed = o.closed /\ n.error = o.error
<1> DEFINE s == c.sender
           t == [s EXCEPT !.outbound = o]
           k == [c EXCEPT !.sender.outbound = o]
           r == flush_sender(k)
<1>1. /\ c = [local_port |-> e.port, peer_port |-> f.port, sender |-> s, receiver |-> c.receiver]
      /\ s.isn = e.isn /\ ReceiverOK(c.receiver) /\ s \in Senders
  BY DEF Connected, SenderOK, Placed
<1>2. k = [c EXCEPT !.sender = t] OBVIOUS
<1>3. /\ SenderOK(t) /\ Grows(s, t) /\ t.outbound = o /\ SameFeedback(s, t)
      /\ t.snd_nxt = s.snd_nxt
  OBVIOUS
<1> HIDE DEF t, k, s
<1>4. k = [local_port |-> e.port, peer_port |-> f.port, sender |-> t, receiver |-> c.receiver]
  BY <1>1, <1>2
<1>5. k.sender = t /\ k.receiver = c.receiver BY <1>4
<1>6. t.isn = e.isn BY <1>1, <1>3 DEF Grows
<1>7. Connected(e, f, k) BY <1>1, <1>3, <1>4, <1>5, <1>6 DEF Connected
<1>8. /\ Sends(e, f, k, r.conn, r.out) /\ r.conn.receiver = c.receiver
      /\ SameWriting(t, r.conn.sender) /\ SameFeedback(t, r.conn.sender)
      /\ Paced(t, r.conn.sender)
  BY <1>5, <1>7, FlushSends
<1> HIDE DEF r
<1>9. Sends(e, f, c, r.conn, r.out)
  <2>1. Grows(t, r.conn.sender) /\ SenderOK(r.conn.sender)
    BY <1>5, <1>8 DEF Sends, Connected
  <2>2. s \in Senders /\ t \in Senders /\ r.conn.sender \in Senders
    BY <2>1, <1>1, <1>3 DEF SenderOK, Placed
  <2>3. Grows(s, r.conn.sender) BY <2>1, <2>2, <1>3, GrowsOrder
  <2> QED BY <2>3, <1>8 DEF Sends, s
<1>10. SameFeedback(s, r.conn.sender) /\ Paced(s, r.conn.sender)
  BY <1>3, <1>8 DEF SameFeedback, Paced
<1> QED BY <1>3, <1>8, <1>9, <1>10 DEF SameWriting, r, k, s

(* The application has written some or none of its stream, and not closed it. *)
WroteOn(s, t, length) ==
  /\ \/ t.outbound.bytes_pushed = s.outbound.bytes_pushed
     \/ t.outbound.bytes_pushed \in s.outbound.bytes_pushed + 1 .. length
  /\ t.outbound.closed = s.outbound.closed /\ t.outbound.error = s.outbound.error

(* The application has closed its stream. *)
ClosedIt(s, t) ==
  /\ t.outbound.bytes_pushed = s.outbound.bytes_pushed
  /\ t.outbound.closed = TRUE /\ t.outbound.error = s.outbound.error

(* write: the stream takes some or none of the bytes it is offered. *)
LEMMA WriteSends ==
  ASSUME NEW e, NEW f, IsEnd(e), IsEnd(f), NEW c, Connected(e, f, c),
         NEW p, Connected(f, e, p), Follows(c.receiver, p.sender),
         NEW n \in 1 .. e.length - c.sender.outbound.bytes_pushed
  PROVE  LET next == c.sender.outbound.bytes_pushed
             r == write(c, Bytes(next, next + n)) IN
         /\ Sends(e, f, c, r.conn, r.out) /\ r.conn.receiver = c.receiver
         /\ SameFeedback(c.sender, r.conn.sender) /\ Paced(c.sender, r.conn.sender)
         /\ WroteOn(c.sender, r.conn.sender, e.length)
<1> DEFINE s == c.sender
           next == s.outbound.bytes_pushed
           o == stream_push(s.outbound, Bytes(next, next + n))
           r == flush_sender([c EXCEPT !.sender.outbound = o])
<1>1. SenderOK(s) BY DEF Connected
<1>2. next \in Nat
  <2>1. s \in Senders BY <1>1 DEF SenderOK, Placed
  <2> QED BY <2>1, SenderNumbers
<1>3. e.length \in Nat BY EndNumbers
<1>4. write(c, Bytes(next, next + n)) = r BY DEF write
<1>5. n \in Nat /\ next + n <= e.length BY <1>2, <1>3
<1>6. /\ SenderOK([s EXCEPT !.outbound = o]) /\ Grows(s, [s EXCEPT !.outbound = o])
      /\ [s EXCEPT !.outbound = o].outbound = o
      /\ SameFeedback(s, [s EXCEPT !.outbound = o])
      /\ [s EXCEPT !.outbound = o].snd_nxt = s.snd_nxt
      /\ o.bytes_pushed \in next .. next + n /\ o.closed = s.outbound.closed
      /\ o.error = s.outbound.error
  BY <1>1, <1>5, WriteKeeps DEF SameFeedback
<1> HIDE DEF o, next
<1>7. o.bytes_pushed <= e.length BY <1>2, <1>3, <1>5, <1>6
<1>8. /\ Sends(e, f, c, r.conn, r.out) /\ r.conn.receiver = c.receiver
      /\ SameFeedback(s, r.conn.sender) /\ Paced(s, r.conn.sender)
      /\ r.conn.sender.outbound.bytes_pushed = o.bytes_pushed
      /\ r.conn.sender.outbound.closed = o.closed
      /\ r.conn.sender.outbound.error = o.error
  BY <1>6, <1>7, FlushedAfter
<1> HIDE DEF r
<1>9. o.bytes_pushed = next \/ o.bytes_pushed \in next + 1 .. e.length
  BY <1>2, <1>3, <1>5, <1>6
<1>10. WroteOn(s, r.conn.sender, e.length) BY <1>6, <1>8, <1>9 DEF WroteOn, next
<1> QED BY <1>4, <1>8, <1>10 DEF next

(* close. *)
LEMMA CloseSends ==
  ASSUME NEW e, NEW f, IsEnd(e), IsEnd(f), NEW c, Connected(e, f, c),
         NEW p, Connected(f, e, p), Follows(c.receiver, p.sender)
  PROVE  LET r == close(c) IN
         /\ Sends(e, f, c, r.conn, r.out) /\ r.conn.receiver = c.receiver
         /\ SameFeedback(c.sender, r.conn.sender) /\ Paced(c.sender, r.conn.sender)
         /\ ClosedIt(c.sender, r.conn.sender)
<1> DEFINE s == c.sender
           o == stream_close(s.outbound)
           r == flush_sender([c EXCEPT !.sender.outbound = o])
<1>1. close(c) = r BY DEF close
<1>2. SenderOK(s) /\ s.outbound.bytes_pushed <= e.length BY DEF Connected
<1>3. /\ SenderOK([s EXCEPT !.outbound = o]) /\ Grows(s, [s EXCEPT !.outbound = o])
      /\ [s EXCEPT !.outbound = o].outbound = o
      /\ SameFeedback(s, [s EXCEPT !.outbound = o])
      /\ [s EXCEPT !.outbound = o].snd_nxt = s.snd_nxt
      /\ o.bytes_pushed = s.outbound.bytes_pushed /\ o.error = s.outbound.error
  BY <1>2, CloseKeeps DEF SameFeedback
<1>4. o.closed = TRUE
  <2>1. StreamOK(s.outbound) BY <1>2 DEF SenderOK, Placed
  <2>2. o = [s.outbound EXCEPT !.closed = TRUE] BY DEF stream_close
  <2> QED BY <2>1, <2>2 DEF StreamOK, Streams
<1> HIDE DEF o
<1>5. o.bytes_pushed <= e.length BY <1>2, <1>3
<1>6. /\ Sends(e, f, c, r.conn, r.out) /\ r.conn.receiver = c.receiver
      /\ SameFeedback(s, r.conn.sender) /\ Paced(s, r.conn.sender)
      /\ r.conn.sender.outbound.bytes_pushed = o.bytes_pushed
      /\ r.conn.sender.outbound.closed = o.closed
      /\ r.conn.sender.outbound.error = o.error
  BY <1>3, <1>5, FlushedAfter
<1> HIDE DEF r
<1>7. ClosedIt(s, r.conn.sender) BY <1>3, <1>4, <1>6 DEF ClosedIt
<1> QED BY <1>1, <1>6, <1>7

(* A fresh connection: it has no error and its receiver knows nothing. *)
LEMMA ConnectionStarts ==
  ASSUME NEW e, NEW f, e.isn \in RawValues, e.length \in Nat,
         NEW sc \in Nat, NEW rc \in Nat
  PROVE  LET c == new_connection(e.port, f.port, sc, rc, e.isn) IN
         /\ Connected(e, f, c)
         /\ ~c.sender.outbound.error /\ ~c.receiver.reassembler.output.error
         /\ c.sender.snd_una = 0 /\ c.receiver.isn = None
         /\ c.receiver.reassembler.eof_index = None
         /\ \A b \in Nat : ~Holds(c.receiver.reassembler, b)
<1> DEFINE c == new_connection(e.port, f.port, sc, rc, e.isn)
           s == new_sender(sc, e.isn)
           q == new_reassembler(rc)
           rcv == [reassembler |-> q, isn |-> None]
<1>1. c = [local_port |-> e.port, peer_port |-> f.port, sender |-> s, receiver |-> rcv]
  BY DEF new_connection, new_receiver
<1>2. SenderOK(s) /\ s.isn = e.isn /\ s.snd_una = 0 /\ s.outbound = new_stream(sc)
  BY NewSender
<1>3. /\ Whole(q) /\ q.output = new_stream(rc) /\ q.eof_index = None
      /\ \A b \in Nat : ~Holds(q, b)
  BY NewReassembler
<1> HIDE DEF c, s, q
<1>4. s.outbound.bytes_pushed = 0 /\ ~s.outbound.error /\ ~q.output.error
  BY <1>2, <1>3 DEF new_stream
<1>5. rcv.reassembler = q /\ rcv.isn = None OBVIOUS
<1>6. ReceiverOK(rcv) BY <1>3, <1>5 DEF ReceiverOK
<1> HIDE DEF rcv
<1>7. c.sender = s /\ c.receiver = rcv BY <1>1
<1>8. Connected(e, f, c) BY <1>1, <1>2, <1>4, <1>6, <1>7 DEF Connected
<1> QED BY <1>2, <1>3, <1>4, <1>5, <1>7, <1>8 DEF c
=============================================================================

--------------------------- MODULE RoutingProofs ---------------------------
(***************************************************************************)
(* Forwarding: the route that Router::find_route returns is the longest    *)
(* prefix match, for every width of the addresses and every table; and a   *)
(* host of a network of routers receives only what is addressed to it.     *)
(***************************************************************************)
EXTENDS RouterSpec, RoutedNetwork, EndpointLemmas
-----------------------------------------------------------------------------
(* The recurrence of the powers of two has a solution, and they are positive. *)
LEMMA PowersOfTwo ==
  /\ pow2[0] = 1
  /\ \A n \in 0 .. ADDRESS_BITS : pow2[n] \in Nat /\ pow2[n] > 0
  /\ \A n \in 1 .. ADDRESS_BITS : pow2[n] = 2 * pow2[n - 1]
<1> DEFINE B == ADDRESS_BITS
           Solves(g, k) == g = [n \in 0 .. k |-> IF n = 0 THEN 1 ELSE 2 * g[n - 1]]
           S == {k \in 0 .. B : \E g : Solves(g, k)}
<1>1. B \in Nat BY AddressAssumption DEF AddressAssumption
<1>2. 0 \in S
  <2> DEFINE g == [n \in 0 .. 0 |-> 1]
  <2>1. g = [n \in 0 .. 0 |-> IF n = 0 THEN 1 ELSE 2 * g[n - 1]] OBVIOUS
  <2> HIDE DEF g
  <2>2. Solves(g, 0) BY <2>1
  <2>3. 0 \in 0 .. B BY <1>1
  <2> QED BY <2>2, <2>3
<1>3. ASSUME NEW k \in S, k < B PROVE k + 1 \in S
  <2>1. PICK g : Solves(g, k) OBVIOUS
  <2>2. k \in Nat /\ k + 1 \in 0 .. B BY <1>1, <1>3
  <2> DEFINE h == [n \in 0 .. k + 1 |-> IF n <= k THEN g[n] ELSE 2 * g[k]]
  <2>3. ASSUME NEW n \in 0 .. k + 1 PROVE h[n] = IF n = 0 THEN 1 ELSE 2 * h[n - 1]
    <3>1. CASE n = 0 BY <3>1, <2>1, <2>2
    <3>2. CASE n # 0 /\ n <= k
      <4>1. n \in 0 .. k /\ n - 1 \in 0 .. k /\ n - 1 \in 0 .. k + 1 /\ n - 1 <= k BY <3>2, <2>2
      <4>2. g[n] = 2 * g[n - 1] BY <4>1, <3>2, <2>1
      <4>3. h[n] = g[n] /\ h[n - 1] = g[n - 1] BY <4>1, <3>2
      <4> QED BY <4>2, <4>3, <3>2
    <3>3. CASE n = k + 1
      <4>1. ~ (n <= k) /\ n # 0 /\ n - 1 = k /\ k \in 0 .. k + 1 /\ k <= k BY <3>3, <2>2
      <4>2. h[n] = 2 * g[k] /\ h[k] = g[k] BY <4>1
      <4> QED BY <4>1, <4>2
    <3> QED BY <3>1, <3>2, <3>3, <2>2
  <2>4. h = [n \in 0 .. k + 1 |-> h[n]] OBVIOUS
  <2> HIDE DEF h
  <2>5. Solves(h, k + 1) BY <2>3, <2>4
  <2> QED BY <2>2, <2>5
<1>4. B \in S
  <2> HIDE DEF S
  <2>1. S \in SUBSET (0 .. B) BY DEF S
  <2> QED BY <1>1, <1>2, <1>3, <2>1, IntervalInduction
<1>5. Solves(pow2, B)
  <2>1. \E g : Solves(g, B) BY <1>4
  <2> QED BY <2>1 DEF pow2
<1>6. /\ 0 \in 0 .. B /\ pow2[0] = 1
      /\ \A n \in 1 .. B : pow2[n] = 2 * pow2[n - 1]
  <2>1. \A n \in 0 .. B : pow2[n] = IF n = 0 THEN 1 ELSE 2 * pow2[n - 1] BY <1>5
  <2>2. \A n \in 1 .. B : n \in 0 .. B /\ n # 0 BY <1>1
  <2>3. 0 \in 0 .. B BY <1>1
  <2> QED BY <2>1, <2>2, <2>3
<1>7. ASSUME NEW k \in 0 .. B PROVE pow2[k] \in Nat /\ pow2[k] > 0
  <2> DEFINE T == {n \in 0 .. k : pow2[n] \in Nat /\ pow2[n] > 0}
  <2>1. 0 \in T BY <1>6
  <2>2. ASSUME NEW n \in T, n < k PROVE n + 1 \in T
    <3>1. n \in Nat /\ n + 1 \in 0 .. k /\ n + 1 \in 1 .. B /\ n + 1 - 1 = n BY <2>2, <1>1
    <3>2. pow2[n + 1] = 2 * pow2[n] BY <3>1, <1>6
    <3> QED BY <3>1, <3>2
  <2>3. k \in Nat /\ T \in SUBSET (0 .. k) BY <1>1
  <2> HIDE DEF T
  <2>4. k \in T BY <2>1, <2>2, <2>3, IntervalInduction
  <2> QED BY <2>4 DEF T
<1> QED BY <1>6, <1>7

(* Dropping one bit more halves what is left. *)
LEMMA Halves ==
  ASSUME NEW a \in Nat, NEW m \in Nat, m > 0
  PROVE  /\ a \div m \in Nat
         /\ a \div m = 2 * (a \div (2 * m)) + ((a \div m) % 2)
<1>1. a \div (2 * m) = (a \div m) \div 2 OBVIOUS
<1>2. a \div m \in Nat OBVIOUS
<1> DEFINE q == a \div m
<1> HIDE DEF q
<1>3. q \in Nat => q = 2 * (q \div 2) + (q % 2) BY SMT
<1> QED BY <1>1, <1>2, <1>3 DEF q

(* Addresses agree on their first p bits, one by one, when their prefixes of length p are equal. *)
LEMMA PrefixIsBits ==
  ASSUME NEW a \in IpAddresses, NEW b \in IpAddresses, NEW p \in 0 .. ADDRESS_BITS
  PROVE  prefix(a, p) = prefix(b, p) <=> \A q \in 1 .. p : bit(a, q) = bit(b, q)
<1> DEFINE B == ADDRESS_BITS
           Same(q) == prefix(a, q) = prefix(b, q)
           T == {n \in 0 .. p : Same(n) <=> \A q \in 1 .. n : bit(a, q) = bit(b, q)}
<1>1. B \in Nat /\ p \in Nat /\ p <= B BY AddressAssumption DEF AddressAssumption
<1>2. /\ a \in Nat /\ a < pow2[B] /\ b \in Nat /\ b < pow2[B]
      /\ B \in 0 .. B /\ pow2[B] \in Nat /\ pow2[B] > 0
  <2>1. B \in 0 .. B BY <1>1
  <2>2. pow2[B] \in Nat /\ pow2[B] > 0 BY <2>1, PowersOfTwo
  <2> QED BY <2>1, <2>2 DEF IpAddresses
<1>3. 0 \in T
  <2> DEFINE m == pow2[B]
  <2>1. prefix(a, 0) = a \div m /\ prefix(b, 0) = b \div m BY <1>1 DEF prefix
  <2>2. m \in Nat /\ m > 0 /\ a < m /\ b < m BY <1>2
  <2> HIDE DEF m
  <2>3. a \div m = 0 /\ b \div m = 0 BY <1>2, <2>2
  <2>4. Same(0) BY <2>1, <2>3
  <2> QED BY <2>4, <1>1
<1>4. ASSUME NEW n \in T, n < p PROVE n + 1 \in T
  <2> DEFINE m == pow2[B - (n + 1)]
  <2>1. /\ n \in Nat /\ n + 1 \in 0 .. p /\ B - (n + 1) \in 0 .. B
        /\ B - n \in 1 .. B /\ B - n - 1 = B - (n + 1)
    BY <1>1, <1>4
  <2>2. m \in Nat /\ m > 0 /\ pow2[B - n] = 2 * m BY <2>1, PowersOfTwo
  <2>3. /\ prefix(a, n + 1) = a \div m /\ prefix(b, n + 1) = b \div m
        /\ prefix(a, n) = a \div (2 * m) /\ prefix(b, n) = b \div (2 * m)
    BY <2>2 DEF prefix
  <2>4. bit(a, n + 1) = (a \div m) % 2 /\ bit(b, n + 1) = (b \div m) % 2 BY DEF bit
  <2> HIDE DEF m
  <2>5. /\ a \div m = 2 * (a \div (2 * m)) + ((a \div m) % 2)
        /\ b \div m = 2 * (b \div (2 * m)) + ((b \div m) % 2)
        /\ a \div m \in Nat /\ b \div m \in Nat
    BY <1>2, <2>2, Halves
  <2>6. a \div (2 * m) \in Nat /\ b \div (2 * m) \in Nat BY <1>2, <2>2, Halves
  <2> DEFINE qa == a \div (2 * m)  qb == b \div (2 * m)  ua == a \div m  ub == b \div m
  <2> HIDE DEF qa, qb, ua, ub
  <2>7. /\ ua = 2 * qa + (ua % 2) /\ ub = 2 * qb + (ub % 2)
        /\ ua \in Nat /\ ub \in Nat /\ qa \in Nat /\ qb \in Nat
    BY <2>5, <2>6 DEF qa, qb, ua, ub
  <2>8. ua = ub <=> qa = qb /\ ua % 2 = ub % 2 BY <2>7
  <2>9. Same(n + 1) <=> Same(n) /\ bit(a, n + 1) = bit(b, n + 1)
    BY <2>3, <2>4, <2>8 DEF qa, qb, ua, ub
  <2>10. Same(n) <=> \A q \in 1 .. n : bit(a, q) = bit(b, q) OBVIOUS
  <2>11. \A q : q \in 1 .. n + 1 <=> q \in 1 .. n \/ q = n + 1 BY <2>1
  <2> HIDE DEF Same
  <2>12. (\A q \in 1 .. n + 1 : bit(a, q) = bit(b, q))
           <=> (\A q \in 1 .. n : bit(a, q) = bit(b, q)) /\ bit(a, n + 1) = bit(b, n + 1)
    BY <2>11
  <2> QED BY <2>1, <2>9, <2>10, <2>12
<1>5. T \in SUBSET (0 .. p) OBVIOUS
<1> HIDE DEF T
<1>6. p \in T BY <1>1, <1>3, <1>4, <1>5, IntervalInduction
<1> HIDE DEF Same
<1>7. Same(p) <=> \A q \in 1 .. p : bit(a, q) = bit(b, q) BY <1>6 DEF T
<1> QED BY <1>7 DEF Same
-----------------------------------------------------------------------------
(* v is the longest match for the destination, the first of those, among the first n routes. *)
IsBest(v, routes, n, destination) ==
  LET good(k) == matches(routes[k], destination)
      length(k) == routes[k].prefix_length IN
  \/ v = <<>> /\ \A k \in 1 .. n : ~good(k)
  \/ \E k \in 1 .. n :
       /\ good(k) /\ v = <<routes[k]>>
       /\ \A j \in 1 .. n : good(j) => length(j) <= length(k) /\ (length(j) = length(k) => k <= j)

(* One more route: only a longer one replaces the best so far. *)
LEMMA BetterIsBest ==
  ASSUME NEW routes \in Seq(Routes), NEW n \in Nat, n + 1 \in 1 .. Len(routes),
         NEW destination, NEW v, IsBest(v, routes, n, destination)
  PROVE  IsBest(better(v, routes[n + 1], destination), routes, n + 1, destination)
<1> DEFINE good(k) == matches(routes[k], destination)
           length(k) == routes[k].prefix_length
           w == better(v, routes[n + 1], destination)
<1>1. /\ \A k \in 1 .. n + 1 : length(k) \in Nat
      /\ \A k : k \in 1 .. n + 1 <=> k \in 1 .. n \/ k = n + 1
      /\ \A k \in 1 .. n : k < n + 1 /\ k \in Nat
  <2>1. \A k \in 1 .. n + 1 : routes[k] \in Routes OBVIOUS
  <2>2. \A r \in Routes : r.prefix_length \in Nat BY AddressAssumption DEF AddressAssumption, Routes
  <2> QED BY <2>1, <2>2
<1>2. w = IF good(n + 1) /\ (v = <<>> \/ length(n + 1) > v[1].prefix_length)
          THEN <<routes[n + 1]>> ELSE v
  BY DEF better
<1>3. \/ v = <<>> /\ \A k \in 1 .. n : ~good(k)
      \/ \E k \in 1 .. n :
           /\ good(k) /\ v = <<routes[k]>>
           /\ \A j \in 1 .. n : good(j) => length(j) <= length(k) /\ (length(j) = length(k) => k <= j)
  BY DEF IsBest
<1>4. SUFFICES
        \/ w = <<>> /\ \A k \in 1 .. n + 1 : ~good(k)
        \/ \E k \in 1 .. n + 1 :
             /\ good(k) /\ w = <<routes[k]>>
             /\ \A j \in 1 .. n + 1 :
                  good(j) => length(j) <= length(k) /\ (length(j) = length(k) => k <= j)
  BY DEF IsBest
<1> HIDE DEF good, w
<1>5. CASE v = <<>> /\ \A k \in 1 .. n : ~good(k)
  <2>1. CASE good(n + 1)
    <3>1. w = <<routes[n + 1]>> BY <1>2, <1>5, <2>1
    <3>2. \A j \in 1 .. n + 1 : good(j) => j = n + 1 BY <1>1, <1>5
    <3>3. length(n + 1) \in Nat BY <1>1
    <3> QED BY <3>1, <3>2, <3>3, <2>1
  <2>2. CASE ~good(n + 1) BY <1>1, <1>2, <1>5, <2>2
  <2> QED BY <2>1, <2>2
<1>6. ASSUME NEW k \in 1 .. n, good(k), v = <<routes[k]>>,
             \A j \in 1 .. n : good(j) => length(j) <= length(k) /\ (length(j) = length(k) => k <= j)
      PROVE  \E i \in 1 .. n + 1 :
               /\ good(i) /\ w = <<routes[i]>>
               /\ \A j \in 1 .. n + 1 :
                    good(j) => length(j) <= length(i) /\ (length(j) = length(i) => i <= j)
  <2>1. v # <<>> /\ v[1].prefix_length = length(k) BY <1>6
  <2>2. length(k) \in Nat /\ length(n + 1) \in Nat /\ k < n + 1 /\ k \in Nat BY <1>1
  <2> HIDE DEF length
  <2>3. CASE good(n + 1) /\ length(n + 1) > length(k)
    <3>1. w = <<routes[n + 1]>> BY <1>2, <2>1, <2>3
    <3>2. ASSUME NEW j \in 1 .. n + 1, good(j)
          PROVE  length(j) <= length(n + 1) /\ (length(j) = length(n + 1) => n + 1 <= j)
      <4>1. length(j) \in Nat /\ (j = n + 1 \/ j \in 1 .. n) BY <1>1
      <4>2. CASE j = n + 1 BY <4>2, <2>2
      <4>3. CASE j \in 1 .. n
        <5>1. length(j) <= length(k) BY <4>3, <3>2, <1>6
        <5> QED BY <5>1, <4>1, <2>2, <2>3
      <4> QED BY <4>1, <4>2, <4>3
    <3>3. n + 1 \in 1 .. n + 1 OBVIOUS
    <3> QED BY <3>1, <3>2, <3>3, <2>3
  <2>4. CASE ~ (good(n + 1) /\ length(n + 1) > length(k))
    <3>1. w = <<routes[k]>> BY <1>2, <1>6, <2>1, <2>4
    <3>2. ASSUME NEW j \in 1 .. n + 1, good(j)
          PROVE  length(j) <= length(k) /\ (length(j) = length(k) => k <= j)
      <4>1. length(j) \in Nat /\ (j = n + 1 \/ j \in 1 .. n) BY <1>1
      <4>2. CASE j = n + 1 BY <4>2, <3>2, <2>2, <2>4
      <4>3. CASE j \in 1 .. n BY <4>3, <3>2, <1>6
      <4> QED BY <4>1, <4>2, <4>3
    <3>3. k \in 1 .. n + 1 BY <1>1
    <3> QED BY <3>1, <3>2, <3>3, <1>6
  <2> QED BY <2>3, <2>4
<1> QED BY <1>3, <1>5, <1>6

(* find_route returns the best route of the whole table. *)
LEMMA FindsBest ==
  ASSUME NEW routes \in Seq(Routes), NEW destination
  PROVE  IsBest(find_route(routes, destination), routes, Len(routes), destination)
<1> DEFINE L == Len(routes)
           Step(v, k) == better(v, routes[k], destination)
           Solves(g, n) == g = [k \in 0 .. n |-> IF k = 0 THEN <<>> ELSE Step(g[k - 1], k)]
           S == {n \in 0 .. L : \E g : Solves(g, n)}
           best == CHOOSE g : Solves(g, L)
<1> HIDE DEF Step
<1>1. L \in Nat OBVIOUS
<1>2. 0 \in S
  <2> DEFINE g == [k \in 0 .. 0 |-> <<>>]
  <2>1. g = [k \in 0 .. 0 |-> IF k = 0 THEN <<>> ELSE Step(g[k - 1], k)] OBVIOUS
  <2> HIDE DEF g
  <2>2. Solves(g, 0) BY <2>1
  <2>3. 0 \in 0 .. L BY <1>1
  <2> QED BY <2>2, <2>3
<1>3. ASSUME NEW n \in S, n < L PROVE n + 1 \in S
  <2>1. PICK g : Solves(g, n) OBVIOUS
  <2>2. n \in Nat /\ n + 1 \in 0 .. L BY <1>1, <1>3
  <2> DEFINE h == [k \in 0 .. n + 1 |-> IF k <= n THEN g[k] ELSE Step(g[n], k)]
  <2>3. ASSUME NEW k \in 0 .. n + 1 PROVE h[k] = IF k = 0 THEN <<>> ELSE Step(h[k - 1], k)
    <3>1. CASE k = 0 BY <3>1, <2>1, <2>2
    <3>2. CASE k # 0 /\ k <= n
      <4>1. k \in 0 .. n /\ k - 1 \in 0 .. n /\ k - 1 \in 0 .. n + 1 /\ k - 1 <= n BY <3>2, <2>2
      <4>2. g[k] = Step(g[k - 1], k) BY <4>1, <3>2, <2>1
      <4>3. h[k] = g[k] /\ h[k - 1] = g[k - 1] BY <4>1, <3>2
      <4> QED BY <4>2, <4>3, <3>2
    <3>3. CASE k = n + 1
      <4>1. ~ (k <= n) /\ k # 0 /\ k - 1 = n /\ n \in 0 .. n + 1 /\ n <= n BY <3>3, <2>2
      <4>2. h[k] = Step(g[n], k) /\ h[n] = g[n] BY <4>1
      <4> QED BY <4>1, <4>2
    <3> QED BY <3>1, <3>2, <3>3, <2>2
  <2>4. h = [k \in 0 .. n + 1 |-> h[k]] OBVIOUS
  <2> HIDE DEF h
  <2>5. Solves(h, n + 1) BY <2>3, <2>4
  <2> QED BY <2>2, <2>5
<1>4. L \in S
  <2> HIDE DEF S, L
  <2>1. S \in SUBSET (0 .. L) BY DEF S
  <2> QED BY <1>1, <1>2, <1>3, <2>1, IntervalInduction
<1>5. Solves(best, L)
  <2>1. \E g : Solves(g, L) BY <1>4
  <2> HIDE DEF Solves
  <2> QED BY <2>1
<1>6. find_route(routes, destination) = best[L] BY DEF find_route, Step
<1> HIDE DEF best
<1> DEFINE T == {n \in 0 .. L : IsBest(best[n], routes, n, destination)}
<1>7. 0 \in T
  <2>1. 0 \in 0 .. L /\ best[0] = <<>> BY <1>1, <1>5
  <2> QED BY <2>1 DEF IsBest
<1>8. ASSUME NEW n \in T, n < L PROVE n + 1 \in T
  <2>1. n \in Nat /\ n + 1 \in 0 .. L /\ n + 1 # 0 /\ n + 1 - 1 = n /\ n + 1 \in 1 .. Len(routes)
    BY <1>1, <1>8
  <2>2. best[n + 1] = Step(best[n], n + 1) BY <2>1, <1>5
  <2>3. IsBest(best[n], routes, n, destination) OBVIOUS
  <2>4. IsBest(better(best[n], routes[n + 1], destination), routes, n + 1, destination)
    BY <2>1, <2>3, BetterIsBest
  <2> QED BY <2>1, <2>2, <2>4 DEF Step
<1>9. L \in T
  <2> HIDE DEF T, L
  <2>1. T \in SUBSET (0 .. L) BY DEF T
  <2> QED BY <1>1, <1>7, <1>8, <2>1, IntervalInduction
<1> QED BY <1>6, <1>9

(* Every entry of the table comes from add_route. *)
TableOK == /\ router.routes \in Seq(Routes)
           /\ router = [interfaces |-> <<>>, routes |-> router.routes]

(***************************************************************************)
(* Router::find_route is the longest-prefix match, for every width of the  *)
(* addresses and every table that add_route builds: of the routes whose    *)
(* first prefix_length bits are the destination's, bit by bit, it returns  *)
(* the longest, of equal ones the first, and none exactly when there is    *)
(* none; a prefix of length 0 matches every destination.                   *)
(***************************************************************************)
THEOREM LongestPrefixWins == TableSpec => []LongestPrefixFirst
<1>1. TableInit => TableOK BY DEF TableInit, TableOK
<1>2. ASSUME TableOK, [TableNext]_router PROVE TableOK'
  <2>1. CASE UNCHANGED router BY <2>1, <1>2 DEF TableOK
  <2>2. CASE TableNext
    <3>1. PICK p \in IpAddresses, l \in 0 .. ADDRESS_BITS :
            router' = add_route(router, Route(p, l, None, Len(router.routes)))
      BY <2>2 DEF TableNext, AddRoute
    <3> DEFINE e == Route(p, l, None, Len(router.routes))
    <3>3. Len(router.routes) \in Nat BY <1>2 DEF TableOK
    <3>4. e \in Routes BY <3>1, <3>3 DEF Routes, Route, None
    <3> HIDE DEF e
    <3>5. router' = [router EXCEPT !.routes = Append(router.routes, e)]
      BY <3>1 DEF add_route, e
    <3>6. router' = [interfaces |-> <<>>, routes |-> Append(router.routes, e)]
      <4> DEFINE rs == router.routes
                 more == Append(rs, e)
      <4> HIDE DEF rs, more
      <4>1. router = [interfaces |-> <<>>, routes |-> rs] BY <1>2 DEF TableOK, rs
      <4>2. router' = [router EXCEPT !.routes = more] BY <3>5 DEF more, rs
      <4>3. router' = [interfaces |-> <<>>, routes |-> more] BY <4>1, <4>2
      <4> QED BY <4>3 DEF more, rs
    <3>7. Append(router.routes, e) \in Seq(Routes) BY <3>4, <1>2 DEF TableOK
    <3> QED BY <3>6, <3>7 DEF TableOK
  <2> QED BY <1>2, <2>1, <2>2
<1>3. ASSUME TableOK PROVE LongestPrefixFirst
  <2>1. SUFFICES ASSUME NEW d \in IpAddresses
                 PROVE  LET found == find_route(router.routes, d)
                            covering == {k \in DOMAIN router.routes : SharesPrefix(router.routes[k], d)}
                            length(k) == router.routes[k].prefix_length
                        IN  IF covering = {} THEN found = <<>>
                            ELSE \E k \in covering :
                                   /\ found = <<router.routes[k]>>
                                   /\ \A j \in covering : length(j) <= length(k)
                                   /\ \A j \in covering : length(j) = length(k) => k <= j
    BY DEF LongestPrefixFirst
  <2> DEFINE rs == router.routes
             found == find_route(rs, d)
             covering == {k \in DOMAIN rs : SharesPrefix(rs[k], d)}
             length(k) == rs[k].prefix_length
  <2>2. rs \in Seq(Routes) /\ DOMAIN rs = 1 .. Len(rs) BY <1>3 DEF TableOK
  <2>4. ASSUME NEW k \in 1 .. Len(rs) PROVE matches(rs[k], d) <=> SharesPrefix(rs[k], d)
    <3> DEFINE r == rs[k]
    <3>1. r.route_prefix \in IpAddresses /\ r.prefix_length \in 0 .. ADDRESS_BITS
      <4>1. r \in Routes BY <2>2
      <4> HIDE DEF r
      <4> QED BY <4>1 DEF Routes
    <3> HIDE DEF r
    <3>2. prefix(r.route_prefix, r.prefix_length) = prefix(d, r.prefix_length)
            <=> \A q \in 1 .. r.prefix_length : bit(r.route_prefix, q) = bit(d, q)
      BY <3>1, PrefixIsBits
    <3>3. matches(r, d) <=> SharesPrefix(r, d) BY <3>2 DEF matches, SharesPrefix
    <3> QED BY <3>3 DEF r
  <2>5. IsBest(found, rs, Len(rs), d) BY <2>2, FindsBest
  <2> HIDE DEF found, rs
  <2>6. \/ found = <<>> /\ \A k \in 1 .. Len(rs) : ~matches(rs[k], d)
        \/ \E k \in 1 .. Len(rs) :
             /\ matches(rs[k], d) /\ found = <<rs[k]>>
             /\ \A j \in 1 .. Len(rs) : matches(rs[j], d) =>
                  length(j) <= length(k) /\ (length(j) = length(k) => k <= j)
    BY <2>5 DEF IsBest
  <2>7. \A k : k \in covering <=> k \in 1 .. Len(rs) /\ matches(rs[k], d) BY <2>2, <2>4
  <2> HIDE DEF covering, length
  <2>8. IF covering = {} THEN found = <<>>
        ELSE \E k \in covering :
               /\ found = <<rs[k]>>
               /\ \A j \in covering : length(j) <= length(k)
               /\ \A j \in covering : length(j) = length(k) => k <= j
    BY <2>6, <2>7
  <2> QED BY <2>8 DEF rs, covering, length, found
<1> QED BY <1>1, <1>2, <1>3, PTL DEF TableSpec
-----------------------------------------------------------------------------
(***************************************************************************)
(* The network of routers.  On each link the invariant follows a datagram  *)
(* from the queue of its next hop into a frame and to whoever takes it:    *)
(* what is queued for, or framed to, a host of the link is addressed to    *)
(* that host.  It rests on ARP: whatever is announced or cached on a link  *)
(* are the two addresses of one of its interfaces.                         *)
(***************************************************************************)
Ip(n, k) == InterfacesOf[n][k].ip_address
Eth(n, k) == InterfacesOf[n][k].ethernet_address

Ethers == {BROADCAST} \cup UNION {{Eth(n, k) : k \in DOMAIN InterfacesOf[n]} : n \in Nodes}
InFlight == [id : {d.id : d \in Datagrams}, dst : IpAddresses, ttl : Int]
ArpPayloads ==
  [operation : {"Request", "Reply"}, sender_ethernet_address : Ethers,
   sender_ip_address : IpAddresses, target_ip_address : IpAddresses]

(* The two addresses of one of the link's interfaces. *)
BelongTogether(link, ip, eth) ==
  \E n \in Nodes : \E k \in DOMAIN InterfacesOf[n] :
    LinkOf[n][k] = link /\ Ip(n, k) = ip /\ Eth(n, k) = eth

(* On the link, d may be queued for ip, and be framed to eth. *)
MayWait(link, ip, d) == IsHostAt(link, ip) => d.dst = ip
MayReach(link, eth, d) ==
  /\ eth # BROADCAST
  /\ \A h \in Hosts : LinkOf[h][1] = link /\ Eth(h, 1) = eth => d.dst = Ip(h, 1)

GoodFrames(link) ==
  {f \in [dst : Ethers, src : Ethers, ethertype : {"IPv4", "ARP"},
          payload : InFlight \cup ArpPayloads, parses : {TRUE}] :
     \/ f.ethertype = "IPv4" /\ f.payload \in InFlight /\ MayReach(link, f.dst, f.payload)
     \/ /\ f.ethertype = "ARP" /\ f.payload \in ArpPayloads
        /\ BelongTogether(link, f.payload.sender_ip_address, f.payload.sender_ethernet_address)}

CacheOK(link, cache) ==
  \A ip \in DOMAIN cache : /\ cache[ip] \in [ethernet_address : Ethers, age_ms : Nat]
                           /\ BelongTogether(link, ip, cache[ip].ethernet_address)

QueuesOK(link, pending) ==
  \A ip \in DOMAIN pending :
    /\ pending[ip] \in [datagrams : Seq(InFlight), age_ms : Nat, request_age_ms : Nat]
    /\ \A x \in 1 .. Len(pending[ip].datagrams) : MayWait(link, ip, pending[ip].datagrams[x])

(* What has arrived at a node; a host has only its own. *)
IncomingOK(n, k, in) ==
  /\ in \in Seq(InFlight)
  /\ n \in Hosts => \A x \in 1 .. Len(in) : in[x].dst = Ip(n, k)

ShapeOK(n, k, i) ==
  i = [ethernet_address |-> Eth(n, k), ip_address |-> Ip(n, k),
       arp_cache |-> i.arp_cache, pending |-> i.pending,
       frames_out |-> i.frames_out, datagrams_in |-> i.datagrams_in]

PortOK(n, k, i) ==
  LET link == LinkOf[n][k] IN
  /\ ShapeOK(n, k, i)
  /\ CacheOK(link, i.arp_cache)
  /\ QueuesOK(link, i.pending)
  /\ i.frames_out \in Seq(GoodFrames(link))
  /\ IncomingOK(n, k, i.datagrams_in)

(* An interface of the network and what is known of its addresses. *)
IsPort(n, k) == n \in Nodes /\ k \in DOMAIN InterfacesOf[n]

LEMMA InterfacesAreSequence ==
  ASSUME NEW n \in Nodes
  PROVE  /\ Len(InterfacesOf[n]) \in Nat /\ DOMAIN InterfacesOf[n] = 1 .. Len(InterfacesOf[n])
         /\ InterfacesOf[n] = [k \in DOMAIN InterfacesOf[n] |-> InterfacesOf[n][k]]
<1> DEFINE s == InterfacesOf[n]
           S == Range(s)
<1>1. s \in Seq(S) BY TopologyAssumption DEF TopologyAssumption
<1> HIDE DEF s, S
<1>2. Len(s) \in Nat /\ DOMAIN s = 1 .. Len(s) /\ s = [k \in DOMAIN s |-> s[k]] BY <1>1
<1> QED BY <1>2 DEF s

LEMMA PortFacts ==
  ASSUME NEW n, NEW k, IsPort(n, k)
  PROVE  /\ Ip(n, k) \in IpAddresses /\ Eth(n, k) \in Ethers /\ Eth(n, k) # BROADCAST
         /\ BelongTogether(LinkOf[n][k], Ip(n, k), Eth(n, k))
BY TopologyAssumption DEF TopologyAssumption, IsPort, Ip, Eth, Ethers, BelongTogether

(* ARP resolves: what may wait for an address may go to its Ethernet address. *)
LEMMA Resolves ==
  ASSUME NEW link, NEW ip, NEW eth, BelongTogether(link, ip, eth)
  PROVE  /\ eth \in Ethers /\ eth # BROADCAST /\ ip \in IpAddresses
         /\ \A d : MayWait(link, ip, d) => MayReach(link, eth, d)
<1>0. PICK n \in Nodes : \E k \in DOMAIN InterfacesOf[n] :
        LinkOf[n][k] = link /\ Ip(n, k) = ip /\ Eth(n, k) = eth
  BY DEF BelongTogether
<1>1. PICK k \in DOMAIN InterfacesOf[n] :
        LinkOf[n][k] = link /\ Ip(n, k) = ip /\ Eth(n, k) = eth
  BY <1>0
<1>2. eth \in Ethers /\ eth # BROADCAST /\ ip \in IpAddresses BY <1>1, PortFacts DEF IsPort
<1>3. ASSUME NEW d, MayWait(link, ip, d), NEW h \in Hosts,
             LinkOf[h][1] = link, Eth(h, 1) = eth
      PROVE  d.dst = Ip(h, 1)
  <2>1. h \in Nodes /\ 1 \in DOMAIN InterfacesOf[h]
    BY InterfacesAreSequence, RoutedNetworkAssumption DEF RoutedNetworkAssumption, Nodes
  <2>2. h = n /\ 1 = k
    BY <1>1, <1>3, <2>1, TopologyAssumption DEF TopologyAssumption, Eth
  <2>3. Ip(h, 1) = ip BY <1>1, <2>2
  <2>4. IsHostAt(link, ip) BY <1>3, <2>3 DEF IsHostAt, Ip
  <2> QED BY <1>3, <2>3, <2>4 DEF MayWait
<1> QED BY <1>2, <1>3 DEF MayReach

(* One field of an interface at a time. *)
LEMMA WithField ==
  ASSUME NEW n, NEW k, NEW i, PortOK(n, k, i)
  PROVE  /\ \A c : CacheOK(LinkOf[n][k], c) => PortOK(n, k, [i EXCEPT !.arp_cache = c])
         /\ \A q : QueuesOK(LinkOf[n][k], q) => PortOK(n, k, [i EXCEPT !.pending = q])
         /\ \A f \in Seq(GoodFrames(LinkOf[n][k])) : PortOK(n, k, [i EXCEPT !.frames_out = f])
         /\ \A in : IncomingOK(n, k, in) => PortOK(n, k, [i EXCEPT !.datagrams_in = in])
<1>1. ShapeOK(n, k, i) BY DEF PortOK
<1>2. ASSUME NEW c
      PROVE  LET j == [i EXCEPT !.arp_cache = c] IN
             /\ ShapeOK(n, k, j) /\ j.arp_cache = c /\ j.pending = i.pending
             /\ j.frames_out = i.frames_out /\ j.datagrams_in = i.datagrams_in
  BY <1>1 DEF ShapeOK
<1>3. ASSUME NEW q
      PROVE  LET j == [i EXCEPT !.pending = q] IN
             /\ ShapeOK(n, k, j) /\ j.arp_cache = i.arp_cache /\ j.pending = q
             /\ j.frames_out = i.frames_out /\ j.datagrams_in = i.datagrams_in
  BY <1>1 DEF ShapeOK
<1>4. ASSUME NEW f
      PROVE  LET j == [i EXCEPT !.frames_out = f] IN
             /\ ShapeOK(n, k, j) /\ j.arp_cache = i.arp_cache /\ j.pending = i.pending
             /\ j.frames_out = f /\ j.datagrams_in = i.datagrams_in
  BY <1>1 DEF ShapeOK
<1>5. ASSUME NEW in
      PROVE  LET j == [i EXCEPT !.datagrams_in = in] IN
             /\ ShapeOK(n, k, j) /\ j.arp_cache = i.arp_cache /\ j.pending = i.pending
             /\ j.frames_out = i.frames_out /\ j.datagrams_in = in
  BY <1>1 DEF ShapeOK
<1> QED BY <1>2, <1>3, <1>4, <1>5, Zenon DEF PortOK

(* The frames an interface makes are good ones. *)
LEMMA OwnFrames ==
  ASSUME NEW n, NEW k, IsPort(n, k), NEW i, PortOK(n, k, i)
  PROVE  /\ \A d \in InFlight, eth \in Ethers :
              MayReach(LinkOf[n][k], eth, d) => ipv4_frame(i, d, eth) \in GoodFrames(LinkOf[n][k])
         /\ \A op \in {"Request", "Reply"}, eth \in Ethers, target \in IpAddresses :
              Frame(eth, i.ethernet_address, "ARP",
                    ArpMessage(op, i.ethernet_address, i.ip_address, target), TRUE)
                \in GoodFrames(LinkOf[n][k])
<1> DEFINE link == LinkOf[n][k]
<1>1. i.ethernet_address = Eth(n, k) /\ i.ip_address = Ip(n, k) BY DEF PortOK, ShapeOK
<1>2. /\ Ip(n, k) \in IpAddresses /\ Eth(n, k) \in Ethers
      /\ BelongTogether(link, Ip(n, k), Eth(n, k))
  BY PortFacts
<1> HIDE DEF link
<1>3. ASSUME NEW d \in InFlight, NEW eth \in Ethers, MayReach(link, eth, d)
      PROVE  ipv4_frame(i, d, eth) \in GoodFrames(link)
  <2> DEFINE f == ipv4_frame(i, d, eth)
  <2>1. f = [dst |-> eth, src |-> Eth(n, k), ethertype |-> "IPv4", payload |-> d, parses |-> TRUE]
    BY <1>1 DEF ipv4_frame, Frame
  <2> HIDE DEF f
  <2>2. /\ f \in [dst : Ethers, src : Ethers, ethertype : {"IPv4", "ARP"},
                  payload : InFlight \cup ArpPayloads, parses : {TRUE}]
        /\ f.ethertype = "IPv4" /\ f.payload = d /\ f.dst = eth
    BY <2>1, <1>2
  <2>3. f \in GoodFrames(link) BY <2>2, <1>3 DEF GoodFrames
  <2> QED BY <2>3 DEF f
<1>4. ASSUME NEW op \in {"Request", "Reply"}, NEW eth \in Ethers, NEW target \in IpAddresses
      PROVE  Frame(eth, i.ethernet_address, "ARP",
                   ArpMessage(op, i.ethernet_address, i.ip_address, target), TRUE)
               \in GoodFrames(link)
  <2> DEFINE m == ArpMessage(op, i.ethernet_address, i.ip_address, target)
             f == Frame(eth, i.ethernet_address, "ARP", m, TRUE)
  <2>1. /\ m \in ArpPayloads
        /\ m.sender_ip_address = Ip(n, k) /\ m.sender_ethernet_address = Eth(n, k)
    BY <1>1, <1>2 DEF ArpMessage, ArpPayloads
  <2> HIDE DEF m
  <2>2. f = [dst |-> eth, src |-> Eth(n, k), ethertype |-> "ARP", payload |-> m, parses |-> TRUE]
    BY <1>1 DEF Frame
  <2> HIDE DEF f
  <2>3. /\ f \in [dst : Ethers, src : Ethers, ethertype : {"IPv4", "ARP"},
                  payload : InFlight \cup ArpPayloads, parses : {TRUE}]
        /\ f.ethertype = "ARP" /\ f.payload = m
    BY <2>1, <2>2, <1>2
  <2>4. f \in GoodFrames(link) BY <2>1, <2>3, <1>2 DEF GoodFrames
  <2> QED BY <2>4 DEF f, m
<1> QED BY <1>3, <1>4 DEF link

(* One frame more. *)
LEMMA EmitKeepsPort ==
  ASSUME NEW n, NEW k, NEW i, PortOK(n, k, i), NEW f \in GoodFrames(LinkOf[n][k])
  PROVE  PortOK(n, k, [i EXCEPT !.frames_out = Append(i.frames_out, f)])
<1> DEFINE g == Append(i.frames_out, f)
<1>1. i.frames_out \in Seq(GoodFrames(LinkOf[n][k])) BY DEF PortOK
<1>2. g \in Seq(GoodFrames(LinkOf[n][k])) BY <1>1
<1> HIDE DEF g
<1>3. PortOK(n, k, [i EXCEPT !.frames_out = g]) BY <1>2, WithField
<1> QED BY <1>3 DEF g

(* NetworkInterface::send_datagram: framed at once, or queued for the next hop. *)
LEMMA SendKeepsPort ==
  ASSUME NEW n, NEW k, IsPort(n, k), NEW i, PortOK(n, k, i), NEW d \in InFlight,
         NEW hop \in IpAddresses, MayWait(LinkOf[n][k], hop, d)
  PROVE  PortOK(n, k, send_datagram(i, d, hop))
<1> DEFINE link == LinkOf[n][k]
           p == IF hop \in DOMAIN i.pending THEN i.pending[hop] ELSE new_resolution
           asks == should_send_arp_request(p)
           q == [p EXCEPT !.datagrams = Append(@, d), !.request_age_ms = IF asks THEN 0 ELSE @]
           queues == map_insert(i.pending, hop, q)
           waiting == [i EXCEPT !.pending = queues]
<1>1. send_datagram(i, d, hop) =
        IF hop \in DOMAIN i.arp_cache
        THEN emit_ipv4_frame(i, d, i.arp_cache[hop].ethernet_address)
        ELSE IF asks THEN emit_arp_request(waiting, hop) ELSE waiting
  BY DEF send_datagram
<1>2. /\ CacheOK(link, i.arp_cache) /\ QueuesOK(link, i.pending)
      /\ i.frames_out \in Seq(GoodFrames(link))
  BY DEF PortOK
<1>3. CASE hop \in DOMAIN i.arp_cache
  <2> DEFINE eth == i.arp_cache[hop].ethernet_address
             f == ipv4_frame(i, d, eth)
  <2>1. BelongTogether(link, hop, eth) BY <1>2, <1>3 DEF CacheOK
  <2>2. eth \in Ethers /\ MayReach(link, eth, d) BY <2>1, Resolves
  <2> HIDE DEF eth
  <2>3. f \in GoodFrames(link) BY <2>2, OwnFrames
  <2>4. emit_ipv4_frame(i, d, eth) = [i EXCEPT !.frames_out = Append(i.frames_out, f)]
    BY DEF emit_ipv4_frame
  <2> HIDE DEF f
  <2>5. PortOK(n, k, [i EXCEPT !.frames_out = Append(i.frames_out, f)]) BY <2>3, EmitKeepsPort
  <2>6. PortOK(n, k, emit_ipv4_frame(i, d, eth)) BY <2>4, <2>5
  <2> QED BY <1>1, <1>3, <2>6 DEF eth
<1>4. CASE hop \notin DOMAIN i.arp_cache
  <2>1. /\ p \in [datagrams : Seq(InFlight), age_ms : Nat, request_age_ms : Nat]
        /\ \A x \in 1 .. Len(p.datagrams) : MayWait(link, hop, p.datagrams[x])
    <3>1. CASE hop \in DOMAIN i.pending BY <3>1, <1>2 DEF QueuesOK
    <3>2. CASE hop \notin DOMAIN i.pending
      <4>1. p = [datagrams |-> <<>>, age_ms |-> 0, request_age_ms |-> ARP_REQUEST_COOLDOWN]
        BY <3>2 DEF new_resolution
      <4>2. ARP_REQUEST_COOLDOWN \in Nat
        BY InterfaceTimesAssumption DEF InterfaceTimesAssumption
      <4> HIDE DEF p
      <4> QED BY <4>1, <4>2
    <3> QED BY <3>1, <3>2
  <2> HIDE DEF p
  <2> DEFINE ds == Append(p.datagrams, d)
             age == IF asks THEN 0 ELSE p.request_age_ms
  <2>2. ds \in Seq(InFlight) /\ age \in Nat BY <2>1
  <2>3. \A x \in 1 .. Len(ds) : MayWait(link, hop, ds[x])
    <3>1. p.datagrams \in Seq(InFlight) BY <2>1
    <3>2. ASSUME NEW x \in 1 .. Len(ds) PROVE MayWait(link, hop, ds[x])
      <4>1. CASE x <= Len(p.datagrams)
        <5>1. x \in 1 .. Len(p.datagrams) /\ ds[x] = p.datagrams[x] BY <3>1, <4>1
        <5> QED BY <5>1, <2>1
      <4>2. CASE x > Len(p.datagrams)
        <5>1. ds[x] = d BY <3>1, <4>2
        <5> QED BY <5>1
      <4> QED BY <3>1, <4>1, <4>2
    <3> QED BY <3>2
  <2>4. q = [datagrams |-> ds, age_ms |-> p.age_ms, request_age_ms |-> age]
    <3>1. q = [[p EXCEPT !.datagrams = ds] EXCEPT !.request_age_ms = age] BY <2>1
    <3> HIDE DEF ds, age, q
    <3>2. p = [datagrams |-> p.datagrams, age_ms |-> p.age_ms, request_age_ms |-> p.request_age_ms]
      BY <2>1
    <3> QED BY <3>1, <3>2
  <2> HIDE DEF ds, age
  <2>5. /\ q \in [datagrams : Seq(InFlight), age_ms : Nat, request_age_ms : Nat]
        /\ q.datagrams = ds
    BY <2>1, <2>2, <2>4
  <2> HIDE DEF q
  <2>6. QueuesOK(link, queues)
    <3>1. ASSUME NEW ip \in DOMAIN queues
          PROVE  /\ queues[ip] \in [datagrams : Seq(InFlight), age_ms : Nat, request_age_ms : Nat]
                 /\ \A x \in 1 .. Len(queues[ip].datagrams) :
                      MayWait(link, ip, queues[ip].datagrams[x])
      <4>1. CASE ip = hop
        <5>1. queues[ip] = q BY <4>1 DEF map_insert
        <5> QED BY <5>1, <4>1, <2>3, <2>5
      <4>2. CASE ip # hop
        <5>1. ip \in DOMAIN i.pending /\ queues[ip] = i.pending[ip] BY <4>2 DEF map_insert
        <5> QED BY <5>1, <1>2 DEF QueuesOK
      <4> QED BY <4>1, <4>2
    <3> QED BY <3>1 DEF QueuesOK
  <2> HIDE DEF queues
  <2>7. PortOK(n, k, waiting) BY <2>6, WithField
  <2> HIDE DEF waiting
  <2>8. PortOK(n, k, emit_arp_request(waiting, hop))
    <3> DEFINE f == Frame(BROADCAST, waiting.ethernet_address, "ARP",
                      ArpMessage("Request", waiting.ethernet_address, waiting.ip_address, hop), TRUE)
    <3>1. BROADCAST \in Ethers BY DEF Ethers
    <3>2. f \in GoodFrames(link) BY <2>7, <3>1, OwnFrames
    <3>3. emit_arp_request(waiting, hop)
            = [waiting EXCEPT !.frames_out = Append(waiting.frames_out, f)]
      BY DEF emit_arp_request
    <3> HIDE DEF f
    <3>4. PortOK(n, k, [waiting EXCEPT !.frames_out = Append(waiting.frames_out, f)])
      BY <3>2, <2>7, EmitKeepsPort
    <3> QED BY <3>3, <3>4
  <2> HIDE DEF asks
  <2> QED BY <1>1, <1>4, <2>7, <2>8
<1> QED BY <1>3, <1>4

(* NetworkInterface::learn_arp_mapping: what waited goes to the address that was announced. *)
LEMMA LearnKeepsPort ==
  ASSUME NEW n, NEW k, IsPort(n, k), NEW i, PortOK(n, k, i), NEW ip, NEW eth,
         BelongTogether(LinkOf[n][k], ip, eth)
  PROVE  PortOK(n, k, learn_arp_mapping(i, ip, eth))
<1> DEFINE link == LinkOf[n][k]
           c == map_insert(i.arp_cache, ip, [ethernet_address |-> eth, age_ms |-> 0])
           q == map_remove(i.pending, ip)
           w == i.pending[ip].datagrams
           released == IF ip \notin DOMAIN i.pending THEN <<>>
                       ELSE [x \in 1 .. Len(w) |-> ipv4_frame(i, w[x], eth)]
           f == i.frames_out \o released
<1>1. /\ CacheOK(link, i.arp_cache) /\ QueuesOK(link, i.pending)
      /\ i.frames_out \in Seq(GoodFrames(link))
  BY DEF PortOK
<1>2. eth \in Ethers /\ \A d : MayWait(link, ip, d) => MayReach(link, eth, d) BY Resolves
<1>3. CacheOK(link, c)
  <2>1. ASSUME NEW x \in DOMAIN c
        PROVE  /\ c[x] \in [ethernet_address : Ethers, age_ms : Nat]
               /\ BelongTogether(link, x, c[x].ethernet_address)
    <3>1. CASE x = ip
      <4>1. c[x] = [ethernet_address |-> eth, age_ms |-> 0] BY <3>1 DEF map_insert
      <4> HIDE DEF c
      <4> QED BY <3>1, <4>1, <1>2
    <3>2. CASE x # ip
      <4>1. x \in DOMAIN i.arp_cache /\ c[x] = i.arp_cache[x] BY <3>2 DEF map_insert
      <4> QED BY <4>1, <1>1 DEF CacheOK
    <3> QED BY <3>1, <3>2
  <2> QED BY <2>1 DEF CacheOK
<1>4. QueuesOK(link, q)
  <2>1. ASSUME NEW x \in DOMAIN q PROVE x \in DOMAIN i.pending /\ q[x] = i.pending[x]
    BY DEF map_remove
  <2> HIDE DEF q
  <2> QED BY <2>1, <1>1 DEF QueuesOK
<1>5. released \in Seq(GoodFrames(link))
  <2>1. CASE ip \notin DOMAIN i.pending BY <2>1
  <2>2. CASE ip \in DOMAIN i.pending
    <3>1. w \in Seq(InFlight) /\ \A x \in 1 .. Len(w) : MayWait(link, ip, w[x])
      BY <2>2, <1>1 DEF QueuesOK
    <3> HIDE DEF w
    <3>2. ASSUME NEW x \in 1 .. Len(w) PROVE ipv4_frame(i, w[x], eth) \in GoodFrames(link)
      <4>1. w[x] \in InFlight /\ MayReach(link, eth, w[x]) BY <3>1, <1>2
      <4> QED BY <4>1, <1>2, OwnFrames
    <3>3. Len(w) \in Nat BY <3>1
    <3>4. [x \in 1 .. Len(w) |-> ipv4_frame(i, w[x], eth)] \in Seq(GoodFrames(link))
      BY <3>2, <3>3
    <3> QED BY <2>2, <3>4
  <2> QED BY <2>1, <2>2
<1> HIDE DEF released
<1>6. f \in Seq(GoodFrames(link)) BY <1>1, <1>5
<1>7. learn_arp_mapping(i, ip, eth)
        = [i EXCEPT !.arp_cache = c, !.pending = q, !.frames_out = f]
  BY DEF learn_arp_mapping, released
<1> HIDE DEF c, q, f, link
<1> DEFINE i1 == [i EXCEPT !.arp_cache = c]
           i2 == [i1 EXCEPT !.pending = q]
           i3 == [i2 EXCEPT !.frames_out = f]
<1>8. PortOK(n, k, i1) BY <1>3, WithField DEF link
<1> HIDE DEF i1
<1>9. PortOK(n, k, i2) BY <1>8, <1>4, WithField DEF link
<1> HIDE DEF i2
<1>10. PortOK(n, k, i3) BY <1>9, <1>6, WithField DEF link
<1>11. learn_arp_mapping(i, ip, eth) = i3
  <2>1. [i EXCEPT !.arp_cache = c, !.pending = q, !.frames_out = f]
          = [[[i EXCEPT !.arp_cache = c] EXCEPT !.pending = q] EXCEPT !.frames_out = f]
    BY DEF PortOK, ShapeOK
  <2> QED BY <1>7, <2>1 DEF i1, i2
<1> QED BY <1>10, <1>11

(* NetworkInterface::recv_frame, for a frame from the link. *)
LEMMA RecvKeepsPort ==
  ASSUME NEW n, NEW k, IsPort(n, k), n \in Hosts => k = 1, NEW i, PortOK(n, k, i),
         NEW f \in GoodFrames(LinkOf[n][k])
  PROVE  PortOK(n, k, recv_frame(i, f))
<1> DEFINE link == LinkOf[n][k]
           m == f.payload
<1>1. i.ethernet_address = Eth(n, k) /\ i.ip_address = Ip(n, k) BY DEF PortOK, ShapeOK
<1>2. f.ethertype \in {"IPv4", "ARP"} BY DEF GoodFrames
<1>3. CASE ~is_for(f, i.ethernet_address) \/ ~f.parses BY <1>3 DEF recv_frame
<1>4. CASE is_for(f, i.ethernet_address) /\ f.parses /\ f.ethertype = "IPv4"
  <2> DEFINE in == Append(i.datagrams_in, m)
  <2>1. recv_frame(i, f) = [i EXCEPT !.datagrams_in = in] BY <1>4 DEF recv_frame
  <2>2. m \in InFlight /\ MayReach(link, f.dst, m) BY <1>4 DEF GoodFrames
  <2>3. f.dst = Eth(n, k) BY <1>1, <1>4, <2>2 DEF is_for, MayReach
  <2>4. n \in Hosts => m.dst = Ip(n, k) BY <2>2, <2>3 DEF MayReach
  <2>5. /\ i.datagrams_in \in Seq(InFlight)
        /\ n \in Hosts => \A x \in 1 .. Len(i.datagrams_in) : i.datagrams_in[x].dst = Ip(n, k)
    BY DEF PortOK, IncomingOK
  <2> HIDE DEF m
  <2>6. in \in Seq(InFlight) BY <2>2, <2>5
  <2>7. ASSUME n \in Hosts, NEW x \in 1 .. Len(in) PROVE in[x].dst = Ip(n, k)
    <3>1. CASE x <= Len(i.datagrams_in)
      <4>1. x \in 1 .. Len(i.datagrams_in) /\ in[x] = i.datagrams_in[x] BY <3>1, <2>5, <2>2
      <4> QED BY <4>1, <2>5, <2>7
    <3>2. CASE x > Len(i.datagrams_in)
      <4>1. in[x] = m BY <3>2, <2>5, <2>2
      <4> QED BY <4>1, <2>4, <2>7
    <3> QED BY <3>1, <3>2, <2>5
  <2> HIDE DEF in
  <2>8. IncomingOK(n, k, in) BY <2>6, <2>7 DEF IncomingOK
  <2> QED BY <2>1, <2>8, WithField
<1>5. CASE is_for(f, i.ethernet_address) /\ f.parses /\ f.ethertype = "ARP"
  <2> DEFINE learnt == learn_arp_mapping(i, m.sender_ip_address, m.sender_ethernet_address)
  <2>1. recv_frame(i, f) = recv_arp(i, m) BY <1>5 DEF recv_frame
  <2>2. m \in ArpPayloads /\ BelongTogether(link, m.sender_ip_address, m.sender_ethernet_address)
    BY <1>5 DEF GoodFrames
  <2> HIDE DEF m
  <2>3. PortOK(n, k, learnt) BY <2>2, LearnKeepsPort
  <2>4. recv_arp(i, m) = IF m.operation = "Request" /\ m.target_ip_address = i.ip_address
                         THEN emit_arp_reply(learnt, m.sender_ethernet_address, m.sender_ip_address)
                         ELSE learnt
    BY DEF recv_arp
  <2> HIDE DEF learnt
  <2>5. PortOK(n, k, emit_arp_reply(learnt, m.sender_ethernet_address, m.sender_ip_address))
    <3> DEFINE g == Frame(m.sender_ethernet_address, learnt.ethernet_address, "ARP",
                      ArpMessage("Reply", learnt.ethernet_address, learnt.ip_address,
                                 m.sender_ip_address), TRUE)
    <3>1. m.sender_ethernet_address \in Ethers /\ m.sender_ip_address \in IpAddresses
      BY <2>2 DEF ArpPayloads
    <3>2. g \in GoodFrames(link) BY <2>3, <3>1, OwnFrames
    <3>3. emit_arp_reply(learnt, m.sender_ethernet_address, m.sender_ip_address)
            = [learnt EXCEPT !.frames_out = Append(learnt.frames_out, g)]
      BY DEF emit_arp_reply
    <3> HIDE DEF g
    <3>4. PortOK(n, k, [learnt EXCEPT !.frames_out = Append(learnt.frames_out, g)])
      BY <3>2, <2>3, EmitKeepsPort
    <3> QED BY <3>3, <3>4
  <2> QED BY <2>1, <2>3, <2>4, <2>5
<1> QED BY <1>2, <1>3, <1>4, <1>5

(* NetworkInterface::tick only forgets, and drops whole queues. *)
LEMMA TickKeepsPort ==
  ASSUME NEW n, NEW k, NEW i, PortOK(n, k, i), NEW e \in Nat
  PROVE  PortOK(n, k, interface_tick(i, e))
<1> DEFINE link == LinkOf[n][k]
           c == expire_arp_cache(i.arp_cache, e)
           q == expire_pending(i.pending, e)
<1>0. U64_MAX \in Nat BY U64Assumption DEF U64Assumption
<1>1. CacheOK(link, i.arp_cache) /\ QueuesOK(link, i.pending) BY DEF PortOK
<1>2. ASSUME NEW x \in Nat PROVE saturating_add(x, e, U64_MAX) \in Nat
  BY <1>0 DEF saturating_add, min
<1>3. CacheOK(link, c)
  <2> SUFFICES ASSUME NEW x \in DOMAIN c
               PROVE  /\ c[x] \in [ethernet_address : Ethers, age_ms : Nat]
                      /\ BelongTogether(link, x, c[x].ethernet_address)
    BY DEF CacheOK
  <2> DEFINE old == i.arp_cache[x]
             age == saturating_add(old.age_ms, e, U64_MAX)
  <2>1. x \in DOMAIN i.arp_cache /\ c[x] = [old EXCEPT !.age_ms = age] BY DEF expire_arp_cache
  <2>2. /\ old \in [ethernet_address : Ethers, age_ms : Nat]
        /\ BelongTogether(link, x, old.ethernet_address)
    BY <2>1, <1>1 DEF CacheOK
  <2>3. age \in Nat BY <2>2, <1>2
  <2> HIDE DEF old, age, c
  <2>4. c[x] \in [ethernet_address : Ethers, age_ms : Nat]
        /\ c[x].ethernet_address = old.ethernet_address
    BY <2>1, <2>2, <2>3
  <2> QED BY <2>2, <2>4
<1>4. QueuesOK(link, q)
  <2> SUFFICES ASSUME NEW x \in DOMAIN q
               PROVE  /\ q[x] \in [datagrams : Seq(InFlight), age_ms : Nat, request_age_ms : Nat]
                      /\ \A y \in 1 .. Len(q[x].datagrams) : MayWait(link, x, q[x].datagrams[y])
    BY DEF QueuesOK
  <2> DEFINE old == i.pending[x]
             age == saturating_add(old.age_ms, e, U64_MAX)
             asked == saturating_add(old.request_age_ms, e, U64_MAX)
  <2>1. /\ x \in DOMAIN i.pending
        /\ q[x] = [old EXCEPT !.age_ms = age, !.request_age_ms = asked]
    BY DEF expire_pending
  <2>2. /\ old \in [datagrams : Seq(InFlight), age_ms : Nat, request_age_ms : Nat]
        /\ \A y \in 1 .. Len(old.datagrams) : MayWait(link, x, old.datagrams[y])
    BY <2>1, <1>1 DEF QueuesOK
  <2>3. age \in Nat /\ asked \in Nat BY <2>2, <1>2
  <2> HIDE DEF old, age, asked, q
  <2>4. old = [datagrams |-> old.datagrams, age_ms |-> old.age_ms,
               request_age_ms |-> old.request_age_ms]
    BY <2>2
  <2>5. q[x] = [datagrams |-> old.datagrams, age_ms |-> age, request_age_ms |-> asked]
    BY <2>1, <2>4
  <2>6. /\ q[x] \in [datagrams : Seq(InFlight), age_ms : Nat, request_age_ms : Nat]
        /\ q[x].datagrams = old.datagrams
    BY <2>2, <2>3, <2>5
  <2> QED BY <2>2, <2>6
<1>5. interface_tick(i, e) = [i EXCEPT !.arp_cache = c, !.pending = q] BY DEF interface_tick
<1> HIDE DEF c, q, link
<1> DEFINE i1 == [i EXCEPT !.arp_cache = c]
<1>6. interface_tick(i, e) = [i1 EXCEPT !.pending = q] BY <1>5 DEF PortOK, ShapeOK
<1>7. PortOK(n, k, i1) BY <1>3, WithField DEF link
<1> HIDE DEF i1
<1>8. PortOK(n, k, [i1 EXCEPT !.pending = q]) BY <1>4, <1>7, WithField DEF link
<1> QED BY <1>6, <1>8

(* pop_frame, pop_datagram, and draining all that has arrived. *)
LEMMA PopsKeepPort ==
  ASSUME NEW n, NEW k, NEW i, PortOK(n, k, i)
  PROVE  /\ i.frames_out # <<>> => PortOK(n, k, pop_frame(i))
         /\ i.datagrams_in # <<>> => PortOK(n, k, pop_datagram(i))
         /\ PortOK(n, k, [i EXCEPT !.datagrams_in = <<>>])
<1>1. i.frames_out \in Seq(GoodFrames(LinkOf[n][k])) BY DEF PortOK
<1>2. /\ i.datagrams_in \in Seq(InFlight)
      /\ n \in Hosts => \A x \in 1 .. Len(i.datagrams_in) : i.datagrams_in[x].dst = Ip(n, k)
  BY DEF PortOK, IncomingOK
<1>3. ASSUME i.frames_out # <<>> PROVE PortOK(n, k, pop_frame(i))
  <2> DEFINE good == GoodFrames(LinkOf[n][k])
             old == i.frames_out
             f == Tail(old)
  <2>1. pop_frame(i) = [i EXCEPT !.frames_out = f] BY DEF pop_frame
  <2>2. old \in Seq(good) /\ old # <<>> BY <1>1, <1>3
  <2> HIDE DEF good, old
  <2>3. f \in Seq(good) BY <2>2
  <2> HIDE DEF f
  <2>4. PortOK(n, k, [i EXCEPT !.frames_out = f]) BY <2>3, WithField DEF good
  <2> QED BY <2>1, <2>4
<1>4. ASSUME i.datagrams_in # <<>> PROVE PortOK(n, k, pop_datagram(i))
  <2> DEFINE old == i.datagrams_in
             in == Tail(old)
  <2>1. pop_datagram(i) = [i EXCEPT !.datagrams_in = in] BY DEF pop_datagram
  <2>2. old \in Seq(InFlight) /\ old # <<>> BY <1>2, <1>4
  <2>3. n \in Hosts => \A x \in 1 .. Len(old) : old[x].dst = Ip(n, k) BY <1>2
  <2> HIDE DEF old
  <2>4. in \in Seq(InFlight) /\ Len(in) = Len(old) - 1 /\ Len(old) \in Nat BY <2>2
  <2>5. \A x \in 1 .. Len(in) : x + 1 \in 1 .. Len(old) /\ in[x] = old[x + 1] BY <2>2, <2>4
  <2> HIDE DEF in
  <2>6. IncomingOK(n, k, in) BY <2>3, <2>4, <2>5 DEF IncomingOK
  <2> QED BY <2>1, <2>6, WithField
<1>5. PortOK(n, k, [i EXCEPT !.datagrams_in = <<>>])
  <2> DEFINE in == << >>
  <2>1. IncomingOK(n, k, in) BY DEF IncomingOK
  <2> HIDE DEF in
  <2>2. PortOK(n, k, [i EXCEPT !.datagrams_in = in]) BY <2>1, WithField
  <2> QED BY <2>2 DEF in
<1> QED BY <1>3, <1>4, <1>5
-----------------------------------------------------------------------------
(* A node: its routes stay, and every interface is sound. *)
NodeOK(n, x) ==
  /\ x = [interfaces |-> x.interfaces, routes |-> RoutesOf[n]]
  /\ x.interfaces = [k \in DOMAIN InterfacesOf[n] |-> x.interfaces[k]]
  /\ \A k \in DOMAIN InterfacesOf[n] : PortOK(n, k, x.interfaces[k])

(* All interfaces of a node at once, or one of them. *)
LEMMA WithPorts ==
  ASSUME NEW n, NEW x, NodeOK(n, x)
  PROVE  /\ \A new : /\ new = [k \in DOMAIN InterfacesOf[n] |-> new[k]]
                     /\ \A k \in DOMAIN InterfacesOf[n] : PortOK(n, k, new[k])
                     => NodeOK(n, [x EXCEPT !.interfaces = new])
         /\ \A k \in DOMAIN InterfacesOf[n] : \A v :
              PortOK(n, k, v) => NodeOK(n, [x EXCEPT !.interfaces[k] = v])
<1>1. ASSUME NEW new, new = [k \in DOMAIN InterfacesOf[n] |-> new[k]],
             \A k \in DOMAIN InterfacesOf[n] : PortOK(n, k, new[k])
      PROVE  NodeOK(n, [x EXCEPT !.interfaces = new])
  <2> DEFINE y == [x EXCEPT !.interfaces = new]
  <2>1. y = [interfaces |-> new, routes |-> RoutesOf[n]] BY DEF NodeOK
  <2> HIDE DEF y
  <2>2. y.interfaces = new /\ y = [interfaces |-> y.interfaces, routes |-> RoutesOf[n]] BY <2>1
  <2>3. NodeOK(n, y) BY <1>1, <2>2 DEF NodeOK
  <2> QED BY <2>3 DEF y
<1>2. ASSUME NEW k \in DOMAIN InterfacesOf[n], NEW v, PortOK(n, k, v)
      PROVE  NodeOK(n, [x EXCEPT !.interfaces[k] = v])
  <2> DEFINE new == [x.interfaces EXCEPT ![k] = v]
  <2>1. /\ new = [j \in DOMAIN InterfacesOf[n] |-> new[j]]
        /\ \A j \in DOMAIN InterfacesOf[n] : new[j] = IF j = k THEN v ELSE x.interfaces[j]
    BY DEF NodeOK
  <2>2. \A j \in DOMAIN InterfacesOf[n] : PortOK(n, j, new[j]) BY <2>1, <1>2 DEF NodeOK
  <2>3. [x EXCEPT !.interfaces[k] = v] = [x EXCEPT !.interfaces = new] OBVIOUS
  <2> HIDE DEF new
  <2> QED BY <2>1, <2>2, <2>3, <1>1
<1> QED BY <1>1, <1>2

(* Router::route_one_datagram: along a route only to the destination itself or to a gateway. *)
LEMMA RouteOneKeepsNode ==
  ASSUME NEW n \in Routers, NEW x, NodeOK(n, x), NEW d \in InFlight
  PROVE  NodeOK(n, route_one_datagram(x, d))
<1> DEFINE found == find_route(x.routes, d.dst)
           e == found[1]
           m == e.interface_num + 1
           hop == next_hop_of(e, d.dst)
           g == forwarded(d)
<1>1. route_one_datagram(x, d) =
        IF d.ttl <= 1 \/ found = <<>> \/ m \notin DOMAIN x.interfaces THEN x
        ELSE [x EXCEPT !.interfaces[m] = send_datagram(x.interfaces[m], g, hop)]
  BY DEF route_one_datagram
<1>2. n \in Nodes /\ RoutesOf[n] \in Seq(Routes) /\ x.routes = RoutesOf[n]
  BY TopologyAssumption DEF TopologyAssumption, Nodes, NodeOK
<1>3. IsBest(found, RoutesOf[n], Len(RoutesOf[n]), d.dst) BY <1>2, FindsBest
<1>4. g \in InFlight /\ g.dst = d.dst /\ d.dst \in IpAddresses BY DEF forwarded, InFlight
<1>5. DOMAIN x.interfaces = DOMAIN InterfacesOf[n] BY DEF NodeOK
<1> HIDE DEF found, g
<1>6. CASE d.ttl <= 1 \/ found = <<>> \/ m \notin DOMAIN x.interfaces BY <1>1, <1>6
<1>7. CASE ~ (d.ttl <= 1 \/ found = <<>> \/ m \notin DOMAIN x.interfaces)
  <2>1. PICK j \in 1 .. Len(RoutesOf[n]) : found = <<RoutesOf[n][j]>> BY <1>3, <1>7 DEF IsBest
  <2>2. e = RoutesOf[n][j] BY <2>1
  <2>3. e \in Routes /\ e \in Range(RoutesOf[n]) BY <1>2, <2>2 DEF Range
  <2> HIDE DEF e
  <2>4. e.next_hop \in IpAddresses \cup {None} BY <2>3 DEF Routes
  <2>5. m \in DOMAIN InterfacesOf[n] BY <1>5, <1>7
  <2>6. e.next_hop # None => ~IsHostAt(LinkOf[n][m], e.next_hop)
    BY <2>3, <2>5, TopologyAssumption DEF TopologyAssumption
  <2>7. hop = IF e.next_hop = None THEN d.dst ELSE e.next_hop BY DEF next_hop_of
  <2> HIDE DEF hop, m
  <2>8. hop \in IpAddresses /\ MayWait(LinkOf[n][m], hop, g)
    BY <1>4, <2>4, <2>6, <2>7 DEF MayWait
  <2>9. PortOK(n, m, x.interfaces[m]) /\ IsPort(n, m) BY <2>5, <1>2 DEF NodeOK, IsPort
  <2> DEFINE v == send_datagram(x.interfaces[m], g, hop)
  <2>10. PortOK(n, m, v) BY <1>4, <2>8, <2>9, SendKeepsPort
  <2> HIDE DEF v
  <2>11. NodeOK(n, [x EXCEPT !.interfaces[m] = v]) BY <2>5, <2>10, WithPorts
  <2> QED BY <1>1, <1>7, <2>11 DEF v
<1> QED BY <1>6, <1>7

(* Joining sequences of elements of S gives a sequence of elements of S. *)
LEMMA FlattenTyped ==
  ASSUME NEW S, NEW seqs \in Seq(Seq(S))
  PROVE  FlattenSeq(seqs) \in Seq(S)
<1> DEFINE L == Len(seqs)
           Solves(g, n) == g = [k \in 1 .. n |-> IF k = 1 THEN seqs[k] ELSE g[k - 1] \o seqs[k]]
           T == {n \in 0 .. L : \E g : Solves(g, n) /\ \A k \in 1 .. n : g[k] \in Seq(S)}
           flat == CHOOSE g : Solves(g, L)
<1>1. L \in Nat OBVIOUS
<1>2. CASE L = 0
  <2>1. FlattenSeq(seqs) = seqs BY <1>2 DEF FlattenSeq
  <2>2. seqs = <<>> BY <1>2
  <2> QED BY <2>1, <2>2
<1>3. CASE L # 0
  <2>1. FlattenSeq(seqs) = flat[L] BY <1>3 DEF FlattenSeq
  <2>2. 0 \in T
    <3> DEFINE g == [k \in 1 .. 0 |-> <<>>]
    <3>1. Solves(g, 0) OBVIOUS
    <3>2. 0 \in 0 .. L BY <1>1
    <3> HIDE DEF g, Solves
    <3> QED BY <3>1, <3>2
  <2>3. ASSUME NEW n \in T, n < L PROVE n + 1 \in T
    <3>1. PICK g : Solves(g, n) /\ \A k \in 1 .. n : g[k] \in Seq(S) OBVIOUS
    <3>2. n \in Nat /\ n + 1 \in 0 .. L /\ n + 1 \in 1 .. L BY <1>1, <2>3
    <3> DEFINE h == [k \in 1 .. n + 1 |-> IF k <= n THEN g[k]
                                          ELSE IF k = 1 THEN seqs[k] ELSE g[n] \o seqs[k]]
    <3>3. ASSUME NEW k \in 1 .. n + 1
          PROVE  /\ h[k] = IF k = 1 THEN seqs[k] ELSE h[k - 1] \o seqs[k]
                 /\ h[k] \in Seq(S)
      <4>1. CASE k <= n
        <5>1. k \in 1 .. n BY <4>1, <3>2
        <5>2. h[k] = g[k] BY <4>1
        <5>3. g[k] = IF k = 1 THEN seqs[k] ELSE g[k - 1] \o seqs[k] BY <5>1, <3>1
        <5>4. k # 1 => k - 1 \in 1 .. n + 1 /\ k - 1 <= n BY <4>1, <3>2
        <5>5. k # 1 => h[k - 1] = g[k - 1] BY <5>4
        <5>6. g[k] \in Seq(S) BY <5>1, <3>1
        <5> HIDE DEF h
        <5> QED BY <5>2, <5>3, <5>5, <5>6
      <4>2. CASE k = n + 1
        <5>1. ~ (k <= n) /\ k - 1 = n BY <4>2, <3>2
        <5>2. h[k] = IF k = 1 THEN seqs[k] ELSE g[n] \o seqs[k] BY <5>1
        <5>3. k # 1 => n \in 1 .. n + 1 /\ n <= n /\ n \in 1 .. n BY <4>2, <3>2
        <5>4. k # 1 => h[n] = g[n] /\ g[n] \in Seq(S) BY <5>3, <3>1
        <5>5. seqs[k] \in Seq(S) BY <4>2, <3>2
        <5> HIDE DEF h
        <5>6. k = 1 => h[k] \in Seq(S) BY <5>2, <5>5
        <5>7. k # 1 => h[k] \in Seq(S)
          <6> DEFINE u == g[n]  v == seqs[k]
          <6> HIDE DEF u, v
          <6>1. u \in Seq(S) /\ v \in Seq(S) => u \o v \in Seq(S) OBVIOUS
          <6> QED BY <5>2, <5>4, <5>5, <6>1 DEF u, v
        <5> QED BY <5>1, <5>2, <5>4, <5>6, <5>7
      <4> QED BY <4>1, <4>2, <3>2
    <3>4. h = [k \in 1 .. n + 1 |-> h[k]] OBVIOUS
    <3> HIDE DEF h
    <3>5. Solves(h, n + 1) BY <3>3, <3>4
    <3> HIDE DEF Solves
    <3> QED BY <3>2, <3>3, <3>5
  <2>4. L \in T
    <3> HIDE DEF T, L
    <3>1. T \in SUBSET (0 .. L) BY DEF T
    <3> QED BY <1>1, <2>2, <2>3, <3>1, IntervalInduction
  <2>5. Solves(flat, L)
    <3>1. \E g : Solves(g, L) BY <2>4
    <3> HIDE DEF Solves
    <3> QED BY <3>1
  <2> HIDE DEF flat
  <2> DEFINE U == {n \in 0 .. L : n > 0 => flat[n] \in Seq(S)}
  <2>6. 0 \in U BY <1>1
  <2>7. ASSUME NEW n \in U, n < L PROVE n + 1 \in U
    <3>1. n \in Nat /\ n + 1 \in 0 .. L /\ n + 1 \in 1 .. L /\ n + 1 - 1 = n BY <1>1, <2>7
    <3>0. \A k \in 1 .. L : flat[k] = IF k = 1 THEN seqs[k] ELSE flat[k - 1] \o seqs[k]
      BY <2>5, Zenon
    <3> DEFINE y == n + 1
    <3>a. y \in 1 .. L /\ y - 1 = n /\ (y = 1 <=> n = 0) BY <3>1
    <3> HIDE DEF y
    <3>b. flat[y] = IF y = 1 THEN seqs[y] ELSE flat[y - 1] \o seqs[y] BY <3>0, <3>a, Zenon
    <3>2. flat[n + 1] = IF n = 0 THEN seqs[n + 1] ELSE flat[n] \o seqs[n + 1]
      <4>1. flat[y] = IF n = 0 THEN seqs[y] ELSE flat[n] \o seqs[y] BY <3>a, <3>b, Zenon
      <4> QED BY <4>1, Zenon DEF y
    <3>3. seqs[n + 1] \in Seq(S) BY <3>1
    <3>4. CASE n = 0
      <4>1. flat[n + 1] = seqs[n + 1] BY <3>4, <3>2
      <4> QED BY <4>1, <3>1, <3>3
    <3>5. CASE n > 0
      <4> DEFINE u == flat[n]  v == seqs[n + 1]
      <4>1. u \in Seq(S) /\ v \in Seq(S) BY <3>3, <3>5
      <4>2. flat[n + 1] = u \o v
        <5>1. n # 0 BY <3>5
        <5> QED BY <3>2, <5>1, Zenon
      <4> HIDE DEF u, v
      <4>3. u \o v \in Seq(S) BY <4>1
      <4> QED BY <3>1, <4>2, <4>3
    <3> QED BY <3>1, <3>4, <3>5
  <2>8. L \in U
    <3> HIDE DEF U, L
    <3>1. U \in SUBSET (0 .. L) BY DEF U
    <3> QED BY <1>1, <2>6, <2>7, <3>1, IntervalInduction
  <2> QED BY <1>1, <1>3, <2>1, <2>8
<1> QED BY <1>2, <1>3

(* Router::route: every datagram that has arrived is routed in its turn. *)
LEMMA RouteKeepsNode ==
  ASSUME NEW n \in Routers, NEW x, NodeOK(n, x)
  PROVE  NodeOK(n, route(x))
<1> DEFINE queues == [k \in DOMAIN x.interfaces |-> x.interfaces[k].datagrams_in]
           arrived == FlattenSeq(queues)
           empty == [k \in DOMAIN x.interfaces |-> [x.interfaces[k] EXCEPT !.datagrams_in = <<>>]]
           drained == [x EXCEPT !.interfaces = empty]
           L == Len(arrived)
           Solves(g, m) == g = [k \in 0 .. m |-> IF k = 0 THEN drained
                                                 ELSE route_one_datagram(g[k - 1], arrived[k])]
           after == CHOOSE g : Solves(g, L)
           T == {m \in 0 .. L : \E g : Solves(g, m)}
<1>1. DOMAIN x.interfaces = DOMAIN InterfacesOf[n] BY DEF NodeOK
<1>2. n \in Nodes /\ \E N \in Nat : DOMAIN InterfacesOf[n] = 1 .. N
  <2>1. n \in Nodes BY DEF Nodes
  <2> QED BY <2>1, InterfacesAreSequence
<1>3. \A k \in DOMAIN InterfacesOf[n] : PortOK(n, k, x.interfaces[k]) BY DEF NodeOK
<1>4. arrived \in Seq(InFlight)
  <2>1. PICK N \in Nat : DOMAIN x.interfaces = 1 .. N BY <1>1, <1>2
  <2>2. \A k \in 1 .. N : queues[k] \in Seq(InFlight)
    BY <1>1, <1>3, <2>1 DEF PortOK, IncomingOK
  <2>3. queues = [k \in 1 .. N |-> queues[k]] BY <2>1
  <2> HIDE DEF queues
  <2>4. queues \in Seq(Seq(InFlight)) BY <2>2, <2>3
  <2> QED BY <2>4, FlattenTyped
<1>5. NodeOK(n, drained)
  <2>1. empty = [k \in DOMAIN InterfacesOf[n] |-> empty[k]] BY <1>1
  <2>2. ASSUME NEW k \in DOMAIN InterfacesOf[n] PROVE PortOK(n, k, empty[k])
    <3>1. empty[k] = [x.interfaces[k] EXCEPT !.datagrams_in = <<>>] BY <1>1
    <3> DEFINE i == x.interfaces[k]
    <3>2. PortOK(n, k, i) BY <1>3
    <3> HIDE DEF i
    <3>3. PortOK(n, k, [i EXCEPT !.datagrams_in = <<>>]) BY <3>2, PopsKeepPort
    <3> QED BY <3>1, <3>3 DEF i
  <2> HIDE DEF empty
  <2> QED BY <2>1, <2>2, WithPorts
<1>6. route(x) = after[L] BY DEF route
<1> HIDE DEF drained, arrived
<1>7. L \in Nat BY <1>4
<1>8. 0 \in T
  <2> DEFINE g == [k \in 0 .. 0 |-> drained]
  <2>1. g = [k \in 0 .. 0 |-> IF k = 0 THEN drained ELSE route_one_datagram(g[k - 1], arrived[k])]
    OBVIOUS
  <2> HIDE DEF g
  <2>2. Solves(g, 0) BY <2>1
  <2>3. 0 \in 0 .. L BY <1>7
  <2> QED BY <2>2, <2>3
<1>9. ASSUME NEW m \in T, m < L PROVE m + 1 \in T
  <2>1. PICK g : Solves(g, m) OBVIOUS
  <2>2. m \in Nat /\ m + 1 \in 0 .. L BY <1>7, <1>9
  <2> DEFINE h == [k \in 0 .. m + 1 |-> IF k <= m THEN g[k]
                                        ELSE route_one_datagram(g[m], arrived[k])]
  <2>3. ASSUME NEW k \in 0 .. m + 1
        PROVE  h[k] = IF k = 0 THEN drained ELSE route_one_datagram(h[k - 1], arrived[k])
    <3>1. CASE k = 0 BY <3>1, <2>1, <2>2
    <3>2. CASE k # 0 /\ k <= m
      <4>1. k \in 0 .. m /\ k - 1 \in 0 .. m /\ k - 1 \in 0 .. m + 1 /\ k - 1 <= m BY <3>2, <2>2
      <4>2. g[k] = route_one_datagram(g[k - 1], arrived[k]) BY <4>1, <3>2, <2>1
      <4>3. h[k] = g[k] /\ h[k - 1] = g[k - 1] BY <4>1, <3>2
      <4> QED BY <4>2, <4>3, <3>2
    <3>3. CASE k = m + 1
      <4>1. ~ (k <= m) /\ k # 0 /\ k - 1 = m /\ m \in 0 .. m + 1 /\ m <= m BY <3>3, <2>2
      <4>2. h[k] = route_one_datagram(g[m], arrived[k]) /\ h[m] = g[m] BY <4>1
      <4> QED BY <4>1, <4>2
    <3> QED BY <3>1, <3>2, <3>3, <2>2
  <2>4. h = [k \in 0 .. m + 1 |-> h[k]] OBVIOUS
  <2> HIDE DEF h
  <2>5. Solves(h, m + 1) BY <2>3, <2>4
  <2> QED BY <2>2, <2>5
<1>10. L \in T
  <2> HIDE DEF T, L
  <2>1. T \in SUBSET (0 .. L) BY DEF T
  <2> QED BY <1>7, <1>8, <1>9, <2>1, IntervalInduction
<1>11. Solves(after, L)
  <2>1. \E g : Solves(g, L) BY <1>10
  <2> HIDE DEF Solves
  <2> QED BY <2>1
<1> HIDE DEF after
<1> DEFINE U == {m \in 0 .. L : NodeOK(n, after[m])}
<1>12. 0 \in U
  <2>1. 0 \in 0 .. L /\ after[0] = drained BY <1>7, <1>11
  <2> QED BY <2>1, <1>5
<1>13. ASSUME NEW m \in U, m < L PROVE m + 1 \in U
  <2>1. m \in Nat /\ m + 1 \in 0 .. L /\ m + 1 # 0 /\ m + 1 - 1 = m /\ m + 1 \in 1 .. L
    BY <1>7, <1>13
  <2>2. after[m + 1] = route_one_datagram(after[m], arrived[m + 1]) BY <2>1, <1>11
  <2>3. arrived[m + 1] \in InFlight BY <2>1, <1>4
  <2>4. NodeOK(n, after[m]) OBVIOUS
  <2>5. NodeOK(n, route_one_datagram(after[m], arrived[m + 1]))
    BY <2>3, <2>4, RouteOneKeepsNode
  <2> QED BY <2>1, <2>2, <2>5
<1>14. L \in U
  <2> HIDE DEF U, L
  <2>1. U \in SUBSET (0 .. L) BY DEF U
  <2> QED BY <1>7, <1>12, <1>13, <2>1, IntervalInduction
<1> QED BY <1>6, <1>14
-----------------------------------------------------------------------------
(* Every node is sound, and what a host has received was addressed to it. *)
IInv ==
  /\ node = [n \in Nodes |-> node[n]]
  /\ \A n \in Nodes : NodeOK(n, node[n])
  /\ delivered = [h \in Hosts |-> delivered[h]]
  /\ \A h \in Hosts : IncomingOK(h, 1, delivered[h])

(* A host is a node, and has one interface. *)
LEMMA HostIsNode ==
  ASSUME NEW h \in Hosts
  PROVE  h \in Nodes /\ IsPort(h, 1) /\ DOMAIN InterfacesOf[h] = {1} /\ h \notin Routers
<1>1. Len(InterfacesOf[h]) = 1 /\ h \in Nodes
  BY RoutedNetworkAssumption DEF RoutedNetworkAssumption, Nodes
<1>2. DOMAIN InterfacesOf[h] = 1 .. 1 /\ h \notin Routers
  BY <1>1, InterfacesAreSequence, TopologyAssumption DEF TopologyAssumption
<1> QED BY <1>1, <1>2 DEF IsPort

(* What a step leaves behind at one node is enough. *)
LEMMA OneNode ==
  ASSUME IInv, NEW n \in Nodes, NEW x, NodeOK(n, x), node' = [node EXCEPT ![n] = x]
  PROVE  node' = [m \in Nodes |-> node'[m]] /\ \A m \in Nodes : NodeOK(m, node'[m])
BY DEF IInv

(* A step that changes one interface of a node. *)
LEMMA OnePort ==
  ASSUME IInv, NEW n \in Nodes, NEW k \in DOMAIN InterfacesOf[n], NEW v, PortOK(n, k, v),
         node' = [node EXCEPT ![n].interfaces[k] = v]
  PROVE  node' = [m \in Nodes |-> node'[m]] /\ \A m \in Nodes : NodeOK(m, node'[m])
<1> DEFINE x == [node[n] EXCEPT !.interfaces[k] = v]
<1>1. NodeOK(n, node[n]) BY DEF IInv
<1>2. NodeOK(n, x) BY <1>1, WithPorts
<1>3. node' = [node EXCEPT ![n] = x] OBVIOUS
<1> HIDE DEF x
<1> QED BY <1>2, <1>3, OneNode

(* The parts of a step that only moves frames or datagrams between nodes and interfaces. *)
LEMMA KeepsDelivered ==
  ASSUME IInv, UNCHANGED delivered, node' = [m \in Nodes |-> node'[m]],
         \A m \in Nodes : NodeOK(m, node'[m])
  PROVE  IInv'
BY DEF IInv

LEMMA InitIInv == Init => IInv
<1> SUFFICES ASSUME Init PROVE IInv OBVIOUS
<1>1. /\ node = [n \in Nodes |-> [interfaces |-> InterfacesOf[n], routes |-> RoutesOf[n]]]
      /\ delivered = [h \in Hosts |-> <<>>]
  BY DEF Init
<1>2. ASSUME NEW n \in Nodes, NEW k \in DOMAIN InterfacesOf[n]
      PROVE  PortOK(n, k, InterfacesOf[n][k])
  <2> DEFINE i == InterfacesOf[n][k]
  <2>1. i = [ethernet_address |-> Eth(n, k), ip_address |-> Ip(n, k),
             arp_cache |-> EmptyMap, pending |-> EmptyMap,
             frames_out |-> <<>>, datagrams_in |-> <<>>]
    BY <1>2, TopologyAssumption DEF TopologyAssumption, new_interface, Eth, Ip
  <2> HIDE DEF i
  <2>2. /\ ShapeOK(n, k, i) /\ i.arp_cache = EmptyMap /\ i.pending = EmptyMap
        /\ i.frames_out = <<>> /\ i.datagrams_in = <<>>
    BY <2>1 DEF ShapeOK
  <2>3. DOMAIN EmptyMap = {} BY DEF EmptyMap
  <2>4. CacheOK(LinkOf[n][k], EmptyMap) /\ QueuesOK(LinkOf[n][k], EmptyMap)
    BY <2>3 DEF CacheOK, QueuesOK
  <2>5. IncomingOK(n, k, <<>>) /\ << >> \in Seq(GoodFrames(LinkOf[n][k])) BY DEF IncomingOK
  <2>6. PortOK(n, k, i) BY <2>2, <2>4, <2>5 DEF PortOK
  <2> QED BY <2>6 DEF i
<1>3. ASSUME NEW n \in Nodes PROVE NodeOK(n, node[n])
  <2> DEFINE x == node[n]
  <2>1. x = [interfaces |-> InterfacesOf[n], routes |-> RoutesOf[n]] BY <1>1
  <2> HIDE DEF x
  <2>2. x.interfaces = InterfacesOf[n] /\ x = [interfaces |-> x.interfaces, routes |-> RoutesOf[n]]
    BY <2>1
  <2>3. InterfacesOf[n] = [k \in DOMAIN InterfacesOf[n] |-> InterfacesOf[n][k]]
    BY InterfacesAreSequence
  <2>4. NodeOK(n, x) BY <1>2, <2>2, <2>3 DEF NodeOK
  <2> QED BY <2>4 DEF x
<1>4. ASSUME NEW h \in Hosts PROVE IncomingOK(h, 1, delivered[h])
  BY <1>1 DEF IncomingOK
<1>5. node = [n \in Nodes |-> node[n]] /\ delivered = [h \in Hosts |-> delivered[h]] BY <1>1
<1> QED BY <1>3, <1>4, <1>5 DEF IInv

LEMMA SendStep == ASSUME IInv, NEW d \in Datagrams, Send(d) PROVE IInv'
<1> DEFINE h == Source[d]
           i == node[h].interfaces[1]
           v == send_datagram(i, d, Gateway[h])
<1>1. h \in Hosts /\ d \in InFlight
  BY RoutedNetworkAssumption DEF RoutedNetworkAssumption, InFlight
<1>2. h \in Nodes /\ IsPort(h, 1) /\ 1 \in DOMAIN InterfacesOf[h] BY <1>1, HostIsNode
<1>3. Gateway[h] \in IpAddresses /\ MayWait(LinkOf[h][1], Gateway[h], d)
  BY <1>1, TopologyAssumption DEF TopologyAssumption, MayWait
<1>4. PortOK(h, 1, i) BY <1>2 DEF IInv, NodeOK
<1>5. node' = [node EXCEPT ![h].interfaces[1] = v] /\ UNCHANGED delivered BY DEF Send
<1> HIDE DEF h, i
<1>6. PortOK(h, 1, v) BY <1>1, <1>2, <1>3, <1>4, SendKeepsPort
<1> HIDE DEF v
<1>7. node' = [m \in Nodes |-> node'[m]] /\ \A m \in Nodes : NodeOK(m, node'[m])
  BY <1>2, <1>5, <1>6, OnePort
<1> QED BY <1>5, <1>7, KeepsDelivered

LEMMA AcceptStep == ASSUME IInv, NEW h \in Hosts, Accept(h) PROVE IInv'
<1> DEFINE i == node[h].interfaces[1]
           v == pop_datagram(i)
           old == delivered[h]
           in == i.datagrams_in
           new == Append(old, Head(in))
<1>1. h \in Nodes /\ 1 \in DOMAIN InterfacesOf[h] BY HostIsNode
<1>2. PortOK(h, 1, i) BY <1>1 DEF IInv, NodeOK
<1>3. /\ node' = [node EXCEPT ![h].interfaces[1] = v] /\ in # <<>>
      /\ delivered' = [delivered EXCEPT ![h] = new]
  BY DEF Accept, at
<1>4. in \in Seq(InFlight) /\ \A x \in 1 .. Len(in) : in[x].dst = Ip(h, 1)
  BY <1>2 DEF PortOK, IncomingOK
<1>5. old \in Seq(InFlight) /\ \A x \in 1 .. Len(old) : old[x].dst = Ip(h, 1)
  BY DEF IInv, IncomingOK
<1>6. PortOK(h, 1, v) BY <1>2, <1>3, PopsKeepPort
<1> HIDE DEF i, v, in, old
<1>7. Head(in) \in InFlight /\ Head(in).dst = Ip(h, 1)
  <2>1. 1 \in 1 .. Len(in) /\ Head(in) = in[1] BY <1>3, <1>4
  <2> QED BY <2>1, <1>4
<1>8. IncomingOK(h, 1, new)
  <2> DEFINE d == Head(in)
  <2>1. d \in InFlight /\ d.dst = Ip(h, 1) BY <1>7
  <2> HIDE DEF d
  <2>2. new = Append(old, d) BY DEF d
  <2> HIDE DEF new
  <2>3. new \in Seq(InFlight) BY <1>5, <2>1, <2>2
  <2>4. ASSUME NEW x \in 1 .. Len(new) PROVE new[x].dst = Ip(h, 1)
    <3>1. CASE x <= Len(old)
      <4>1. x \in 1 .. Len(old) /\ new[x] = old[x] BY <3>1, <1>5, <2>1, <2>2
      <4> QED BY <4>1, <1>5
    <3>2. CASE x > Len(old)
      <4>1. new[x] = d BY <3>2, <1>5, <2>1, <2>2
      <4> QED BY <4>1, <2>1
    <3> QED BY <3>1, <3>2, <1>5
  <2> QED BY <2>3, <2>4 DEF IncomingOK
<1> HIDE DEF new
<1>9. node' = [m \in Nodes |-> node'[m]] /\ \A m \in Nodes : NodeOK(m, node'[m])
  BY <1>1, <1>3, <1>6, OnePort
<1>10. /\ delivered' = [g \in Hosts |-> delivered'[g]]
       /\ \A g \in Hosts : IncomingOK(g, 1, delivered'[g])
  BY <1>3, <1>8 DEF IInv
<1> QED BY <1>9, <1>10 DEF IInv

LEMMA ForwardStep == ASSUME IInv, NEW r \in Routers, Forward(r) PROVE IInv'
<1> DEFINE x == route(node[r])
<1>1. node' = [node EXCEPT ![r] = x] /\ UNCHANGED delivered BY DEF Forward
<1>2. r \in Nodes BY DEF Nodes
<1>3. NodeOK(r, node[r]) BY <1>2 DEF IInv
<1>4. NodeOK(r, x) BY <1>3, RouteKeepsNode
<1> HIDE DEF x
<1>5. node' = [m \in Nodes |-> node'[m]] /\ \A m \in Nodes : NodeOK(m, node'[m])
  BY <1>1, <1>2, <1>4, OneNode
<1> QED BY <1>1, <1>5, KeepsDelivered

LEMMA TransmitStep ==
  ASSUME IInv, NEW n \in Nodes, NEW k \in DOMAIN InterfacesOf[n], Transmit(n, k)
  PROVE  IInv'
<1> DEFINE frame == Head(at(n, k).frames_out)
           after(m, j) == IF <<m, j>> = <<n, k>> THEN pop_frame(at(m, j))
                          ELSE IF LinkOf[m][j] = LinkOf[n][k] THEN recv_frame(at(m, j), frame)
                          ELSE at(m, j)
           new(m) == [j \in DOMAIN node[m].interfaces |-> after(m, j)]
<1>1. /\ at(n, k).frames_out # <<>> /\ UNCHANGED delivered
      /\ node' = [m \in Nodes |-> [node[m] EXCEPT !.interfaces = new(m)]]
  BY DEF Transmit
<1>2. \A m \in Nodes : NodeOK(m, node[m]) BY DEF IInv
<1>3. ASSUME NEW m \in Nodes, NEW j \in DOMAIN InterfacesOf[m] PROVE PortOK(m, j, at(m, j))
  BY <1>2, <1>3 DEF NodeOK, at
<1>4. frame \in GoodFrames(LinkOf[n][k])
  <2> DEFINE s == at(n, k).frames_out
             good == GoodFrames(LinkOf[n][k])
  <2>1. s \in Seq(good) BY <1>3 DEF PortOK
  <2>2. s # <<>> BY <1>1
  <2> HIDE DEF s, good
  <2>3. Head(s) \in good BY <2>1, <2>2
  <2> QED BY <2>3 DEF s, good
<1> HIDE DEF frame
<1>5. ASSUME NEW m \in Nodes, NEW j \in DOMAIN InterfacesOf[m] PROVE PortOK(m, j, after(m, j))
  <2> DEFINE i == at(m, j)
  <2>1. PortOK(m, j, i) /\ IsPort(m, j) BY <1>3, <1>5 DEF IsPort
  <2>2. CASE <<m, j>> = <<n, k>>
    <3>1. m = n /\ j = k BY <2>2
    <3>2. i.frames_out # <<>> BY <1>1, <3>1
    <3> HIDE DEF i
    <3>3. PortOK(m, j, pop_frame(i)) BY <2>1, <3>2, PopsKeepPort
    <3> QED BY <2>2, <3>3 DEF i
  <2>3. CASE <<m, j>> # <<n, k>> /\ LinkOf[m][j] = LinkOf[n][k]
    <3>1. frame \in GoodFrames(LinkOf[m][j]) BY <1>4, <2>3
    <3>2. m \in Hosts => j = 1 BY <1>5, HostIsNode
    <3> HIDE DEF i
    <3>3. PortOK(m, j, recv_frame(i, frame)) BY <2>1, <3>1, <3>2, RecvKeepsPort
    <3> QED BY <2>3, <3>3 DEF i
  <2>4. CASE <<m, j>> # <<n, k>> /\ LinkOf[m][j] # LinkOf[n][k] BY <2>1, <2>4
  <2> QED BY <2>2, <2>3, <2>4
<1> HIDE DEF after
<1>6. ASSUME NEW m \in Nodes PROVE NodeOK(m, [node[m] EXCEPT !.interfaces = new(m)])
  <2> DEFINE x == node[m]
             p == new(m)
  <2>1. NodeOK(m, x) BY <1>2
  <2>2. DOMAIN x.interfaces = DOMAIN InterfacesOf[m] BY <2>1 DEF NodeOK
  <2>3. /\ p = [j \in DOMAIN InterfacesOf[m] |-> p[j]]
        /\ \A j \in DOMAIN InterfacesOf[m] : p[j] = after(m, j)
    BY <2>2
  <2>4. \A j \in DOMAIN InterfacesOf[m] : PortOK(m, j, p[j]) BY <2>3, <1>5, <1>6
  <2> HIDE DEF x, p
  <2>5. NodeOK(m, [x EXCEPT !.interfaces = p]) BY <2>1, <2>3, <2>4, WithPorts
  <2> QED BY <2>5 DEF x, p
<1> HIDE DEF new
<1>7. /\ node' = [m \in Nodes |-> node'[m]]
      /\ \A m \in Nodes : node'[m] = [node[m] EXCEPT !.interfaces = new(m)]
  BY <1>1
<1>8. \A m \in Nodes : NodeOK(m, node'[m]) BY <1>6, <1>7
<1> QED BY <1>1, <1>7, <1>8, KeepsDelivered

LEMMA LoseStep ==
  ASSUME IInv, NEW n \in Nodes, NEW k \in DOMAIN InterfacesOf[n], Lose(n, k)
  PROVE  IInv'
<1> DEFINE i == node[n].interfaces[k]
           v == pop_frame(i)
<1>1. PortOK(n, k, i) BY DEF IInv, NodeOK
<1>2. /\ i.frames_out # <<>> /\ UNCHANGED delivered
      /\ node' = [node EXCEPT ![n].interfaces[k] = v]
  BY DEF Lose, at
<1> HIDE DEF i
<1>3. PortOK(n, k, v) BY <1>1, <1>2, PopsKeepPort
<1> HIDE DEF v
<1>4. node' = [m \in Nodes |-> node'[m]] /\ \A m \in Nodes : NodeOK(m, node'[m])
  BY <1>2, <1>3, OnePort
<1> QED BY <1>2, <1>4, KeepsDelivered

LEMMA TickStep == ASSUME IInv, NEW n \in Nodes, Tick(n) PROVE IInv'
<1> DEFINE ports == node[n].interfaces
           p == [j \in DOMAIN ports |-> interface_tick(ports[j], 1)]
           x == [node[n] EXCEPT !.interfaces = p]
<1>1. NodeOK(n, node[n]) BY DEF IInv
<1>2. DOMAIN ports = DOMAIN InterfacesOf[n] BY <1>1 DEF NodeOK
<1>3. p = [j \in DOMAIN InterfacesOf[n] |-> p[j]] BY <1>2
<1>4. ASSUME NEW j \in DOMAIN InterfacesOf[n] PROVE PortOK(n, j, p[j])
  <2> DEFINE i == ports[j]
  <2>1. PortOK(n, j, i) BY <1>1 DEF NodeOK
  <2>2. p[j] = interface_tick(i, 1) BY <1>2
  <2> HIDE DEF i, p
  <2> QED BY <2>1, <2>2, TickKeepsPort
<1>5. node' = [node EXCEPT ![n] = x] /\ UNCHANGED delivered BY DEF Tick
<1> HIDE DEF p
<1>6. NodeOK(n, x) BY <1>1, <1>3, <1>4, WithPorts
<1> HIDE DEF x
<1>7. node' = [m \in Nodes |-> node'[m]] /\ \A m \in Nodes : NodeOK(m, node'[m])
  BY <1>5, <1>6, OneNode
<1> QED BY <1>5, <1>7, KeepsDelivered

(***************************************************************************)
(* In every network whose links carry no address twice and whose next hops *)
(* are routers, however many routers, routes and losses there are, a host  *)
(* receives only what is addressed to it: route_one_datagram, the queues   *)
(* of send_datagram, the addresses that recv_arp learns and the filter of  *)
(* recv_frame together never hand it the datagram of another.              *)
(***************************************************************************)
THEOREM ReachesOnlyDestination == Spec => []DeliveredToDestination
<1>1. IInv /\ [Next]_vars => IInv'
  <2> SUFFICES ASSUME IInv, [Next]_vars PROVE IInv' OBVIOUS
  <2>1. ASSUME NEW d \in Datagrams, Send(d) PROVE IInv' BY <2>1, SendStep
  <2>2. ASSUME NEW h \in Hosts, Accept(h) PROVE IInv' BY <2>2, AcceptStep
  <2>3. ASSUME NEW r \in Routers, Forward(r) PROVE IInv' BY <2>3, ForwardStep
  <2>4. ASSUME NEW n \in Nodes, NEW k \in DOMAIN InterfacesOf[n], Transmit(n, k) PROVE IInv'
    BY <2>4, TransmitStep
  <2>5. ASSUME NEW n \in Nodes, NEW k \in DOMAIN InterfacesOf[n], Lose(n, k) PROVE IInv'
    BY <2>5, LoseStep
  <2>6. ASSUME NEW n \in Nodes, Tick(n) PROVE IInv' BY <2>6, TickStep
  <2>7. CASE UNCHANGED vars BY <2>7 DEF IInv, vars
  <2> QED BY <2>1, <2>2, <2>3, <2>4, <2>5, <2>6, <2>7 DEF Next
<1>2. IInv => DeliveredToDestination
  <2> SUFFICES ASSUME IInv, NEW h \in Hosts, NEW k \in DOMAIN delivered[h]
               PROVE  delivered[h][k].dst = InterfacesOf[h][1].ip_address
    BY DEF DeliveredToDestination
  <2> DEFINE in == delivered[h]
  <2>1. in \in Seq(InFlight) /\ \A x \in 1 .. Len(in) : in[x].dst = Ip(h, 1)
    BY DEF IInv, IncomingOK
  <2>2. k \in 1 .. Len(in) BY <2>1
  <2> QED BY <2>1, <2>2 DEF Ip
<1> QED BY <1>1, <1>2, InitIInv, PTL DEF Spec
=============================================================================

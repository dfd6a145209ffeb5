-------------------------- MODULE InterfaceProofs --------------------------
(***************************************************************************)
(* The interface strands no datagram, keeps the distance between its       *)
(* requests and sends datagrams as their next hops have announced          *)
(* themselves, for every set of neighbours, addresses and datagrams and    *)
(* all lifetimes.                                                          *)
(***************************************************************************)
EXTENDS InterfaceSpec, SequenceTheorems, TLAPS

Entries == [ethernet_address : Addresses, age_ms : Nat]
Resolutions == [datagrams : Seq(Datagrams), age_ms : Nat, request_age_ms : Nat]
OutPayloads ==
  Datagrams \cup
  [operation : {"Request", "Reply"}, sender_ethernet_address : {OWN_ETH},
   sender_ip_address : {OWN_IP}, target_ip_address : Neighbours]
OutFrames ==
  [dst : Addresses \cup {BROADCAST}, src : {OWN_ETH}, ethertype : {"IPv4", "ARP"},
   payload : OutPayloads, parses : {TRUE}]

(* A map from neighbours to V. *)
IsMap(m, V) == DOMAIN m \subseteq Neighbours /\ \A ip \in DOMAIN m : m[ip] \in V

IsInterface(i) ==
  i \in [ethernet_address : {OWN_ETH}, ip_address : {OWN_IP},
         arp_cache : {i.arp_cache}, pending : {i.pending},
         frames_out : {i.frames_out}, datagrams_in : {i.datagrams_in}]

(***************************************************************************)
(* In the following, c is the cache, m the queues, a the ages of the last  *)
(* requests and t what the neighbours have told.                           *)
(***************************************************************************)
Typed(c, m, a, t) ==
  /\ IsMap(c, Entries) /\ IsMap(m, Resolutions) /\ IsMap(t, Entries)
  /\ a \in [Neighbours -> Nat]

(***************************************************************************)
(* A request is at least as old as the queue or the mapping that came of   *)
(* it, a queue asks only once, and who is neither waited for nor known has *)
(* not been asked lately.                                                  *)
(***************************************************************************)
AskedLongAgo(c, m, a) ==
  /\ \A ip \in DOMAIN m :
       /\ m[ip].age_ms < PENDING_DATAGRAM_TTL
       /\ m[ip].request_age_ms = m[ip].age_ms
       /\ m[ip].age_ms <= a[ip]
  /\ \A ip \in DOMAIN c : c[ip].age_ms < ARP_CACHE_TTL /\ c[ip].age_ms <= a[ip]
  /\ \A ip \in Neighbours :
       ip \notin DOMAIN m /\ ip \notin DOMAIN c => a[ip] >= ARP_REQUEST_COOLDOWN

(* The cache holds what was announced last; a queue holds what goes to its neighbour. *)
KnownAsTold(c, m, t) ==
  /\ \A ip \in DOMAIN c :
       /\ ip \in DOMAIN t
       /\ t[ip].ethernet_address = c[ip].ethernet_address
       /\ t[ip].age_ms <= c[ip].age_ms
  /\ \A ip \in DOMAIN m : \A k \in 1 .. Len(m[ip].datagrams) : NextHop[m[ip].datagrams[k]] = ip

Consistent(c, m, a, t) == Typed(c, m, a, t) /\ AskedLongAgo(c, m, a) /\ KnownAsTold(c, m, t)

(* Datagram d waits in one of the queues m. *)
Held(d, m) == \E ip \in DOMAIN m : \E k \in 1 .. Len(m[ip].datagrams) : m[ip].datagrams[k] = d

(***************************************************************************)
(* The queue of a neighbour holds its datagrams oldest first, each once;   *)
(* the first started the queue's clock and the request, and the neighbour  *)
(* is not known.  Here w are the times the datagrams have waited.          *)
(***************************************************************************)
InOrder(c, m, a, w) ==
  \A ip \in DOMAIN m :
    LET q == m[ip].datagrams IN
    /\ q # <<>> /\ ip \notin DOMAIN c /\ a[ip] = m[ip].age_ms
    /\ \A k \in 1 .. Len(q) : w[q[k]] <= m[ip].age_ms
    /\ \A j, k \in 1 .. Len(q) : j < k => q[j] # q[k] /\ w[q[j]] >= w[q[k]]

(* A mapping is as old as the announcement; what is not in the cache was told long ago. *)
Forgets(c, t) ==
  \A ip \in DOMAIN t : IF ip \in DOMAIN c THEN t[ip].age_ms = c[ip].age_ms
                       ELSE t[ip].age_ms >= ARP_CACHE_TTL

Fates == {"new", "waiting", "sent", "dropped"}

(* The fates f and the waiting times w fit the queues. *)
Waits(c, m, a, t, f, w) ==
  /\ f \in [Datagrams -> Fates] /\ w \in [Datagrams -> Nat]
  /\ \A d \in Datagrams : f[d] = "waiting" <=> Held(d, m)
  /\ \A d \in Datagrams : f[d] = "new" => w[d] = 0
  /\ InOrder(c, m, a, w) /\ Forgets(c, t)

IInv ==
  /\ IsInterface(iface)
  /\ iface.frames_out \in Seq(OutFrames)
  /\ iface.datagrams_in \in Seq(Datagrams \cup {INCOMING})
  /\ Consistent(iface.arp_cache, iface.pending, asked, told)
  /\ Waits(iface.arp_cache, iface.pending, asked, told, fate, waited)
-----------------------------------------------------------------------------
(* What Append adds to a sequence, as FramesAdded sees it. *)
LEMMA AppendAdds ==
  ASSUME NEW S, NEW s \in Seq(S), NEW e \in S
  PROVE  /\ Append(s, e) \in Seq(S)
         /\ \A k \in Len(s) + 1 .. Len(Append(s, e)) : Append(s, e)[k] = e
  OBVIOUS

(* What concatenation adds to a sequence: the elements of the second. *)
LEMMA ConcatAdds ==
  ASSUME NEW S, NEW s \in Seq(S), NEW t \in Seq(S)
  PROVE  /\ s \o t \in Seq(S)
         /\ \A k \in Len(s) + 1 .. Len(s \o t) :
              k - Len(s) \in 1 .. Len(t) /\ (s \o t)[k] = t[k - Len(s)]
  OBVIOUS

(* What an update of some fields leaves alone. *)
LEMMA WithFrames ==
  ASSUME NEW i, IsInterface(i), NEW f
  PROVE  LET j == [i EXCEPT !.frames_out = f] IN
         /\ IsInterface(j)
         /\ j.arp_cache = i.arp_cache /\ j.pending = i.pending
         /\ j.frames_out = f /\ j.datagrams_in = i.datagrams_in
         /\ j.ethernet_address = OWN_ETH /\ j.ip_address = OWN_IP
  BY DEF IsInterface

(* The same for an update of the queues. *)
LEMMA WithPending ==
  ASSUME NEW i, IsInterface(i), NEW m
  PROVE  LET j == [i EXCEPT !.pending = m] IN
         /\ IsInterface(j)
         /\ j.arp_cache = i.arp_cache /\ j.pending = m
         /\ j.frames_out = i.frames_out /\ j.datagrams_in = i.datagrams_in
         /\ j.ethernet_address = OWN_ETH /\ j.ip_address = OWN_IP
  BY DEF IsInterface

(* The same for an update of the datagrams for the IP layer. *)
LEMMA WithIncoming ==
  ASSUME NEW i, IsInterface(i), NEW n
  PROVE  LET j == [i EXCEPT !.datagrams_in = n] IN
         /\ IsInterface(j)
         /\ j.arp_cache = i.arp_cache /\ j.pending = i.pending
         /\ j.frames_out = i.frames_out /\ j.datagrams_in = n
         /\ j.ethernet_address = OWN_ETH /\ j.ip_address = OWN_IP
  BY DEF IsInterface

(* The frames that release a queue. *)
Release(q, eth) == [k \in 1 .. Len(q) |-> Frame(eth, OWN_ETH, "IPv4", q[k], TRUE)]

(* A released queue becomes as many IPv4 frames, in its order. *)
LEMMA ReleaseFrames ==
  ASSUME NEW q \in Seq(Datagrams), NEW eth \in Addresses
  PROVE  /\ Release(q, eth) \in Seq(OutFrames)
         /\ Len(Release(q, eth)) = Len(q)
         /\ \A k \in 1 .. Len(q) : Release(q, eth)[k] = Frame(eth, OWN_ETH, "IPv4", q[k], TRUE)
<1>1. \A k \in 1 .. Len(q) : Frame(eth, OWN_ETH, "IPv4", q[k], TRUE) \in OutFrames
  BY DEF Frame, OutFrames, OutPayloads
<1>2. Len(q) \in Nat
  OBVIOUS
<1>3. Release(q, eth) \in [1 .. Len(q) -> OutFrames]
  BY <1>1 DEF Release
<1>4. Release(q, eth) \in Seq(OutFrames)
  BY <1>2, <1>3, SeqDef
<1>5. Len(Release(q, eth)) = Len(q)
  <2>1. /\ Len(Release(q, eth)) \in Nat
        /\ DOMAIN Release(q, eth) = 1 .. Len(Release(q, eth))
    BY <1>4, LenProperties
  <2>2. 1 .. Len(Release(q, eth)) = 1 .. Len(q)
    BY <2>1, <1>3
  <2> QED
    BY <2>1, <2>2, <1>2
<1>6. \A k \in 1 .. Len(q) : Release(q, eth)[k] = Frame(eth, OWN_ETH, "IPv4", q[k], TRUE)
  BY DEF Release
<1> QED
  BY <1>4, <1>5, <1>6

(* What the two action properties ask of a step. *)
KeepsDistance ==
  \A ip \in Neighbours :
    (\E f \in FramesAdded : AsksFor(f, ip)) => asked[ip] >= ARP_REQUEST_COOLDOWN

SendsAsTold ==
  \A f \in FramesAdded : f.ethertype = "IPv4" =>
    LET ip == NextHop[f.payload] IN
    /\ ip \in DOMAIN told'
    /\ f.dst = told'[ip].ethernet_address
    /\ told'[ip].age_ms < ARP_CACHE_TTL

(* A step that adds no frame has nothing to show and does not touch `asked'. *)
LEMMA QuietStep ==
  ASSUME IInv, iface'.frames_out = iface.frames_out
  PROVE  /\ FramesAdded = {} /\ KeepsDistance /\ SendsAsTold
         /\ Record => asked' = asked
<1>1. Len(iface.frames_out) \in Nat
  BY DEF IInv
<1>2. FramesAdded = {}
  BY <1>1 DEF FramesAdded
<1>3. Record => asked' = asked
  BY <1>2 DEF Record, IInv, Consistent, Typed
<1> QED
  BY <1>2, <1>3 DEF KeepsDistance, SendsAsTold
-----------------------------------------------------------------------------
(* The histories see in the queues what they hold. *)
LEMMA QueuedIsHeld ==
  ASSUME NEW i, NEW d
  PROVE  d \in Queued(i) <=> Held(d, i.pending)
BY DEF Queued, Held

(***************************************************************************)
(* What Record makes of the fates, when a step sends the datagrams S, which*)
(* wait no more, and lets no other go.                                     *)
(***************************************************************************)
LEMMA FatesRecorded ==
  ASSUME IInv, Record, NEW S, NEW m, iface'.pending = m,
         \A d \in Datagrams : (\E f \in FramesAdded : Carries(f, d)) <=> d \in S,
         \A d \in Datagrams : d \in S => ~Held(d, m),
         \A d \in Datagrams : fate[d] = "waiting" /\ d \notin S => Held(d, m)
  PROVE  /\ fate' \in [Datagrams -> Fates] /\ waited' \in [Datagrams -> Nat]
         /\ \A d \in Datagrams : fate'[d] = "waiting" <=> Held(d, m)
         /\ \A d \in Datagrams : fate'[d] = "new" => waited'[d] = 0
         /\ waited' = waited
<1>1. /\ fate \in [Datagrams -> Fates] /\ waited \in [Datagrams -> Nat]
      /\ \A d \in Datagrams : fate[d] = "new" => waited[d] = 0
  BY DEF IInv, Waits
<1>2. fate' = [d \in Datagrams |-> IF \E f \in FramesAdded : Carries(f, d) THEN "sent"
                                   ELSE IF d \in Queued(iface') THEN "waiting" ELSE fate[d]]
  BY DEF Record
<1>3. ASSUME NEW d \in Datagrams
      PROVE  fate'[d] = IF d \in S THEN "sent" ELSE IF Held(d, m) THEN "waiting" ELSE fate[d]
  <2>1. d \in Queued(iface') <=> Held(d, m) BY QueuedIsHeld
  <2> QED BY <2>1, <1>2
<1>4. waited' = waited BY DEF Record
<1>5. ASSUME NEW d \in Datagrams
      PROVE  /\ fate'[d] \in Fates
             /\ fate'[d] = "waiting" <=> Held(d, m)
             /\ fate'[d] = "new" => waited[d] = 0
  <2>1. fate[d] \in Fates BY <1>1
  <2> QED BY <2>1, <1>1, <1>3 DEF Fates
<1>6. fate' \in [Datagrams -> Fates] BY <1>2, <1>5
<1> QED BY <1>1, <1>4, <1>5, <1>6

(* The histories fit the queues after such a step, when the queues are in order. *)
LEMMA WaitsRecorded ==
  ASSUME IInv, Record, NEW S, NEW m, NEW c, iface'.pending = m, iface'.arp_cache = c,
         \A d \in Datagrams : (\E f \in FramesAdded : Carries(f, d)) <=> d \in S,
         \A d \in Datagrams : d \in S => ~Held(d, m),
         \A d \in Datagrams : fate[d] = "waiting" /\ d \notin S => Held(d, m),
         InOrder(c, m, asked', waited), Forgets(c, told')
  PROVE  Waits(iface'.arp_cache, iface'.pending, asked', told', fate', waited')
<1>1. /\ fate' \in [Datagrams -> Fates] /\ waited' \in [Datagrams -> Nat]
      /\ \A d \in Datagrams : fate'[d] = "waiting" <=> Held(d, m)
      /\ \A d \in Datagrams : fate'[d] = "new" => waited'[d] = 0
      /\ waited' = waited
  BY FatesRecorded
<1> QED BY <1>1 DEF Waits

(* Nothing leaves the queues and no datagram goes out. *)
LEMMA SameFates ==
  ASSUME IInv, Record, iface'.arp_cache = iface.arp_cache, iface'.pending = iface.pending,
         asked' = asked, told' = told, \A f \in FramesAdded : f.ethertype # "IPv4"
  PROVE  Waits(iface'.arp_cache, iface'.pending, asked', told', fate', waited')
<1> DEFINE S == {}
           m == iface.pending
<1>1. \A d \in Datagrams : (\E f \in FramesAdded : Carries(f, d)) <=> d \in S BY DEF Carries
<1>2. /\ \A d \in Datagrams : fate[d] = "waiting" /\ d \notin S => Held(d, m)
      /\ \A d \in Datagrams : d \in S => ~Held(d, m)
      /\ iface'.pending = m
  BY DEF IInv, Waits
<1> HIDE DEF S, m
<1>3. /\ fate' \in [Datagrams -> Fates] /\ waited' \in [Datagrams -> Nat]
      /\ \A d \in Datagrams : fate'[d] = "waiting" <=> Held(d, m)
      /\ \A d \in Datagrams : fate'[d] = "new" => waited'[d] = 0
      /\ waited' = waited
  BY <1>1, <1>2, FatesRecorded
<1> QED BY <1>3 DEF IInv, Waits, m

(* A new datagram at the end of its queue: it waits, and has not waited yet. *)
LEMMA OrderGrows ==
  ASSUME NEW c, NEW m, NEW a, NEW t, NEW f, NEW w, Consistent(c, m, a, t),
         Waits(c, m, a, t, f, w), NEW d \in Datagrams, f[d] = "new", NextHop[d] \in DOMAIN m
  PROVE  LET ip == NextHop[d]
             n == map_insert(m, ip, [m[ip] EXCEPT !.datagrams = Append(@, d)]) IN
         /\ InOrder(c, n, a, w)
         /\ \A x \in Datagrams : Held(x, n) <=> Held(x, m) \/ x = d
<1> DEFINE ip == NextHop[d]
           q == m[ip].datagrams
           p == [m[ip] EXCEPT !.datagrams = Append(q, d)]
           n == map_insert(m, ip, p)
           L == Len(q)
<1>1. m[ip] \in Resolutions BY DEF Consistent, Typed, IsMap
<1>2. q \in Seq(Datagrams) /\ m[ip].age_ms \in Nat BY <1>1 DEF Resolutions
<1> DEFINE r == Append(q, d)
<1>3. /\ L \in Nat /\ Len(r) = L + 1 /\ r[L + 1] = d /\ r # <<>>
      /\ \A k \in 1 .. L : r[k] = q[k] /\ q[k] \in Datagrams
  <2> HIDE DEF q
  <2> QED BY <1>2
<1> HIDE DEF r
<1>4. p.datagrams = r /\ p.age_ms = m[ip].age_ms BY <1>1 DEF Resolutions, r
<1> HIDE DEF p
<1>5. DOMAIN n = DOMAIN m /\ n[ip] = p /\ \A x \in DOMAIN m : x # ip => n[x] = m[x]
  BY DEF map_insert
<1> HIDE DEF n
<1>6. ~Held(d, m) /\ w[d] = 0 /\ w \in [Datagrams -> Nat] /\ InOrder(c, m, a, w)
  BY DEF Waits
<1>7. \A k \in 1 .. L : q[k] # d BY <1>6 DEF Held
<1>8. /\ q # <<>> /\ ip \notin DOMAIN c /\ a[ip] = m[ip].age_ms
      /\ \A k \in 1 .. L : w[q[k]] <= m[ip].age_ms
      /\ \A j, k \in 1 .. L : j < k => q[j] # q[k] /\ w[q[j]] >= w[q[k]]
  BY <1>6 DEF InOrder
<1> HIDE DEF q, L
<1>9. ASSUME NEW k \in 1 .. Len(r) PROVE w[r[k]] <= p.age_ms
  <2>1. CASE k \in 1 .. L BY <2>1, <1>3, <1>4, <1>8
  <2>2. CASE k = L + 1 BY <2>2, <1>2, <1>3, <1>4, <1>6
  <2> QED BY <2>1, <2>2, <1>3
<1>10. ASSUME NEW j \in 1 .. Len(r), NEW k \in 1 .. Len(r), j < k
       PROVE  r[j] # r[k] /\ w[r[j]] >= w[r[k]]
  <2>1. j \in 1 .. L BY <1>3, <1>10
  <2>2. CASE k \in 1 .. L BY <2>1, <2>2, <1>3, <1>8, <1>10
  <2>3. CASE k = L + 1
    <3>1. r[k] = d /\ r[j] = q[j] /\ q[j] \in Datagrams /\ q[j] # d BY <2>1, <2>3, <1>3, <1>7
    <3>2. w[q[j]] \in Nat BY <3>1, <1>6
    <3> QED BY <3>1, <3>2, <1>6
  <2> QED BY <2>2, <2>3, <1>3
<1>11. ASSUME NEW x \in DOMAIN n, x # ip
       PROVE  LET z == n[x].datagrams IN
              /\ z # <<>> /\ x \notin DOMAIN c /\ a[x] = n[x].age_ms
              /\ \A k \in 1 .. Len(z) : w[z[k]] <= n[x].age_ms
              /\ \A j, k \in 1 .. Len(z) : j < k => z[j] # z[k] /\ w[z[j]] >= w[z[k]]
  <2>1. x \in DOMAIN m /\ n[x] = m[x] BY <1>5, <1>11
  <2> QED BY <2>1, <1>6 DEF InOrder
<1>12. InOrder(c, n, a, w)
  BY <1>3, <1>4, <1>5, <1>8, <1>9, <1>10, <1>11 DEF InOrder
<1>13. ASSUME NEW x \in Datagrams PROVE Held(x, n) <=> Held(x, m) \/ x = d
  <2>1. ASSUME Held(x, n) PROVE Held(x, m) \/ x = d
    <3>1. PICK y \in DOMAIN n : \E k \in 1 .. Len(n[y].datagrams) : n[y].datagrams[k] = x
      BY <2>1 DEF Held
    <3>2. CASE y = ip
      <4>1. PICK k \in 1 .. Len(r) : r[k] = x BY <3>1, <3>2, <1>4, <1>5
      <4>2. k \in 1 .. L \/ k = L + 1 BY <1>3
      <4>3. CASE k \in 1 .. L
        <5>1. q[k] = x BY <4>1, <4>3, <1>3
        <5> QED BY <5>1, <4>3 DEF Held, q, L
      <4> QED BY <4>1, <4>2, <4>3, <1>3
    <3>3. CASE y # ip BY <3>1, <3>3, <1>5 DEF Held
    <3> QED BY <3>2, <3>3
  <2>2. ASSUME Held(x, m) PROVE Held(x, n)
    <3>1. PICK y \in DOMAIN m : \E k \in 1 .. Len(m[y].datagrams) : m[y].datagrams[k] = x
      BY <2>2 DEF Held
    <3>2. CASE y = ip
      <4>1. PICK k \in 1 .. L : q[k] = x BY <3>1, <3>2 DEF q, L
      <4>2. k \in 1 .. Len(r) /\ r[k] = x BY <4>1, <1>3
      <4> QED BY <4>2, <1>4, <1>5 DEF Held
    <3>3. CASE y # ip BY <3>1, <3>3, <1>5 DEF Held
    <3> QED BY <3>2, <3>3
  <2>3. Held(d, n)
    <3>1. L + 1 \in 1 .. Len(r) BY <1>3
    <3> QED BY <3>1, <1>3, <1>4, <1>5 DEF Held
  <2> QED BY <2>1, <2>2, <2>3
<1> QED BY <1>12, <1>13 DEF n, p, q
-----------------------------------------------------------------------------
(* A datagram joins the queue of its next hop. *)
LEMMA QueueGrows ==
  ASSUME NEW c, NEW m, NEW a, NEW t, Consistent(c, m, a, t),
         NEW d \in Datagrams, NextHop[d] \in DOMAIN m
  PROVE  LET ip == NextHop[d]
             q == [m[ip] EXCEPT !.datagrams = Append(@, d)] IN
         Consistent(c, map_insert(m, ip, q), a, t)
<1> DEFINE ip == NextHop[d]
           q == [m[ip] EXCEPT !.datagrams = Append(@, d)]
           n == map_insert(m, ip, q)
<1>1. m[ip] \in Resolutions /\ ip \in Neighbours
  BY DEF Consistent, Typed, IsMap
<1>2. /\ q \in Resolutions /\ q.age_ms = m[ip].age_ms
      /\ q.request_age_ms = m[ip].request_age_ms
      /\ q.datagrams = Append(m[ip].datagrams, d)
  BY <1>1, SMTT(30) DEF Resolutions
<1>3. DOMAIN n = DOMAIN m /\ n[ip] = q /\ \A x \in DOMAIN m : x # ip => n[x] = m[x]
  BY DEF map_insert
<1>4. Typed(c, n, a, t)
  BY <1>2, <1>3 DEF Consistent, Typed, IsMap
<1>5. AskedLongAgo(c, n, a)
  BY <1>2, <1>3, ZenonT(30) DEF Consistent, AskedLongAgo
<1>6. \A k \in 1 .. Len(q.datagrams) : NextHop[q.datagrams[k]] = ip
  <2>1. m[ip].datagrams \in Seq(Datagrams)
    BY <1>1 DEF Resolutions
  <2>2. \A k \in 1 .. Len(m[ip].datagrams) : NextHop[m[ip].datagrams[k]] = ip
    BY DEF Consistent, KnownAsTold
  <2> QED
    BY <2>1, <2>2, <1>2
<1>7. KnownAsTold(c, n, t)
  BY <1>3, <1>6, ZenonT(30) DEF Consistent, KnownAsTold
<1> QED
  BY <1>4, <1>5, <1>7 DEF Consistent

(* A datagram starts a queue, and its next hop is asked. *)
LEMMA QueueStarts ==
  ASSUME NEW c, NEW m, NEW a, NEW t, Consistent(c, m, a, t),
         NEW d \in Datagrams, NextHop[d] \notin DOMAIN m
  PROVE  LET ip == NextHop[d]
             q == [datagrams |-> <<d>>, age_ms |-> 0, request_age_ms |-> 0] IN
         Consistent(c, map_insert(m, ip, q), [a EXCEPT ![ip] = 0], t) \/ ip \in DOMAIN c
<1> SUFFICES ASSUME NextHop[d] \notin DOMAIN c
             PROVE  LET ip == NextHop[d]
                        q == [datagrams |-> <<d>>, age_ms |-> 0, request_age_ms |-> 0] IN
                    Consistent(c, map_insert(m, ip, q), [a EXCEPT ![ip] = 0], t)
  OBVIOUS
<1> DEFINE ip == NextHop[d]
           q == [datagrams |-> <<d>>, age_ms |-> 0, request_age_ms |-> 0]
           n == map_insert(m, ip, q)
           b == [a EXCEPT ![ip] = 0]
<1>1. ip \in Neighbours
  BY InterfaceSpecAssumption
<1>2. /\ q \in Resolutions /\ q.age_ms = 0 /\ q.request_age_ms = 0
      /\ Len(q.datagrams) = 1 /\ q.datagrams[1] = d
  BY DEF Resolutions
<1>3. /\ DOMAIN n = DOMAIN m \cup {ip} /\ n[ip] = q
      /\ \A x \in DOMAIN m : x # ip /\ n[x] = m[x]
  BY DEF map_insert
<1>4. /\ b \in [Neighbours -> Nat] /\ b[ip] = 0
      /\ \A x \in Neighbours : x # ip => b[x] = a[x]
  BY <1>1 DEF Consistent, Typed
<1> HIDE DEF q, n, b
<1>5. Typed(c, n, b, t)
  BY <1>1, <1>2, <1>3, <1>4 DEF Consistent, Typed, IsMap
<1>6. AskedLongAgo(c, n, b)
  BY <1>1, <1>2, <1>3, <1>4, InterfaceTimesAssumption DEF Consistent, AskedLongAgo, Typed, IsMap
<1>7. KnownAsTold(c, n, t)
  BY <1>2, <1>3 DEF Consistent, KnownAsTold
<1> QED
  BY <1>5, <1>6, <1>7 DEF Consistent, q, n, b

(* A neighbour announces its address. *)
LEMMA MappingLearnt ==
  ASSUME NEW c, NEW m, NEW a, NEW t, Consistent(c, m, a, t),
         NEW ip \in Neighbours, NEW eth \in Addresses
  PROVE  LET e == [ethernet_address |-> eth, age_ms |-> 0] IN
         Consistent(map_insert(c, ip, e), map_remove(m, ip), a, map_insert(t, ip, e))
<1> DEFINE e == [ethernet_address |-> eth, age_ms |-> 0]
           C == map_insert(c, ip, e)
           M == map_remove(m, ip)
           T == map_insert(t, ip, e)
<1>1. e \in Entries /\ e.age_ms = 0
  BY DEF Entries
<1>2. /\ DOMAIN C = DOMAIN c \cup {ip} /\ C[ip] = e
      /\ \A x \in DOMAIN c : x # ip => C[x] = c[x]
  BY DEF map_insert
<1>3. /\ DOMAIN T = DOMAIN t \cup {ip} /\ T[ip] = e
      /\ \A x \in DOMAIN t : x # ip => T[x] = t[x]
  BY DEF map_insert
<1>4. DOMAIN M = DOMAIN m \ {ip} /\ \A x \in DOMAIN M : M[x] = m[x]
  BY DEF map_remove
<1> HIDE DEF e, C, M, T
<1>5. Typed(C, M, a, T)
  BY <1>1, <1>2, <1>3, <1>4 DEF Consistent, Typed, IsMap
<1>6. AskedLongAgo(C, M, a)
  BY <1>1, <1>2, <1>4, InterfaceTimesAssumption DEF Consistent, AskedLongAgo, Typed
<1>7. KnownAsTold(C, M, T)
  BY <1>1, <1>2, <1>3, <1>4 DEF Consistent, KnownAsTold
<1> QED
  BY <1>5, <1>6, <1>7 DEF Consistent, e, C, M, T

(* The histories' clock against the interface's, which saturates elsewhere. *)
LEMMA Clocks ==
  ASSUME NEW x \in Nat, NEW y \in Nat, NEW e \in Nat
  PROVE  /\ Older(y, e) \in Nat /\ saturating_add(x, e, U64_MAX) \in Nat
         /\ saturating_add(x, e, U64_MAX) < ARP_CACHE_TTL =>
              /\ saturating_add(x, e, U64_MAX) = x + e
              /\ x <= y => x + e <= Older(y, e)
              /\ y <= x => Older(y, e) <= x + e
         /\ x <= y /\ ~(saturating_add(x, e, U64_MAX) < ARP_REQUEST_COOLDOWN) =>
              Older(y, e) >= ARP_REQUEST_COOLDOWN
         /\ y >= ARP_REQUEST_COOLDOWN => Older(y, e) >= ARP_REQUEST_COOLDOWN
  BY InterfaceTimesAssumption, U64Assumption DEF Older, saturating_add, min, max

(* Time passes for the interface and for the histories. *)
LEMMA TimePasses ==
  ASSUME NEW c, NEW m, NEW a, NEW t, Consistent(c, m, a, t), NEW e \in Nat
  PROVE  Consistent(expire_arp_cache(c, e), expire_pending(m, e),
                    [ip \in Neighbours |-> Older(a[ip], e)],
                    [ip \in DOMAIN t |-> [t[ip] EXCEPT !.age_ms = Older(@, e)]])
<1> DEFINE sat(x) == saturating_add(x, e, U64_MAX)
           C == expire_arp_cache(c, e)
           M == expire_pending(m, e)
           A == [ip \in Neighbours |-> Older(a[ip], e)]
           T == [ip \in DOMAIN t |-> [t[ip] EXCEPT !.age_ms = Older(@, e)]]
<1>1. /\ DOMAIN c \subseteq Neighbours /\ DOMAIN m \subseteq Neighbours
      /\ DOMAIN t \subseteq Neighbours
      /\ \A ip \in DOMAIN c : c[ip] \in Entries
      /\ \A ip \in DOMAIN t : t[ip] \in Entries
      /\ \A ip \in DOMAIN m : m[ip] \in Resolutions
      /\ \A ip \in Neighbours : a[ip] \in Nat
  BY DEF Consistent, Typed, IsMap
<1>2. /\ DOMAIN C = {ip \in DOMAIN c : sat(c[ip].age_ms) < ARP_CACHE_TTL}
      /\ \A ip \in DOMAIN C :
           /\ C[ip] \in Entries /\ C[ip].age_ms = sat(c[ip].age_ms)
           /\ C[ip].ethernet_address = c[ip].ethernet_address
  BY <1>1, Clocks DEF expire_arp_cache, Entries
<1>3. /\ DOMAIN M = {ip \in DOMAIN m : sat(m[ip].age_ms) < PENDING_DATAGRAM_TTL}
      /\ \A ip \in DOMAIN M :
           /\ M[ip] \in Resolutions /\ M[ip].datagrams = m[ip].datagrams
           /\ M[ip].age_ms = sat(m[ip].age_ms)
           /\ M[ip].request_age_ms = sat(m[ip].request_age_ms)
  BY <1>1, Clocks DEF expire_pending, Resolutions
<1>4. /\ DOMAIN T = DOMAIN t
      /\ \A ip \in DOMAIN t :
           /\ T[ip] \in Entries /\ T[ip].age_ms = Older(t[ip].age_ms, e)
           /\ T[ip].ethernet_address = t[ip].ethernet_address
  BY <1>1, Clocks DEF Entries
<1>5. A \in [Neighbours -> Nat] /\ \A ip \in Neighbours : A[ip] = Older(a[ip], e)
  BY <1>1, Clocks
<1>6. /\ \A ip \in DOMAIN c : c[ip].age_ms \in Nat
      /\ \A ip \in DOMAIN t : t[ip].age_ms \in Nat
      /\ \A ip \in DOMAIN m : m[ip].age_ms \in Nat
  BY <1>1 DEF Entries, Resolutions
<1> HIDE DEF C, M, A, T
<1>7. Typed(C, M, A, T)
  BY <1>1, <1>2, <1>3, <1>4, <1>5 DEF Typed, IsMap
<1>8. AskedLongAgo(C, M, A)
  <2>1. ASSUME NEW ip \in DOMAIN M
        PROVE  /\ M[ip].age_ms < PENDING_DATAGRAM_TTL /\ M[ip].age_ms <= A[ip]
               /\ M[ip].request_age_ms = M[ip].age_ms
    <3>1. /\ ip \in DOMAIN m /\ m[ip].request_age_ms = m[ip].age_ms /\ m[ip].age_ms <= a[ip]
      BY <1>3 DEF Consistent, AskedLongAgo
    <3>2. sat(m[ip].age_ms) < PENDING_DATAGRAM_TTL /\ sat(m[ip].age_ms) \in Nat
      BY <1>3, <1>6, <3>1, Clocks
    <3>3. sat(m[ip].age_ms) < ARP_CACHE_TTL
      BY <3>2, InterfaceTimesAssumption
    <3>4. sat(m[ip].age_ms) <= Older(a[ip], e)
      <4> DEFINE x == m[ip].age_ms
                 y == a[ip]
      <4>1. x \in Nat /\ y \in Nat /\ x <= y /\ sat(x) < ARP_CACHE_TTL
        BY <3>1, <3>3, <1>1, <1>6
      <4> HIDE DEF x, y
      <4>2. sat(x) <= Older(y, e)
        BY <4>1, Clocks
      <4> QED
        BY <4>2 DEF x, y
    <3> QED
      BY <3>1, <3>2, <3>4, <1>1, <1>3, <1>5
  <2>2. ASSUME NEW ip \in DOMAIN C
        PROVE  C[ip].age_ms < ARP_CACHE_TTL /\ C[ip].age_ms <= A[ip]
    <3>1. ip \in DOMAIN c /\ c[ip].age_ms <= a[ip]
      BY <1>2 DEF Consistent, AskedLongAgo
    <3>2. sat(c[ip].age_ms) <= Older(a[ip], e)
      <4> DEFINE x == c[ip].age_ms
                 y == a[ip]
      <4>1. x \in Nat /\ y \in Nat /\ x <= y /\ sat(x) < ARP_CACHE_TTL
        BY <3>1, <1>1, <1>2, <1>6
      <4> HIDE DEF x, y
      <4>2. sat(x) <= Older(y, e)
        BY <4>1, Clocks
      <4> QED
        BY <4>2 DEF x, y
    <3> QED
      BY <3>1, <3>2, <1>1, <1>2, <1>5
  <2>3. ASSUME NEW ip \in Neighbours, ip \notin DOMAIN M, ip \notin DOMAIN C
        PROVE  A[ip] >= ARP_REQUEST_COOLDOWN
    <3>1. CASE ip \in DOMAIN m
      <4>1. m[ip].age_ms <= a[ip]
        BY <3>1 DEF Consistent, AskedLongAgo
      <4>2. ~(sat(m[ip].age_ms) < ARP_REQUEST_COOLDOWN)
        BY <3>1, <2>3, <1>3, InterfaceTimesAssumption
      <4> DEFINE x == m[ip].age_ms
                 y == a[ip]
      <4>4. x \in Nat /\ y \in Nat /\ x <= y /\ ~(sat(x) < ARP_REQUEST_COOLDOWN)
        BY <3>1, <4>1, <4>2, <1>1, <1>6
      <4> HIDE DEF x
      <4>5. Older(y, e) >= ARP_REQUEST_COOLDOWN
        BY <4>4, Clocks
      <4> QED
        BY <4>5, <1>5
    <3>2. CASE ip \in DOMAIN c
      <4>1. c[ip].age_ms <= a[ip]
        BY <3>2 DEF Consistent, AskedLongAgo
      <4>2. ~(sat(c[ip].age_ms) < ARP_CACHE_TTL) /\ sat(c[ip].age_ms) \in Nat
        BY <3>2, <2>3, <1>2, <1>6, Clocks
      <4>3. ~(sat(c[ip].age_ms) < ARP_REQUEST_COOLDOWN)
        BY <4>2, InterfaceTimesAssumption
      <4> DEFINE x == c[ip].age_ms
                 y == a[ip]
      <4>4. x \in Nat /\ y \in Nat /\ x <= y /\ ~(sat(x) < ARP_REQUEST_COOLDOWN)
        BY <3>2, <4>1, <4>3, <1>1, <1>6
      <4> HIDE DEF x
      <4>5. Older(y, e) >= ARP_REQUEST_COOLDOWN
        BY <4>4, Clocks
      <4> QED
        BY <4>5, <1>5
    <3>3. CASE ip \notin DOMAIN m /\ ip \notin DOMAIN c
      <4> DEFINE y == a[ip]
      <4>1. y >= ARP_REQUEST_COOLDOWN /\ y \in Nat
        BY <3>3, <1>1 DEF Consistent, AskedLongAgo
      <4> HIDE DEF y
      <4>2. Older(y, e) >= ARP_REQUEST_COOLDOWN
        BY <4>1, Clocks
      <4> QED
        BY <4>2, <1>5 DEF y
    <3> QED
      BY <3>1, <3>2, <3>3
  <2> QED
    BY <2>1, <2>2, <2>3 DEF AskedLongAgo
<1>9. KnownAsTold(C, M, T)
  <2>1. ASSUME NEW ip \in DOMAIN C
        PROVE  /\ ip \in DOMAIN T /\ T[ip].ethernet_address = C[ip].ethernet_address
               /\ T[ip].age_ms <= C[ip].age_ms
    <3>1. /\ ip \in DOMAIN c /\ ip \in DOMAIN t /\ t[ip].age_ms <= c[ip].age_ms
          /\ t[ip].ethernet_address = c[ip].ethernet_address
      BY <1>2 DEF Consistent, KnownAsTold
    <3>2. Older(t[ip].age_ms, e) <= sat(c[ip].age_ms)
      <4> DEFINE x == c[ip].age_ms
                 y == t[ip].age_ms
      <4>1. x \in Nat /\ y \in Nat /\ y <= x /\ sat(x) < ARP_CACHE_TTL
        BY <3>1, <1>2, <1>6
      <4> HIDE DEF x, y
      <4>2. Older(y, e) <= sat(x)
        BY <4>1, Clocks
      <4> QED
        BY <4>2 DEF x, y
    <3> QED
      BY <3>1, <3>2, <1>2, <1>4
  <2>2. \A ip \in DOMAIN M : \A k \in 1 .. Len(M[ip].datagrams) : NextHop[M[ip].datagrams[k]] = ip
    BY <1>3 DEF Consistent, KnownAsTold
  <2> QED
    BY <2>1, <2>2 DEF KnownAsTold
<1> QED
  BY <1>7, <1>8, <1>9 DEF Consistent, C, M, A, T

(* A new datagram alone in a queue, for a neighbour that has just been asked. *)
LEMMA OrderStarts ==
  ASSUME NEW c, NEW m, NEW a, NEW t, NEW f, NEW w, Consistent(c, m, a, t),
         Waits(c, m, a, t, f, w), NEW d \in Datagrams, f[d] = "new",
         NextHop[d] \notin DOMAIN m, NextHop[d] \notin DOMAIN c
  PROVE  LET ip == NextHop[d]
             n == map_insert(m, ip, [datagrams |-> <<d>>, age_ms |-> 0, request_age_ms |-> 0]) IN
         /\ InOrder(c, n, [a EXCEPT ![ip] = 0], w)
         /\ \A x \in Datagrams : Held(x, n) <=> Held(x, m) \/ x = d
<1> DEFINE ip == NextHop[d]
           p == [datagrams |-> <<d>>, age_ms |-> 0, request_age_ms |-> 0]
           n == map_insert(m, ip, p)
           b == [a EXCEPT ![ip] = 0]
<1>1. ip \in Neighbours BY InterfaceSpecAssumption
<1>2. p.age_ms = 0 /\ Len(p.datagrams) = 1 /\ p.datagrams[1] = d /\ p.datagrams # <<>>
  OBVIOUS
<1> HIDE DEF p
<1>3. /\ DOMAIN n = DOMAIN m \cup {ip} /\ n[ip] = p
      /\ \A x \in DOMAIN m : x # ip /\ n[x] = m[x]
  BY DEF map_insert
<1>4. b[ip] = 0 /\ \A x \in Neighbours : x # ip => b[x] = a[x]
  BY <1>1 DEF Consistent, Typed
<1> HIDE DEF n, b
<1>5. w[d] = 0 /\ InOrder(c, m, a, w) BY DEF Waits
<1>6. DOMAIN m \subseteq Neighbours BY DEF Consistent, Typed, IsMap
<1>7. InOrder(c, n, b, w)
  <2> SUFFICES ASSUME NEW x \in DOMAIN n
               PROVE  LET z == n[x].datagrams IN
                      /\ z # <<>> /\ x \notin DOMAIN c /\ b[x] = n[x].age_ms
                      /\ \A k \in 1 .. Len(z) : w[z[k]] <= n[x].age_ms
                      /\ \A j, k \in 1 .. Len(z) : j < k => z[j] # z[k] /\ w[z[j]] >= w[z[k]]
    BY DEF InOrder
  <2>1. CASE x = ip
    <3> DEFINE z == p.datagrams
    <3>1. n[x].datagrams = z /\ n[x].age_ms = 0 /\ b[x] = 0 BY <2>1, <1>2, <1>3, <1>4
    <3>2. \A k \in 1 .. Len(z) : k = 1 /\ z[k] = d BY <1>2
    <3>3. \A k \in 1 .. Len(z) : w[z[k]] <= 0 BY <3>2, <1>5
    <3>4. \A j, k \in 1 .. Len(z) : ~(j < k) BY <3>2
    <3>5. z # <<>> /\ x \notin DOMAIN c BY <2>1, <1>2
    <3> HIDE DEF z
    <3> QED BY <3>1, <3>3, <3>4, <3>5
  <2>2. CASE x # ip
    <3>1. x \in DOMAIN m /\ n[x] = m[x] /\ b[x] = a[x] BY <2>2, <1>3, <1>4, <1>6
    <3> QED BY <3>1, <1>5 DEF InOrder
  <2> QED BY <2>1, <2>2
<1>8. ASSUME NEW x \in Datagrams PROVE Held(x, n) <=> Held(x, m) \/ x = d
  <2>1. \A k \in 1 .. Len(p.datagrams) : p.datagrams[k] = d BY <1>2
  <2>2. 1 \in 1 .. Len(p.datagrams) BY <1>2
  <2> QED BY <2>1, <2>2, <1>2, <1>3 DEF Held
<1> QED BY <1>7, <1>8 DEF n, b, p

(* An announcement ends one queue, whose datagrams wait nowhere else. *)
LEMMA OrderLearns ==
  ASSUME NEW c, NEW m, NEW a, NEW t, NEW f, NEW w, Consistent(c, m, a, t),
         Waits(c, m, a, t, f, w), NEW ip \in Neighbours, NEW eth \in Addresses
  PROVE  LET e == [ethernet_address |-> eth, age_ms |-> 0] IN
         /\ InOrder(map_insert(c, ip, e), map_remove(m, ip), a, w)
         /\ Forgets(map_insert(c, ip, e), map_insert(t, ip, e))
         /\ \A x \in Datagrams : Held(x, map_remove(m, ip)) <=> Held(x, m) /\ NextHop[x] # ip
<1> DEFINE e == [ethernet_address |-> eth, age_ms |-> 0]
           C == map_insert(c, ip, e)
           M == map_remove(m, ip)
           T == map_insert(t, ip, e)
<1>1. /\ DOMAIN C = DOMAIN c \cup {ip} /\ C[ip] = e
      /\ \A x \in DOMAIN c : x # ip => C[x] = c[x]
  BY DEF map_insert
<1>2. /\ DOMAIN T = DOMAIN t \cup {ip} /\ T[ip] = e
      /\ \A x \in DOMAIN t : x # ip => T[x] = t[x]
  BY DEF map_insert
<1>3. DOMAIN M = DOMAIN m \ {ip} /\ \A x \in DOMAIN M : M[x] = m[x]
  BY DEF map_remove
<1> HIDE DEF e, C, M, T
<1>4. InOrder(c, m, a, w) /\ Forgets(c, t) BY DEF Waits
<1>5. InOrder(C, M, a, w)
  <2> SUFFICES ASSUME NEW x \in DOMAIN M
               PROVE  LET z == M[x].datagrams IN
                      /\ z # <<>> /\ x \notin DOMAIN C /\ a[x] = M[x].age_ms
                      /\ \A k \in 1 .. Len(z) : w[z[k]] <= M[x].age_ms
                      /\ \A j, k \in 1 .. Len(z) : j < k => z[j] # z[k] /\ w[z[j]] >= w[z[k]]
    BY DEF InOrder
  <2>1. x \in DOMAIN m /\ x # ip /\ M[x] = m[x] BY <1>3
  <2>2. x \notin DOMAIN c BY <2>1, <1>4 DEF InOrder
  <2> QED BY <2>1, <2>2, <1>1, <1>4 DEF InOrder
<1>6. Forgets(C, T) BY <1>1, <1>2, <1>4 DEF Forgets
<1>7. \A y \in DOMAIN m : \A k \in 1 .. Len(m[y].datagrams) : NextHop[m[y].datagrams[k]] = y
  BY DEF Consistent, KnownAsTold
<1>8. ASSUME NEW x \in Datagrams PROVE Held(x, M) <=> Held(x, m) /\ NextHop[x] # ip
  BY <1>3, <1>7 DEF Held
<1> QED BY <1>5, <1>6, <1>8 DEF C, M, T, e

(* Time passes for the queues and for those who wait in them alike. *)
LEMMA OrderAges ==
  ASSUME NEW c, NEW m, NEW a, NEW t, NEW f, NEW w, Consistent(c, m, a, t),
         Waits(c, m, a, t, f, w), NEW e \in Nat
  PROVE  LET C == expire_arp_cache(c, e)
             M == expire_pending(m, e)
             A == [ip \in Neighbours |-> Older(a[ip], e)]
             T == [ip \in DOMAIN t |-> [t[ip] EXCEPT !.age_ms = Older(@, e)]]
             F == [d \in Datagrams |-> IF f[d] = "waiting" /\ ~Held(d, M) THEN "dropped" ELSE f[d]]
             W == [d \in Datagrams |-> IF f[d] = "waiting" THEN Older(w[d], e) ELSE w[d]] IN
         Waits(C, M, A, T, F, W)
<1> DEFINE sat(x) == saturating_add(x, e, U64_MAX)
           C == expire_arp_cache(c, e)
           M == expire_pending(m, e)
           A == [ip \in Neighbours |-> Older(a[ip], e)]
           T == [ip \in DOMAIN t |-> [t[ip] EXCEPT !.age_ms = Older(@, e)]]
           F == [d \in Datagrams |-> IF f[d] = "waiting" /\ ~Held(d, M) THEN "dropped" ELSE f[d]]
           W == [d \in Datagrams |-> IF f[d] = "waiting" THEN Older(w[d], e) ELSE w[d]]
<1>1. /\ DOMAIN c \subseteq Neighbours /\ DOMAIN m \subseteq Neighbours
      /\ DOMAIN t \subseteq Neighbours
      /\ \A ip \in DOMAIN c : c[ip] \in Entries
      /\ \A ip \in DOMAIN t : t[ip] \in Entries
      /\ \A ip \in DOMAIN m : m[ip] \in Resolutions
      /\ \A ip \in Neighbours : a[ip] \in Nat
  BY DEF Consistent, Typed, IsMap
<1>2. /\ DOMAIN C = {ip \in DOMAIN c : sat(c[ip].age_ms) < ARP_CACHE_TTL}
      /\ \A ip \in DOMAIN C : C[ip].age_ms = sat(c[ip].age_ms)
  BY <1>1, Clocks DEF expire_arp_cache, Entries
<1>3. /\ DOMAIN M = {ip \in DOMAIN m : sat(m[ip].age_ms) < PENDING_DATAGRAM_TTL}
      /\ \A ip \in DOMAIN M : /\ M[ip].datagrams = m[ip].datagrams
                              /\ M[ip].age_ms = sat(m[ip].age_ms)
  BY <1>1, Clocks DEF expire_pending, Resolutions
<1>4. /\ DOMAIN T = DOMAIN t
      /\ \A ip \in DOMAIN t : T[ip].age_ms = Older(t[ip].age_ms, e)
  BY <1>1, Clocks DEF Entries
<1>5. \A ip \in Neighbours : A[ip] = Older(a[ip], e) OBVIOUS
<1>6. /\ \A ip \in DOMAIN c : c[ip].age_ms \in Nat
      /\ \A ip \in DOMAIN t : t[ip].age_ms \in Nat
      /\ \A ip \in DOMAIN m : m[ip].age_ms \in Nat /\ m[ip].datagrams \in Seq(Datagrams)
  BY <1>1 DEF Entries, Resolutions
<1>7. /\ f \in [Datagrams -> Fates] /\ w \in [Datagrams -> Nat]
      /\ \A d \in Datagrams : f[d] = "waiting" <=> Held(d, m)
      /\ \A d \in Datagrams : f[d] = "new" => w[d] = 0
      /\ InOrder(c, m, a, w) /\ Forgets(c, t)
  BY DEF Waits
<1> HIDE DEF C, M, A, T
<1>8. F \in [Datagrams -> Fates] /\ W \in [Datagrams -> Nat]
  <2>1. \A d \in Datagrams : Older(w[d], e) \in Nat /\ w[d] \in Nat BY <1>7, Clocks
  <2>2. \A d \in Datagrams : f[d] \in Fates /\ "dropped" \in Fates BY <1>7 DEF Fates
  <2> QED BY <2>1, <2>2
<1>9. \A d \in Datagrams : Held(d, M) => Held(d, m) BY <1>3 DEF Held
<1>10. \A d \in Datagrams : F[d] = "waiting" <=> Held(d, M) BY <1>7, <1>9
<1>11. \A d \in Datagrams : F[d] = "new" => W[d] = 0 BY <1>7
<1>12. InOrder(C, M, A, W)
  <2> SUFFICES ASSUME NEW x \in DOMAIN M
               PROVE  LET z == M[x].datagrams IN
                      /\ z # <<>> /\ x \notin DOMAIN C /\ A[x] = M[x].age_ms
                      /\ \A k \in 1 .. Len(z) : W[z[k]] <= M[x].age_ms
                      /\ \A j, k \in 1 .. Len(z) : j < k => z[j] # z[k] /\ W[z[j]] >= W[z[k]]
    BY DEF InOrder
  <2> DEFINE z == m[x].datagrams
             g == m[x].age_ms
  <2>1. /\ x \in DOMAIN m /\ x \in Neighbours /\ M[x].datagrams = z /\ M[x].age_ms = sat(g)
        /\ g \in Nat /\ z \in Seq(Datagrams) /\ sat(g) < PENDING_DATAGRAM_TTL
    BY <1>1, <1>3, <1>6
  <2>2. /\ z # <<>> /\ x \notin DOMAIN c /\ a[x] = g
        /\ \A k \in 1 .. Len(z) : w[z[k]] <= g
        /\ \A j, k \in 1 .. Len(z) : j < k => z[j] # z[k] /\ w[z[j]] >= w[z[k]]
    BY <2>1, <1>7 DEF InOrder
  <2>3. \A k \in 1 .. Len(z) : z[k] \in Datagrams /\ Held(z[k], m) BY <2>1 DEF Held
  <2> HIDE DEF z, g
  <2>4. \A k \in 1 .. Len(z) : w[z[k]] \in Nat /\ W[z[k]] = Older(w[z[k]], e)
    BY <2>3, <1>7
  <2>5. sat(g) = g + e /\ g + e < ARP_CACHE_TTL /\ g + e \in Nat
    <3>1. sat(g) \in Nat BY <2>1, Clocks
    <3>2. sat(g) < ARP_CACHE_TTL BY <3>1, <2>1, InterfaceTimesAssumption
    <3> QED BY <3>1, <3>2, <2>1, Clocks
  <2>6. ASSUME NEW y \in Nat, y <= g PROVE Older(y, e) = y + e
    BY <2>1, <2>5, <2>6, InterfaceTimesAssumption DEF Older, saturating_add, min, max
  <2>7. A[x] = sat(g) BY <2>1, <2>2, <2>5, <2>6, <1>5
  <2>8. x \notin DOMAIN C BY <2>2, <1>2
  <2>9. ASSUME NEW k \in 1 .. Len(z) PROVE W[z[k]] = w[z[k]] + e /\ W[z[k]] <= sat(g)
    <3> DEFINE y == w[z[k]]
    <3>1. y \in Nat /\ y <= g /\ W[z[k]] = Older(y, e) BY <2>2, <2>4
    <3> HIDE DEF y
    <3>2. W[z[k]] = y + e BY <3>1, <2>6
    <3>3. y + e <= g + e BY <3>1, <2>1
    <3> QED BY <3>2, <3>3, <2>5 DEF y
  <2>10. ASSUME NEW j \in 1 .. Len(z), NEW k \in 1 .. Len(z), j < k
         PROVE  z[j] # z[k] /\ W[z[j]] >= W[z[k]]
    <3>1. z[j] # z[k] /\ w[z[j]] >= w[z[k]] BY <2>2, <2>10
    <3>2. w[z[j]] \in Nat /\ w[z[k]] \in Nat BY <2>4
    <3>3. W[z[j]] = w[z[j]] + e /\ W[z[k]] = w[z[k]] + e BY <2>9
    <3> HIDE DEF W
    <3> QED BY <3>1, <3>2, <3>3
  <2> HIDE DEF W
  <2> QED BY <2>1, <2>2, <2>7, <2>8, <2>9, <2>10
<1>13. Forgets(C, T)
  <2> SUFFICES ASSUME NEW ip \in DOMAIN T
               PROVE  IF ip \in DOMAIN C THEN T[ip].age_ms = C[ip].age_ms
                      ELSE T[ip].age_ms >= ARP_CACHE_TTL
    BY DEF Forgets
  <2> DEFINE y == t[ip].age_ms
  <2>1. ip \in DOMAIN t /\ T[ip].age_ms = Older(y, e) /\ y \in Nat BY <1>4, <1>6
  <2> HIDE DEF y
  <2>2. CASE ip \in DOMAIN c
    <3>1. y = c[ip].age_ms BY <2>1, <2>2, <1>7 DEF Forgets, y
    <3>2. CASE ip \in DOMAIN C
      <4>1. sat(y) < ARP_CACHE_TTL /\ C[ip].age_ms = sat(y) BY <3>1, <3>2, <1>2
      <4>2. Older(y, e) = sat(y)
        BY <4>1, <2>1, InterfaceTimesAssumption, U64Assumption DEF Older, saturating_add, min, max
      <4> QED BY <4>1, <4>2, <3>2, <2>1
    <3>3. CASE ip \notin DOMAIN C
      <4>1. ~(sat(y) < ARP_CACHE_TTL) BY <3>1, <3>3, <2>2, <1>2
      <4>2. Older(y, e) >= ARP_CACHE_TTL
        BY <4>1, <2>1, InterfaceTimesAssumption, U64Assumption DEF Older, saturating_add, min, max
      <4> QED BY <4>2, <3>3, <2>1
    <3> QED BY <3>2, <3>3
  <2>3. CASE ip \notin DOMAIN c
    <3>1. y >= ARP_CACHE_TTL BY <2>1, <2>3, <1>7 DEF Forgets, y
    <3>2. Older(y, e) >= ARP_CACHE_TTL
      BY <3>1, <2>1, InterfaceTimesAssumption DEF Older, saturating_add, min, max
    <3>3. ip \notin DOMAIN C BY <2>3, <1>2
    <3> QED BY <3>2, <3>3, <2>1
  <2> QED BY <2>2, <2>3
<1> HIDE DEF F, W
<1>14. Waits(C, M, A, T, F, W) BY <1>8, <1>10, <1>11, <1>12, <1>13 DEF Waits
<1> QED BY <1>14 DEF C, M, A, T, F, W
-----------------------------------------------------------------------------
(* send_datagram to a neighbour whose address is known. *)
LEMMA SendKnown ==
  ASSUME IInv, NEW d \in Datagrams, SendDatagram(d), NextHop[d] \in DOMAIN iface.arp_cache
  PROVE  IInv' /\ KeepsDistance /\ SendsAsTold
<1> DEFINE ip == NextHop[d]
           eth == iface.arp_cache[ip].ethernet_address
           e == Frame(eth, OWN_ETH, "IPv4", d, TRUE)
<1>1. ip \in Neighbours /\ eth \in Addresses
  BY InterfaceSpecAssumption DEF IInv, Consistent, Typed, IsMap, Entries
<1>2. e \in OutFrames
  BY <1>1 DEF Frame, OutFrames, OutPayloads
<1>3. /\ IsInterface(iface')
      /\ iface'.arp_cache = iface.arp_cache /\ iface'.pending = iface.pending
      /\ iface'.datagrams_in = iface.datagrams_in
      /\ iface'.frames_out = Append(iface.frames_out, e)
  <2>1. iface.ethernet_address = OWN_ETH
    BY DEF IInv, IsInterface
  <2>2. iface' = [iface EXCEPT !.frames_out = Append(iface.frames_out, e)]
    BY <2>1 DEF SendDatagram, send_datagram, emit_ipv4_frame, ipv4_frame
  <2>3. IsInterface(iface)
    BY DEF IInv
  <2> HIDE DEF e
  <2> QED
    BY <2>2, <2>3, WithFrames
<1>4. iface'.frames_out \in Seq(OutFrames) /\ \A f \in FramesAdded : f = e
  <2>1. iface.frames_out \in Seq(OutFrames)
    BY DEF IInv
  <2> HIDE DEF e
  <2> QED
    BY <1>2, <1>3, <2>1, AppendAdds DEF FramesAdded
<1>5. \A f \in FramesAdded : f.ethertype = "IPv4" /\ f.payload = d /\ f.dst = eth
  BY <1>4 DEF Frame
<1>6. asked' = asked
  BY <1>5 DEF SendDatagram, Record, AsksFor, IInv, Consistent, Typed
<1>7. told' = told
  BY DEF SendDatagram
<1>8. IInv'
  <2> DEFINE S == {d}
             c == iface.arp_cache
             m == iface.pending
             s == iface.frames_out
  <2>1. e \in FramesAdded
    <3>1. s \in Seq(OutFrames) BY DEF IInv
    <3> HIDE DEF e, s
    <3>2. Len(s) \in Nat /\ Len(Append(s, e)) = Len(s) + 1 /\ Append(s, e)[Len(s) + 1] = e
      BY <1>2, <3>1
    <3> QED BY <1>3, <3>2 DEF FramesAdded, s
  <2>2. e.ethertype = "IPv4" /\ e.payload = d BY DEF Frame
  <2> HIDE DEF e
  <2>3. \A x \in Datagrams : (\E f \in FramesAdded : Carries(f, x)) <=> x \in S
    BY <2>1, <2>2, <1>5 DEF Carries
  <2>4. fate[d] = "new" /\ Record BY DEF SendDatagram
  <2>5. /\ \A x \in Datagrams : x \in S => ~Held(x, m)
        /\ \A x \in Datagrams : fate[x] = "waiting" /\ x \notin S => Held(x, m)
        /\ InOrder(c, m, asked', waited) /\ Forgets(c, told')
        /\ iface'.pending = m /\ iface'.arp_cache = c
    BY <2>4, <1>3, <1>6, <1>7 DEF IInv, Waits
  <2> HIDE DEF S, m, c
  <2>6. Waits(iface'.arp_cache, iface'.pending, asked', told', fate', waited')
    BY <2>3, <2>4, <2>5, WaitsRecorded
  <2> QED
    BY <2>6, <1>3, <1>4, <1>6, <1>7 DEF IInv
<1>9. KeepsDistance
  BY <1>5 DEF KeepsDistance, AsksFor
<1>10. told[ip].ethernet_address = eth /\ told[ip].age_ms < ARP_CACHE_TTL /\ ip \in DOMAIN told
  <2>1. /\ ip \in DOMAIN told /\ told[ip].ethernet_address = eth
        /\ told[ip].age_ms <= iface.arp_cache[ip].age_ms
        /\ iface.arp_cache[ip].age_ms < ARP_CACHE_TTL
    BY DEF IInv, Consistent, KnownAsTold, AskedLongAgo
  <2>2. told[ip].age_ms \in Nat /\ iface.arp_cache[ip].age_ms \in Nat
    BY <2>1 DEF IInv, Consistent, Typed, IsMap, Entries
  <2> QED
    BY <2>1, <2>2, InterfaceTimesAssumption
<1>11. SendsAsTold
  BY <1>5, <1>7, <1>10 DEF SendsAsTold
<1> QED
  BY <1>8, <1>9, <1>11

(* send_datagram to a neighbour that has been asked already. *)
LEMMA SendWaiting ==
  ASSUME IInv, NEW d \in Datagrams, SendDatagram(d),
         NextHop[d] \notin DOMAIN iface.arp_cache, NextHop[d] \in DOMAIN iface.pending
  PROVE  IInv' /\ KeepsDistance /\ SendsAsTold
<1> DEFINE ip == NextHop[d]
           p == iface.pending[ip]
           q == [p EXCEPT !.datagrams = Append(@, d)]
           m == map_insert(iface.pending, ip, q)
<1>1. p \in Resolutions /\ ~should_send_arp_request(p)
  <2>1. p \in Resolutions
    BY DEF IInv, Consistent, Typed, IsMap
  <2>2. p.request_age_ms < ARP_REQUEST_COOLDOWN /\ p.request_age_ms \in Nat
    BY <2>1, InterfaceTimesAssumption DEF IInv, Consistent, AskedLongAgo, Resolutions
  <2> QED
    BY <2>1, <2>2, InterfaceTimesAssumption DEF should_send_arp_request
<1>2. [p EXCEPT !.datagrams = Append(@, d), !.request_age_ms = @] = q
  BY <1>1 DEF Resolutions
<1>3. iface' = [iface EXCEPT !.pending = m]
  BY <1>1, <1>2 DEF SendDatagram, send_datagram
<1>4. IsInterface(iface)
  BY DEF IInv
<1>5. /\ IsInterface(iface') /\ iface'.arp_cache = iface.arp_cache /\ iface'.pending = m
      /\ iface'.frames_out = iface.frames_out /\ iface'.datagrams_in = iface.datagrams_in
  <2> HIDE DEF m
  <2> QED
    BY <1>3, <1>4, WithPending
<1>6. /\ asked' = asked /\ told' = told /\ KeepsDistance /\ SendsAsTold
      /\ FramesAdded = {} /\ Record /\ fate[d] = "new"
  BY <1>5, QuietStep DEF SendDatagram
<1>7. Consistent(iface.arp_cache, m, asked, told)
  BY QueueGrows DEF IInv
<1>8. /\ InOrder(iface.arp_cache, m, asked, waited)
      /\ \A x \in Datagrams : Held(x, m) <=> Held(x, iface.pending) \/ x = d
  <2>1. /\ Consistent(iface.arp_cache, iface.pending, asked, told) /\ fate[d] = "new"
        /\ Waits(iface.arp_cache, iface.pending, asked, told, fate, waited)
    BY <1>6 DEF IInv
  <2> QED BY <2>1, OrderGrows
<1> HIDE DEF m
<1>9. Waits(iface'.arp_cache, iface'.pending, asked', told', fate', waited')
  <2> DEFINE S == {}
             c == iface.arp_cache
  <2>1. /\ \A x \in Datagrams : (\E f \in FramesAdded : Carries(f, x)) <=> x \in S
        /\ \A x \in Datagrams : x \in S => ~Held(x, m)
        /\ \A x \in Datagrams : fate[x] = "waiting" /\ x \notin S => Held(x, m)
        /\ InOrder(c, m, asked', waited) /\ Forgets(c, told')
        /\ iface'.pending = m /\ iface'.arp_cache = c
    BY <1>5, <1>6, <1>8 DEF IInv, Waits
  <2> HIDE DEF S, c
  <2> QED BY <2>1, <1>6, WaitsRecorded
<1> QED
  BY <1>5, <1>6, <1>7, <1>9 DEF IInv

(* send_datagram's two assignments to a new resolution, in one record. *)
LEMMA ResolutionStarts ==
  ASSUME NEW p \in Resolutions, NEW v \in Seq(Datagrams)
  PROVE  [p EXCEPT !.datagrams = v, !.request_age_ms = 0]
           = [datagrams |-> v, age_ms |-> p.age_ms, request_age_ms |-> 0]
<1> DEFINE x == [p EXCEPT !.datagrams = v, !.request_age_ms = 0]
           y == [datagrams |-> v, age_ms |-> p.age_ms, request_age_ms |-> 0]
<1>1. /\ x \in Resolutions
      /\ x.datagrams = v /\ x.age_ms = p.age_ms /\ x.request_age_ms = 0
  BY DEF Resolutions
<1>2. /\ y \in Resolutions
      /\ y.datagrams = v /\ y.age_ms = p.age_ms /\ y.request_age_ms = 0
  BY DEF Resolutions
<1> HIDE DEF x, y
<1>3. x = y
  BY <1>1, <1>2 DEF Resolutions
<1> QED
  BY <1>3 DEF x, y

(* send_datagram to a neighbour that has to be asked first. *)
LEMMA SendFirst ==
  ASSUME IInv, NEW d \in Datagrams, SendDatagram(d),
         NextHop[d] \notin DOMAIN iface.arp_cache, NextHop[d] \notin DOMAIN iface.pending
  PROVE  IInv' /\ KeepsDistance /\ SendsAsTold
<1> DEFINE ip == NextHop[d]
           q == [datagrams |-> <<d>>, age_ms |-> 0, request_age_ms |-> 0]
           m == map_insert(iface.pending, ip, q)
           w == [iface EXCEPT !.pending = m]
           r == ArpMessage("Request", OWN_ETH, OWN_IP, ip)
           e == Frame(BROADCAST, OWN_ETH, "ARP", r, TRUE)
<1>1. ip \in Neighbours /\ IsInterface(iface)
  BY InterfaceSpecAssumption DEF IInv
<1>2. e \in OutFrames
  BY <1>1 DEF ArpMessage, Frame, OutFrames, OutPayloads
<1>3. should_send_arp_request(new_resolution)
  BY InterfaceTimesAssumption DEF should_send_arp_request, new_resolution
<1>4. [new_resolution EXCEPT !.datagrams = Append(@, d), !.request_age_ms = 0] = q
  <2>1. Append(<<>>, d) = <<d>>
    OBVIOUS
  <2>2. /\ new_resolution \in Resolutions
        /\ new_resolution.datagrams = <<>> /\ new_resolution.age_ms = 0
    BY InterfaceTimesAssumption DEF new_resolution, Resolutions
  <2>3. <<d>> \in Seq(Datagrams)
    OBVIOUS
  <2> QED
    BY <2>1, <2>2, <2>3, ResolutionStarts
<1>5. iface' = emit_arp_request(w, ip)
  BY <1>3, <1>4 DEF SendDatagram, send_datagram
<1>6. /\ IsInterface(w) /\ w.arp_cache = iface.arp_cache /\ w.pending = m
      /\ w.frames_out = iface.frames_out /\ w.datagrams_in = iface.datagrams_in
      /\ w.ethernet_address = OWN_ETH /\ w.ip_address = OWN_IP
  <2> HIDE DEF m
  <2> QED
    BY <1>1, WithPending
<1>7. iface' = [w EXCEPT !.frames_out = Append(iface.frames_out, e)]
  <2> HIDE DEF w
  <2> QED
    BY <1>5, <1>6 DEF emit_arp_request
<1>8. /\ IsInterface(iface') /\ iface'.arp_cache = iface.arp_cache /\ iface'.pending = m
      /\ iface'.frames_out = Append(iface.frames_out, e)
      /\ iface'.datagrams_in = iface.datagrams_in
  <2> HIDE DEF w, e, m
  <2> QED
    BY <1>6, <1>7, WithFrames, ZenonT(30)
<1>9. /\ iface'.frames_out \in Seq(OutFrames)
      /\ FramesAdded = {e}
  <2>1. iface.frames_out \in Seq(OutFrames)
    BY DEF IInv
  <2> HIDE DEF e
  <2>2. Len(Append(iface.frames_out, e)) = Len(iface.frames_out) + 1 /\ Len(iface.frames_out) \in Nat
    BY <2>1, <1>2
  <2>3. Append(iface.frames_out, e)[Len(iface.frames_out) + 1] = e
    BY <2>1, <1>2
  <2> QED
    BY <1>2, <1>8, <2>1, <2>2, <2>3, AppendAdds DEF FramesAdded
<1>10. \A x : AsksFor(e, x) <=> x = ip
  <2>1. e.ethertype = "ARP" /\ e.payload = r
    BY DEF Frame
  <2>2. r.operation = "Request" /\ r.target_ip_address = ip
    BY DEF ArpMessage
  <2> HIDE DEF e, r
  <2> QED
    BY <2>1, <2>2 DEF AsksFor
<1>11. e.ethertype # "IPv4"
  BY DEF Frame
<1> HIDE DEF e
<1>12. SendsAsTold
  BY <1>9, <1>11 DEF SendsAsTold
<1>13. KeepsDistance
  BY <1>9, <1>10, <1>1 DEF KeepsDistance, IInv, Consistent, AskedLongAgo
<1>14. asked' = [asked EXCEPT ![ip] = 0] /\ told' = told
  <2>1. asked' = [x \in Neighbours |-> IF x = ip THEN 0 ELSE asked[x]]
    BY <1>9, <1>10 DEF SendDatagram, Record
  <2>2. asked \in [Neighbours -> Nat]
    BY DEF IInv, Consistent, Typed
  <2> QED
    BY <2>1, <2>2 DEF SendDatagram
<1>15. Consistent(iface.arp_cache, m, [asked EXCEPT ![ip] = 0], told)
  BY QueueStarts DEF IInv
<1>16. /\ InOrder(iface.arp_cache, m, [asked EXCEPT ![ip] = 0], waited)
       /\ \A x \in Datagrams : Held(x, m) <=> Held(x, iface.pending) \/ x = d
  <2>1. /\ Consistent(iface.arp_cache, iface.pending, asked, told) /\ fate[d] = "new"
        /\ Waits(iface.arp_cache, iface.pending, asked, told, fate, waited)
    BY DEF IInv, SendDatagram
  <2> QED BY <2>1, OrderStarts
<1> HIDE DEF m
<1>17. Waits(iface'.arp_cache, iface'.pending, asked', told', fate', waited')
  <2> DEFINE S == {}
             c == iface.arp_cache
  <2>1. \A x \in Datagrams : (\E f \in FramesAdded : Carries(f, x)) <=> x \in S
    BY <1>9, <1>11 DEF Carries
  <2>2. /\ \A x \in Datagrams : x \in S => ~Held(x, m)
        /\ \A x \in Datagrams : fate[x] = "waiting" /\ x \notin S => Held(x, m)
        /\ InOrder(c, m, asked', waited) /\ Forgets(c, told')
        /\ iface'.pending = m /\ iface'.arp_cache = c /\ Record
    BY <1>8, <1>14, <1>16 DEF IInv, Waits, SendDatagram
  <2> HIDE DEF S, c
  <2> QED BY <2>1, <2>2, WaitsRecorded
<1> QED
  BY <1>8, <1>9, <1>12, <1>13, <1>14, <1>15, <1>17 DEF IInv

(* send_datagram keeps the invariant, whatever is known of the next hop. *)
LEMMA SendStep ==
  ASSUME IInv, NEW d \in Datagrams, SendDatagram(d)
  PROVE  IInv' /\ KeepsDistance /\ SendsAsTold
  BY SendKnown, SendWaiting, SendFirst
-----------------------------------------------------------------------------
(* What the frames that arrive carry: ARP messages of neighbours, or datagrams. *)
LEMMA ArrivingFrames ==
  ASSUME NEW frame \in Arriving
  PROVE  /\ frame.ethertype = "ARP" /\ frame.parses =>
              /\ frame.payload.sender_ip_address \in Neighbours
              /\ frame.payload.sender_ethernet_address \in Addresses
         /\ frame.ethertype = "IPv4" => frame.payload = INCOMING
<1>1. ASSUME NEW dst, NEW x \in ArpMessages,
             frame = Frame(dst, OTHER_ETH, "ARP", x, TRUE)
      PROVE  /\ frame.ethertype = "ARP"
             /\ frame.payload.sender_ip_address \in Neighbours
             /\ frame.payload.sender_ethernet_address \in Addresses
  <2>1. x.sender_ip_address \in Neighbours /\ x.sender_ethernet_address \in Addresses
    BY DEF ArpMessages, ArpMessage
  <2>2. frame.payload = x /\ frame.ethertype = "ARP"
    BY <1>1 DEF Frame
  <2> QED
    BY <2>1, <2>2
<1>2. ASSUME NEW dst, NEW ethertype \in {"IPv4", "other"}, NEW parses,
             frame = Frame(dst, OTHER_ETH, ethertype, INCOMING, parses)
      PROVE  frame.ethertype # "ARP" /\ frame.payload = INCOMING
  BY <1>2 DEF Frame
<1>3. ASSUME NEW dst, frame = Frame(dst, OTHER_ETH, "ARP", INCOMING, FALSE)
      PROVE  frame.ethertype = "ARP" /\ frame.parses = FALSE
  BY <1>3 DEF Frame
<1>4. frame \in ArpFrames \/ frame \in BadArpFrames \/ frame \in OtherFrames
  BY DEF Arriving
<1>5. CASE frame \in ArpFrames
  <2>1. \E dst \in Destinations, x \in ArpMessages : frame = Frame(dst, OTHER_ETH, "ARP", x, TRUE)
    BY <1>5 DEF ArpFrames, Frame
  <2> QED
    BY <2>1, <1>1
<1>6. CASE frame \in BadArpFrames
  BY <1>6, <1>3 DEF BadArpFrames
<1>7. CASE frame \in OtherFrames
  <2>1. \E dst \in Destinations, ethertype \in {"IPv4", "other"}, parses \in BOOLEAN :
          frame = Frame(dst, OTHER_ETH, ethertype, INCOMING, parses)
    BY <1>7 DEF OtherFrames
  <2> QED
    BY <2>1, <1>2
<1> QED
  BY <1>4, <1>5, <1>6, <1>7

(* The frames that what a neighbour announces lets out. *)
Released(ip, eth) ==
  IF ip \notin DOMAIN iface.pending THEN <<>> ELSE Release(iface.pending[ip].datagrams, eth)

(* What an announcement releases goes to who made it. *)
LEMMA ReleasedFrames ==
  ASSUME IInv, NEW ip \in Neighbours, NEW eth \in Addresses
  PROVE  /\ Released(ip, eth) \in Seq(OutFrames)
         /\ \A k \in 1 .. Len(Released(ip, eth)) :
              LET f == Released(ip, eth)[k] IN
              f.ethertype = "IPv4" /\ f.dst = eth /\ NextHop[f.payload] = ip
         /\ \A d \in Datagrams :
              (\E k \in 1 .. Len(Released(ip, eth)) : Released(ip, eth)[k].payload = d)
                <=> Held(d, iface.pending) /\ NextHop[d] = ip
<1>1. CASE ip \notin DOMAIN iface.pending
  <2>1. \A d \in Datagrams : ~(Held(d, iface.pending) /\ NextHop[d] = ip)
    BY <1>1 DEF Held, IInv, Consistent, KnownAsTold
  <2>2. Released(ip, eth) = <<>> BY <1>1 DEF Released
  <2> QED BY <2>1, <2>2
<1>2. CASE ip \in DOMAIN iface.pending
  <2> DEFINE q == iface.pending[ip].datagrams
             g == Release(q, eth)
  <2>1. q \in Seq(Datagrams)
    BY <1>2 DEF IInv, Consistent, Typed, IsMap, Resolutions
  <2>2. \A k \in 1 .. Len(q) : NextHop[q[k]] = ip
    BY <1>2 DEF IInv, Consistent, KnownAsTold
  <2>3. g = Released(ip, eth)
    BY <1>2 DEF Released
  <2> HIDE DEF q
  <2>4. /\ g \in Seq(OutFrames) /\ Len(g) = Len(q)
        /\ \A k \in 1 .. Len(q) : g[k] = Frame(eth, OWN_ETH, "IPv4", q[k], TRUE)
    BY <2>1, ReleaseFrames
  <2> HIDE DEF g
  <2>5. ASSUME NEW k \in 1 .. Len(q)
        PROVE  g[k].ethertype = "IPv4" /\ g[k].dst = eth /\ g[k].payload = q[k]
    <3> DEFINE x == q[k]
    <3>1. g[k] = Frame(eth, OWN_ETH, "IPv4", x, TRUE)
      BY <2>4
    <3> HIDE DEF x
    <3>2. g[k].ethertype = "IPv4" /\ g[k].dst = eth /\ g[k].payload = x
      BY <3>1 DEF Frame
    <3> QED
      BY <3>2 DEF x
  <2>6. ASSUME NEW d \in Datagrams
        PROVE  (\E k \in 1 .. Len(q) : q[k] = d) <=> Held(d, iface.pending) /\ NextHop[d] = ip
    <3>1. \A y \in DOMAIN iface.pending :
            \A k \in 1 .. Len(iface.pending[y].datagrams) :
              NextHop[iface.pending[y].datagrams[k]] = y
      BY DEF IInv, Consistent, KnownAsTold
    <3> QED BY <3>1, <1>2 DEF Held, q
  <2> QED
    BY <2>2, <2>3, <2>4, <2>5, <2>6
<1> QED
  BY <1>1, <1>2

(* An ARP message for this interface, or for all. *)
LEMMA RecvArp ==
  ASSUME IInv, NEW frame \in Arriving, RecvFrame(frame),
         frame.ethertype = "ARP", frame.parses, is_for(frame, OWN_ETH)
  PROVE  IInv' /\ KeepsDistance /\ SendsAsTold
<1> DEFINE ip == frame.payload.sender_ip_address
           eth == frame.payload.sender_ethernet_address
           entry == [ethernet_address |-> eth, age_ms |-> 0]
           c == map_insert(iface.arp_cache, ip, entry)
           m == map_remove(iface.pending, ip)
           g == Released(ip, eth)
           out == iface.frames_out \o g
           learnt == [iface EXCEPT !.arp_cache = c, !.pending = m, !.frames_out = out]
           r == ArpMessage("Reply", OWN_ETH, OWN_IP, ip)
           e == Frame(eth, OWN_ETH, "ARP", r, TRUE)
<1>1. ip \in Neighbours /\ eth \in Addresses /\ IsInterface(iface)
  BY ArrivingFrames DEF IInv
<1>2. iface.ethernet_address = OWN_ETH
  BY DEF IInv, IsInterface
<1>3. iface' = recv_arp(iface, frame.payload)
  BY <1>2 DEF RecvFrame, recv_frame
<1>4. learn_arp_mapping(iface, ip, eth) = learnt
  BY <1>2 DEF learn_arp_mapping, Released, Release, ipv4_frame
<1>5. iface' = learnt \/ iface' = emit_arp_reply(learnt, eth, ip)
  BY <1>3, <1>4 DEF recv_arp
<1>6. told' = map_insert(told, ip, entry)
  BY DEF RecvFrame
<1>7. Consistent(c, m, asked, told')
  BY <1>1, <1>6, MappingLearnt DEF IInv
<1>8. /\ g \in Seq(OutFrames)
      /\ \A k \in 1 .. Len(g) : g[k].ethertype = "IPv4" /\ g[k].dst = eth /\ NextHop[g[k].payload] = ip
      /\ \A d \in Datagrams : (\E k \in 1 .. Len(g) : g[k].payload = d)
                                <=> Held(d, iface.pending) /\ NextHop[d] = ip
  BY <1>1, ReleasedFrames
<1>9. e \in OutFrames
  BY <1>1 DEF ArpMessage, Frame, OutFrames, OutPayloads
<1>10. e.ethertype = "ARP" /\ e.payload.operation = "Reply"
  BY DEF Frame, ArpMessage
<1>11. ip \in DOMAIN told' /\ told'[ip].ethernet_address = eth /\ told'[ip].age_ms = 0
  BY <1>6 DEF map_insert
<1>12. /\ InOrder(c, m, asked, waited) /\ Forgets(c, told')
       /\ \A x \in Datagrams : Held(x, m) <=> Held(x, iface.pending) /\ NextHop[x] # ip
  BY <1>1, <1>6, OrderLearns DEF IInv
<1> HIDE DEF c, m, g, e
<1>13. /\ IsInterface(learnt) /\ learnt.arp_cache = c /\ learnt.pending = m
       /\ learnt.frames_out = out /\ learnt.datagrams_in = iface.datagrams_in
       /\ learnt.ethernet_address = OWN_ETH /\ learnt.ip_address = OWN_IP
  <2> HIDE DEF out
  <2> QED
    BY <1>1 DEF IsInterface
<1>14. emit_arp_reply(learnt, eth, ip) = [learnt EXCEPT !.frames_out = Append(out, e)]
  <2> HIDE DEF learnt, out
  <2> QED
    BY <1>13 DEF emit_arp_reply, e
<1>15. /\ IsInterface(iface') /\ iface'.arp_cache = c /\ iface'.pending = m
       /\ iface'.datagrams_in = iface.datagrams_in
       /\ iface'.frames_out = out \/ iface'.frames_out = Append(out, e)
  <2> HIDE DEF learnt, out
  <2>1. CASE iface' = learnt
    BY <2>1, <1>13
  <2>2. CASE iface' = [learnt EXCEPT !.frames_out = Append(out, e)]
    BY <2>2, <1>13, WithFrames, SMTT(30)
  <2> QED
    BY <2>1, <2>2, <1>5, <1>14
<1>16. /\ iface'.frames_out \in Seq(OutFrames)
       /\ \A f \in FramesAdded : f = e \/ \E k \in 1 .. Len(g) : f = g[k]
       /\ \A k \in 1 .. Len(g) : g[k] \in FramesAdded
  <2> DEFINE s == iface.frames_out
  <2>1. s \in Seq(OutFrames)
    BY DEF IInv
  <2>2. /\ out \in Seq(OutFrames) /\ Append(out, e) \in Seq(OutFrames)
        /\ Len(s) \in Nat /\ Len(g) \in Nat
        /\ Len(out) = Len(s) + Len(g) /\ Len(Append(out, e)) = Len(s) + Len(g) + 1
    BY <2>1, <1>8, <1>9
  <2>3. \A k \in Len(s) + 1 .. Len(out) : k - Len(s) \in 1 .. Len(g) /\ out[k] = g[k - Len(s)]
    BY <2>1, <1>8, ConcatAdds
  <2> HIDE DEF s, out
  <2>4. /\ \A k \in 1 .. Len(out) : Append(out, e)[k] = out[k]
        /\ Append(out, e)[Len(out) + 1] = e
    BY <2>2, <1>9
  <2>5. ASSUME NEW k \in Len(s) + 1 .. Len(iface'.frames_out)
        PROVE  \/ iface'.frames_out[k] = e
               \/ \E j \in 1 .. Len(g) : iface'.frames_out[k] = g[j]
    <3>1. CASE k \in Len(s) + 1 .. Len(out)
      <4>0. k \in 1 .. Len(out)
        BY <3>1, <2>2
      <4>1. iface'.frames_out[k] = out[k]
        BY <4>0, <2>4, <1>15
      <4> QED
        BY <3>1, <4>1, <2>3
    <3>2. CASE k \notin Len(s) + 1 .. Len(out)
      <4>1. k = Len(out) + 1 /\ iface'.frames_out = Append(out, e)
        BY <3>2, <2>2, <1>15
      <4> QED
        BY <4>1, <2>4
    <3> QED
      BY <3>1, <3>2
  <2>6. ASSUME NEW j \in 1 .. Len(g)
        PROVE  /\ Len(s) + j \in Len(s) + 1 .. Len(iface'.frames_out)
               /\ iface'.frames_out[Len(s) + j] = g[j]
    <3>1. /\ Len(s) + j \in Len(s) + 1 .. Len(out) /\ Len(s) + j \in 1 .. Len(out)
          /\ (Len(s) + j) - Len(s) = j
      BY <2>2
    <3>2. out[Len(s) + j] = g[j] BY <3>1, <2>3
    <3>3. iface'.frames_out[Len(s) + j] = out[Len(s) + j] BY <3>1, <2>4, <1>15
    <3>4. Len(s) + j \in Len(s) + 1 .. Len(iface'.frames_out) BY <3>1, <2>2, <1>15
    <3> QED BY <3>2, <3>3, <3>4
  <2>7. iface'.frames_out \in Seq(OutFrames) BY <2>2, <1>15
  <2>8. \A f \in FramesAdded : f = e \/ \E k \in 1 .. Len(g) : f = g[k]
    BY <2>5 DEF FramesAdded, s
  <2>9. \A k \in 1 .. Len(g) : g[k] \in FramesAdded
    BY <2>6 DEF FramesAdded, s
  <2> QED BY <2>7, <2>8, <2>9
<1>17. \A f \in FramesAdded :
         \/ f.ethertype = "ARP" /\ f.payload.operation = "Reply"
         \/ f.ethertype = "IPv4" /\ f.dst = eth /\ NextHop[f.payload] = ip
  BY <1>8, <1>10, <1>16
<1>18. \A f \in FramesAdded : \A x : ~AsksFor(f, x)
  BY <1>17 DEF AsksFor
<1>19. asked' = asked
  BY <1>18 DEF RecvFrame, Record, IInv, Consistent, Typed
<1>20. KeepsDistance
  BY <1>18 DEF KeepsDistance
<1>21. SendsAsTold
  BY <1>11, <1>17, InterfaceTimesAssumption DEF SendsAsTold
<1>22. IInv'
  <2> DEFINE S == {x \in Datagrams : Held(x, iface.pending) /\ NextHop[x] = ip}
  <2>1. \A x \in Datagrams : (\E f \in FramesAdded : Carries(f, x)) <=> x \in S
    BY <1>8, <1>10, <1>16 DEF Carries
  <2>2. /\ \A x \in Datagrams : x \in S => ~Held(x, m)
        /\ \A x \in Datagrams : fate[x] = "waiting" /\ x \notin S => Held(x, m)
        /\ InOrder(c, m, asked', waited) /\ Forgets(c, told')
        /\ iface'.pending = m /\ iface'.arp_cache = c /\ Record
    BY <1>15, <1>19, <1>12 DEF IInv, Waits, RecvFrame
  <2> HIDE DEF S
  <2>3. Waits(iface'.arp_cache, iface'.pending, asked', told', fate', waited')
    BY <2>1, <2>2, WaitsRecorded
  <2> QED
    BY <2>3, <1>7, <1>15, <1>16, <1>19 DEF IInv
<1> QED
  BY <1>20, <1>21, <1>22

(* Any other frame: one that is ignored, or a datagram for the IP layer. *)
LEMMA RecvOther ==
  ASSUME IInv, NEW frame \in Arriving, RecvFrame(frame),
         ~(frame.ethertype = "ARP" /\ frame.parses /\ is_for(frame, OWN_ETH))
  PROVE  IInv' /\ KeepsDistance /\ SendsAsTold
<1> DEFINE n == Append(iface.datagrams_in, INCOMING)
<1>1. /\ IsInterface(iface) /\ iface.ethernet_address = OWN_ETH
      /\ iface.datagrams_in \in Seq(Datagrams \cup {INCOMING})
  BY DEF IInv, IsInterface
<1>2. n \in Seq(Datagrams \cup {INCOMING})
  BY <1>1
<1>3. iface' = iface \/ iface' = [iface EXCEPT !.datagrams_in = n]
  BY <1>1, ArrivingFrames DEF RecvFrame, recv_frame
<1> HIDE DEF n
<1>4. /\ IsInterface(iface') /\ iface'.arp_cache = iface.arp_cache
      /\ iface'.pending = iface.pending /\ iface'.frames_out = iface.frames_out
      /\ iface'.datagrams_in = iface.datagrams_in \/ iface'.datagrams_in = n
  <2>1. CASE iface' = iface
    BY <2>1, <1>1
  <2>2. CASE iface' = [iface EXCEPT !.datagrams_in = n]
    BY <2>2, <1>1, WithIncoming
  <2> QED
    BY <2>1, <2>2, <1>3
<1>5. asked' = asked /\ KeepsDistance /\ SendsAsTold /\ FramesAdded = {} /\ Record
  BY <1>4, QuietStep DEF RecvFrame
<1>6. told' = told
  BY DEF RecvFrame
<1>7. Waits(iface'.arp_cache, iface'.pending, asked', told', fate', waited')
  BY <1>4, <1>5, <1>6, SameFates
<1> QED
  BY <1>1, <1>2, <1>4, <1>5, <1>6, <1>7 DEF IInv

(* recv_frame keeps the invariant, for every kind of frame. *)
LEMMA RecvStep ==
  ASSUME IInv, NEW frame \in Arriving, RecvFrame(frame)
  PROVE  IInv' /\ KeepsDistance /\ SendsAsTold
  BY RecvArp, RecvOther

(* tick ages and expires both maps, and sends nothing. *)
LEMMA TickStep ==
  ASSUME IInv, NEW elapsed_ms \in Elapsed, Tick(elapsed_ms)
  PROVE  IInv' /\ KeepsDistance /\ SendsAsTold
<1> DEFINE c == expire_arp_cache(iface.arp_cache, elapsed_ms)
           m == expire_pending(iface.pending, elapsed_ms)
<1>1. elapsed_ms \in Nat /\ IsInterface(iface)
  BY InterfaceSpecAssumption DEF IInv
<1>2. iface' = [iface EXCEPT !.arp_cache = c, !.pending = m]
  BY DEF Tick, interface_tick
<1>3. Consistent(c, m, asked', told')
  BY <1>1, TimePasses DEF IInv, Tick
<1> DEFINE F == [d \in Datagrams |->
                   IF fate[d] = "waiting" /\ ~Held(d, m) THEN "dropped" ELSE fate[d]]
<1>6. Waits(c, m, asked', told', F, waited')
  BY <1>1, OrderAges DEF IInv, Tick
<1> HIDE DEF c, m
<1>4. /\ IsInterface(iface') /\ iface'.arp_cache = c /\ iface'.pending = m
      /\ iface'.frames_out = iface.frames_out /\ iface'.datagrams_in = iface.datagrams_in
  BY <1>1, <1>2 DEF IsInterface
<1>5. KeepsDistance /\ SendsAsTold
  BY <1>4, QuietStep
<1>7. fate' = F
  <2>1. \A d : d \in Queued(iface') <=> Held(d, m)
    BY <1>4, QueuedIsHeld
  <2> QED BY <2>1 DEF Tick
<1> HIDE DEF F
<1> QED
  BY <1>3, <1>4, <1>5, <1>6, <1>7 DEF IInv

(* What the callers take from the two output queues concerns neither map. *)
LEMMA PopStep ==
  ASSUME IInv, PopFrame \/ PopDatagram
  PROVE  IInv' /\ KeepsDistance /\ SendsAsTold
<1>1. /\ IsInterface(iface) /\ iface.frames_out \in Seq(OutFrames)
      /\ iface.datagrams_in \in Seq(Datagrams \cup {INCOMING})
  BY DEF IInv
<1>2. CASE PopFrame
  <2> DEFINE s == iface.frames_out
             f == Tail(s)
  <2>1. iface' = [iface EXCEPT !.frames_out = f] /\ s # <<>>
    BY <1>2 DEF PopFrame, pop_frame
  <2>2. f \in Seq(OutFrames) /\ Len(f) = Len(s) - 1 /\ Len(s) \in Nat
    BY <1>1, <2>1
  <2> HIDE DEF f
  <2>3. /\ IsInterface(iface') /\ iface'.arp_cache = iface.arp_cache
        /\ iface'.pending = iface.pending /\ iface'.frames_out = f
        /\ iface'.datagrams_in = iface.datagrams_in
    BY <1>1, <2>1, WithFrames, ZenonT(30)
  <2>4. FramesAdded = {}
    BY <2>2, <2>3 DEF FramesAdded
  <2>5. asked' = asked /\ told' = told /\ fate' = fate /\ waited' = waited
    BY <1>2 DEF PopFrame
  <2> QED
    BY <1>1, <2>2, <2>3, <2>4, <2>5 DEF IInv, KeepsDistance, SendsAsTold
<1>3. CASE PopDatagram
  <2> DEFINE n == Tail(iface.datagrams_in)
  <2>1. iface' = [iface EXCEPT !.datagrams_in = n] /\ iface.datagrams_in # <<>>
    BY <1>3 DEF PopDatagram, pop_datagram
  <2>2. n \in Seq(Datagrams \cup {INCOMING})
    BY <1>1, <2>1
  <2> HIDE DEF n
  <2>3. /\ IsInterface(iface') /\ iface'.arp_cache = iface.arp_cache
        /\ iface'.pending = iface.pending /\ iface'.frames_out = iface.frames_out
        /\ iface'.datagrams_in = n
    BY <1>1, <2>1, WithIncoming
  <2>4. KeepsDistance /\ SendsAsTold
    BY <2>3, QuietStep
  <2>5. asked' = asked /\ told' = told /\ fate' = fate /\ waited' = waited
    BY <1>3 DEF PopDatagram
  <2> QED
    BY <1>1, <2>2, <2>3, <2>4, <2>5 DEF IInv
<1> QED
  BY <1>2, <1>3
-----------------------------------------------------------------------------
(* A new interface has asked nobody and knows nobody. *)
LEMMA InitConsistent ==
  ASSUME Init
  PROVE  IInv
<1>1. /\ IsInterface(iface) /\ iface.arp_cache = EmptyMap /\ iface.pending = EmptyMap
      /\ iface.frames_out = <<>> /\ iface.datagrams_in = <<>>
  BY DEF Init, new_interface, IsInterface
<1>2. DOMAIN EmptyMap = {}
  BY DEF EmptyMap
<1>3. /\ asked \in [Neighbours -> Nat]
      /\ \A ip \in Neighbours : asked[ip] >= ARP_REQUEST_COOLDOWN
  BY InterfaceTimesAssumption DEF Init, Older, saturating_add, min, max
<1>4. told = EmptyMap
  BY DEF Init
<1>5. Consistent(EmptyMap, EmptyMap, asked, EmptyMap)
  BY <1>2, <1>3 DEF Consistent, Typed, AskedLongAgo, KnownAsTold, IsMap
<1>6. Waits(EmptyMap, EmptyMap, asked, EmptyMap, fate, waited)
  BY <1>2 DEF Init, Waits, InOrder, Forgets, Held, Fates
<1> QED
  BY <1>1, <1>4, <1>5, <1>6 DEF IInv

(* Every step keeps the invariant and does what the two properties demand. *)
LEMMA NextStep ==
  ASSUME IInv, [Next]_vars
  PROVE  IInv' /\ (UNCHANGED vars \/ (KeepsDistance /\ SendsAsTold))
<1>1. CASE Next
  BY <1>1, SendStep, RecvStep, TickStep, PopStep DEF Next
<1>2. CASE UNCHANGED vars
  <2>1. /\ iface' = iface /\ asked' = asked /\ told' = told
        /\ fate' = fate /\ waited' = waited
    BY <1>2 DEF vars
  <2>2. IInv'
    BY <2>1 DEF IInv
  <2> QED
    BY <1>2, <2>2
<1> QED
  BY <1>1, <1>2

(***************************************************************************)
(* What was submitted and neither sent nor dropped waits in the queue of   *)
(* its next hop, in order, and that next hop has been asked and has not    *)
(* answered, for all lifetimes and every order of the calls.               *)
(***************************************************************************)
THEOREM NothingIsStranded == Spec => []NothingStranded
<1>1. Init => IInv
  BY InitConsistent
<1>2. IInv /\ [Next]_vars => IInv'
  BY NextStep
<1>3. IInv => NothingStranded
  <2> SUFFICES ASSUME IInv PROVE NothingStranded
    OBVIOUS
  <2>1. \A d \in Datagrams : fate[d] = "waiting" <=> d \in Queued(iface)
    BY QueuedIsHeld DEF IInv, Waits
  <2>2. ASSUME NEW ip \in DOMAIN iface.pending
        PROVE  LET q == iface.pending[ip].datagrams IN
               /\ q # <<>> /\ ip \notin DOMAIN iface.arp_cache
               /\ \A k \in 1 .. Len(q) :
                    NextHop[q[k]] = ip /\ waited[q[k]] <= iface.pending[ip].age_ms
               /\ \A j, k \in 1 .. Len(q) : j < k => q[j] # q[k] /\ waited[q[j]] >= waited[q[k]]
               /\ asked[ip] = iface.pending[ip].age_ms
               /\ ip \in DOMAIN told => told[ip].age_ms >= ARP_CACHE_TTL
    BY <2>2 DEF IInv, Waits, InOrder, Forgets, Consistent, KnownAsTold
  <2> QED
    BY <2>1, <2>2 DEF NothingStranded
<1> QED
  BY <1>1, <1>2, <1>3, PTL DEF Spec

(***************************************************************************)
(* Requests for the same neighbour are a cooldown apart, whatever expires  *)
(* or is announced between them, for all lifetimes as in the code.         *)
(***************************************************************************)
THEOREM RequestsKeepDistance == Spec => OneRequestPerCooldown
<1>1. Init => IInv
  BY InitConsistent
<1>2. IInv /\ [Next]_vars => IInv'
  BY NextStep
<1>3. IInv /\ [Next]_vars => [KeepsDistance]_vars
  BY NextStep
<1>4. KeepsDistance <=>
        \A ip \in Neighbours :
          (\E f \in FramesAdded : AsksFor(f, ip)) => asked[ip] >= ARP_REQUEST_COOLDOWN
  BY DEF KeepsDistance
<1> QED
  BY <1>1, <1>2, <1>3, <1>4, PTL DEF Spec, OneRequestPerCooldown

(***************************************************************************)
(* A datagram leaves for the address its next hop announced last, within   *)
(* the lifetime of a mapping.                                              *)
(***************************************************************************)
THEOREM DatagramsGoAsTold == Spec => SentAsTold
<1>1. Init => IInv
  BY InitConsistent
<1>2. IInv /\ [Next]_vars => IInv'
  BY NextStep
<1>3. IInv /\ [Next]_vars => [SendsAsTold]_vars
  BY NextStep
<1> QED
  BY <1>1, <1>2, <1>3, PTL DEF Spec, SentAsTold, SendsAsTold
=============================================================================

--------------------------- MODULE AccountingProofs -------------------------
(* What the counters of requests add up to, what a percentile is and what  *)
(* a response shows, for any workers, methods, bounds and requests, and    *)
(* any number of crashes, percentiles and responses.                       *)
EXTENDS RequestsView, Sums, SequenceTheorems, TLAPS

-----------------------------------------------------------------------------
(* The indices of the groups of counters, and those that a request adds to. *)
Slots == {SlotOf[w] : w \in Workers}

LEMMA IndexSets ==
    /\ DOMAIN Indices = Single \cup {"method", "latency", "size", "status", "wrequests",
                                     "wbytes", "werrors"}
    /\ \A name \in Single : Indices[name] = {0}
    /\ Indices["method"] = 1 .. Len(Methods) + 1
    /\ Indices["latency"] = 0 .. Len(LatencyBounds)
    /\ Indices["size"] = 0 .. Len(SizeBounds)
    /\ Indices["status"] = 1 .. 5
    /\ \A name \in {"wrequests", "wbytes", "werrors"} : Indices[name] = Slots
BY DEF Indices, Single, Slots

LEMMA Lengths ==
    Len(Methods) \in Nat /\ Len(LatencyBounds) \in Nat /\ Len(SizeBounds) \in Nat
BY AccountingAssumption

LEMMA IndicesFinite == \A name \in DOMAIN Indices : IsFiniteSet(Indices[name])
<1>1. \A a, b \in Int : IsFiniteSet(a .. b)
  BY FS_Interval
<1>2. IsFiniteSet({0})
  BY FS_Singleton
<1>3. IsFiniteSet(Slots)
  <2> DEFINE f == [w \in Workers |-> SlotOf[w]]
  <2>1. IsFiniteSet(Workers)
    BY AccountingAssumption
  <2>2. f \in Surjection(Workers, Slots)
    BY DEF Slots, Surjection
  <2> HIDE DEF f
  <2> QED BY <2>1, <2>2, FS_Surjection
<1>4. /\ IsFiniteSet(1 .. Len(Methods) + 1) /\ IsFiniteSet(0 .. Len(LatencyBounds))
      /\ IsFiniteSet(0 .. Len(SizeBounds)) /\ IsFiniteSet(1 .. 5)
  <2>1. /\ 0 \in Int /\ 1 \in Int /\ 5 \in Int /\ Len(Methods) + 1 \in Int
        /\ Len(LatencyBounds) \in Int /\ Len(SizeBounds) \in Int
    BY Lengths
  <2> QED BY <1>1, <2>1
<1> QED BY <1>2, <1>3, <1>4, IndexSets

LEMMA CounterIn ==
    ASSUME NEW name \in DOMAIN Indices, NEW k \in Indices[name]
    PROVE  <<name, k>> \in Counters
BY DEF Counters

LEMMA CounterOut ==
    ASSUME NEW c \in Counters
    PROVE  c[1] \in DOMAIN Indices /\ c[2] \in Indices[c[1]] /\ c = <<c[1], c[2]>>
BY DEF Counters

(* A bucket is the last one, or the first whose bound is not exceeded.     *)
LEMMA MinIn ==
    ASSUME NEW S, S \subseteq Nat, S # {}
    PROVE  Min(S) \in S /\ \A x \in S : Min(S) <= x
BY NatMin DEF Min

LEMMA BucketFound ==
    ASSUME NEW bounds \in Seq(Nat), NEW n \in Nat
    PROVE  /\ BucketOf(bounds, n) \in 0 .. Len(bounds)
           /\ BucketOf(bounds, n) < Len(bounds) => n <= bounds[BucketOf(bounds, n) + 1]
           /\ \A b \in 1 .. BucketOf(bounds, n) : bounds[b] < n
<1> DEFINE S == {b \in DOMAIN bounds : n <= bounds[b]}
<1>1. DOMAIN bounds = 1 .. Len(bounds) /\ Len(bounds) \in Nat
      /\ \A b \in 1 .. Len(bounds) : bounds[b] \in Nat
  OBVIOUS
<1>2. CASE S = {}
  <2>1. BucketOf(bounds, n) = Len(bounds)
    BY <1>2 DEF BucketOf
  <2> QED BY <1>1, <1>2, <2>1
<1>3. CASE S # {}
  <2>1. BucketOf(bounds, n) = Min(S) - 1
    BY <1>3 DEF BucketOf
  <2>2. Min(S) \in S /\ \A x \in S : Min(S) <= x
    <3>1. S \subseteq Nat
      BY <1>1
    <3> HIDE DEF S
    <3> QED BY <1>3, <3>1, MinIn
  <2>3. Min(S) \in 1 .. Len(bounds) /\ n <= bounds[Min(S)]
    BY <1>1, <2>2
  <2>4. ASSUME NEW b \in 1 .. Min(S) - 1 PROVE bounds[b] < n
    <3>1. b \in 1 .. Len(bounds) /\ b < Min(S)
      BY <1>1, <2>3
    <3>2. b \notin S
      BY <2>2, <2>3, <3>1
    <3> QED BY <1>1, <3>1, <3>2
  <2> HIDE DEF S
  <2>5. (Min(S) - 1) + 1 = Min(S) /\ Min(S) - 1 \in 0 .. Len(bounds)
    BY <1>1, <2>3
  <2> QED BY <2>1, <2>3, <2>4, <2>5
<1> QED BY <1>2, <1>3

LEMMA BoundsType ==
    /\ LatencyBounds \in Seq(Nat) /\ SizeBounds \in Seq(Nat)
    /\ \A b \in DOMAIN LatencyBounds : LatencyBounds[b] \in Nat /\ LatencyBounds[b] <= Slow
<1> DEFINE S == 0 .. Slow
<1>1. \A n \in S : n \in Nat /\ n <= Slow
  BY DEF Slow
<1>2. LatencyBounds \in Seq(S)
  BY AccountingAssumption
<1> HIDE DEF S
<1>3. \A b \in DOMAIN LatencyBounds : LatencyBounds[b] \in S
  BY <1>2
<1>4. LatencyBounds \in Seq(Nat)
  BY <1>1, <1>2, <1>3
<1> QED BY <1>1, <1>3, <1>4, AccountingAssumption

LEMMA RequestFacts ==
    ASSUME NEW r \in Requests
    PROVE  /\ Latency(r) \in Nat /\ Bytes(r) \in Nat
           /\ MethodIndex(r.method) \in 1 .. Len(Methods) + 1
           /\ LatencyBucket(Latency(r)) \in 0 .. Len(LatencyBounds)
           /\ SizeBucket(Bytes(r)) \in 0 .. Len(SizeBounds)
           /\ StatusClass(Status(r)) \in 1 .. 5
<1>1. r \in RequestType
  BY AccountingAssumption
<1>2. Latency(r) \in Nat /\ Bytes(r) \in Nat
  BY <1>1 DEF RequestType, Latency, Bytes
<1>3. MethodIndex(r.method) \in 1 .. Len(Methods) + 1
  <2>1. DOMAIN Methods = 1 .. Len(Methods)
    BY AccountingAssumption
  <2>2. CASE \E k \in DOMAIN Methods : Methods[k] = r.method
    <3>1. MethodIndex(r.method) \in DOMAIN Methods
      BY <2>2 DEF MethodIndex
    <3> QED BY <2>1, <3>1, Lengths
  <2>3. CASE ~\E k \in DOMAIN Methods : Methods[k] = r.method
    BY <2>3, Lengths DEF MethodIndex
  <2> QED BY <2>2, <2>3
<1>4. /\ LatencyBucket(Latency(r)) \in 0 .. Len(LatencyBounds)
      /\ SizeBucket(Bytes(r)) \in 0 .. Len(SizeBounds)
  BY <1>2, BoundsType, BucketFound DEF LatencyBucket, SizeBucket
<1>5. StatusClass(Status(r)) \in 1 .. 5
  BY DEF StatusClass
<1> QED BY <1>2, <1>3, <1>4, <1>5

-----------------------------------------------------------------------------
(* The counters that each request moves by one, in the order in which it   *)
(* does; a list holds those it has not added yet, none of them twice, and  *)
(* with each the ones that come after it.                                  *)
Chain == <<"total", "responses", "method", "latency", "size", "status", "wrequests">>

Addition == [counter : Counters, by : Nat]

Place(a) == CASE a.counter[1] = "total"     -> 1
              [] a.counter[1] = "responses" -> 2
              [] a.counter[1] = "method"    -> 3
              [] a.counter[1] = "latency"   -> 4
              [] a.counter[1] = "size"      -> 5
              [] a.counter[1] = "status"    -> 6
              [] a.counter[1] = "wrequests" -> 7
              [] OTHER                      -> 0

Proper(a, r) ==
    /\ Place(a) > 0 => a.by = 1
    /\ Place(a) = 4 => a.counter = <<"latency", LatencyBucket(Latency(r))>>

Chained(s, n, r) ==
    /\ s \in Seq(Addition)
    /\ \A k \in 1 .. Len(s) : Proper(s[k], r) /\ Place(s[k]) <= n
    /\ \A j, k \in 1 .. Len(s) : Place(s[j]) = Place(s[k]) /\ Place(s[k]) > 0 => j = k
    /\ \A k \in 1 .. Len(s) : Place(s[k]) > 0 /\ Place(s[k]) < n =>
          \E j \in 1 .. Len(s) : j > k /\ Place(s[j]) = Place(s[k]) + 1

Begins(s) == \E k \in 1 .. Len(s) : Place(s[k]) = 1

(* What may be put at the end of a list: additions outside the chain, or   *)
(* the next of the chain and then additions outside it.                    *)
Aside(p) == p \in Seq(Addition) /\ \A k \in 1 .. Len(p) : Place(p[k]) = 0

Follows(p, n, r) ==
    /\ p \in Seq(Addition) /\ Len(p) >= 1
    /\ Place(p[1]) = n /\ Proper(p[1], r)
    /\ \A k \in 2 .. Len(p) : Place(p[k]) = 0

LEMMA PlaceType == \A a : Place(a) \in 0 .. 7
BY DEF Place

LEMMA JoinAside ==
    ASSUME NEW p, NEW q, Aside(q), NEW n, NEW r
    PROVE  Follows(p, n, r) => Follows(p \o q, n, r)
<1> SUFFICES ASSUME Follows(p, n, r) PROVE Follows(p \o q, n, r)
  OBVIOUS
<1>1. p \in Seq(Addition) /\ q \in Seq(Addition) /\ Len(p) >= 1
  BY DEF Follows, Aside
<1>2. /\ p \o q \in Seq(Addition) /\ Len(p \o q) = Len(p) + Len(q)
      /\ Len(p) \in Nat /\ Len(q) \in Nat
      /\ \A k \in 1 .. Len(p) + Len(q) :
            (p \o q)[k] = IF k <= Len(p) THEN p[k] ELSE q[k - Len(p)]
  BY <1>1, ConcatProperties
<1>3. ASSUME NEW k \in 2 .. Len(p) + Len(q) PROVE Place((p \o q)[k]) = 0
  <2>1. CASE k <= Len(p)
    <3>1. k \in 2 .. Len(p) /\ (p \o q)[k] = p[k]
      BY <1>2, <2>1
    <3> QED BY <3>1 DEF Follows
  <2>2. CASE k > Len(p)
    <3>1. k - Len(p) \in 1 .. Len(q) /\ (p \o q)[k] = q[k - Len(p)]
      BY <1>1, <1>2, <2>2
    <3> QED BY <3>1 DEF Aside
  <2> QED BY <1>2, <2>1, <2>2
<1>4. (p \o q)[1] = p[1] /\ Len(p \o q) >= 1
  BY <1>1, <1>2
<1> QED BY <1>2, <1>3, <1>4 DEF Follows

LEMMA BothAside ==
    ASSUME NEW p, NEW q, Aside(p), Aside(q)
    PROVE  Aside(p \o q)
<1>1. p \in Seq(Addition) /\ q \in Seq(Addition)
  BY DEF Aside
<1>2. /\ p \o q \in Seq(Addition) /\ Len(p \o q) = Len(p) + Len(q)
      /\ Len(p) \in Nat /\ Len(q) \in Nat
      /\ \A k \in 1 .. Len(p) + Len(q) :
            (p \o q)[k] = IF k <= Len(p) THEN p[k] ELSE q[k - Len(p)]
  BY <1>1, ConcatProperties
<1>3. ASSUME NEW k \in 1 .. Len(p) + Len(q) PROVE Place((p \o q)[k]) = 0
  <2>1. CASE k <= Len(p)
    <3>1. k \in 1 .. Len(p) /\ (p \o q)[k] = p[k]
      BY <1>2, <2>1
    <3> QED BY <3>1 DEF Aside
  <2>2. CASE k > Len(p)
    <3>1. k - Len(p) \in 1 .. Len(q) /\ (p \o q)[k] = q[k - Len(p)]
      BY <1>1, <1>2, <2>2
    <3> QED BY <3>1 DEF Aside
  <2> QED BY <1>2, <2>1, <2>2
<1> QED BY <1>2, <1>3 DEF Aside

LEMMA JoinChain ==
    ASSUME NEW s, NEW n \in 0 .. 6, NEW r, Chained(s, n, r), Begins(s), NEW p
    PROVE  /\ Aside(p) => Chained(s \o p, n, r) /\ Begins(s \o p)
           /\ Follows(p, n + 1, r) => Chained(s \o p, n + 1, r) /\ Begins(s \o p)
<1> SUFFICES ASSUME NEW m \in {n, n + 1}, \/ m = n /\ Aside(p)
                                          \/ m = n + 1 /\ Follows(p, n + 1, r)
             PROVE  Chained(s \o p, m, r) /\ Begins(s \o p)
  OBVIOUS
<1> DEFINE t == s \o p
           L == Len(s)
<1>1. s \in Seq(Addition) /\ p \in Seq(Addition)
  BY DEF Chained, Aside, Follows
<1>2. /\ t \in Seq(Addition) /\ Len(t) = L + Len(p) /\ L \in Nat /\ Len(p) \in Nat
      /\ \A k \in 1 .. L + Len(p) : t[k] = IF k <= L THEN s[k] ELSE p[k - L]
  BY <1>1, ConcatProperties
<1> HIDE DEF t, L
<1>3. \A k \in 1 .. Len(t) :
         /\ Place(t[k]) \in 0 .. 7
         /\ k <= L => k \in 1 .. L /\ t[k] = s[k] /\ Place(t[k]) <= n
         /\ k > L => k - L \in 1 .. Len(p) /\ t[k] = p[k - L]
  BY <1>2, PlaceType DEF Chained, L
<1>4. ASSUME NEW k \in 1 .. Len(t), k > L, Place(t[k]) > 0
      PROVE  m = n + 1 /\ k = L + 1 /\ Place(t[k]) = n + 1 /\ Proper(t[k], r)
  <2>1. k - L \in 1 .. Len(p) /\ t[k] = p[k - L]
    BY <1>3, <1>4
  <2>2. ~Aside(p)
    BY <1>4, <2>1 DEF Aside
  <2>3. m = n + 1 /\ Follows(p, n + 1, r)
    BY <2>2
  <2>4. k - L \notin 2 .. Len(p)
    BY <1>4, <2>1, <2>3 DEF Follows
  <2>5. k - L = 1 /\ k = L + 1
    BY <1>2, <2>1, <2>4
  <2> QED BY <2>1, <2>3, <2>5 DEF Follows
<1>5. m = n + 1 => L + 1 \in 1 .. Len(t) /\ Place(t[L + 1]) = n + 1
  <2> SUFFICES ASSUME m = n + 1 PROVE L + 1 \in 1 .. Len(t) /\ Place(t[L + 1]) = n + 1
    OBVIOUS
  <2>1. Follows(p, n + 1, r)
    OBVIOUS
  <2>2. Len(p) >= 1 /\ Place(p[1]) = n + 1
    BY <2>1 DEF Follows
  <2>3. L + 1 \in 1 .. Len(t) /\ L + 1 > L /\ (L + 1) - L = 1
    BY <1>2, <2>2
  <2>4. t[L + 1] = p[1]
    BY <1>3, <2>3
  <2> QED BY <2>2, <2>3, <2>4
<1>6. ASSUME NEW k \in 1 .. Len(t) PROVE Proper(t[k], r) /\ Place(t[k]) <= m
  <2>1. CASE k <= L
    <3>1. k \in 1 .. L /\ t[k] = s[k] /\ Place(t[k]) <= n /\ Place(t[k]) \in Int
      BY <1>3, <2>1
    <3>2. Proper(s[k], r)
      BY <3>1 DEF Chained, L
    <3> QED BY <3>1, <3>2
  <2>2. CASE k > L /\ Place(t[k]) > 0
    BY <1>4, <2>2
  <2>3. CASE Place(t[k]) = 0
    BY <2>3 DEF Proper
  <2> QED BY <1>2, <1>3, <2>1, <2>2, <2>3
<1>7. ASSUME NEW j \in 1 .. Len(t), NEW k \in 1 .. Len(t), Place(t[j]) = Place(t[k]),
             Place(t[k]) > 0
      PROVE  j = k
  <2>1. CASE j <= L /\ k <= L
    <3>1. j \in 1 .. L /\ k \in 1 .. L /\ t[j] = s[j] /\ t[k] = s[k]
      BY <1>3, <2>1
    <3> QED BY <1>7, <3>1 DEF Chained, L
  <2>2. CASE j > L /\ k > L
    BY <1>4, <1>7, <2>2
  <2>3. CASE j <= L /\ k > L
    <3>1. Place(t[j]) <= n /\ Place(t[k]) = n + 1
      BY <1>3, <1>4, <1>7, <2>3
    <3> QED BY <1>7, <3>1
  <2>4. CASE j > L /\ k <= L
    <3>1. Place(t[k]) <= n /\ Place(t[j]) = n + 1
      BY <1>3, <1>4, <1>7, <2>4
    <3> QED BY <1>7, <3>1
  <2> QED BY <1>2, <2>1, <2>2, <2>3, <2>4
<1>8. ASSUME NEW k \in 1 .. Len(t), Place(t[k]) > 0, Place(t[k]) < m
      PROVE  \E j \in 1 .. Len(t) : j > k /\ Place(t[j]) = Place(t[k]) + 1
  <2>1. Place(t[k]) \in Int /\ Place(t[k]) <= n
    <3>1. CASE k <= L
      BY <1>3, <3>1
    <3>2. CASE k > L
      BY <1>3, <1>4, <1>8, <3>2
    <3> QED BY <1>2, <3>1, <3>2
  <2>2. k \in 1 .. L /\ t[k] = s[k]
    <3>1. ~(k > L)
      BY <1>4, <1>8, <2>1
    <3> QED BY <1>2, <1>3, <3>1
  <2>3. CASE Place(t[k]) < n
    <3>1. PICK j \in 1 .. L : j > k /\ Place(s[j]) = Place(s[k]) + 1
      BY <1>8, <2>2, <2>3 DEF Chained, L
    <3>2. j \in 1 .. Len(t) /\ t[j] = s[j]
      BY <1>2, <1>3
    <3> QED BY <2>2, <3>1, <3>2
  <2>4. CASE Place(t[k]) = n
    <3>1. m = n + 1 /\ L + 1 > k
      BY <1>2, <1>8, <2>2, <2>4
    <3> QED BY <1>5, <2>4, <3>1
  <2> QED BY <2>1, <2>3, <2>4
<1>9. Begins(t)
  <2>1. PICK k \in 1 .. L : Place(s[k]) = 1
    BY DEF Begins, L
  <2>2. k \in 1 .. Len(t) /\ t[k] = s[k]
    BY <1>2, <1>3
  <2> QED BY <2>1, <2>2 DEF Begins
<1>10. Chained(t, m, r)
  BY <1>2, <1>6, <1>7, <1>8 DEF Chained
<1> QED BY <1>9, <1>10 DEF t

(* The pieces of the list of a request, and the list.                      *)
LEMMA PieceFollows ==
    ASSUME NEW n \in 1 .. 7, NEW k \in Indices[Chain[n]], NEW r,
           n = 4 => k = LatencyBucket(Latency(r))
    PROVE  Follows(One(Chain[n], k), n, r)
<1> DEFINE a == [counter |-> <<Chain[n], k>>, by |-> 1]
<1>1. Chain[n] \in DOMAIN Indices
  BY IndexSets DEF Chain, Single
<1>2. a \in Addition /\ One(Chain[n], k) = <<a>>
  BY <1>1, CounterIn DEF Addition, One
<1>3. a.counter[1] = Chain[n] /\ a.by = 1 /\ a.counter = <<Chain[n], k>>
  OBVIOUS
<1> HIDE DEF a
<1>4. Place(a) = n
  BY <1>3 DEF Place, Chain
<1>5. n = 4 => Chain[n] = "latency"
  BY DEF Chain
<1>6. Proper(a, r)
  BY <1>3, <1>4, <1>5 DEF Proper
<1>7. <<a>> \in Seq(Addition) /\ Len(<<a>>) = 1 /\ <<a>>[1] = a
  BY <1>2
<1> QED BY <1>2, <1>4, <1>6, <1>7 DEF Follows

Other == {"bytes", "time", "ssl_requests", "ssl_handshakes", "keepalive", "wbytes", "werrors"}

LEMMA PieceAside ==
    ASSUME NEW name \in Other, NEW k \in Indices[name], NEW n \in Nat
    PROVE  Aside(Some(name, k, n)) /\ Aside(One(name, k))
<1> SUFFICES ASSUME NEW m \in Nat PROVE Aside(Some(name, k, m))
  BY DEF Some, One
<1> DEFINE a == [counter |-> <<name, k>>, by |-> m]
<1>1. name \in DOMAIN Indices
  BY IndexSets DEF Other, Single
<1>2. a \in Addition /\ Some(name, k, m) = <<a>>
  BY <1>1, CounterIn DEF Addition, Some
<1>3. a.counter[1] = name
  OBVIOUS
<1> HIDE DEF a
<1>4. Place(a) = 0
  BY <1>3 DEF Place, Other
<1>5. <<a>> \in Seq(Addition) /\ Len(<<a>>) = 1 /\ <<a>>[1] = a
  BY <1>2
<1> QED BY <1>2, <1>4, <1>5 DEF Aside

LEMMA EmptyAside == Aside(<<>>)
<1>1. <<>> \in Seq(Addition) /\ Len(<<>>) = 0
  BY EmptySeq
<1> QED BY <1>1 DEF Aside

LEMMA IfAside ==
    ASSUME NEW c, NEW p, Aside(p)
    PROVE  Aside(If(c, p))
BY EmptyAside DEF If

LEMMA WorkerFollows ==
    ASSUME NEW w \in Workers, NEW r \in Requests
    PROVE  Follows(WorkerAdditions(w, r), 7, r)
<1> DEFINE a == One("wrequests", SlotOf[w])
           b == Some("wbytes", SlotOf[w], Bytes(r))
           c == If(Latency(r) > Slow, One("werrors", SlotOf[w]))
           d == If(Status(r) >= 500, One("werrors", SlotOf[w]))
<1>1. WorkerAdditions(w, r) = ((a \o b) \o c) \o d
  BY DEF WorkerAdditions
<1>2. SlotOf[w] \in Indices["wrequests"] /\ SlotOf[w] \in Indices["wbytes"]
      /\ SlotOf[w] \in Indices["werrors"]
  BY IndexSets DEF Slots
<1>3. Follows(a, 7, r)
  <2>1. Chain[7] = "wrequests" /\ 7 \in 1 .. 7 /\ 7 # 4
    BY DEF Chain
  <2>2. Follows(One(Chain[7], SlotOf[w]), 7, r)
    <3>1. SlotOf[w] \in Indices[Chain[7]]
      BY <1>2, <2>1
    <3> QED BY <2>1, <3>1, PieceFollows
  <2> QED BY <2>1, <2>2
<1>4. Aside(b) /\ Aside(One("werrors", SlotOf[w]))
  <2>1. "wbytes" \in Other /\ "werrors" \in Other /\ Bytes(r) \in Nat
    BY RequestFacts DEF Other
  <2> QED BY <1>2, <2>1, PieceAside
<1>5. Aside(c) /\ Aside(d)
  BY <1>4, IfAside
<1> HIDE DEF a, b, c, d
<1>6. Follows(a \o b, 7, r)
  BY <1>3, <1>4, JoinAside
<1>7. Follows((a \o b) \o c, 7, r)
  BY <1>5, <1>6, JoinAside
<1>8. Follows(((a \o b) \o c) \o d, 7, r)
  BY <1>5, <1>7, JoinAside
<1> QED BY <1>1, <1>8

LEMMA FullList ==
    ASSUME NEW w \in Workers, NEW r \in Requests
    PROVE  Chained(Additions(w, r), 7, r) /\ Begins(Additions(w, r))
<1> DEFINE a1 == One("total", 0)
           a2 == One("responses", 0)
           b1 == Some("bytes", 0, Bytes(r))
           b2 == Some("time", 0, Latency(r))
           a3 == One("method", MethodIndex(r.method))
           a4 == One("latency", LatencyBucket(Latency(r)))
           a5 == One("size", SizeBucket(Bytes(r)))
           a6 == One("status", StatusClass(Status(r)))
           b3 == If(r.ssl, One("ssl_requests", 0)
                           \o If(r.nth <= 1, One("ssl_handshakes", 0)))
           b4 == If(r.nth > 1, One("keepalive", 0))
           a7 == WorkerAdditions(w, r)
           Good(s, n) == Chained(s, n, r) /\ Begins(s)
<1>1. Additions(w, r)
      = (((((((((a1 \o a2) \o b1) \o b2) \o a3) \o a4) \o a5) \o a6) \o b3) \o b4) \o a7
  BY DEF Additions
<1>2. /\ 0 \in Indices["total"] /\ 0 \in Indices["responses"] /\ 0 \in Indices["bytes"]
      /\ 0 \in Indices["time"] /\ 0 \in Indices["ssl_requests"]
      /\ 0 \in Indices["ssl_handshakes"] /\ 0 \in Indices["keepalive"]
      /\ MethodIndex(r.method) \in Indices["method"]
      /\ LatencyBucket(Latency(r)) \in Indices["latency"]
      /\ SizeBucket(Bytes(r)) \in Indices["size"]
      /\ StatusClass(Status(r)) \in Indices["status"]
  BY IndexSets, RequestFacts DEF Single
<1>3. /\ Follows(a1, 1, r) /\ Follows(a2, 2, r) /\ Follows(a3, 3, r) /\ Follows(a4, 4, r)
      /\ Follows(a5, 5, r) /\ Follows(a6, 6, r) /\ Follows(a7, 7, r)
  <2>1. /\ Chain[1] = "total" /\ Chain[2] = "responses" /\ Chain[3] = "method"
        /\ Chain[4] = "latency" /\ Chain[5] = "size" /\ Chain[6] = "status"
    BY DEF Chain
  <2>2. \A n \in 1 .. 6 : n \in 1 .. 7
    OBVIOUS
  <2>3. ASSUME NEW n \in 1 .. 6, NEW k \in Indices[Chain[n]],
               n = 4 => k = LatencyBucket(Latency(r))
        PROVE  Follows(One(Chain[n], k), n, r)
    BY <2>2, <2>3, PieceFollows
  <2>4. Follows(a1, 1, r) /\ Follows(a2, 2, r) /\ Follows(a3, 3, r)
    BY <1>2, <2>1, <2>3
  <2>5. Follows(a4, 4, r) /\ Follows(a5, 5, r) /\ Follows(a6, 6, r)
    BY <1>2, <2>1, <2>3
  <2> QED BY <2>4, <2>5, WorkerFollows
<1>4. Aside(b1) /\ Aside(b2) /\ Aside(b3) /\ Aside(b4)
  <2>1. /\ "bytes" \in Other /\ "time" \in Other /\ "ssl_requests" \in Other
        /\ "ssl_handshakes" \in Other /\ "keepalive" \in Other
        /\ Bytes(r) \in Nat /\ Latency(r) \in Nat /\ 0 \in Nat
    BY RequestFacts DEF Other
  <2>2. Aside(b1) /\ Aside(b2)
    BY <1>2, <2>1, PieceAside
  <2>3. /\ Aside(One("ssl_requests", 0)) /\ Aside(One("ssl_handshakes", 0))
        /\ Aside(One("keepalive", 0))
    BY <1>2, <2>1, PieceAside
  <2>4. Aside(If(r.nth <= 1, One("ssl_handshakes", 0))) /\ Aside(b4)
    BY <2>3, IfAside
  <2>5. Aside(One("ssl_requests", 0) \o If(r.nth <= 1, One("ssl_handshakes", 0)))
    BY <2>3, <2>4, BothAside
  <2> QED BY <2>2, <2>4, <2>5, IfAside
<1>5. Good(a1, 1)
  <2>1. a1 \in Seq(Addition) /\ Len(a1) = 1 /\ Place(a1[1]) = 1 /\ Proper(a1[1], r)
    BY <1>3 DEF Follows, One
  <2> HIDE DEF a1
  <2> QED BY <2>1 DEF Chained, Begins
<1> HIDE DEF a1, a2, a3, a4, a5, a6, a7, b1, b2, b3, b4
<1>6. ASSUME NEW s, NEW n \in 0 .. 6, Good(s, n), NEW p
      PROVE  /\ Aside(p) => Good(s \o p, n)
             /\ Follows(p, n + 1, r) => Good(s \o p, n + 1)
  <2>1. Chained(s, n, r) /\ Begins(s)
    BY <1>6
  <2> QED BY <2>1, JoinChain
<1> HIDE DEF Good
<1>7. \A s, p : (Good(s, 1) => (Follows(p, 2, r) => Good(s \o p, 2)))
      /\ (Good(s, 2) => (Follows(p, 3, r) => Good(s \o p, 3)))
      /\ (Good(s, 3) => (Follows(p, 4, r) => Good(s \o p, 4)))
      /\ (Good(s, 4) => (Follows(p, 5, r) => Good(s \o p, 5)))
      /\ (Good(s, 5) => (Follows(p, 6, r) => Good(s \o p, 6)))
      /\ (Good(s, 6) => (Follows(p, 7, r) => Good(s \o p, 7)))
  <2>1. \A n \in 0 .. 6 : \A s, p : Good(s, n) /\ Follows(p, n + 1, r) => Good(s \o p, n + 1)
    BY <1>6
  <2>2. 1 + 1 = 2 /\ 2 + 1 = 3 /\ 3 + 1 = 4 /\ 4 + 1 = 5 /\ 5 + 1 = 6 /\ 6 + 1 = 7
    OBVIOUS
  <2>3. {1, 2, 3, 4, 5, 6} \subseteq 0 .. 6
    OBVIOUS
  <2> QED BY <2>1, <2>2, <2>3
<1>8. \A s, p : Aside(p) => /\ (Good(s, 2) => Good(s \o p, 2))
                            /\ (Good(s, 6) => Good(s \o p, 6))
  <2>1. 2 \in 0 .. 6 /\ 6 \in 0 .. 6
    OBVIOUS
  <2> QED BY <1>6, <2>1
<1>9. Good(((a1 \o a2) \o b1) \o b2, 2)
  BY <1>3, <1>4, <1>5, <1>7, <1>8
<1>10. Good(((((((a1 \o a2) \o b1) \o b2) \o a3) \o a4) \o a5) \o a6, 6)
  BY <1>3, <1>7, <1>9
<1>11. Good((((((((((a1 \o a2) \o b1) \o b2) \o a3) \o a4) \o a5) \o a6) \o b3) \o b4) \o a7, 7)
  BY <1>3, <1>4, <1>7, <1>8, <1>10
<1> QED BY <1>1, <1>11 DEF Good

(* A list that holds an addition of the chain holds the ones after it, and *)
(* taking the first away takes that one away.                              *)
Has(s, n) == \E k \in 1 .. Len(s) : Place(s[k]) = n

LEMMA HasNext ==
    ASSUME NEW s, NEW r, Chained(s, 7, r)
    PROVE  \A n \in 1 .. 6 : Has(s, n) => Has(s, n + 1)
<1> SUFFICES ASSUME NEW n \in 1 .. 6, NEW k \in 1 .. Len(s), Place(s[k]) = n
             PROVE  Has(s, n + 1)
  BY DEF Has
<1> QED BY DEF Chained, Has

LEMMA HasAll ==
    ASSUME NEW s, NEW r, Chained(s, 7, r)
    PROVE  \A n \in 1 .. 7 : (Has(s, 1) => Has(s, n)) /\ (Has(s, n) => Has(s, 7))
<1>1. /\ Has(s, 1) => Has(s, 2)
      /\ Has(s, 2) => Has(s, 3)
      /\ Has(s, 3) => Has(s, 4)
      /\ Has(s, 4) => Has(s, 5)
      /\ Has(s, 5) => Has(s, 6)
      /\ Has(s, 6) => Has(s, 7)
  <2>1. \A n \in 1 .. 6 : Has(s, n) => Has(s, n + 1)
    BY HasNext
  <2>2. 1 + 1 = 2 /\ 2 + 1 = 3 /\ 3 + 1 = 4 /\ 4 + 1 = 5 /\ 5 + 1 = 6 /\ 6 + 1 = 7
    OBVIOUS
  <2>3. {1, 2, 3, 4, 5, 6} \subseteq 1 .. 6
    OBVIOUS
  <2> QED BY <2>1, <2>2, <2>3
<1>2. \A n \in 1 .. 7 : n \in {1, 2, 3, 4, 5, 6, 7}
  OBVIOUS
<1> QED BY <1>1, <1>2

LEMMA TailChained ==
    ASSUME NEW s, NEW r, Chained(s, 7, r), s # <<>>
    PROVE  /\ Head(s) \in Addition /\ Proper(Head(s), r) /\ Chained(Tail(s), 7, r)
           /\ \A n \in 1 .. 7 : Has(Tail(s), n) <=> Has(s, n) /\ Place(Head(s)) # n
           /\ \A n \in 1 .. 7 : Place(Head(s)) = n => Has(s, n)
<1> DEFINE t == Tail(s)
<1>1. s \in Seq(Addition)
  BY DEF Chained
<1>2. /\ Len(s) \in Nat /\ Len(s) > 0 /\ Head(s) = s[1] /\ Head(s) \in Addition
      /\ t \in Seq(Addition) /\ Len(t) = Len(s) - 1
      /\ \A j \in 1 .. Len(t) : t[j] = s[j + 1]
  BY <1>1, EmptySeq, HeadTailProperties
<1> HIDE DEF t
<1>3. 1 \in 1 .. Len(s) /\ \A j \in 1 .. Len(t) : j + 1 \in 1 .. Len(s) /\ j + 1 # 1
  BY <1>2
<1>4. \A k \in 1 .. Len(s) : k = 1 \/ (k - 1 \in 1 .. Len(t) /\ t[k - 1] = s[k])
  <2> SUFFICES ASSUME NEW k \in 1 .. Len(s), k # 1
               PROVE  k - 1 \in 1 .. Len(t) /\ t[k - 1] = s[k]
    OBVIOUS
  <2>1. k - 1 \in 1 .. Len(t) /\ (k - 1) + 1 = k
    BY <1>2
  <2> QED BY <1>2, <2>1
<1>5. \A k \in 1 .. Len(t) : Proper(t[k], r) /\ Place(t[k]) <= 7
  BY <1>2, <1>3 DEF Chained
<1>6. \A j, k \in 1 .. Len(t) : Place(t[j]) = Place(t[k]) /\ Place(t[k]) > 0 => j = k
  <2> SUFFICES ASSUME NEW j \in 1 .. Len(t), NEW k \in 1 .. Len(t),
                      Place(t[j]) = Place(t[k]), Place(t[k]) > 0
               PROVE  j = k
    OBVIOUS
  <2>1. /\ j + 1 \in 1 .. Len(s) /\ k + 1 \in 1 .. Len(s)
        /\ Place(s[j + 1]) = Place(s[k + 1]) /\ Place(s[k + 1]) > 0
    BY <1>2, <1>3
  <2>2. j + 1 = k + 1
    BY <2>1 DEF Chained
  <2> QED BY <2>2
<1>7. \A k \in 1 .. Len(t) : Place(t[k]) > 0 /\ Place(t[k]) < 7 =>
         \E j \in 1 .. Len(t) : j > k /\ Place(t[j]) = Place(t[k]) + 1
  <2> SUFFICES ASSUME NEW k \in 1 .. Len(t), Place(t[k]) > 0, Place(t[k]) < 7
               PROVE  \E j \in 1 .. Len(t) : j > k /\ Place(t[j]) = Place(t[k]) + 1
    OBVIOUS
  <2>1. k + 1 \in 1 .. Len(s) /\ s[k + 1] = t[k]
    BY <1>2, <1>3
  <2>2. PICK j \in 1 .. Len(s) : j > k + 1 /\ Place(s[j]) = Place(s[k + 1]) + 1
    BY <2>1 DEF Chained
  <2>3. j # 1 /\ j - 1 > k
    BY <2>2
  <2>4. j - 1 \in 1 .. Len(t) /\ t[j - 1] = s[j]
    BY <1>4, <2>3
  <2> QED BY <2>1, <2>2, <2>3, <2>4
<1>8. Chained(t, 7, r)
  BY <1>2, <1>5, <1>6, <1>7 DEF Chained
<1>9. ASSUME NEW n \in 1 .. 7 PROVE Has(t, n) <=> Has(s, n) /\ Place(Head(s)) # n
  <2>1. ASSUME Has(t, n) PROVE Has(s, n) /\ Place(Head(s)) # n
    <3>1. PICK k \in 1 .. Len(t) : Place(t[k]) = n
      BY <2>1 DEF Has
    <3>2. k + 1 \in 1 .. Len(s) /\ k + 1 # 1 /\ Place(s[k + 1]) = n
      BY <1>2, <1>3, <3>1
    <3>3. Place(s[1]) # n
      BY <1>3, <3>2 DEF Chained
    <3> QED BY <1>2, <3>2, <3>3 DEF Has
  <2>2. ASSUME Has(s, n), Place(Head(s)) # n PROVE Has(t, n)
    <3>1. PICK k \in 1 .. Len(s) : Place(s[k]) = n
      BY <2>2 DEF Has
    <3>2. k # 1
      BY <1>2, <2>2, <3>1
    <3> QED BY <1>4, <3>1, <3>2 DEF Has
  <2> QED BY <2>1, <2>2
<1>10. Proper(Head(s), r) /\ \A n \in 1 .. 7 : Place(Head(s)) = n => Has(s, n)
  BY <1>2, <1>3 DEF Chained, Has
<1> QED BY <1>2, <1>8, <1>9, <1>10 DEF t

(* A request moves one counter of each group of the chain, by one.         *)
Bys(s)    == [k \in DOMAIN s |-> s[k].by]
At(s, c)  == {k \in DOMAIN s : s[k].counter = c}

LEMMA AddedSum ==
    \A w, r, c : Added(w, r, c) = Sum(Bys(Additions(w, r)), At(Additions(w, r), c))
<1>1. ASSUME NEW s, NEW T \in SUBSET DOMAIN s
      PROVE  MapThenSumSet(LAMBDA k : s[k].by, T) = Sum(Bys(s), T)
  BY DEF Sum, Bys, MapThenSumSet, MapThenFoldSet
<1> QED BY <1>1 DEF Added, At

LEMMA PlaceOf ==
    ASSUME NEW a \in Addition, NEW n \in 1 .. 7
    PROVE  Place(a) = n <=> a.counter[1] = Chain[n]
BY DEF Place, Chain

LEMMA AdditionFacts ==
    ASSUME NEW s \in Seq(Addition)
    PROVE  /\ DOMAIN s = 1 .. Len(s) /\ Len(s) \in Nat
           /\ \A k \in DOMAIN s : s[k].counter \in Counters /\ s[k].by \in Nat
<1>1. DOMAIN s = 1 .. Len(s) /\ Len(s) \in Nat /\ \A k \in DOMAIN s : s[k] \in Addition
  OBVIOUS
<1>2. \A a \in Addition : a.counter \in Counters /\ a.by \in Nat
  BY DEF Addition
<1> QED BY <1>1, <1>2

LEMMA AddedType ==
    ASSUME NEW w \in Workers, NEW r \in Requests
    PROVE  \A c : Added(w, r, c) \in Nat
<1> SUFFICES ASSUME NEW c PROVE Added(w, r, c) \in Nat
  OBVIOUS
<1> DEFINE s == Additions(w, r)
<1>1. s \in Seq(Addition)
  BY FullList DEF Chained
<1> HIDE DEF s
<1>2. DOMAIN s = 1 .. Len(s) /\ Len(s) \in Nat /\ \A k \in DOMAIN s : s[k].by \in Nat
  BY <1>1, AdditionFacts
<1>3. IsFiniteSet(At(s, c)) /\ \A k \in At(s, c) : Bys(s)[k] \in Nat
  <2>1. IsFiniteSet(1 .. Len(s))
    BY <1>2, FS_Interval
  <2>2. At(s, c) \in SUBSET (1 .. Len(s))
    BY <1>2 DEF At
  <2> QED BY <1>2, <2>1, <2>2, FS_Subset DEF At, Bys
<1>4. Sum(Bys(s), At(s, c)) \in Nat
  BY <1>3, SumType
<1> QED BY <1>4, AddedSum DEF s

LEMMA AddedOne ==
    ASSUME NEW w \in Workers, NEW r \in Requests, NEW n \in 1 .. 7
    PROVE  \E x \in Indices[Chain[n]] :
              /\ \A k \in Indices[Chain[n]] :
                    Added(w, r, <<Chain[n], k>>) = IF k = x THEN 1 ELSE 0
              /\ n = 4 => x = LatencyBucket(Latency(r))
<1> DEFINE s == Additions(w, r)
<1>1. Chained(s, 7, r) /\ Has(s, 1)
  BY FullList DEF Begins, Has
<1> HIDE DEF s
<1>2. PICK j \in 1 .. Len(s) : Place(s[j]) = n
  BY <1>1, HasAll DEF Has
<1>3. /\ s \in Seq(Addition) /\ DOMAIN s = 1 .. Len(s) /\ Len(s) \in Nat
      /\ \A k \in 1 .. Len(s) : s[k] \in Addition
  BY <1>1 DEF Chained
<1> DEFINE x == s[j].counter[2]
<1>4. s[j].counter = <<Chain[n], x>> /\ x \in Indices[Chain[n]] /\ s[j].by = 1
  <2>1. s[j].counter[1] = Chain[n] /\ s[j].counter \in Counters
    BY <1>2, <1>3, PlaceOf DEF Addition
  <2> QED BY <1>1, <1>2, <2>1, CounterOut DEF Chained, Proper
<1>5. n = 4 => x = LatencyBucket(Latency(r))
  <2> SUFFICES ASSUME n = 4 PROVE x = LatencyBucket(Latency(r))
    OBVIOUS
  <2>1. s[j].counter = <<"latency", LatencyBucket(Latency(r))>>
    BY <1>1, <1>2 DEF Chained, Proper
  <2> QED BY <1>4, <2>1
<1> HIDE DEF x
<1>6. ASSUME NEW k \in Indices[Chain[n]] PROVE At(s, <<Chain[n], k>>) = IF k = x THEN {j} ELSE {}
  <2>1. ASSUME NEW i \in 1 .. Len(s), s[i].counter = <<Chain[n], k>> PROVE i = j /\ k = x
    <3>1. Place(s[i]) = n
      BY <1>3, <2>1, PlaceOf
    <3>2. i = j
      BY <1>1, <1>2, <3>1 DEF Chained
    <3>3. <<Chain[n], k>> = <<Chain[n], x>>
      BY <1>4, <2>1, <3>2
    <3> QED BY <3>2, <3>3
  <2>2. k = x => s[j].counter = <<Chain[n], k>>
    BY <1>4
  <2>3. CASE k = x
    <3>1. j \in At(s, <<Chain[n], k>>)
      BY <1>3, <2>2, <2>3 DEF At
    <3>2. \A i \in At(s, <<Chain[n], k>>) : i = j
      BY <1>3, <2>1 DEF At
    <3> QED BY <2>3, <3>1, <3>2
  <2>4. CASE k # x
    <3>1. \A i : i \notin At(s, <<Chain[n], k>>)
      BY <1>3, <2>1, <2>4 DEF At
    <3> QED BY <2>4, <3>1
  <2> QED BY <2>3, <2>4
<1>7. Sum(Bys(s), {j}) = 1
  <2>1. IsFiniteSet({j}) /\ {j} \ {j} = {}
    BY FS_Singleton
  <2>2. Bys(s)[j] = 1
    BY <1>3, <1>4 DEF Bys
  <2>3. \A i \in {j} : Bys(s)[i] \in Nat
    BY <2>2
  <2>4. Sum(Bys(s), {j}) = Bys(s)[j] + Sum(Bys(s), {j} \ {j})
    BY <2>1, <2>3, SumRemove
  <2>5. Sum(Bys(s), {j} \ {j}) = 0
    BY <2>1, SumEmpty
  <2> QED BY <2>2, <2>4, <2>5
<1>8. ASSUME NEW k \in Indices[Chain[n]]
      PROVE  Added(w, r, <<Chain[n], k>>) = IF k = x THEN 1 ELSE 0
  <2>1. Added(w, r, <<Chain[n], k>>) = Sum(Bys(s), At(s, <<Chain[n], k>>))
    BY AddedSum DEF s
  <2> QED BY <1>6, <1>7, <2>1, SumEmpty
<1> QED BY <1>4, <1>5, <1>8
-----------------------------------------------------------------------------
(* Typing: what a worker has left to add is the rest of a list.            *)
Latencies == {Latency(r) : r \in Requests}

ListInv == \A w \in Workers : Chained(todo[w], 7, req[w])

Typed ==
    /\ TypeOK
    /\ todo \in [Workers -> Seq(Addition)]
    /\ observed \in [Latencies -> Nat]
    /\ ListInv

LEMMA LatenciesFinite == IsFiniteSet(Latencies) /\ Latencies \subseteq Nat
<1> DEFINE f == [r \in Requests |-> Latency(r)]
<1>1. IsFiniteSet(Requests)
  BY AccountingAssumption
<1>2. f \in Surjection(Requests, Latencies)
  BY DEF Latencies, Surjection
<1> HIDE DEF f
<1>3. IsFiniteSet(Latencies)
  BY <1>1, <1>2, FS_Surjection
<1> QED BY <1>3, RequestFacts DEF Latencies

LEMMA EarlierFinite == \A s \in SUBSET Earlier :
    IsFiniteSet(s) /\ s \subseteq Requests /\ Cardinality(s) \in Nat
BY AccountingAssumption, FS_Subset, FS_CardinalityType

LEMMA EmptyChained == \A r : Chained(<<>>, 7, r) /\ \A n \in 1 .. 7 : ~Has(<<>>, n)
<1>1. <<>> \in Seq(Addition) /\ Len(<<>>) = 0
  BY EmptySeq
<1> QED BY <1>1 DEF Chained, Has

AddedIn(w, s, c) == [r \in s |-> Added(w, r, c)]

LEMMA InitCounts ==
    Init => \E s \in SUBSET Earlier, w \in Workers :
              /\ count = [c \in Counters |-> Sum(AddedIn(w, s, c), s)]
              /\ observed = [ms \in Latencies |-> Cardinality({r \in s : Latency(r) = ms})]
<1>1. ASSUME NEW w, NEW s, NEW c PROVE AddedBy(w, s, c) = Sum(AddedIn(w, s, c), s)
  BY DEF AddedBy, Sum, AddedIn, MapThenSumSet, MapThenFoldSet
<1> SUFFICES ASSUME Init
             PROVE  \E s \in SUBSET Earlier, w \in Workers :
                      /\ count = [c \in Counters |-> Sum(AddedIn(w, s, c), s)]
                      /\ observed = [ms \in Latencies |-> Cardinality({r \in s : Latency(r) = ms})]
  OBVIOUS
<1>2. PICK s \in SUBSET Earlier, w \in Workers :
         /\ count = [c \in Counters |-> AddedBy(w, s, c)]
         /\ observed = [ms \in Latencies |-> Cardinality({r \in s : Latency(r) = ms})]
  BY DEF Init, Latencies
<1>3. count = [c \in Counters |-> Sum(AddedIn(w, s, c), s)]
  BY <1>1, <1>2
<1> QED BY <1>2, <1>3

LEMMA InitTyped == Init => Typed
<1> SUFFICES ASSUME Init PROVE Typed
  OBVIOUS
<1>1. PICK s \in SUBSET Earlier, w \in Workers :
        /\ count = [c \in Counters |-> Sum(AddedIn(w, s, c), s)]
        /\ observed = [ms \in Latencies |-> Cardinality({r \in s : Latency(r) = ms})]
  BY InitCounts
<1>2. IsFiniteSet(s) /\ s \subseteq Requests
  BY EarlierFinite
<1>3. \A c : Sum(AddedIn(w, s, c), s) \in Nat
  <2> SUFFICES ASSUME NEW c PROVE Sum(AddedIn(w, s, c), s) \in Nat
    OBVIOUS
  <2>1. \A r \in s : AddedIn(w, s, c)[r] \in Nat
    BY <1>2, AddedType DEF AddedIn
  <2> QED BY <1>2, <2>1, SumType
<1>4. observed \in [Latencies -> Nat]
  <2>1. \A ms : Cardinality({r \in s : Latency(r) = ms}) \in Nat
    <3> SUFFICES ASSUME NEW ms PROVE Cardinality({r \in s : Latency(r) = ms}) \in Nat
      OBVIOUS
    <3>1. {r \in s : Latency(r) = ms} \in SUBSET s
      OBVIOUS
    <3> QED BY <1>2, <3>1, FS_Subset, FS_CardinalityType
  <2> QED BY <1>1, <2>1
<1>5. NoRequest \in Requests
  BY AccountingAssumption DEF NoRequest
<1>6. count \in [Counters -> Nat]
  BY <1>1, <1>3
<1>7. todo \in [Workers -> Seq(Addition)] /\ \A v \in Workers : todo[v] = <<>>
  BY EmptySeq DEF Init
<1>8. TypeOK
  <2>1. \A v \in Workers : DOMAIN todo[v] = {}
    BY <1>7
  <2>2. /\ 0 \in 0 .. MaxRequests /\ 0 \in 0 .. MaxCrashes /\ 0 \in 0 .. MaxReads
        /\ 0 \in 0 .. Last + 1
    BY Lengths, AccountingAssumption DEF Last
  <2> QED BY <1>5, <1>6, <2>1, <2>2 DEF Init, TypeOK
<1> QED BY <1>4, <1>7, <1>8, EmptyChained DEF Typed, ListInv

LEMMA FromList ==
    ASSUME NEW s \in Seq(Addition)
    PROVE  \A k \in DOMAIN s : s[k].counter \in Counters
BY AdditionFacts

(* The requests and their additions: all that a worker does.               *)
LEMMA StepAdd ==
    ASSUME Typed, NEW w \in Workers, AddNext(w)
    PROVE  /\ Head(todo[w]) \in Addition /\ Proper(Head(todo[w]), req[w])
           /\ count' = [count EXCEPT ![Head(todo[w]).counter] = @ + Head(todo[w]).by]
           /\ todo' = [todo EXCEPT ![w] = Tail(todo[w])]
           /\ req' \in [Workers -> Requests] /\ \A v \in Workers \ {w} : req'[v] = req[v]
           /\ todo[w] # <<>> /\ Chained(todo[w], 7, req[w])
           /\ Chained(Tail(todo[w]), 7, req'[w])
           /\ count' \in [Counters -> Nat]
<1>1. /\ todo[w] # <<>> /\ Chained(todo[w], 7, req[w])
      /\ req' = IF Tail(todo[w]) = <<>> THEN [req EXCEPT ![w] = NoRequest] ELSE req
      /\ todo' = [todo EXCEPT ![w] = Tail(todo[w])]
      /\ count' = [count EXCEPT ![Head(todo[w]).counter] = @ + Head(todo[w]).by]
  BY DEF AddNext, Typed, ListInv, Busy
<1>2. /\ Head(todo[w]) \in Addition /\ Proper(Head(todo[w]), req[w])
      /\ Chained(Tail(todo[w]), 7, req[w])
  BY <1>1, TailChained
<1>3. Chained(Tail(todo[w]), 7, req'[w])
  <2>1. CASE Tail(todo[w]) = <<>>
    BY <2>1, EmptyChained
  <2>2. CASE Tail(todo[w]) # <<>>
    BY <1>1, <1>2, <2>2
  <2> QED BY <2>1, <2>2
<1>4. NoRequest \in Requests /\ req \in [Workers -> Requests]
  BY AccountingAssumption DEF NoRequest, Typed, TypeOK
<1>5. req' \in [Workers -> Requests] /\ \A v \in Workers \ {w} : req'[v] = req[v]
  BY <1>1, <1>4
<1>6. count' \in [Counters -> Nat]
  <2>1. Head(todo[w]).counter \in Counters /\ Head(todo[w]).by \in Nat
    BY <1>2 DEF Addition
  <2>2. count \in [Counters -> Nat]
    BY DEF Typed, TypeOK
  <2> QED BY <1>1, <2>1, <2>2
<1> QED BY <1>1, <1>2, <1>3, <1>5, <1>6

LEMMA BucketCounter == \A b \in 0 .. Last : <<"latency", b>> \in Counters
<1>1. "latency" \in DOMAIN Indices /\ Indices["latency"] = 0 .. Last
  BY IndexSets DEF Last
<1> QED BY <1>1, CounterIn

LEMMA StepTyped == Typed /\ [Next]_vars => Typed'
<1> SUFFICES ASSUME Typed, [Next]_vars PROVE Typed'
  OBVIOUS
<1>t. /\ count \in [Counters -> Nat] /\ req \in [Workers -> Requests]
      /\ todo \in [Workers -> Seq(Addition)] /\ observed \in [Latencies -> Nat]
      /\ reqs \in 0 .. MaxRequests /\ crashes \in 0 .. MaxCrashes
      /\ rpc \in {"idle", "sum", "find", "answered"}
      /\ ri \in 0 .. Last + 1 /\ rtotal \in Nat /\ rcount \in Nat
      /\ rp \in Percentiles \cup {0} /\ result \in Nat /\ reads \in 0 .. MaxReads
      /\ undisturbed \in BOOLEAN /\ Last \in Nat
      /\ MaxRequests \in Nat /\ MaxCrashes \in Nat /\ MaxReads \in Nat
  BY AccountingAssumption, Lengths DEF Typed, TypeOK, Last
<1>n. NoRequest \in Requests
  BY AccountingAssumption DEF NoRequest
<1>l. todo' \in [Workers -> Seq(Addition)] =>
         \A w \in Workers : \A k \in DOMAIN todo'[w] : todo'[w][k].counter \in Counters
  BY FromList
<1>1. ASSUME NEW w \in Workers, LogHandler(w) PROVE Typed'
  <2>1. /\ UNCHANGED <<count, crashes, reader, observed>> /\ reqs' = reqs + 1
        /\ reqs < MaxRequests
    BY <1>1 DEF LogHandler
  <2>2. /\ todo' \in [Workers -> Seq(Addition)] /\ req' \in [Workers -> Requests]
        /\ \A v \in Workers : Chained(todo'[v], 7, req'[v])
    <3>1. PICK r \in Requests :
             \/ UNCHANGED <<req, todo>>
             \/ /\ req' = [req EXCEPT ![w] = r]
                /\ todo' = [todo EXCEPT ![w] = Additions(w, r)]
      BY <1>1 DEF LogHandler
    <3>2. Chained(Additions(w, r), 7, r) /\ Additions(w, r) \in Seq(Addition)
      BY FullList DEF Chained
    <3> QED BY <1>t, <3>1, <3>2 DEF Typed, ListInv
  <2>3. reqs' \in 0 .. MaxRequests
    BY <1>t, <2>1
  <2> QED BY <1>t, <1>l, <2>1, <2>2, <2>3 DEF Typed, TypeOK, ListInv, reader
<1>2. ASSUME NEW w \in Workers, AddNext(w) PROVE Typed'
  <2>1. /\ todo' = [todo EXCEPT ![w] = Tail(todo[w])] /\ Chained(Tail(todo[w]), 7, req'[w])
        /\ req' \in [Workers -> Requests] /\ \A v \in Workers \ {w} : req'[v] = req[v]
        /\ count' \in [Counters -> Nat]
    BY <1>2, StepAdd
  <2>2. Tail(todo[w]) \in Seq(Addition)
    BY <2>1 DEF Chained
  <2>3. todo' \in [Workers -> Seq(Addition)] /\ \A v \in Workers : Chained(todo'[v], 7, req'[v])
    BY <1>t, <2>1, <2>2 DEF Typed, ListInv
  <2>4. /\ UNCHANGED <<reqs, crashes, rpc, ri, rtotal, rcount, rp, result, reads>>
        /\ undisturbed' \in BOOLEAN
        /\ observed' = observed \/ observed' = [observed EXCEPT ![Latency(req[w])] = @ + 1]
    BY <1>2, <1>t DEF AddNext
  <2>5. observed' \in [Latencies -> Nat]
    BY <1>t, <2>4
  <2> QED BY <1>t, <1>l, <2>1, <2>3, <2>4, <2>5 DEF Typed, TypeOK, ListInv
<1>3. ASSUME NEW w \in Workers, Crash(w) PROVE Typed'
  <2>1. /\ UNCHANGED <<count, reqs, reader, observed>> /\ crashes' = crashes + 1
        /\ crashes < MaxCrashes
        /\ todo' = [todo EXCEPT ![w] = <<>>] /\ req' = [req EXCEPT ![w] = NoRequest]
    BY <1>3 DEF Crash
  <2>2. /\ todo' \in [Workers -> Seq(Addition)] /\ req' \in [Workers -> Requests]
        /\ \A v \in Workers : Chained(todo'[v], 7, req'[v])
    BY <1>t, <1>n, <2>1, EmptyChained, EmptySeq DEF Typed, ListInv
  <2>3. crashes' \in 0 .. MaxCrashes
    BY <1>t, <2>1
  <2> QED BY <1>t, <1>l, <2>1, <2>2, <2>3 DEF Typed, TypeOK, ListInv, reader
<1>4. ASSUME UNCHANGED Rest, /\ rpc' \in {"idle", "sum", "find", "answered"}
                             /\ ri' \in 0 .. Last + 1 /\ rtotal' \in Nat /\ rcount' \in Nat
                             /\ rp' \in Percentiles \cup {0} /\ result' \in Nat
                             /\ reads' \in 0 .. MaxReads /\ undisturbed' \in BOOLEAN
      PROVE  Typed'
  BY <1>t, <1>4, <1>l DEF Typed, TypeOK, ListInv, Rest
<1>5. CASE Percentile
  <2>1. reads' \in 0 .. MaxReads
    BY <1>t, <1>5 DEF Percentile
  <2> QED BY <1>t, <1>4, <1>5, <2>1 DEF Percentile
<1>6. CASE SumBucket
  <2>1. InBucket(ri) \in Nat
    BY <1>t, <1>6, BucketCounter DEF SumBucket, InBucket
  <2>2. rtotal' \in Nat /\ ri' \in 0 .. Last + 1
    BY <1>t, <1>6, <2>1 DEF SumBucket
  <2> QED BY <1>t, <1>4, <1>6, <2>2 DEF SumBucket
<1>7. CASE SumDone
  BY <1>t, <1>4, <1>7 DEF SumDone, Answer
<1>8. CASE FindBucket
  <2>1. InBucket(ri) \in Nat
    BY <1>t, <1>8, BucketCounter DEF FindBucket, InBucket
  <2>2. rcount' \in Nat
    BY <1>t, <1>8, <2>1 DEF FindBucket
  <2>3. LatencyBounds[ri + 1] \in Nat
    <3>1. ri + 1 \in DOMAIN LatencyBounds
      BY <1>t, <1>8, BoundsType DEF FindBucket, Last
    <3> QED BY <3>1, BoundsType
  <2>4. ri' \in 0 .. Last + 1 /\ result' \in Nat /\ rpc' \in {"find", "answered"}
    BY <1>t, <1>8, <2>3 DEF FindBucket, Answer
  <2> QED BY <1>t, <1>4, <1>8, <2>2, <2>4 DEF FindBucket
<1>9. CASE FindNone
  BY <1>t, <1>4, <1>9 DEF FindNone, Answer, Slow
<1>10. CASE ReadDone
  BY <1>t, <1>4, <1>10 DEF ReadDone
<1>11. CASE UNCHANGED vars
  BY <1>t, <1>4, <1>11 DEF vars, reader, Rest
<1> QED BY <1>1, <1>2, <1>3, <1>5, <1>6, <1>7, <1>8, <1>9, <1>10, <1>11 DEF Next
-----------------------------------------------------------------------------
(* The sums of the groups, as functions of the counters.                   *)
GroupOf(c, name) == [k \in Indices[name] |-> c[<<name, k>>]]
SumOf(c, name)   == Sum(GroupOf(c, name), Indices[name])

LEMMA TotalIs ==
    ASSUME NEW name
    PROVE  TotalOf(name) = SumOf(count, name) /\ TotalOf(name)' = SumOf(count', name)
<1>1. TotalOf(name) = SumOf(count, name)
  BY DEF TotalOf, SumOf, Sum, GroupOf, MapThenSumSet, MapThenFoldSet
<1>2. TotalOf(name)' = SumOf(count', name)
  BY DEF TotalOf, SumOf, Sum, GroupOf, MapThenSumSet, MapThenFoldSet
<1> QED BY <1>1, <1>2

LEMMA SumOfType ==
    ASSUME NEW c \in [Counters -> Nat], NEW name \in DOMAIN Indices
    PROVE  /\ \A k \in Indices[name] : GroupOf(c, name)[k] = c[<<name, k>>]
                                       /\ c[<<name, k>>] \in Nat
           /\ SumOf(c, name) \in Nat
<1>1. IsFiniteSet(Indices[name])
  BY IndicesFinite
<1>2. \A k \in Indices[name] : GroupOf(c, name)[k] = c[<<name, k>>] /\ c[<<name, k>>] \in Nat
  BY CounterIn DEF GroupOf
<1>3. SumOf(c, name) \in Nat
  <2> DEFINE f == GroupOf(c, name)
  <2>1. \A k \in Indices[name] : f[k] \in Nat
    BY <1>2
  <2> HIDE DEF f
  <2>2. Sum(f, Indices[name]) \in Nat
    BY <1>1, <2>1, SumType
  <2> QED BY <2>2 DEF f, SumOf
<1> QED BY <1>2, <1>3

LEMMA SumOfAdd ==
    ASSUME NEW c \in [Counters -> Nat], NEW x \in Counters, NEW m \in Nat,
           NEW d \in [Counters -> Nat], d[x] = c[x] + m,
           \A y \in Counters : y # x => d[y] = c[y], NEW name \in DOMAIN Indices
    PROVE  SumOf(d, name) = IF x[1] = name THEN SumOf(c, name) + m ELSE SumOf(c, name)
<1> DEFINE f == GroupOf(c, name)
           g == GroupOf(d, name)
           S == Indices[name]
<1>1. d \in [Counters -> Nat]
  OBVIOUS
<1>2. /\ \A k \in S : f[k] = c[<<name, k>>] /\ c[<<name, k>>] \in Nat
      /\ \A k \in S : g[k] = d[<<name, k>>] /\ d[<<name, k>>] \in Nat
      /\ SumOf(c, name) \in Nat /\ SumOf(d, name) \in Nat
  BY <1>1, SumOfType
<1>3. \A k \in S : <<name, k>> \in Counters
  BY CounterIn
<1>4. IsFiniteSet(S) /\ x = <<x[1], x[2]>> /\ x[2] \in Indices[x[1]]
  BY IndicesFinite, CounterOut
<1>5. SumOf(c, name) = Sum(f, S) /\ SumOf(d, name) = Sum(g, S)
  BY DEF SumOf
<1> HIDE DEF f, g, S
<1>6. CASE x[1] # name
  <2>1. \A k \in S : <<name, k>> # x
    BY <1>6
  <2>2. \A k \in S : c[<<name, k>>] = d[<<name, k>>]
    BY <1>3, <2>1
  <2>3. \A k \in S : f[k] = g[k]
    BY <1>2, <2>2
  <2>4. Sum(f, S) = Sum(g, S)
    BY <1>4, <2>3, SumSame
  <2> QED BY <1>5, <1>6, <2>4
<1>7. CASE x[1] = name
  <2>1. x[2] \in S /\ <<name, x[2]>> = x
    BY <1>4, <1>7 DEF S
  <2>2. \A k \in S \ {x[2]} : f[k] = g[k]
    <3> SUFFICES ASSUME NEW k \in S \ {x[2]} PROVE f[k] = g[k]
      OBVIOUS
    <3>1. <<name, k>> # <<name, x[2]>>
      OBVIOUS
    <3>2. <<name, k>> # x /\ <<name, k>> \in Counters
      BY <1>3, <2>1, <3>1
    <3> QED BY <1>2, <3>2
  <2>3. g[x[2]] = f[x[2]] + m /\ f[x[2]] \in Nat
    BY <1>2, <1>3, <2>1
  <2>4. \A k \in S : f[k] \in Nat /\ g[k] \in Nat
    BY <1>2
  <2>5. ASSUME NEW y \in S, \A k \in S \ {y} : f[k] = g[k]
        PROVE  Sum(f, S) + g[y] = Sum(g, S) + f[y]
    BY <1>4, <2>4, <2>5, SumChange
  <2>6. Sum(f, S) + g[x[2]] = Sum(g, S) + f[x[2]]
    BY <2>1, <2>2, <2>5
  <2>7. Sum(f, S) + m = Sum(g, S)
    BY <1>2, <1>5, <2>3, <2>6
  <2> QED BY <1>5, <1>7, <2>7
<1> QED BY <1>6, <1>7

(* What has been added to a group of the chain and what is still to be     *)
(* added to it: a step changes that only by a new request or a death, for  *)
(* all groups that come after the next addition of the worker.             *)
Owing(n)   == {w \in Workers : Has(todo[w], n)}
Promise(n) == TotalOf(Chain[n]) + Cardinality(Owing(n))

CountInv ==
    /\ \A n \in 1 .. 6 : Promise(n + 1) <= Promise(n)
    /\ Promise(1) <= Promise(7) + crashes

LEMMA ChainNames == \A n \in 1 .. 7 : Chain[n] \in DOMAIN Indices
BY IndexSets DEF Chain, Single

LEMMA OwingFinite ==
    \A S \in SUBSET Workers : /\ IsFiniteSet(S) /\ Cardinality(S) \in Nat
                              /\ \A w \in S : Cardinality(S \ {w}) = Cardinality(S) - 1
                              /\ \A w \in Workers \ S : Cardinality(S \cup {w}) = Cardinality(S) + 1
<1> SUFFICES ASSUME NEW S \in SUBSET Workers
             PROVE  /\ IsFiniteSet(S) /\ Cardinality(S) \in Nat
                    /\ \A w \in S : Cardinality(S \ {w}) = Cardinality(S) - 1
                    /\ \A w \in Workers \ S : Cardinality(S \cup {w}) = Cardinality(S) + 1
  OBVIOUS
<1>1. IsFiniteSet(S)
  BY AccountingAssumption, FS_Subset
<1> QED BY <1>1, FS_CardinalityType, FS_RemoveElement, FS_AddElement

LEMMA PromiseType ==
    ASSUME Typed, NEW n \in 1 .. 7
    PROVE  TotalOf(Chain[n]) \in Nat /\ Cardinality(Owing(n)) \in Nat /\ Promise(n) \in Nat
<1>1. TotalOf(Chain[n]) = SumOf(count, Chain[n])
  BY TotalIs
<1>2. SumOf(count, Chain[n]) \in Nat
  <2>1. count \in [Counters -> Nat] /\ Chain[n] \in DOMAIN Indices
    BY ChainNames DEF Typed, TypeOK
  <2> QED BY <2>1, SumOfType
<1>3. Cardinality(Owing(n)) \in Nat
  BY OwingFinite DEF Owing
<1> QED BY <1>1, <1>2, <1>3 DEF Promise

LEMMA AddKeeps ==
    ASSUME Typed, NEW w \in Workers, AddNext(w), NEW n \in 1 .. 7
    PROVE  Promise(n)' = Promise(n)
<1> DEFINE a == Head(todo[w])
<1>1. /\ a \in Addition /\ Proper(a, req[w])
      /\ count' = [count EXCEPT ![a.counter] = @ + a.by]
      /\ todo' = [todo EXCEPT ![w] = Tail(todo[w])]
      /\ todo[w] # <<>> /\ Chained(todo[w], 7, req[w])
  BY StepAdd
<1>2. /\ Has(Tail(todo[w]), n) <=> Has(todo[w], n) /\ Place(a) # n
      /\ Place(a) = n => Has(todo[w], n)
  BY <1>1, TailChained
<1> HIDE DEF a
<1>3. /\ a.counter \in Counters /\ a.by \in Nat /\ (Place(a) = n <=> a.counter[1] = Chain[n])
      /\ Place(a) = n => a.by = 1
  BY <1>1, PlaceOf DEF Addition, Proper
<1>4. TotalOf(Chain[n])' = IF a.counter[1] = Chain[n] THEN TotalOf(Chain[n]) + a.by
                                                      ELSE TotalOf(Chain[n])
  <2>1. count \in [Counters -> Nat] /\ Chain[n] \in DOMAIN Indices
    BY ChainNames DEF Typed, TypeOK
  <2>2. SumOf(count', Chain[n]) = IF a.counter[1] = Chain[n]
                                    THEN SumOf(count, Chain[n]) + a.by ELSE SumOf(count, Chain[n])
    <3> DEFINE x == a.counter
               m == a.by
               name == Chain[n]
    <3>1. /\ x \in Counters /\ m \in Nat /\ name \in DOMAIN Indices
          /\ count' = [count EXCEPT ![x] = @ + m] /\ count \in [Counters -> Nat]
      BY <1>1, <1>3, <2>1
    <3> DEFINE c == count
               d == count'
    <3>0. /\ c \in [Counters -> Nat] /\ d \in [Counters -> Nat] /\ d[x] = c[x] + m
          /\ \A y \in Counters : y # x => d[y] = c[y]
      BY <3>1
    <3>2. x \in Counters /\ m \in Nat /\ name \in DOMAIN Indices
      BY <3>1
    <3> HIDE DEF x, m, name, c, d
    <3>3. SumOf(d, name) = IF x[1] = name THEN SumOf(c, name) + m ELSE SumOf(c, name)
      BY <3>0, <3>2, SumOfAdd
    <3> QED BY <3>3 DEF x, m, name, c, d
  <2> QED BY <2>2, TotalIs
<1>5. todo \in [Workers -> Seq(Addition)]
  BY DEF Typed
<1>6. TotalOf(Chain[n]) \in Nat /\ Owing(n) \in SUBSET Workers /\ Cardinality(Owing(n)) \in Nat
  BY PromiseType DEF Owing
<1>7. CASE Place(a) = n
  <2>1. w \in Owing(n) /\ Owing(n)' = Owing(n) \ {w}
    BY <1>1, <1>2, <1>5, <1>7 DEF Owing
  <2>2. Cardinality(Owing(n)') = Cardinality(Owing(n)) - 1
    BY <1>6, <2>1, OwingFinite
  <2>3. TotalOf(Chain[n])' = TotalOf(Chain[n]) + 1
    BY <1>3, <1>4, <1>7
  <2> QED BY <1>6, <2>2, <2>3 DEF Promise
<1>8. CASE Place(a) # n
  <2>1. Owing(n)' = Owing(n)
    BY <1>1, <1>2, <1>5, <1>8 DEF Owing
  <2>2. TotalOf(Chain[n])' = TotalOf(Chain[n])
    BY <1>3, <1>4, <1>8
  <2> QED BY <2>1, <2>2 DEF Promise
<1> QED BY <1>7, <1>8

LEMMA StepCount == Typed /\ CountInv /\ [Next]_vars => CountInv'
<1> SUFFICES ASSUME Typed, CountInv, [Next]_vars PROVE CountInv'
  OBVIOUS
<1>t. /\ \A n \in 1 .. 7 : /\ Promise(n) \in Nat /\ TotalOf(Chain[n]) \in Nat
                           /\ Owing(n) \in SUBSET Workers /\ Cardinality(Owing(n)) \in Nat
      /\ todo \in [Workers -> Seq(Addition)] /\ crashes \in Nat
      /\ \A n \in 1 .. 6 : n \in 1 .. 7 /\ n + 1 \in 1 .. 7
  BY PromiseType DEF Typed, TypeOK, Owing
<1>s. UNCHANGED count => \A n \in 1 .. 7 : TotalOf(Chain[n])' = TotalOf(Chain[n])
  BY TotalIs
<1>1. ASSUME \A n \in 1 .. 7 : Promise(n)' = Promise(n), UNCHANGED crashes PROVE CountInv'
  BY <1>t, <1>1 DEF CountInv
<1>2. ASSUME UNCHANGED <<count, todo, crashes>> PROVE CountInv'
  <2>1. \A n \in 1 .. 7 : Promise(n)' = Promise(n)
    BY <1>2, <1>s DEF Promise, Owing
  <2> QED BY <1>1, <1>2, <2>1
<1>3. ASSUME NEW w \in Workers, LogHandler(w) PROVE CountInv'
  <2>1. UNCHANGED <<count, crashes>> /\ ~Busy(w)
    BY <1>3 DEF LogHandler
  <2>2. PICK r \in Requests : UNCHANGED todo \/ todo' = [todo EXCEPT ![w] = Additions(w, r)]
    BY <1>3 DEF LogHandler
  <2>3. CASE UNCHANGED todo
    BY <1>2, <2>1, <2>3
  <2>4. CASE todo' = [todo EXCEPT ![w] = Additions(w, r)]
    <3>1. \A n \in 1 .. 7 : Has(Additions(w, r), n) /\ ~Has(todo[w], n)
      <4>1. Chained(Additions(w, r), 7, r) /\ Has(Additions(w, r), 1)
        BY FullList DEF Begins, Has
      <4>2. todo[w] = <<>>
        BY <2>1 DEF Busy
      <4> QED BY <4>1, <4>2, HasAll, EmptyChained
    <3>2. \A n \in 1 .. 7 : w \in Workers \ Owing(n) /\ Owing(n)' = Owing(n) \cup {w}
      BY <1>t, <2>4, <3>1 DEF Owing
    <3>3. \A n \in 1 .. 7 : Cardinality(Owing(n)') = Cardinality(Owing(n)) + 1
      BY <1>t, <3>2, OwingFinite
    <3>4. \A n \in 1 .. 7 : Promise(n)' = Promise(n) + 1
      <4> SUFFICES ASSUME NEW n \in 1 .. 7 PROVE Promise(n)' = Promise(n) + 1
        OBVIOUS
      <4>1. TotalOf(Chain[n])' = TotalOf(Chain[n]) /\ TotalOf(Chain[n]) \in Nat
        BY <1>t, <1>s, <2>1
      <4>2. Cardinality(Owing(n)') = Cardinality(Owing(n)) + 1 /\ Cardinality(Owing(n)) \in Nat
        BY <1>t, <3>3
      <4> QED BY <4>1, <4>2 DEF Promise
    <3>5. \A n \in 1 .. 6 : Promise(n + 1)' <= Promise(n)'
      <4> SUFFICES ASSUME NEW n \in 1 .. 6 PROVE Promise(n + 1)' <= Promise(n)'
        OBVIOUS
      <4>1. /\ Promise(n + 1)' = Promise(n + 1) + 1 /\ Promise(n)' = Promise(n) + 1
            /\ Promise(n + 1) \in Nat /\ Promise(n) \in Nat
        BY <1>t, <3>4
      <4>2. Promise(n + 1) <= Promise(n)
        BY DEF CountInv
      <4> QED BY <4>1, <4>2
    <3>6. Promise(1)' <= Promise(7)' + crashes'
      <4>1. /\ Promise(1)' = Promise(1) + 1 /\ Promise(7)' = Promise(7) + 1
            /\ Promise(1) \in Nat /\ Promise(7) \in Nat
        BY <1>t, <3>4
      <4>2. Promise(1) <= Promise(7) + crashes
        BY DEF CountInv
      <4>3. crashes \in Nat /\ crashes' = crashes
        BY <1>t, <2>1
      <4> HIDE DEF Promise
      <4> QED BY <4>1, <4>2, <4>3
    <3> QED BY <3>5, <3>6 DEF CountInv
  <2> QED BY <2>2, <2>3, <2>4
<1>4. ASSUME NEW w \in Workers, AddNext(w) PROVE CountInv'
  <2>1. UNCHANGED crashes
    BY <1>4 DEF AddNext
  <2> QED BY <1>1, <1>4, <2>1, AddKeeps
<1>5. ASSUME NEW w \in Workers, Crash(w) PROVE CountInv'
  <2>1. UNCHANGED count /\ crashes' = crashes + 1 /\ todo' = [todo EXCEPT ![w] = <<>>]
    BY <1>5 DEF Crash
  <2>2. \A n \in 1 .. 7 : Owing(n)' = Owing(n) \ {w}
    BY <1>t, <2>1, EmptyChained DEF Owing
  <2>3. \A n \in 1 .. 7 : Promise(n)' = IF w \in Owing(n) THEN Promise(n) - 1 ELSE Promise(n)
    <3> SUFFICES ASSUME NEW n \in 1 .. 7
                 PROVE  Promise(n)' = IF w \in Owing(n) THEN Promise(n) - 1 ELSE Promise(n)
      OBVIOUS
    <3>1. TotalOf(Chain[n])' = TotalOf(Chain[n]) /\ Owing(n)' = Owing(n) \ {w}
      BY <1>s, <2>1, <2>2
    <3>2. CASE w \in Owing(n)
      <4>1. Cardinality(Owing(n)') = Cardinality(Owing(n)) - 1
        BY <1>t, <3>1, <3>2, OwingFinite
      <4>2. TotalOf(Chain[n]) \in Nat /\ Cardinality(Owing(n)) \in Nat
        BY <1>t
      <4> QED BY <3>1, <3>2, <4>1, <4>2 DEF Promise
    <3>3. CASE w \notin Owing(n)
      <4>1. Owing(n)' = Owing(n)
        BY <3>1, <3>3
      <4> QED BY <3>1, <3>3, <4>1 DEF Promise
    <3> QED BY <3>2, <3>3
  <2>4. \A n \in 1 .. 6 : w \in Owing(n) => w \in Owing(n + 1)
    BY HasNext DEF Owing, Typed, ListInv
  <2>5. \A n \in 1 .. 6 : Promise(n + 1)' <= Promise(n)'
    <3> SUFFICES ASSUME NEW n \in 1 .. 6 PROVE Promise(n + 1)' <= Promise(n)'
      OBVIOUS
    <3>1. n \in 1 .. 7 /\ n + 1 \in 1 .. 7 /\ (w \in Owing(n) => w \in Owing(n + 1))
      BY <2>4
    <3>2. /\ Promise(n)' = IF w \in Owing(n) THEN Promise(n) - 1 ELSE Promise(n)
          /\ Promise(n + 1)' = IF w \in Owing(n + 1) THEN Promise(n + 1) - 1 ELSE Promise(n + 1)
      BY <2>3, <3>1
    <3>3. Promise(n + 1) <= Promise(n) /\ Promise(n) \in Nat /\ Promise(n + 1) \in Nat
      BY <1>t, <3>1 DEF CountInv
    <3> QED BY <3>1, <3>2, <3>3
  <2>6. Promise(1)' <= Promise(7)' + crashes'
    <3>1. Promise(1) <= Promise(7) + crashes /\ 1 \in 1 .. 7 /\ 7 \in 1 .. 7
      BY DEF CountInv
    <3>2. /\ Promise(1)' = Promise(1) \/ Promise(1)' = Promise(1) - 1
          /\ Promise(7)' = Promise(7) \/ Promise(7)' = Promise(7) - 1
          /\ Promise(1) \in Nat /\ Promise(7) \in Nat
      BY <1>t, <2>3, <3>1
    <3>3. crashes \in Nat /\ crashes' = crashes + 1
      BY <1>t, <2>1
    <3> QED BY <3>1, <3>2, <3>3
  <2> QED BY <2>5, <2>6 DEF CountInv
<1>6. CASE Percentile \/ SumBucket \/ SumDone \/ FindBucket \/ FindNone \/ ReadDone
  <2>1. UNCHANGED Rest
    BY <1>6 DEF Percentile, SumBucket, SumDone, FindBucket, FindNone, ReadDone
  <2> QED BY <1>2, <2>1 DEF Rest
<1>7. CASE UNCHANGED vars
  BY <1>2, <1>7 DEF vars
<1> QED BY <1>3, <1>4, <1>5, <1>6, <1>7 DEF Next

(* At the start each group of the chain holds one for every request.       *)
LEMMA EarlierTotals ==
    ASSUME NEW w \in Workers, NEW s \in SUBSET Earlier, NEW n \in 1 .. 7
    PROVE  Sum([k \in Indices[Chain[n]] |-> Sum(AddedIn(w, s, <<Chain[n], k>>), s)],
               Indices[Chain[n]]) = Cardinality(s)
<1> DEFINE I == Indices[Chain[n]]
           F(k) == AddedIn(w, s, <<Chain[n], k>>)
           H(t) == [k \in I |-> Sum(F(k), t)]
           P == {t \in SUBSET s : Sum(H(t), I) = Cardinality(t)}
<1>1. /\ IsFiniteSet(I) /\ IsFiniteSet(s)
      /\ \A t \in SUBSET s : IsFiniteSet(t) /\ t \subseteq Requests /\ Cardinality(t) \in Nat
  BY ChainNames, IndicesFinite, EarlierFinite
<1>2. \A k \in I : \A r \in s : F(k)[r] = Added(w, r, <<Chain[n], k>>) /\ F(k)[r] \in Nat
  BY <1>1, AddedType DEF AddedIn
<1>3. \A r \in s : \E x \in I : \A k \in I : F(k)[r] = IF k = x THEN 1 ELSE 0
  <2> SUFFICES ASSUME NEW r \in s
               PROVE  \E x \in I : \A k \in I : F(k)[r] = IF k = x THEN 1 ELSE 0
    OBVIOUS
  <2>1. r \in Requests
    BY <1>1
  <2>2. PICK x \in I : \A k \in I : Added(w, r, <<Chain[n], k>>) = IF k = x THEN 1 ELSE 0
    BY <2>1, AddedOne
  <2> QED BY <1>2, <2>2
<1> HIDE DEF F, I
<1>4. ASSUME NEW t \in SUBSET s PROVE \A k \in I : Sum(F(k), t) \in Nat
  <2> SUFFICES ASSUME NEW k \in I PROVE Sum(F(k), t) \in Nat
    OBVIOUS
  <2>1. \A r \in t : F(k)[r] \in Nat
    BY <1>2
  <2> QED BY <1>1, <2>1, SumType
<1>5. ASSUME NEW t \in SUBSET s, \A r \in t : t \ {r} \in P PROVE t \in P
  <2>1. CASE t = {}
    <3>1. \A k \in I : H(t)[k] = 0
      BY <2>1, SumEmpty
    <3> HIDE DEF H
    <3>2. Sum(H(t), I) = 0 /\ Cardinality(t) = 0
      BY <1>1, <2>1, <3>1, SumZero, FS_EmptySet
    <3> QED BY <3>2
  <2>2. CASE t # {}
    <3>1. PICK r \in t : TRUE
      BY <2>2
    <3> DEFINE u == t \ {r}
               f == H(u)
               g == H(t)
    <3>2. u \in SUBSET s /\ Sum(f, I) = Cardinality(u)
      BY <1>5, <3>1
    <3>3. Cardinality(t) = Cardinality(u) + 1
      <4>1. Cardinality(u) = Cardinality(t) - 1 /\ Cardinality(t) \in Nat
        BY <1>1, <3>1, FS_RemoveElement
      <4> QED BY <4>1
    <3>4. PICK x \in I : \A k \in I : F(k)[r] = IF k = x THEN 1 ELSE 0
      BY <1>3, <3>1
    <3>5. \A k \in I : Sum(F(k), t) = F(k)[r] + Sum(F(k), u)
      <4> SUFFICES ASSUME NEW k \in I PROVE Sum(F(k), t) = F(k)[r] + Sum(F(k), u)
        OBVIOUS
      <4>1. \A q \in t : F(k)[q] \in Nat
        BY <1>2
      <4> QED BY <1>1, <3>1, <4>1, SumRemove
    <3>6. \A k \in I : /\ f[k] \in Nat /\ g[k] \in Nat
                       /\ g[k] = IF k = x THEN f[k] + 1 ELSE f[k]
      <4> SUFFICES ASSUME NEW k \in I
                   PROVE  /\ f[k] \in Nat /\ g[k] \in Nat
                          /\ g[k] = IF k = x THEN f[k] + 1 ELSE f[k]
        OBVIOUS
      <4>1. f[k] = Sum(F(k), u) /\ g[k] = Sum(F(k), t)
        OBVIOUS
      <4>2. Sum(F(k), u) \in Nat /\ Sum(F(k), t) \in Nat
        BY <1>4, <3>2
      <4> HIDE DEF f, g, u
      <4> QED BY <3>4, <3>5, <4>1, <4>2
    <3> HIDE DEF f, g, u, H
    <3>7. Sum(f, I) + g[x] = Sum(g, I) + f[x]
      <4>1. \A k \in I \ {x} : f[k] = g[k]
        BY <3>6
      <4>2. \A k \in I : f[k] \in Nat /\ g[k] \in Nat
        BY <3>6
      <4> QED BY <1>1, <3>4, <4>1, <4>2, SumChange
    <3>8. Sum(f, I) \in Nat /\ Sum(g, I) \in Nat
      BY <1>1, <3>6, SumType
    <3>9. Sum(g, I) = Sum(f, I) + 1
      BY <3>4, <3>6, <3>7, <3>8
    <3> QED BY <3>2, <3>3, <3>9 DEF g
  <2> QED BY <2>1, <2>2
<1> HIDE DEF P
<1>6. SUBSET s \subseteq P
  BY <1>1, <1>5, SubsetAll
<1>7. Sum(H(s), I) = Cardinality(s)
  BY <1>6 DEF P
<1> QED BY <1>7 DEF H, F, I

LEMMA InitCount == Init => CountInv
<1> SUFFICES ASSUME Init PROVE CountInv
  OBVIOUS
<1>1. PICK s \in SUBSET Earlier, w \in Workers :
        count = [c \in Counters |-> Sum(AddedIn(w, s, c), s)]
  BY InitCounts
<1>2. ASSUME NEW n \in 1 .. 7 PROVE Promise(n) = Cardinality(s)
  <2>1. Owing(n) = {}
    BY EmptyChained DEF Owing, Init
  <2>2. GroupOf(count, Chain[n])
        = [k \in Indices[Chain[n]] |-> Sum(AddedIn(w, s, <<Chain[n], k>>), s)]
    BY <1>1, ChainNames, CounterIn DEF GroupOf
  <2>3. TotalOf(Chain[n]) = Cardinality(s)
    <3>1. TotalOf(Chain[n]) = Sum(GroupOf(count, Chain[n]), Indices[Chain[n]])
      BY TotalIs DEF SumOf
    <3>2. Sum([k \in Indices[Chain[n]] |-> Sum(AddedIn(w, s, <<Chain[n], k>>), s)],
              Indices[Chain[n]]) = Cardinality(s)
      BY EarlierTotals
    <3> QED BY <2>2, <3>1, <3>2
  <2>4. Cardinality(Owing(n)) = 0 /\ Cardinality(s) \in Nat
    BY <2>1, FS_EmptySet, EarlierFinite
  <2> QED BY <2>3, <2>4 DEF Promise
<1>3. Cardinality(s) \in Nat /\ crashes = 0
  BY EarlierFinite DEF Init
<1> QED BY <1>2, <1>3 DEF CountInv

(* The breakdowns follow: whoever owes an addition of the chain owes those *)
(* that come after it, and is busy.                                        *)
LEMMA InChain ==
    ASSUME Typed, CountInv
    PROVE  /\ \A n \in 1 .. 6 : TotalOf(Chain[n + 1]) <= TotalOf(Chain[n])
           /\ TotalOf(Chain[1]) - TotalOf(Chain[7]) <= Adding + crashes
           /\ Adding \in Nat
<1>t. \A n \in 1 .. 7 : /\ TotalOf(Chain[n]) \in Nat /\ Cardinality(Owing(n)) \in Nat
                        /\ Owing(n) \in SUBSET Workers
  BY PromiseType DEF Owing
<1>1. ASSUME NEW n \in 1 .. 6 PROVE TotalOf(Chain[n + 1]) <= TotalOf(Chain[n])
  <2>1. n \in 1 .. 7 /\ n + 1 \in 1 .. 7
    OBVIOUS
  <2>2. Owing(n) \in SUBSET Owing(n + 1)
    BY HasNext DEF Owing, Typed, ListInv
  <2>3. Cardinality(Owing(n)) <= Cardinality(Owing(n + 1))
    BY <1>t, <2>1, <2>2, OwingFinite, FS_Subset
  <2>4. Promise(n + 1) <= Promise(n)
    BY DEF CountInv
  <2> QED BY <1>t, <2>1, <2>3, <2>4 DEF Promise
<1>2. Owing(7) \in SUBSET {w \in Workers : Busy(w)}
  BY EmptyChained DEF Owing, Busy
<1>3. Cardinality(Owing(7)) <= Adding /\ Adding \in Nat
  <2> DEFINE A == {w \in Workers : Busy(w)}
  <2>1. IsFiniteSet(A) /\ Cardinality(A) \in Nat
    BY OwingFinite
  <2>2. Cardinality(Owing(7)) <= Cardinality(A)
    BY <1>2, <2>1, FS_Subset
  <2> QED BY <2>1, <2>2 DEF Adding
<1>4. Promise(1) <= Promise(7) + crashes /\ crashes \in Nat /\ 1 \in 1 .. 7 /\ 7 \in 1 .. 7
  BY DEF CountInv, Typed, TypeOK
<1>5. TotalOf(Chain[1]) - TotalOf(Chain[7]) <= Adding + crashes
  BY <1>t, <1>3, <1>4 DEF Promise
<1> QED BY <1>1, <1>3, <1>5

LEMMA FromCount == Typed /\ CountInv => BreakdownsAddUp
<1> SUFFICES ASSUME Typed, CountInv PROVE BreakdownsAddUp
  OBVIOUS
<1>1. /\ \A n \in 1 .. 6 : TotalOf(Chain[n + 1]) <= TotalOf(Chain[n])
      /\ TotalOf(Chain[1]) - TotalOf(Chain[7]) <= Adding + crashes
  BY InChain
<1>2. /\ Chain[1] = "total" /\ Chain[2] = "responses" /\ Chain[3] = "method"
      /\ Chain[4] = "latency" /\ Chain[5] = "size" /\ Chain[6] = "status"
      /\ Chain[7] = "wrequests"
  BY DEF Chain
<1>3. \A n \in 1 .. 7 : TotalOf(Chain[n]) \in Nat
  BY PromiseType
<1>4. /\ TotalOf(Chain[2]) <= TotalOf(Chain[1]) /\ TotalOf(Chain[3]) <= TotalOf(Chain[2])
      /\ TotalOf(Chain[4]) <= TotalOf(Chain[3]) /\ TotalOf(Chain[5]) <= TotalOf(Chain[4])
      /\ TotalOf(Chain[6]) <= TotalOf(Chain[5]) /\ TotalOf(Chain[7]) <= TotalOf(Chain[6])
  <2>1. 1 + 1 = 2 /\ 2 + 1 = 3 /\ 3 + 1 = 4 /\ 4 + 1 = 5 /\ 5 + 1 = 6 /\ 6 + 1 = 7
    OBVIOUS
  <2>2. {1, 2, 3, 4, 5, 6} \subseteq 1 .. 6
    OBVIOUS
  <2> QED BY <1>1, <2>1, <2>2
<1>5. {1, 2, 3, 4, 5, 6, 7} \subseteq 1 .. 7
  OBVIOUS
<1>6. \A n \in {1, 2, 3, 4, 5, 6, 7} : TotalOf(Chain[n]) \in Nat
  BY <1>3, <1>5
<1>7. TypeOK
  BY DEF Typed
<1>8. \A a, b \in Nat : a <= b => b >= a
  OBVIOUS
<1>9. /\ TotalOf("total") >= TotalOf("responses") /\ TotalOf("responses") >= TotalOf("method")
      /\ TotalOf("method") >= TotalOf("latency") /\ TotalOf("latency") >= TotalOf("size")
      /\ TotalOf("size") >= TotalOf("status") /\ TotalOf("status") >= TotalOf("wrequests")
  BY <1>2, <1>4, <1>6, <1>8
<1>10. TotalOf("total") - TotalOf("wrequests") <= Adding + crashes
  BY <1>1, <1>2
<1> QED BY <1>7, <1>9, <1>10 DEF BreakdownsAddUp

(* A response moves the reader of percentiles, and nothing else of the     *)
(* accounting.                                                             *)
LEMMA ViewStep == ViewNext \/ UNCHANGED <<vars, viewVars>> => [Next]_vars
BY DEF ViewNext, Work, View, StartView, LoadTotal, LoadErrors, CallPercentile, InPercentile,
       PercentileReturns, ArgumentsDone, LoadCount, EndView, Next

LEMMA Counting == ViewSpec => [](Typed /\ CountInv)
<1>1. ViewInit => Typed /\ CountInv
  BY InitTyped, InitCount DEF ViewInit
<1>2. Typed /\ CountInv /\ [ViewNext]_<<vars, viewVars>> => (Typed /\ CountInv)'
  BY ViewStep, StepTyped, StepCount
<1> QED BY <1>1, <1>2, PTL DEF ViewSpec

(* In every state, with any workers in the middle of a request and any     *)
(* number of them dead, no breakdown of the requests holds more than was   *)
(* counted before it, and the last falls behind the first by no more than  *)
(* the requests being added and the dead.                                  *)
THEOREM BreakdownsHold == ViewSpec => []BreakdownsAddUp
BY Counting, FromCount, PTL
-----------------------------------------------------------------------------
(* The histogram: a bucket counts the latencies observed in it, and the    *)
(* buckets are in the order of the latencies.                              *)
Within(b) == {ms \in Latencies : LatencyBucket(ms) = b}
Upto(b)   == {ms \in Latencies : LatencyBucket(ms) < b}
From(b)   == {ms \in Latencies : LatencyBucket(ms) >= b}
Below(ms) == {l \in Latencies : l <= ms}

HistInv == \A b \in 0 .. Last : InBucket(b) = Sum(observed, Within(b))

LEMMA BucketFacts ==
    /\ Last \in Nat
    /\ \A ms \in Latencies :
          /\ ms \in Nat /\ LatencyBucket(ms) \in 0 .. Last
          /\ LatencyBucket(ms) < Last => ms <= LatencyBounds[LatencyBucket(ms) + 1]
          /\ \A b \in 1 .. LatencyBucket(ms) : LatencyBounds[b] < ms
    /\ \A b \in 1 .. Last : LatencyBounds[b] \in Nat /\ LatencyBounds[b] <= Slow
    /\ DOMAIN LatencyBounds = 1 .. Last
<1>1. LatencyBounds \in Seq(Nat) /\ Latencies \subseteq Nat
  BY BoundsType, LatenciesFinite
<1>2. Last \in Nat /\ DOMAIN LatencyBounds = 1 .. Last
  BY <1>1 DEF Last
<1>3. \A n \in Nat :
         /\ LatencyBucket(n) \in 0 .. Last
         /\ LatencyBucket(n) < Last => n <= LatencyBounds[LatencyBucket(n) + 1]
         /\ \A b \in 1 .. LatencyBucket(n) : LatencyBounds[b] < n
  BY <1>1, BucketFound DEF LatencyBucket, Last
<1> QED BY <1>1, <1>2, <1>3, BoundsType

LEMMA BucketOrder ==
    ASSUME NEW l \in Latencies, NEW ms \in Latencies, l <= ms
    PROVE  LatencyBucket(l) <= LatencyBucket(ms)
<1> DEFINE b == LatencyBucket(ms)
           c == LatencyBucket(l)
<1>1. SUFFICES ASSUME b < c PROVE FALSE
  <2>1. b \in Int /\ c \in Int
    BY BucketFacts
  <2> HIDE DEF b, c
  <2>2. b < c \/ c <= b
    BY <2>1
  <2> QED BY <2>2 DEF b, c
<1>2. /\ b \in 0 .. Last /\ c \in 0 .. Last /\ Last \in Nat /\ l \in Nat /\ ms \in Nat
      /\ b < Last => ms <= LatencyBounds[b + 1]
      /\ \A k \in 1 .. c : LatencyBounds[k] < l
      /\ \A k \in 1 .. Last : LatencyBounds[k] \in Nat
  BY BucketFacts
<1> HIDE DEF b, c
<1>3. b + 1 \in 1 .. c /\ b + 1 \in 1 .. Last /\ b < Last
  BY <1>1, <1>2
<1>4. ms <= LatencyBounds[b + 1] /\ LatencyBounds[b + 1] < l /\ LatencyBounds[b + 1] \in Nat
  BY <1>2, <1>3
<1> QED BY <1>2, <1>4

LEMMA MinIs ==
    ASSUME NEW S, S \subseteq Nat, NEW m \in S, \A x \in S : m <= x
    PROVE  Min(S) = m
<1>1. Min(S) \in S /\ \A x \in S : Min(S) <= x
  BY MinIn
<1>2. Min(S) <= m /\ m <= Min(S) /\ Min(S) \in Nat /\ m \in Nat
  BY <1>1
<1> QED BY <1>2

(* Rounded up, a latency is the bound of its bucket.                       *)
LEMMA Rounded ==
    ASSUME NEW ms \in Latencies
    PROVE  RoundedUp(ms) = IF LatencyBucket(ms) < Last THEN LatencyBounds[LatencyBucket(ms) + 1]
                                                       ELSE Slow
<1> DEFINE b == LatencyBucket(ms)
           K == {k \in DOMAIN LatencyBounds : ms <= LatencyBounds[k]}
           S == {Slow} \cup {LatencyBounds[k] : k \in K}
<1>1. /\ b \in 0 .. Last /\ Last \in Nat /\ ms \in Nat
      /\ b < Last => ms <= LatencyBounds[b + 1]
      /\ \A k \in 1 .. b : LatencyBounds[k] < ms
      /\ \A k \in 1 .. Last : LatencyBounds[k] \in Nat /\ LatencyBounds[k] <= Slow
      /\ DOMAIN LatencyBounds = 1 .. Last
  BY BucketFacts
<1>2. RoundedUp(ms) = Min(S)
  BY DEF RoundedUp
<1> HIDE DEF b
<1>3. \A k \in K : k \in 1 .. Last /\ k > b
  BY <1>1
<1>4. S \subseteq Nat
  BY <1>1, <1>3 DEF Slow
<1>5. CASE b < Last
  <2>1. b + 1 \in K
    BY <1>1, <1>5
  <2>2. LatencyBounds[b + 1] \in S /\ LatencyBounds[b + 1] <= Slow
    BY <1>1, <2>1
  <2>3. \A k \in K : LatencyBounds[b + 1] <= LatencyBounds[k]
    <3> SUFFICES ASSUME NEW k \in K PROVE LatencyBounds[b + 1] <= LatencyBounds[k]
      OBVIOUS
    <3>1. k \in 1 .. Last /\ b + 1 \in 1 .. Last /\ k > b
      BY <1>1, <1>3, <1>5
    <3>2. k = b + 1 \/ b + 1 < k
      BY <1>1, <3>1
    <3>3. k \in DOMAIN LatencyBounds /\ b + 1 \in DOMAIN LatencyBounds
          /\ LatencyBounds[k] \in Nat
      BY <1>1, <3>1
    <3>4. b + 1 < k => LatencyBounds[b + 1] <= LatencyBounds[k]
      BY <3>3, AccountingAssumption
    <3>5. k = b + 1 => LatencyBounds[b + 1] <= LatencyBounds[k]
      BY <3>3
    <3> QED BY <3>2, <3>4, <3>5
  <2>4. \A x \in S : LatencyBounds[b + 1] <= x
    BY <2>2, <2>3
  <2> HIDE DEF S
  <2>5. Min(S) = LatencyBounds[b + 1]
    BY <1>4, <2>2, <2>4, MinIs
  <2> QED BY <1>2, <1>5, <2>5 DEF b
<1>6. CASE ~(b < Last)
  <2>1. K = {}
    BY <1>1, <1>3, <1>6
  <2>2. S = {Slow} /\ Slow \in Nat
    BY <1>4, <2>1
  <2> HIDE DEF S
  <2>3. Slow \in S /\ \A x \in S : Slow <= x
    BY <2>2
  <2>4. Min(S) = Slow
    BY <1>4, <2>3, MinIs
  <2> QED BY <1>2, <1>6, <2>4 DEF b
<1> QED BY <1>5, <1>6

(* Sums over the histogram.                                                *)
LEMMA ObservedSums ==
    ASSUME NEW obs \in [Latencies -> Nat]
    PROVE  /\ \A T \in SUBSET Latencies : IsFiniteSet(T) /\ Sum(obs, T) \in Nat
           /\ \A T \in SUBSET Latencies : \A U \in SUBSET T : Sum(obs, U) <= Sum(obs, T)
           /\ \A T \in SUBSET Latencies : Sum(obs, T) > 0 => \E ms \in T : obs[ms] > 0
           /\ \A b \in 0 .. Last : /\ Sum(obs, Upto(b + 1)) = Sum(obs, Upto(b)) + Sum(obs, Within(b))
                                   /\ Sum(obs, From(b)) = Sum(obs, Within(b)) + Sum(obs, From(b + 1))
           /\ Upto(0) = {} /\ From(0) = Latencies /\ Upto(Last + 1) = Latencies
           /\ From(Last) = Within(Last)
<1>1. \A T \in SUBSET Latencies : IsFiniteSet(T) /\ \A ms \in T : obs[ms] \in Nat
  BY LatenciesFinite, FS_Subset
<1>2. \A T \in SUBSET Latencies : Sum(obs, T) \in Nat
  BY <1>1, SumType
<1>3. \A T \in SUBSET Latencies : \A U \in SUBSET T : Sum(obs, U) <= Sum(obs, T)
  BY <1>1, SumSubset
<1>4. ASSUME NEW T \in SUBSET Latencies, Sum(obs, T) > 0 PROVE \E ms \in T : obs[ms] > 0
  <2> SUFFICES ASSUME \A ms \in T : ~(obs[ms] > 0) PROVE FALSE
    OBVIOUS
  <2>1. \A ms \in T : obs[ms] = 0
    BY <1>1
  <2>2. Sum(obs, T) = 0
    BY <1>1, <2>1, SumZero
  <2> QED BY <1>4, <2>2
<1>5. ASSUME NEW T \in SUBSET Latencies, NEW U \in SUBSET T
      PROVE  Sum(obs, T) = Sum(obs, U) + Sum(obs, T \ U)
  <2>1. IsFiniteSet(T) /\ \A ms \in T : obs[ms] \in Nat
    BY <1>1
  <2> QED BY <2>1, SumSplit
<1>6. \A ms \in Latencies : LatencyBucket(ms) \in 0 .. Last
  BY BucketFacts
<1>7. Last \in Nat
  BY BucketFacts
<1>8. ASSUME NEW b \in 0 .. Last
      PROVE  /\ Sum(obs, Upto(b + 1)) = Sum(obs, Upto(b)) + Sum(obs, Within(b))
             /\ Sum(obs, From(b)) = Sum(obs, Within(b)) + Sum(obs, From(b + 1))
  <2>1. /\ Upto(b + 1) \in SUBSET Latencies /\ Upto(b) \in SUBSET Upto(b + 1)
        /\ From(b) \in SUBSET Latencies /\ Within(b) \in SUBSET From(b)
    BY <1>6 DEF Upto, From, Within
  <2>2. Upto(b + 1) \ Upto(b) = Within(b) /\ From(b) \ Within(b) = From(b + 1)
    BY <1>6 DEF Upto, From, Within
  <2> QED BY <1>5, <2>1, <2>2
<1>9. /\ Upto(0) = {} /\ From(0) = Latencies /\ Upto(Last + 1) = Latencies
      /\ From(Last) = Within(Last)
  BY <1>6, <1>7 DEF Upto, From, Within
<1> QED BY <1>1, <1>2, <1>3, <1>4, <1>8, <1>9

(* The rank is found in the bucket where the sum passes it.                *)
LEMMA RankFound ==
    ASSUME observed \in [Latencies -> Nat], NEW n \in Nat, NEW b \in 0 .. Last,
           Sum(observed, Upto(b)) < n, n <= Sum(observed, Upto(b + 1))
    PROVE  Ranked(n) \in Latencies /\ LatencyBucket(Ranked(n)) = b
<1> DEFINE R == {ms \in Latencies : Sum(observed, Below(ms)) >= n}
           m == Min(R)
<1>1. Ranked(n) = m
  BY DEF Ranked, Sum, Below
<1>2. /\ \A T \in SUBSET Latencies : IsFiniteSet(T) /\ Sum(observed, T) \in Nat
      /\ \A T \in SUBSET Latencies : \A U \in SUBSET T : Sum(observed, U) <= Sum(observed, T)
  BY ObservedSums
<1>3. \A ms \in Latencies : ms \in Nat /\ LatencyBucket(ms) \in 0 .. Last
  BY BucketFacts
<1>4. Upto(b) \in SUBSET Latencies /\ Upto(b + 1) \in SUBSET Latencies
  BY DEF Upto
<1>5. Upto(b + 1) # {}
  <2>1. Sum(observed, Upto(b)) \in Nat
    BY <1>2, <1>4
  <2> QED BY <2>1, SumEmpty
<1>6. PICK g \in Upto(b + 1) : \A y \in Upto(b + 1) : y <= g
  <2>1. IsFiniteSet(Upto(b + 1)) /\ Upto(b + 1) \subseteq Nat
    BY <1>2, <1>3, <1>4
  <2> QED BY <1>5, <2>1, NatMax
<1>7. g \in R
  <2>1. Upto(b + 1) \in SUBSET Below(g) /\ Below(g) \in SUBSET Latencies /\ g \in Latencies
    BY <1>6 DEF Upto, Below
  <2>2. Sum(observed, Upto(b + 1)) <= Sum(observed, Below(g))
    BY <1>2, <2>1
  <2>3. Sum(observed, Upto(b + 1)) \in Nat /\ Sum(observed, Below(g)) \in Nat
    BY <1>2, <1>4, <2>1
  <2>4. Sum(observed, Below(g)) >= n
    BY <2>2, <2>3
  <2> QED BY <2>1, <2>4
<1>8. m \in R /\ m <= g
  <2>1. R \subseteq Nat /\ R # {}
    BY <1>3, <1>7
  <2> HIDE DEF R
  <2> QED BY <1>7, <2>1, MinIn
<1>9. m \in Latencies /\ Sum(observed, Below(m)) >= n
  BY <1>8
<1> HIDE DEF m, R
<1>10. LatencyBucket(m) <= b
  <2>1. g \in Latencies /\ LatencyBucket(g) < b + 1 /\ LatencyBucket(g) \in Int
    BY <1>3, <1>6 DEF Upto
  <2>2. LatencyBucket(m) <= LatencyBucket(g) /\ LatencyBucket(m) \in Int
    BY <1>3, <1>8, <1>9, <2>1, BucketOrder
  <2> QED BY <2>1, <2>2
<1>11. ~(LatencyBucket(m) < b)
  <2> SUFFICES ASSUME LatencyBucket(m) < b PROVE FALSE
    OBVIOUS
  <2>1. Below(m) \in SUBSET Upto(b)
    <3> SUFFICES ASSUME NEW l \in Latencies, l <= m PROVE LatencyBucket(l) < b
      BY DEF Below, Upto
    <3>1. LatencyBucket(l) <= LatencyBucket(m)
      BY <1>9, BucketOrder
    <3>2. LatencyBucket(l) \in Int /\ LatencyBucket(m) \in Int
      BY <1>3, <1>9
    <3> QED BY <3>1, <3>2
  <2>2. Sum(observed, Below(m)) <= Sum(observed, Upto(b))
    BY <1>2, <1>4, <2>1
  <2>3. Sum(observed, Below(m)) \in Nat /\ Sum(observed, Upto(b)) \in Nat
    <3>1. Below(m) \in SUBSET Latencies
      BY DEF Below
    <3> QED BY <1>2, <1>4, <3>1
  <2> QED BY <1>9, <2>2, <2>3
<1>12. LatencyBucket(m) = b
  BY <1>3, <1>9, <1>10, <1>11
<1> QED BY <1>1, <1>9, <1>12

(* Each request that was counted is in the bucket of its latency, and in   *)
(* what was observed.                                                      *)
ObservedIn(t) == [ms \in Latencies |-> Cardinality({r \in t : Latency(r) = ms})]

LEMMA EarlierBuckets ==
    ASSUME NEW w \in Workers, NEW s \in SUBSET Earlier, NEW b \in 0 .. Last
    PROVE  Sum(AddedIn(w, s, <<"latency", b>>), s) = Sum(ObservedIn(s), Within(b))
<1> DEFINE f == AddedIn(w, s, <<"latency", b>>)
           P == {t \in SUBSET s : Sum(f, t) = Sum(ObservedIn(t), Within(b))}
<1>1. /\ IsFiniteSet(Within(b)) /\ Within(b) \in SUBSET Latencies
      /\ \A t \in SUBSET s : IsFiniteSet(t) /\ t \subseteq Requests
  BY LatenciesFinite, FS_Subset, EarlierFinite DEF Within
<1>2. \A t \in SUBSET s : ObservedIn(t) \in [Latencies -> Nat]
  <2> SUFFICES ASSUME NEW t \in SUBSET s, NEW ms \in Latencies
               PROVE  Cardinality({r \in t : Latency(r) = ms}) \in Nat
    BY DEF ObservedIn
  <2>1. {r \in t : Latency(r) = ms} \in SUBSET s
    OBVIOUS
  <2> QED BY <1>1, <2>1, FS_CardinalityType
<1>3. \A r \in s : f[r] = IF b = LatencyBucket(Latency(r)) THEN 1 ELSE 0
  <2> SUFFICES ASSUME NEW r \in s PROVE f[r] = IF b = LatencyBucket(Latency(r)) THEN 1 ELSE 0
    OBVIOUS
  <2>1. r \in Requests /\ 4 \in 1 .. 7 /\ Chain[4] = "latency" /\ b \in Indices["latency"]
    BY <1>1, IndexSets DEF Chain, Last
  <2>2. \E x \in Indices[Chain[4]] :
           /\ \A k \in Indices[Chain[4]] :
                 Added(w, r, <<Chain[4], k>>) = IF k = x THEN 1 ELSE 0
           /\ 4 = 4 => x = LatencyBucket(Latency(r))
    BY <2>1, AddedOne
  <2>3. Added(w, r, <<"latency", b>>) = IF b = LatencyBucket(Latency(r)) THEN 1 ELSE 0
    BY <2>1, <2>2
  <2> QED BY <2>3 DEF AddedIn
<1> HIDE DEF f
<1>4. ASSUME NEW t \in SUBSET s, \A r \in t : t \ {r} \in P PROVE t \in P
  <2>1. CASE t = {}
    <3>1. \A ms \in Within(b) : ObservedIn(t)[ms] = 0
      <4>1. \A ms : {r \in t : Latency(r) = ms} = {}
        BY <2>1
      <4> QED BY <1>1, <4>1, FS_EmptySet DEF ObservedIn
    <3>2. Sum(ObservedIn(t), Within(b)) = 0 /\ Sum(f, t) = 0
      BY <1>1, <2>1, <3>1, SumZero, SumEmpty
    <3> QED BY <3>2
  <2>2. CASE t # {}
    <3>1. PICK r \in t : TRUE
      BY <2>2
    <3> DEFINE u == t \ {r}
               g == ObservedIn(u)
               h == ObservedIn(t)
               x == Latency(r)
    <3>2. Sum(f, u) = Sum(g, Within(b)) /\ u \in SUBSET s
      BY <1>4, <3>1
    <3>3. x \in Latencies /\ g \in [Latencies -> Nat] /\ h \in [Latencies -> Nat]
      BY <1>1, <1>2, <3>1, <3>2 DEF Latencies
    <3>4. \A ms \in Latencies : h[ms] = IF ms = x THEN g[ms] + 1 ELSE g[ms]
      <4> SUFFICES ASSUME NEW ms \in Latencies
                   PROVE  h[ms] = IF ms = x THEN g[ms] + 1 ELSE g[ms]
        OBVIOUS
      <4> DEFINE A == {q \in t : Latency(q) = ms}
                 B == {q \in u : Latency(q) = ms}
      <4>1. h[ms] = Cardinality(A) /\ g[ms] = Cardinality(B)
        BY DEF ObservedIn
      <4>2. IsFiniteSet(A)
        <5>1. A \in SUBSET s
          OBVIOUS
        <5> QED BY <1>1, <5>1
      <4>3. CASE ms = x
        <5>1. r \in A /\ B = A \ {r}
          BY <3>1, <4>3
        <5> HIDE DEF A, B
        <5>2. Cardinality(B) = Cardinality(A) - 1 /\ Cardinality(A) \in Nat
          BY <4>2, <5>1, FS_RemoveElement, FS_CardinalityType
        <5> QED BY <4>1, <4>3, <5>2
      <4>4. CASE ms # x
        <5>1. B = A
          BY <4>4
        <5> QED BY <4>1, <4>4, <5>1
      <4> QED BY <4>3, <4>4
    <3>5. Sum(f, t) = f[r] + Sum(f, u)
      <4>1. \A q \in t : f[q] \in Nat
        BY <1>3
      <4> QED BY <1>1, <3>1, <4>1, SumRemove
    <3> HIDE DEF g, h, u, x
    <3>6. /\ Sum(g, Within(b)) \in Nat /\ Sum(h, Within(b)) \in Nat
          /\ \A ms \in Within(b) : g[ms] \in Nat /\ h[ms] \in Nat
      <4>1. \A ms \in Within(b) : g[ms] \in Nat /\ h[ms] \in Nat
        BY <1>1, <3>3
      <4> QED BY <1>1, <4>1, SumType
    <3>7. CASE b = LatencyBucket(x)
      <4>1. x \in Within(b) /\ \A ms \in Within(b) \ {x} : g[ms] = h[ms]
        BY <1>1, <3>3, <3>4, <3>7 DEF Within
      <4>2. Sum(g, Within(b)) + h[x] = Sum(h, Within(b)) + g[x]
        BY <1>1, <3>6, <4>1, SumChange
      <4>3. h[x] = g[x] + 1 /\ g[x] \in Nat
        BY <3>3, <3>4
      <4>4. Sum(h, Within(b)) = Sum(g, Within(b)) + 1
        BY <3>6, <4>2, <4>3
      <4>5. f[r] = 1
        BY <1>3, <3>1, <3>7 DEF x
      <4>6. Sum(f, t) = Sum(h, Within(b))
        BY <3>2, <3>5, <3>6, <4>4, <4>5
      <4> QED BY <4>6 DEF h
    <3>8. CASE b # LatencyBucket(x)
      <4>1. \A ms \in Within(b) : g[ms] = h[ms]
        BY <1>1, <3>4, <3>8 DEF Within
      <4>2. Sum(g, Within(b)) = Sum(h, Within(b))
        BY <1>1, <4>1, SumSame
      <4>3. f[r] = 0
        BY <1>3, <3>1, <3>8 DEF x
      <4>4. Sum(f, t) = Sum(h, Within(b))
        BY <3>2, <3>5, <3>6, <4>2, <4>3
      <4> QED BY <4>4 DEF h
    <3> QED BY <3>7, <3>8
  <2> QED BY <2>1, <2>2
<1> HIDE DEF P
<1>5. IsFiniteSet(s)
  BY <1>1
<1>6. SUBSET s \subseteq P
  BY <1>4, <1>5, SubsetAll
<1>7. s \in P
  BY <1>6
<1> QED BY <1>7 DEF P, f

LEMMA InitHist == Init => HistInv
<1> SUFFICES ASSUME Init, NEW b \in 0 .. Last PROVE InBucket(b) = Sum(observed, Within(b))
  BY DEF HistInv
<1>1. PICK s \in SUBSET Earlier, w \in Workers :
        /\ count = [c \in Counters |-> Sum(AddedIn(w, s, c), s)]
        /\ observed = [ms \in Latencies |-> Cardinality({r \in s : Latency(r) = ms})]
  BY InitCounts
<1>2. observed = ObservedIn(s)
  BY <1>1 DEF ObservedIn
<1>3. InBucket(b) = Sum(AddedIn(w, s, <<"latency", b>>), s)
  BY <1>1, BucketCounter DEF InBucket
<1> QED BY <1>2, <1>3, EarlierBuckets

(* An addition to the histogram, and every other addition.                 *)
LEMMA StepObserved ==
    ASSUME Typed, NEW w \in Workers, AddNext(w)
    PROVE  \/ /\ UNCHANGED <<observed, undisturbed>>
              /\ \A b \in 0 .. Last : InBucket(b)' = InBucket(b)
           \/ \E ms \in Latencies :
                 /\ observed' = [observed EXCEPT ![ms] = @ + 1] /\ undisturbed' = FALSE
                 /\ \A b \in 0 .. Last :
                       InBucket(b)' = IF b = LatencyBucket(ms) THEN InBucket(b) + 1 ELSE InBucket(b)
<1> DEFINE a == Head(todo[w])
<1>1. /\ a \in Addition /\ Proper(a, req[w])
      /\ count' = [count EXCEPT ![a.counter] = @ + a.by]
  BY StepAdd
<1>2. IF a.counter[1] = "latency"
        THEN /\ observed' = [observed EXCEPT ![Latency(req[w])] = @ + 1]
             /\ undisturbed' = FALSE
        ELSE UNCHANGED <<observed, undisturbed>>
  BY DEF AddNext
<1> HIDE DEF a
<1>3. count \in [Counters -> Nat] /\ req[w] \in Requests
  BY DEF Typed, TypeOK
<1>4. CASE a.counter[1] = "latency"
  <2> DEFINE ms == Latency(req[w])
  <2>1. Place(a) = 4
    BY <1>4 DEF Place
  <2>2. a.counter = <<"latency", LatencyBucket(ms)>> /\ a.by = 1
    BY <1>1, <2>1 DEF Proper
  <2>3. ms \in Latencies
    BY <1>3 DEF Latencies
  <2> HIDE DEF ms
  <2>4. ASSUME NEW b \in 0 .. Last
        PROVE  InBucket(b)' = IF b = LatencyBucket(ms) THEN InBucket(b) + 1 ELSE InBucket(b)
    <3>1. <<"latency", b>> \in Counters
      BY BucketCounter
    <3>2. <<"latency", b>> = <<"latency", LatencyBucket(ms)>> <=> b = LatencyBucket(ms)
      OBVIOUS
    <3> QED BY <1>1, <1>3, <2>2, <3>1, <3>2 DEF InBucket
  <2> QED BY <1>2, <1>4, <2>3, <2>4 DEF ms
<1>5. CASE a.counter[1] # "latency"
  <2>1. ASSUME NEW b \in 0 .. Last PROVE InBucket(b)' = InBucket(b)
    <3>1. <<"latency", b>> \in Counters /\ <<"latency", b>>[1] = "latency"
      BY BucketCounter
    <3>2. <<"latency", b>> # a.counter
      BY <1>5, <3>1
    <3> QED BY <1>1, <1>3, <3>1, <3>2 DEF InBucket
  <2> QED BY <1>2, <1>5, <2>1
<1> QED BY <1>4, <1>5

LEMMA StepHist == Typed /\ HistInv /\ [Next]_vars => HistInv'
<1> SUFFICES ASSUME Typed, HistInv, [Next]_vars PROVE HistInv'
  OBVIOUS
<1>1. ASSUME UNCHANGED <<count, observed>> PROVE HistInv'
  BY <1>1 DEF HistInv, InBucket
<1>2. ASSUME NEW w \in Workers, AddNext(w) PROVE HistInv'
  <2>1. CASE UNCHANGED observed /\ \A b \in 0 .. Last : InBucket(b)' = InBucket(b)
    BY <2>1 DEF HistInv
  <2>2. ASSUME NEW ms \in Latencies, observed' = [observed EXCEPT ![ms] = @ + 1],
               \A b \in 0 .. Last :
                  InBucket(b)' = IF b = LatencyBucket(ms) THEN InBucket(b) + 1 ELSE InBucket(b)
        PROVE  HistInv'
    <3>1. observed \in [Latencies -> Nat] /\ observed' \in [Latencies -> Nat]
      BY <2>2 DEF Typed
    <3> SUFFICES ASSUME NEW b \in 0 .. Last PROVE InBucket(b)' = Sum(observed', Within(b))
      BY DEF HistInv
    <3>2. /\ Within(b) \in SUBSET Latencies /\ IsFiniteSet(Within(b))
          /\ Sum(observed, Within(b)) \in Nat /\ Sum(observed', Within(b)) \in Nat
          /\ InBucket(b) = Sum(observed, Within(b))
          /\ \A l \in Within(b) : observed[l] \in Nat /\ observed'[l] \in Nat
      BY <3>1, ObservedSums DEF Within, HistInv
    <3>3. \A l \in Latencies : observed'[l] = IF l = ms THEN observed[l] + 1 ELSE observed[l]
      BY <2>2, <3>1
    <3>4. CASE b = LatencyBucket(ms)
      <4>1. ms \in Within(b) /\ \A l \in Within(b) \ {ms} : observed[l] = observed'[l]
        BY <3>2, <3>3, <3>4, <2>2 DEF Within
      <4> DEFINE f == observed
                 g == observed'
      <4>2. \A l \in Within(b) : f[l] \in Nat /\ g[l] \in Nat
        BY <3>2
      <4>3. g[ms] = f[ms] + 1 /\ f[ms] \in Nat
        BY <2>2, <3>1, <3>3
      <4>4. \A l \in Within(b) \ {ms} : f[l] = g[l]
        BY <4>1
      <4> HIDE DEF f, g
      <4>5. Sum(f, Within(b)) + g[ms] = Sum(g, Within(b)) + f[ms]
        BY <3>2, <4>1, <4>2, <4>4, SumChange
      <4>6. Sum(f, Within(b)) + g[ms] = Sum(g, Within(b)) + f[ms]
            => Sum(g, Within(b)) = Sum(f, Within(b)) + 1
        <5>1. Sum(f, Within(b)) \in Nat /\ Sum(g, Within(b)) \in Nat
          BY <3>2 DEF f, g
        <5> QED BY <4>3, <5>1
      <4>7. Sum(observed', Within(b)) = Sum(observed, Within(b)) + 1
        BY <4>5, <4>6 DEF f, g
      <4> QED BY <2>2, <3>2, <3>4, <4>7
    <3>5. CASE b # LatencyBucket(ms)
      <4>1. \A l \in Within(b) : observed[l] = observed'[l]
        BY <3>2, <3>3, <3>5 DEF Within
      <4>2. Sum(observed, Within(b)) = Sum(observed', Within(b))
        BY <3>2, <4>1, SumSame
      <4> QED BY <2>2, <3>2, <3>5, <4>2
    <3> QED BY <3>4, <3>5
  <2> QED BY <1>2, StepObserved, <2>1, <2>2
<1>3. CASE \E w \in Workers : LogHandler(w) \/ Crash(w)
  BY <1>1, <1>3 DEF LogHandler, Crash
<1>4. CASE Percentile \/ SumBucket \/ SumDone \/ FindBucket \/ FindNone \/ ReadDone
  BY <1>1, <1>4 DEF Percentile, SumBucket, SumDone, FindBucket, FindNone, ReadDone, Rest
<1>5. CASE UNCHANGED vars
  BY <1>1, <1>5 DEF vars
<1> QED BY <1>2, <1>3, <1>4, <1>5 DEF Next
-----------------------------------------------------------------------------
(* The first pass of a percentile sums no more than is there, and the      *)
(* second one, which comes later, still has to meet what it has not: it is *)
(* below the target until a bucket takes it there.                         *)
ReadInv ==
    /\ rpc \in {"sum", "find"} => rp \in 1 .. 100
    /\ rpc = "sum" =>
          /\ rcount = 0 /\ rtotal <= Sum(observed, Upto(ri))
          /\ undisturbed => rtotal = Sum(observed, Upto(ri))
    /\ rpc = "find" =>
          /\ ri <= Last /\ rtotal > 0 /\ rcount < Target
          /\ rtotal <= rcount + Sum(observed, From(ri))
          /\ undisturbed => /\ rtotal = Sum(observed, Latencies)
                            /\ rcount = Sum(observed, Upto(ri))
    /\ PercentileHonest

LEMMA TargetFits ==
    ASSUME Typed, rtotal > 0, rp \in 1 .. 100
    PROVE  Target \in Nat /\ Target >= 1 /\ Target <= rtotal
<1> DEFINE p == rtotal * rp
           q == p \div 100
<1>1. rtotal \in Nat /\ rp \in Nat /\ rp <= 100
  BY DEF Typed, TypeOK
<1>2. p \in Nat /\ p <= rtotal * 100
  <2>1. 100 - rp \in Nat
    BY <1>1
  <2>2. rtotal * (100 - rp) \in Nat /\ rtotal * (100 - rp) = rtotal * 100 - p
    BY <1>1, <2>1
  <2>3. p \in Nat
    BY <1>1
  <2> QED BY <1>1, <2>2, <2>3
<1> HIDE DEF p
<1>3. q \in Nat /\ q <= rtotal
  BY <1>1, <1>2
<1>4. Target = Max({1, q})
  BY DEF Target, p
<1> HIDE DEF q
<1>5. Max({1, q}) = IF q >= 1 THEN q ELSE 1
  BY <1>3 DEF Max
<1> QED BY <1>1, <1>3, <1>4, <1>5

(* What PercentileHonest says, as an operator of the values it is about.   *)
RankIn(obs, n) == Min({ms \in DOMAIN obs : Sum(obs, {l \in DOMAIN obs : l <= ms}) >= n})

HonestIn(pc, res, still, total, p, obs) ==
    pc = "answered" =>
        /\ res # 0 => \E ms \in DOMAIN obs : obs[ms] > 0 /\ RoundedUp(ms) = res
        /\ still => res = IF total = 0 THEN 0
                          ELSE RoundedUp(RankIn(obs, Max({1, (total * p) \div 100})))

HonestHere == PercentileHonest <=> HonestIn(rpc, result, undisturbed, rtotal, rp, observed)

LEMMA HonestIs ==
    /\ PercentileHonest <=> HonestIn(rpc, result, undisturbed, rtotal, rp, observed)
    /\ PercentileHonest' <=> HonestIn(rpc', result', undisturbed', rtotal', rp', observed')
    /\ \A n : Ranked(n) = RankIn(observed, n)
<1>1. PercentileHonest <=> HonestIn(rpc, result, undisturbed, rtotal, rp, observed)
  BY DEF PercentileHonest, HonestIn, Ranked, RankIn, Sum
<1>h. HonestHere
  BY <1>1 DEF HonestHere
<1>2. PercentileHonest' <=> HonestIn(rpc', result', undisturbed', rtotal', rp', observed')
  <2>1. HonestHere'
    BY <1>h, PTL
  <2> QED BY <2>1 DEF HonestHere
<1>3. \A n : Ranked(n) = RankIn(observed, n)
  BY DEF Ranked, RankIn, Sum
<1> QED BY <1>1, <1>2, <1>3

LEMMA InitRead == Init => ReadInv
BY DEF Init, ReadInv, PercentileHonest

(* What is added to the histogram during a read.                           *)
LEMMA AddReads ==
    ASSUME Typed, ReadInv, NEW w \in Workers, AddNext(w)
    PROVE  ReadInv'
<1>r. UNCHANGED <<rpc, ri, rtotal, rcount, rp, result>>
  BY DEF AddNext
<1>t. UNCHANGED Target
  BY <1>r DEF Target
<1>1. CASE UNCHANGED <<observed, undisturbed>>
  <2>1. PercentileHonest'
    BY <1>r, <1>1, HonestIs DEF ReadInv
  <2> QED BY <1>r, <1>t, <1>1, <2>1 DEF ReadInv
<1>2. ASSUME NEW ms \in Latencies, observed' = [observed EXCEPT ![ms] = @ + 1],
             undisturbed' = FALSE
      PROVE  ReadInv'
  <2>1. observed \in [Latencies -> Nat] /\ observed' \in [Latencies -> Nat]
    BY <1>2 DEF Typed
  <2>2. \A l \in Latencies : observed[l] <= observed'[l]
    BY <1>2, <2>1
  <2>3. ASSUME NEW T \in SUBSET Latencies
        PROVE  /\ Sum(observed, T) \in Nat /\ Sum(observed', T) \in Nat
               /\ Sum(observed, T) <= Sum(observed', T)
    <3>1. IsFiniteSet(T) /\ Sum(observed, T) \in Nat /\ Sum(observed', T) \in Nat
      BY <2>1, ObservedSums
    <3>2. \A l \in T : observed[l] \in Nat /\ observed'[l] \in Nat /\ observed[l] <= observed'[l]
      BY <2>1, <2>2
    <3> DEFINE f == observed
               g == observed'
    <3>3. \A l \in T : f[l] \in Nat /\ g[l] \in Nat /\ f[l] <= g[l]
      BY <3>2
    <3> HIDE DEF f, g
    <3>4. Sum(f, T) <= Sum(g, T)
      BY <3>1, <3>3, SumLess
    <3> QED BY <3>1, <3>4 DEF f, g
  <2>4. Upto(ri) \in SUBSET Latencies /\ From(ri) \in SUBSET Latencies
    BY DEF Upto, From
  <2>5. rtotal \in Nat /\ rcount \in Nat
    BY DEF Typed, TypeOK
  <2>6. rpc = "sum" => rtotal <= Sum(observed', Upto(ri))
    BY <2>3, <2>4, <2>5 DEF ReadInv
  <2>7. rpc = "find" => rtotal <= rcount + Sum(observed', From(ri))
    BY <2>3, <2>4, <2>5 DEF ReadInv
  <2>8. PercentileHonest'
    <3> SUFFICES ASSUME rpc = "answered", result # 0
                 PROVE  \E l \in DOMAIN observed' : observed'[l] > 0 /\ RoundedUp(l) = result
      BY <1>r, <1>2 DEF PercentileHonest
    <3>1. PICK l \in Latencies : observed[l] > 0 /\ RoundedUp(l) = result
      BY <2>1 DEF ReadInv, PercentileHonest
    <3>2. observed'[l] > 0
      BY <1>2, <2>1, <3>1
    <3> QED BY <2>1, <3>1, <3>2
  <2> QED BY <1>r, <1>t, <1>2, <2>6, <2>7, <2>8 DEF ReadInv
<1> QED BY <1>1, <1>2, StepObserved

LEMMA StepRead == Typed /\ HistInv /\ ReadInv /\ [Next]_vars => ReadInv'
<1> SUFFICES ASSUME Typed, HistInv, ReadInv, [Next]_vars PROVE ReadInv'
  OBVIOUS
<1>t. /\ observed \in [Latencies -> Nat] /\ ri \in 0 .. Last + 1 /\ rtotal \in Nat
      /\ rcount \in Nat /\ rp \in Percentiles \cup {0} /\ Last \in Nat
      /\ undisturbed \in BOOLEAN /\ Percentiles \subseteq 1 .. 100
  BY BucketFacts, AccountingAssumption DEF Typed, TypeOK
<1>o. /\ \A T \in SUBSET Latencies : IsFiniteSet(T) /\ Sum(observed, T) \in Nat
      /\ \A T \in SUBSET Latencies : Sum(observed, T) > 0 => \E ms \in T : observed[ms] > 0
      /\ \A b \in 0 .. Last :
            /\ Sum(observed, Upto(b + 1)) = Sum(observed, Upto(b)) + Sum(observed, Within(b))
            /\ Sum(observed, From(b)) = Sum(observed, Within(b)) + Sum(observed, From(b + 1))
      /\ Upto(0) = {} /\ From(0) = Latencies /\ Upto(Last + 1) = Latencies
      /\ From(Last) = Within(Last)
  BY <1>t, ObservedSums
<1>s. \A b : Upto(b) \in SUBSET Latencies /\ From(b) \in SUBSET Latencies
             /\ Within(b) \in SUBSET Latencies
  BY DEF Upto, From, Within
<1>n. \A b : /\ Sum(observed, Upto(b)) \in Nat /\ Sum(observed, From(b)) \in Nat
             /\ Sum(observed, Within(b)) \in Nat
  BY <1>o, <1>s
<1>1. ASSUME UNCHANGED <<reader, observed>> PROVE ReadInv'
  <2>1. UNCHANGED <<rpc, ri, rtotal, rcount, rp, result, reads, undisturbed, observed>>
    BY <1>1 DEF reader
  <2>2. PercentileHonest' /\ UNCHANGED Target
    BY <2>1, HonestIs DEF ReadInv, Target
  <2> QED BY <2>1, <2>2 DEF ReadInv
<1>2. CASE \E w \in Workers : LogHandler(w) \/ Crash(w)
  BY <1>1, <1>2 DEF LogHandler, Crash
<1>3. CASE \E w \in Workers : AddNext(w)
  BY <1>3, AddReads
<1>4. CASE UNCHANGED vars
  BY <1>1, <1>4 DEF vars
<1>5. CASE Percentile
  <2>1. rpc' = "sum" /\ ri' = 0 /\ rtotal' = 0 /\ rcount' = 0 /\ rp' \in Percentiles
        /\ UNCHANGED observed
    BY <1>5 DEF Percentile, Rest
  <2>2. Sum(observed, Upto(0)) = 0
    BY <1>o, SumEmpty
  <2> QED BY <1>t, <2>1, <2>2 DEF ReadInv, PercentileHonest
<1>6. CASE SumBucket
  <2>1. /\ rpc = "sum" /\ ri <= Last /\ rtotal' = rtotal + InBucket(ri) /\ ri' = ri + 1
        /\ UNCHANGED <<rpc, rcount, rp, result, undisturbed, observed>>
    BY <1>6 DEF SumBucket, Rest
  <2>2. ri \in 0 .. Last /\ InBucket(ri) = Sum(observed, Within(ri))
    BY <1>t, <2>1 DEF HistInv
  <2>3. Sum(observed, Upto(ri + 1)) = Sum(observed, Upto(ri)) + InBucket(ri)
    BY <1>o, <2>2
  <2>4. /\ rcount = 0 /\ rtotal <= Sum(observed, Upto(ri)) /\ rp \in 1 .. 100
        /\ undisturbed => rtotal = Sum(observed, Upto(ri))
    BY <2>1 DEF ReadInv
  <2>5. /\ rtotal' <= Sum(observed, Upto(ri + 1))
        /\ undisturbed => rtotal' = Sum(observed, Upto(ri + 1))
    BY <1>t, <1>n, <2>1, <2>2, <2>3, <2>4
  <2> QED BY <2>1, <2>4, <2>5 DEF ReadInv, PercentileHonest
<1>7. CASE SumDone
  <2>1. /\ rpc = "sum" /\ ri > Last /\ ri' = 0
        /\ UNCHANGED <<rtotal, rcount, rp, undisturbed, observed>>
        /\ IF rtotal = 0 THEN rpc' = "answered" /\ result' = 0 ELSE rpc' = "find"
    BY <1>7 DEF SumDone, Answer, Rest
  <2>2. /\ rcount = 0 /\ rtotal <= Sum(observed, Upto(ri)) /\ rp \in 1 .. 100
        /\ undisturbed => rtotal = Sum(observed, Upto(ri))
    BY <2>1 DEF ReadInv
  <2>3. Upto(ri) = Latencies
    <3>1. ri = Last + 1
      BY <1>t, <2>1
    <3> QED BY <1>o, <3>1
  <2>4. CASE rtotal = 0
    BY <2>1, <2>4 DEF ReadInv, PercentileHonest
  <2>5. CASE rtotal # 0
    <3>1. rtotal > 0 /\ rpc' = "find"
      BY <1>t, <2>1, <2>5
    <3>2. Target >= 1 /\ Target \in Nat
      BY <2>2, <3>1, TargetFits
    <3>3. UNCHANGED Target
      BY <2>1 DEF Target
    <3>4. rcount < Target /\ rtotal <= rcount + Sum(observed, From(0))
      BY <1>o, <1>n, <1>t, <2>2, <2>3, <3>2
    <3>5. rcount = Sum(observed, Upto(0))
      BY <1>o, <2>2, SumEmpty
    <3>6. undisturbed => rtotal = Sum(observed, Latencies)
      BY <2>2, <2>3
    <3>7. 0 <= Last
      BY <1>t
    <3> QED BY <2>1, <2>2, <3>1, <3>3, <3>4, <3>5, <3>6, <3>7 DEF ReadInv, PercentileHonest
  <2> QED BY <2>4, <2>5
<1>8. ASSUME rpc = "find", rpc' = "answered", NEW b \in 0 .. Last, ri = b,
             UNCHANGED <<rtotal, rp, undisturbed, observed>>,
             Sum(observed, Within(b)) > 0,
             undisturbed => Target <= Sum(observed, Upto(b + 1)),
             result' = IF b < Last THEN LatencyBounds[b + 1] ELSE Slow
      PROVE  ReadInv'
  <2>1. \A ms \in Latencies : LatencyBucket(ms) = b => RoundedUp(ms) = result'
    BY <1>8, Rounded
  <2>2. \E ms \in DOMAIN observed' : observed'[ms] > 0 /\ RoundedUp(ms) = result'
    <3>1. PICK ms \in Within(b) : observed[ms] > 0
      BY <1>8, <1>o, <1>s
    <3>2. ms \in Latencies /\ LatencyBucket(ms) = b
      BY <3>1 DEF Within
    <3> QED BY <1>t, <1>8, <2>1, <3>1, <3>2
  <2>3. undisturbed => result' = RoundedUp(Ranked(Target))
    <3> SUFFICES ASSUME undisturbed PROVE result' = RoundedUp(Ranked(Target))
      OBVIOUS
    <3>1. rcount < Target /\ rcount = Sum(observed, Upto(b)) /\ Target <= Sum(observed, Upto(b + 1))
      BY <1>8 DEF ReadInv
    <3>2. Target \in Nat
      <4>1. rtotal > 0 /\ rp \in 1 .. 100
        BY <1>8 DEF ReadInv
      <4> QED BY <4>1, TargetFits
    <3>3. Ranked(Target) \in Latencies /\ LatencyBucket(Ranked(Target)) = b
      <4>1. ASSUME NEW n \in Nat, n = Target
            PROVE  Ranked(n) \in Latencies /\ LatencyBucket(Ranked(n)) = b
        <5>1. Sum(observed, Upto(b)) < n /\ n <= Sum(observed, Upto(b + 1))
          BY <3>1, <4>1
        <5> QED BY <1>t, <5>1, RankFound
      <4> QED BY <3>2, <4>1
    <3> QED BY <2>1, <3>3
  <2>4. undisturbed' => result' = RoundedUp(RankIn(observed', Max({1, (rtotal' * rp') \div 100})))
    BY <1>8, <2>3, HonestIs DEF Target
  <2>5. rtotal' # 0
    BY <1>8, <1>t DEF ReadInv
  <2>6. PercentileHonest'
    BY <2>2, <2>4, <2>5, HonestIs DEF HonestIn
  <2> QED BY <1>8, <2>6 DEF ReadInv
<1>9. CASE FindBucket
  <2>1. /\ rpc = "find" /\ ri < Last /\ rcount' = rcount + InBucket(ri)
        /\ UNCHANGED <<rtotal, rp, undisturbed, observed>>
        /\ IF rcount' >= Target
             THEN result' = LatencyBounds[ri + 1] /\ rpc' = "answered" /\ UNCHANGED ri
             ELSE ri' = ri + 1 /\ UNCHANGED <<rpc, result>>
    BY <1>9 DEF FindBucket, Answer, Rest
  <2>2. ri \in 0 .. Last /\ InBucket(ri) = Sum(observed, Within(ri))
    BY <1>t, <2>1 DEF HistInv
  <2>3. /\ rtotal > 0 /\ rcount < Target /\ rp \in 1 .. 100
        /\ rtotal <= rcount + Sum(observed, From(ri))
        /\ undisturbed => rtotal = Sum(observed, Latencies) /\ rcount = Sum(observed, Upto(ri))
    BY <2>1 DEF ReadInv
  <2>4. Target \in Nat
    BY <2>3, TargetFits
  <2>5. /\ Sum(observed, Upto(ri + 1)) = Sum(observed, Upto(ri)) + InBucket(ri)
        /\ Sum(observed, From(ri)) = InBucket(ri) + Sum(observed, From(ri + 1))
        /\ InBucket(ri) \in Nat
    BY <1>o, <1>n, <2>2
  <2>6. undisturbed => rcount' = Sum(observed, Upto(ri + 1))
    BY <2>1, <2>3, <2>5
  <2>7. CASE rcount' >= Target
    <3>1. Sum(observed, Within(ri)) > 0
      BY <1>t, <2>1, <2>2, <2>3, <2>4, <2>5, <2>7
    <3>2. undisturbed => Target <= Sum(observed, Upto(ri + 1))
      <4>1. rcount' \in Nat
        BY <1>t, <2>1, <2>5
      <4> QED BY <2>4, <2>6, <2>7, <4>1
    <3>3. result' = IF ri < Last THEN LatencyBounds[ri + 1] ELSE Slow
      BY <2>1, <2>7
    <3>4. rpc' = "answered"
      BY <2>1, <2>7
    <3> QED BY <1>8, <2>1, <2>2, <3>1, <3>2, <3>3, <3>4
  <2>8. CASE ~(rcount' >= Target)
    <3>1. ri' = ri + 1 /\ UNCHANGED <<rpc, result>> /\ ri' <= Last
      BY <1>t, <2>1, <2>8
    <3>2. UNCHANGED Target
      BY <2>1 DEF Target
    <3>3. rcount' < Target
      <4>1. rcount' \in Nat
        BY <1>t, <2>1, <2>5
      <4> QED BY <2>4, <2>8, <4>1
    <3>4. rtotal <= rcount' + Sum(observed, From(ri + 1))
      <4>1. rcount' = rcount + InBucket(ri)
        BY <2>1
      <4> QED BY <1>t, <1>n, <2>3, <2>5, <4>1
    <3> QED BY <2>1, <2>3, <2>6, <3>1, <3>2, <3>3, <3>4 DEF ReadInv, PercentileHonest
  <2> QED BY <2>7, <2>8
<1>10. CASE FindNone
  <2>1. /\ rpc = "find" /\ ri >= Last /\ result' = Slow /\ rpc' = "answered"
        /\ UNCHANGED <<ri, rtotal, rcount, rp, undisturbed, observed>>
    BY <1>10 DEF FindNone, Answer, Rest
  <2>2. /\ rtotal > 0 /\ rcount < Target /\ rp \in 1 .. 100 /\ ri = Last
        /\ rtotal <= rcount + Sum(observed, From(ri))
        /\ undisturbed => rtotal = Sum(observed, Latencies)
    BY <1>t, <2>1 DEF ReadInv
  <2>3. Target \in Nat /\ Target <= rtotal
    BY <2>2, TargetFits
  <2>4. Sum(observed, Within(ri)) > 0
    <3>1. From(ri) = Within(ri)
      BY <1>o, <2>2
    <3> QED BY <1>t, <1>n, <2>2, <2>3, <3>1
  <2>5. undisturbed => Target <= Sum(observed, Upto(ri + 1))
    BY <1>o, <2>2, <2>3
  <2>6. ri \in 0 .. Last /\ result' = IF ri < Last THEN LatencyBounds[ri + 1] ELSE Slow
    BY <1>t, <2>1, <2>2
  <2> QED BY <1>8, <2>1, <2>4, <2>5, <2>6
<1>11. CASE ReadDone
  BY <1>11 DEF ReadDone, ReadInv, PercentileHonest
<1> QED BY <1>2, <1>3, <1>4, <1>5, <1>6, <1>7, <1>9, <1>10, <1>11 DEF Next

LEMMA Reading == ViewSpec => [](Typed /\ CountInv /\ HistInv /\ ReadInv)
<1> DEFINE I == Typed /\ CountInv /\ HistInv /\ ReadInv
<1>1. ViewInit => I
  BY InitTyped, InitCount, InitHist, InitRead DEF ViewInit
<1>2. I /\ [ViewNext]_<<vars, viewVars>> => I'
  BY ViewStep, StepTyped, StepCount, StepHist, StepRead
<1> QED BY <1>1, <1>2, PTL DEF ViewSpec

(* However the histogram grows between the two passes, a percentile is a   *)
(* bound under which a request was observed, and the rounded latency of    *)
(* its rank if the histogram stood still.                                  *)
THEOREM HonestPercentile == ViewSpec => []PercentileHonest
<1>1. ReadInv => PercentileHonest
  BY DEF ReadInv
<1> QED BY <1>1, Reading, PTL
-----------------------------------------------------------------------------
(* The response.  What it has loaded stays below the counters, which only  *)
(* grow, and above what they were when it loaded the total.                *)
Total  == <<"total", 0>>
Errors == <<"errors", 0>>

(* The groups still to walk from the k-th on.                              *)
Left(k) == CASE k = 1 -> <<"method", "latency", "size">>
             [] k = 2 -> <<"latency", "size">>
             [] k = 3 -> <<"size">>
             [] OTHER -> <<>>

Passed(k)  == {x \in Indices[Groups[k]] : x < vi}
Ahead(k)   == {x \in Indices[Groups[k]] : x >= vi}
PartOf(k, S) == Sum(GroupOf(count, Groups[k]), S)
Sofar(k)   == IF Groups[k] \in DOMAIN sums THEN sums[Groups[k]] ELSE 0
Floor      == shown[Total] - slack

Whole(k) ==
    /\ Groups[k] \in DOMAIN sums /\ sums[Groups[k]] \in Nat
    /\ Floor <= sums[Groups[k]] /\ sums[Groups[k]] <= TotalOf(Groups[k])

Walking(k) ==
    /\ walk = Left(k) /\ vi \in Indices[Groups[k]]
    /\ Sofar(k) \in Nat /\ Sofar(k) <= PartOf(k, Passed(k))
    /\ Floor <= Sofar(k) + PartOf(k, Ahead(k))
    /\ \A j \in 1 .. k - 1 : Whole(j)
    /\ \A j \in k + 1 .. 3 : Groups[j] \notin DOMAIN sums

TotalLoaded ==
    /\ Total \in DOMAIN shown /\ shown[Total] \in Nat /\ slack \in Nat
    /\ shown[Total] >= began
    /\ \A k \in 1 .. 3 : TotalOf(Groups[k]) >= Floor

ErrorsLoaded ==
    /\ Errors \in DOMAIN shown /\ shown[Errors] \in Nat
    /\ shown[Errors] <= TotalOf("total")

ViewInv ==
    /\ ViewTypeOK
    /\ rpc # "idle" => rp \in Percentiles
    /\ vpc # "idle" =>
          /\ began \in Nat /\ began <= TotalOf("total")
          /\ Total \notin wanted => TotalLoaded
          /\ Errors \notin wanted => ErrorsLoaded
    /\ vpc \in {"arguments", "percentile"} => sums = <<>>
    /\ vpc \in {"walk", "written"} => wanted = {}
    /\ vpc = "walk" => \E k \in 1 .. 3 : Walking(k)
    /\ vpc = "written" => \A k \in 1 .. 3 : Whole(k)

LEMMA GroupNames ==
    /\ \A k \in 1 .. 3 : /\ Groups[k] \in DOMAIN Indices /\ Groups[k] = Chain[k + 2]
                         /\ Left(k) # <<>> /\ Head(Left(k)) = Groups[k]
                         /\ Tail(Left(k)) = Left(k + 1)
                         /\ Indices[Groups[k]] # {} /\ Indices[Groups[k]] \subseteq Nat
                         /\ \A j \in 1 .. 3 : j # k => Groups[j] # Groups[k]
    /\ Left(4) = <<>> /\ Left(1) = Groups /\ Groups # <<>>
    /\ DOMAIN Groups = 1 .. 3
<1>1. /\ Groups[1] = "method" /\ Groups[2] = "latency" /\ Groups[3] = "size"
      /\ DOMAIN Groups = 1 .. 3 /\ Groups # <<>>
  BY DEF Groups
<1>2. Chain[3] = "method" /\ Chain[4] = "latency" /\ Chain[5] = "size"
  BY DEF Chain
<1>3. /\ Left(1) = <<"method", "latency", "size">> /\ Left(2) = <<"latency", "size">>
      /\ Left(3) = <<"size">> /\ Left(4) = <<>>
  BY DEF Left
<1>4. /\ Left(1) = Groups /\ Left(1) # <<>> /\ Left(2) # <<>> /\ Left(3) # <<>>
      /\ Head(Left(1)) = "method" /\ Head(Left(2)) = "latency" /\ Head(Left(3)) = "size"
      /\ Tail(Left(1)) = Left(2) /\ Tail(Left(2)) = Left(3) /\ Tail(Left(3)) = Left(4)
  <2>1. Left(1) = Groups /\ Left(1) # <<>> /\ Left(2) # <<>> /\ Left(3) # <<>>
    BY <1>3 DEF Groups
  <2>2. Head(Left(1)) = "method" /\ Head(Left(2)) = "latency" /\ Head(Left(3)) = "size"
    BY <1>3
  <2>3. /\ Tail(<<"method", "latency", "size">>) = <<"latency", "size">>
        /\ Tail(<<"latency", "size">>) = <<"size">> /\ Tail(<<"size">>) = <<>>
    OBVIOUS
  <2> QED BY <1>3, <2>1, <2>2, <2>3
<1>5. /\ {"method", "latency", "size"} \subseteq DOMAIN Indices
      /\ \A g \in {"method", "latency", "size"} : Indices[g] # {} /\ Indices[g] \subseteq Nat
  <2>1. /\ Indices["method"] = 1 .. Len(Methods) + 1
        /\ Indices["latency"] = 0 .. Len(LatencyBounds)
        /\ Indices["size"] = 0 .. Len(SizeBounds)
    BY IndexSets
  <2>2. 1 \in Indices["method"] /\ 0 \in Indices["latency"] /\ 0 \in Indices["size"]
    BY <2>1, Lengths
  <2>3. /\ Indices["method"] \subseteq Nat /\ Indices["latency"] \subseteq Nat
        /\ Indices["size"] \subseteq Nat
    BY <2>1
  <2> QED BY <2>2, <2>3, IndexSets
<1>6. \A k \in 1 .. 3 : k \in {1, 2, 3}
  OBVIOUS
<1>7. /\ \A k \in {1, 2, 3} : /\ Groups[k] \in {"method", "latency", "size"}
                              /\ Groups[k] = Chain[k + 2]
                              /\ \A j \in {1, 2, 3} : j # k => Groups[j] # Groups[k]
  BY <1>1, <1>2
<1>8. \A k \in {1, 2, 3} : /\ Left(k) # <<>> /\ Head(Left(k)) = Groups[k]
                           /\ Tail(Left(k)) = Left(k + 1)
  BY <1>1, <1>4
<1> QED BY <1>1, <1>3, <1>4, <1>5, <1>6, <1>7, <1>8

LEMMA ChainOrder ==
    ASSUME Typed, CountInv
    PROVE  /\ \A n \in 1 .. 7 : /\ TotalOf(Chain[n]) \in Nat
                                /\ TotalOf(Chain[n]) <= TotalOf("total")
                                /\ TotalOf("total") - (Adding + crashes) <= TotalOf(Chain[n])
           /\ TotalOf("total") \in Nat /\ Adding + crashes \in Nat
<1>1. /\ Chain[1] = "total" /\ Chain[2] = "responses" /\ Chain[3] = "method"
      /\ Chain[4] = "latency" /\ Chain[5] = "size" /\ Chain[6] = "status"
      /\ Chain[7] = "wrequests"
  BY DEF Chain
<1>2. \A n \in 1 .. 7 : TotalOf(Chain[n]) \in Nat
  BY PromiseType
<1>3. \A n \in 1 .. 7 : n \in {1, 2, 3, 4, 5, 6, 7}
  OBVIOUS
<1>4. {1, 2, 3, 4, 5, 6, 7} \subseteq 1 .. 7
  OBVIOUS
<1>5. /\ TotalOf("total") \in Nat /\ TotalOf("responses") \in Nat /\ TotalOf("method") \in Nat
      /\ TotalOf("latency") \in Nat /\ TotalOf("size") \in Nat /\ TotalOf("status") \in Nat
      /\ TotalOf("wrequests") \in Nat
  <2>1. \A n \in {1, 2, 3, 4, 5, 6, 7} : TotalOf(Chain[n]) \in Nat
    BY <1>2, <1>4
  <2> QED BY <1>1, <2>1
<1>6. /\ TotalOf("total") >= TotalOf("responses") /\ TotalOf("responses") >= TotalOf("method")
      /\ TotalOf("method") >= TotalOf("latency") /\ TotalOf("latency") >= TotalOf("size")
      /\ TotalOf("size") >= TotalOf("status") /\ TotalOf("status") >= TotalOf("wrequests")
      /\ TotalOf("total") - TotalOf("wrequests") <= Adding + crashes
  BY FromCount DEF BreakdownsAddUp
<1>7. Adding + crashes \in Nat
  BY InChain DEF Typed, TypeOK
<1> DEFINE Fits(t) == /\ t <= TotalOf("total")
                      /\ TotalOf("total") - (Adding + crashes) <= t
<1>8. /\ Fits(TotalOf("total")) /\ Fits(TotalOf("responses")) /\ Fits(TotalOf("method"))
      /\ Fits(TotalOf("latency")) /\ Fits(TotalOf("size")) /\ Fits(TotalOf("status"))
      /\ Fits(TotalOf("wrequests"))
  BY <1>5, <1>6, <1>7
<1> HIDE DEF Fits
<1>9. \A n \in {1, 2, 3, 4, 5, 6, 7} : Fits(TotalOf(Chain[n]))
  BY <1>1, <1>8
<1> QED BY <1>2, <1>3, <1>5, <1>7, <1>9 DEF Fits

(* Sums of parts of a group, now and after a step.                         *)
LEMMA Parts ==
    ASSUME NEW c \in [Counters -> Nat], NEW k \in 1 .. 3
    PROVE  /\ SumOf(c, Groups[k]) = Sum(GroupOf(c, Groups[k]), Indices[Groups[k]])
           /\ SumOf(c, Groups[k]) \in Nat
           /\ \A S \in SUBSET Indices[Groups[k]] :
                 IsFiniteSet(S) /\ Sum(GroupOf(c, Groups[k]), S) \in Nat
<1>1. Groups[k] \in DOMAIN Indices
  BY GroupNames
<1>2. /\ \A x \in Indices[Groups[k]] : GroupOf(c, Groups[k])[x] \in Nat
      /\ SumOf(c, Groups[k]) \in Nat
  BY <1>1, SumOfType
<1>3. IsFiniteSet(Indices[Groups[k]])
  BY <1>1, IndicesFinite
<1>4. ASSUME NEW S \in SUBSET Indices[Groups[k]]
      PROVE  IsFiniteSet(S) /\ Sum(GroupOf(c, Groups[k]), S) \in Nat
  <2> DEFINE f == GroupOf(c, Groups[k])
  <2>1. IsFiniteSet(S) /\ \A x \in S : f[x] \in Nat
    BY <1>2, <1>3, FS_Subset
  <2> HIDE DEF f
  <2>2. Sum(f, S) \in Nat
    BY <2>1, SumType
  <2> QED BY <2>1, <2>2 DEF f
<1> QED BY <1>2, <1>4 DEF SumOf

LEMMA PartsGrow ==
    ASSUME NEW c \in [Counters -> Nat], NEW d \in [Counters -> Nat],
           \A x \in Counters : c[x] <= d[x], NEW name \in DOMAIN Indices
    PROVE  \A S \in SUBSET Indices[name] : Sum(GroupOf(c, name), S) <= Sum(GroupOf(d, name), S)
<1> SUFFICES ASSUME NEW S \in SUBSET Indices[name]
             PROVE  Sum(GroupOf(c, name), S) <= Sum(GroupOf(d, name), S)
  OBVIOUS
<1> DEFINE f == GroupOf(c, name)
           g == GroupOf(d, name)
<1>1. IsFiniteSet(S)
  BY IndicesFinite, FS_Subset
<1>2. \A x \in S : f[x] \in Nat /\ g[x] \in Nat /\ f[x] <= g[x]
  BY CounterIn DEF GroupOf
<1> HIDE DEF f, g
<1>3. Sum(f, S) <= Sum(g, S)
  BY <1>1, <1>2, SumLess
<1> QED BY <1>3 DEF f, g

LEMMA CountGrows ==
    ASSUME Typed, Typed', [Next]_vars
    PROVE  /\ \A x \in Counters : count[x] <= count'[x]
           /\ count \in [Counters -> Nat] /\ count' \in [Counters -> Nat]
<1>1. count \in [Counters -> Nat] /\ count' \in [Counters -> Nat]
  BY DEF Typed, TypeOK
<1>2. CASE UNCHANGED count
  <2>1. \A x \in Counters : count[x] \in Nat
    BY <1>1
  <2> QED BY <1>1, <1>2, <2>1
<1>3. ASSUME NEW w \in Workers, AddNext(w) PROVE \A x \in Counters : count[x] <= count'[x]
  <2> DEFINE a == Head(todo[w])
  <2>1. a \in Addition /\ count' = [count EXCEPT ![a.counter] = @ + a.by]
    BY <1>3, StepAdd
  <2>2. a.counter \in Counters /\ a.by \in Nat
    BY <2>1 DEF Addition
  <2> HIDE DEF a
  <2> QED BY <1>1, <2>1, <2>2
<1>4. CASE \E w \in Workers : LogHandler(w) \/ Crash(w)
  BY <1>2, <1>4 DEF LogHandler, Crash
<1>5. CASE Percentile \/ SumBucket \/ SumDone \/ FindBucket \/ FindNone \/ ReadDone
  BY <1>2, <1>5 DEF Percentile, SumBucket, SumDone, FindBucket, FindNone, ReadDone, Rest
<1>6. CASE UNCHANGED vars
  BY <1>2, <1>6 DEF vars
<1> QED BY <1>1, <1>3, <1>4, <1>5, <1>6 DEF Next

LEMMA TotalsGrow ==
    ASSUME Typed, Typed', [Next]_vars, NEW name \in DOMAIN Indices
    PROVE  /\ TotalOf(name) \in Nat /\ TotalOf(name)' \in Nat
           /\ TotalOf(name) <= TotalOf(name)'
<1>1. /\ \A x \in Counters : count[x] <= count'[x]
      /\ count \in [Counters -> Nat] /\ count' \in [Counters -> Nat]
  BY CountGrows
<1>2. SumOf(count, name) \in Nat /\ SumOf(count', name) \in Nat
  BY <1>1, SumOfType
<1>3. \A c \in [Counters -> Nat], d \in [Counters -> Nat] :
         (\A x \in Counters : c[x] <= d[x]) => SumOf(c, name) <= SumOf(d, name)
  BY PartsGrow DEF SumOf
<1> QED BY <1>1, <1>2, <1>3, TotalIs

LEMMA TotalsSame ==
    ASSUME UNCHANGED count
    PROVE  /\ \A name : TotalOf(name)' = TotalOf(name)
           /\ \A k, S : PartOf(k, S)' = Sum(GroupOf(count, Groups[k]), S')
BY TotalIs DEF PartOf

LEMMA MaxIn ==
    ASSUME NEW S, IsFiniteSet(S), S \subseteq Nat, S # {}
    PROVE  Max(S) \in S /\ \A x \in S : x <= Max(S)
<1>1. PICK x \in S : \A y \in S : y <= x
  BY NatMax
<1>2. \A y \in S : x >= y
  BY <1>1
<1>3. Max(S) \in S /\ \A y \in S : Max(S) >= y
  BY <1>2 DEF Max
<1> QED BY <1>3

(* The next index of a group, after its last the next group.               *)
LEMMA NextIndex ==
    ASSUME NEW k \in 1 .. 3, vi \in Indices[Groups[k]]
    PROVE  /\ LastOf(Groups[k]) \in Nat /\ vi \in Nat /\ vi <= LastOf(Groups[k])
           /\ \A x \in Indices[Groups[k]] : x <= LastOf(Groups[k])
           /\ vi < LastOf(Groups[k]) => vi + 1 \in Indices[Groups[k]]
<1> DEFINE S == Indices[Groups[k]]
<1>1. \E lo, hi \in Nat : S = lo .. hi
  <2>1. /\ Indices["method"] = 1 .. Len(Methods) + 1
        /\ Indices["latency"] = 0 .. Len(LatencyBounds)
        /\ Indices["size"] = 0 .. Len(SizeBounds)
    BY IndexSets
  <2>2. Groups[k] \in {"method", "latency", "size"}
    BY DEF Groups
  <2>3. 0 \in Nat /\ 1 \in Nat /\ Len(Methods) + 1 \in Nat
    BY Lengths
  <2> QED BY <2>1, <2>2, <2>3, Lengths
<1>2. IsFiniteSet(S) /\ S \subseteq Nat /\ S # {}
  BY GroupNames, IndicesFinite
<1> HIDE DEF S
<1>3. Max(S) \in S /\ \A x \in S : x <= Max(S)
  BY <1>2, MaxIn
<1>4. vi \in S /\ LastOf(Groups[k]) = Max(S)
  BY DEF LastOf, S
<1> QED BY <1>1, <1>2, <1>3, <1>4 DEF S

LEMMA InitView == ViewInit => ViewInv
BY ViewAssumption DEF ViewInit, Init, ViewInv, ViewTypeOK

LEMMA StepAsked ==
    (rpc # "idle" => rp \in Percentiles) /\ [Next]_vars => (rpc # "idle" => rp \in Percentiles)'
BY DEF Next, vars, reader, LogHandler, AddNext, Crash, Percentile, SumBucket, SumDone,
       FindBucket, FindNone, ReadDone

(* What was loaded stays within what is counted while the counters grow.   *)
LEMMA StillWithin ==
    ASSUME Typed, Typed', [Next]_vars, UNCHANGED <<shown, slack, sums, walk, vi, began>>
    PROVE  /\ TotalLoaded => TotalLoaded'
           /\ ErrorsLoaded => ErrorsLoaded'
           /\ \A k \in 1 .. 3 : TotalLoaded /\ Whole(k) => Whole(k)'
           /\ \A k \in 1 .. 3 : TotalLoaded /\ Walking(k) => Walking(k)'
<1>1. \A k \in 1 .. 3 : /\ TotalOf(Groups[k]) \in Nat /\ TotalOf(Groups[k])' \in Nat
                        /\ TotalOf(Groups[k]) <= TotalOf(Groups[k])'
  BY TotalsGrow, GroupNames
<1>2. /\ TotalOf("total") \in Nat /\ TotalOf("total")' \in Nat
      /\ TotalOf("total") <= TotalOf("total")'
  BY TotalsGrow, IndexSets DEF Single
<1>3. Floor' = Floor /\ (TotalLoaded => Floor \in Int)
  BY DEF Floor, TotalLoaded
<1>4. TotalLoaded => TotalLoaded'
  <2> SUFFICES ASSUME TotalLoaded PROVE TotalLoaded'
    OBVIOUS
  <2>1. \A k \in 1 .. 3 : TotalOf(Groups[k])' >= Floor'
    BY <1>1, <1>3 DEF TotalLoaded
  <2> QED BY <2>1 DEF TotalLoaded
<1>5. ErrorsLoaded => ErrorsLoaded'
  BY <1>2 DEF ErrorsLoaded
<1>6. ASSUME NEW k \in 1 .. 3, TotalLoaded, Whole(k) PROVE Whole(k)'
  BY <1>1, <1>3, <1>6 DEF Whole
<1>7. ASSUME NEW k \in 1 .. 3, TotalLoaded, Walking(k) PROVE Walking(k)'
  <2> DEFINE P == Passed(k)
             A == Ahead(k)
  <2>1. P \in SUBSET Indices[Groups[k]] /\ A \in SUBSET Indices[Groups[k]]
        /\ Passed(k)' = P /\ Ahead(k)' = A
    BY DEF Passed, Ahead
  <2>2. Groups[k] \in DOMAIN Indices
    BY GroupNames
  <2> HIDE DEF P, A
  <2>3. /\ \A x \in Counters : count[x] <= count'[x]
        /\ count \in [Counters -> Nat] /\ count' \in [Counters -> Nat]
    BY CountGrows
  <2>4. \A S \in SUBSET Indices[Groups[k]] :
           /\ Sum(GroupOf(count, Groups[k]), S) \in Nat
           /\ Sum(GroupOf(count', Groups[k]), S) \in Nat
           /\ Sum(GroupOf(count, Groups[k]), S) <= Sum(GroupOf(count', Groups[k]), S)
    BY <2>2, <2>3, Parts, PartsGrow
  <2>5. /\ PartOf(k, P) \in Nat /\ PartOf(k, Passed(k))' \in Nat
        /\ PartOf(k, P) <= PartOf(k, Passed(k))'
        /\ PartOf(k, A) \in Nat /\ PartOf(k, Ahead(k))' \in Nat
        /\ PartOf(k, A) <= PartOf(k, Ahead(k))'
    BY <2>1, <2>4 DEF PartOf
  <2>6. Sofar(k)' = Sofar(k)
    BY DEF Sofar
  <2>7. /\ Sofar(k) \in Nat /\ Sofar(k) <= PartOf(k, P) /\ Floor <= Sofar(k) + PartOf(k, A)
        /\ walk = Left(k) /\ vi \in Indices[Groups[k]]
        /\ \A j \in 1 .. k - 1 : Whole(j)
        /\ \A j \in k + 1 .. 3 : Groups[j] \notin DOMAIN sums
    BY <1>7 DEF Walking, P, A
  <2>8. Sofar(k)' <= PartOf(k, Passed(k))' /\ Floor' <= Sofar(k)' + PartOf(k, Ahead(k))'
    BY <1>3, <1>7, <2>5, <2>6, <2>7
  <2>9. \A j \in 1 .. k - 1 : Whole(j)'
    <3>1. \A j \in 1 .. k - 1 : j \in 1 .. 3
      OBVIOUS
    <3> QED BY <1>6, <1>7, <2>7, <3>1
  <2> QED BY <2>6, <2>7, <2>8, <2>9 DEF Walking
<1> QED BY <1>4, <1>5, <1>6, <1>7

(* A step of the workers, or of the reader, while the response waits.      *)
LEMMA Waiting ==
    ASSUME Typed, Typed', ViewInv, [Next]_vars, UNCHANGED viewVars
    PROVE  ViewInv'
<1>1. /\ UNCHANGED <<shown, slack, sums, walk, vi, began>>
      /\ UNCHANGED <<vpc, wanted, views>>
  BY DEF viewVars
<1>2. /\ TotalLoaded => TotalLoaded'
      /\ ErrorsLoaded => ErrorsLoaded'
      /\ \A k \in 1 .. 3 : TotalLoaded /\ Whole(k) => Whole(k)'
      /\ \A k \in 1 .. 3 : TotalLoaded /\ Walking(k) => Walking(k)'
  BY <1>1, StillWithin
<1>3. TotalOf("total") \in Nat /\ TotalOf("total")' \in Nat /\ TotalOf("total") <= TotalOf("total")'
  BY TotalsGrow, IndexSets DEF Single
<1>4. ViewTypeOK' /\ (rpc' # "idle" => rp' \in Percentiles)
  BY <1>1, StepAsked DEF ViewInv, ViewTypeOK
<1>5. vpc' # "idle" => /\ began' \in Nat /\ began' <= TotalOf("total")'
                       /\ Total \notin wanted' => TotalLoaded'
                       /\ Errors \notin wanted' => ErrorsLoaded'
  BY <1>1, <1>2, <1>3 DEF ViewInv
<1>6. vpc \in {"walk", "written"} => TotalLoaded
  BY DEF ViewInv
<1>7. /\ vpc' = "walk" => \E k \in 1 .. 3 : Walking(k)'
      /\ vpc' = "written" => \A k \in 1 .. 3 : Whole(k)'
  BY <1>1, <1>2, <1>6 DEF ViewInv
<1> QED BY <1>1, <1>4, <1>5, <1>7 DEF ViewInv

LEMMA ErrorsFit ==
    ASSUME Typed, CountInv
    PROVE  /\ count[<<"status", 4>>] + count[<<"status", 5>>] \in Nat
           /\ count[<<"status", 4>>] + count[<<"status", 5>>] <= TotalOf("total")
<1> DEFINE f == GroupOf(count, "status")
<1>1. count \in [Counters -> Nat] /\ "status" \in DOMAIN Indices /\ Indices["status"] = 1 .. 5
  BY IndexSets DEF Typed, TypeOK
<1>2. \A k \in 1 .. 5 : f[k] = count[<<"status", k>>] /\ f[k] \in Nat
  BY <1>1, SumOfType
<1>3. TotalOf("status") = Sum(f, 1 .. 5) /\ IsFiniteSet(1 .. 5)
  BY <1>1, TotalIs, IndicesFinite DEF SumOf
<1> HIDE DEF f
<1>4. /\ Sum(f, 1 .. 5) = f[4] + Sum(f, (1 .. 5) \ {4})
      /\ Sum(f, (1 .. 5) \ {4}) = f[5] + Sum(f, ((1 .. 5) \ {4}) \ {5})
      /\ Sum(f, ((1 .. 5) \ {4}) \ {5}) \in Nat
  <2>1. /\ IsFiniteSet((1 .. 5) \ {4}) /\ IsFiniteSet(((1 .. 5) \ {4}) \ {5})
        /\ 4 \in 1 .. 5 /\ 5 \in (1 .. 5) \ {4}
    BY <1>3, FS_Subset
  <2>2. \A k \in (1 .. 5) \ {4} : f[k] \in Nat
    BY <1>2
  <2>3. \A k \in ((1 .. 5) \ {4}) \ {5} : f[k] \in Nat
    BY <1>2
  <2>4. Sum(f, 1 .. 5) = f[4] + Sum(f, (1 .. 5) \ {4})
    BY <1>2, <1>3, <2>1, SumRemove
  <2>5. Sum(f, (1 .. 5) \ {4}) = f[5] + Sum(f, ((1 .. 5) \ {4}) \ {5})
    BY <2>1, <2>2, SumRemove
  <2>6. Sum(f, ((1 .. 5) \ {4}) \ {5}) \in Nat
    BY <2>1, <2>3, SumType
  <2> QED BY <2>4, <2>5, <2>6
<1>5. f[4] = count[<<"status", 4>>] /\ f[5] = count[<<"status", 5>>] /\ f[4] \in Nat /\ f[5] \in Nat
  BY <1>2
<1>6. TotalOf("status") <= TotalOf("total") /\ TotalOf("total") \in Nat
  <2>1. Chain[6] = "status" /\ 6 \in 1 .. 7
    BY DEF Chain
  <2> QED BY <2>1, ChainOrder
<1> HIDE DEF Chain
<1> QED BY <1>3, <1>4, <1>5, <1>6

(* The walk of a group begins: all of it is ahead.                         *)
Starting(k) ==
    /\ Typed /\ TotalLoaded /\ walk = Left(k) /\ vi = Min(Indices[Groups[k]])
    /\ \A j \in 1 .. k - 1 : Whole(j)
    /\ \A j \in k .. 3 : Groups[j] \notin DOMAIN sums

StartsWell == \A k \in 1 .. 3 : Starting(k) => Walking(k)

LEMMA Starts == StartsWell
<1> SUFFICES ASSUME NEW k \in 1 .. 3,
                    Typed, TotalLoaded, walk = Left(k), vi = Min(Indices[Groups[k]]),
                    \A j \in 1 .. k - 1 : Whole(j),
                    \A j \in k .. 3 : Groups[j] \notin DOMAIN sums
             PROVE  Walking(k)
  BY DEF StartsWell, Starting
<1>1. vi \in Indices[Groups[k]] /\ \A x \in Indices[Groups[k]] : vi <= x /\ x \in Nat
  BY GroupNames, MinIn
<1>2. Passed(k) = {} /\ Ahead(k) = Indices[Groups[k]]
  BY <1>1 DEF Passed, Ahead
<1>3. PartOf(k, Passed(k)) = 0 /\ PartOf(k, Ahead(k)) = TotalOf(Groups[k])
  BY <1>2, SumEmpty, TotalIs DEF PartOf, SumOf
<1>4. TotalOf(Groups[k]) >= Floor /\ Floor \in Int
  BY DEF TotalLoaded, Floor
<1>5. TotalOf(Groups[k]) \in Nat
  <2>1. count \in [Counters -> Nat]
    BY DEF Typed, TypeOK
  <2> QED BY <2>1, Parts, TotalIs
<1>6. k \in k .. 3 /\ \A j \in k + 1 .. 3 : j \in k .. 3
  OBVIOUS
<1>7. Sofar(k) = 0
  BY <1>6 DEF Sofar
<1> QED BY <1>1, <1>3, <1>4, <1>5, <1>6, <1>7 DEF Walking

(* The count at vi moves from what is ahead to what is passed.             *)
LEMMA MovesOn ==
    ASSUME Typed, NEW k \in 1 .. 3, vi \in Indices[Groups[k]]
    PROVE  /\ count[<<Groups[k], vi>>] \in Nat
           /\ PartOf(k, Passed(k)) \in Nat /\ PartOf(k, Ahead(k) \ {vi}) \in Nat
           /\ PartOf(k, Passed(k) \cup {vi}) = PartOf(k, Passed(k)) + count[<<Groups[k], vi>>]
           /\ PartOf(k, Ahead(k)) = count[<<Groups[k], vi>>] + PartOf(k, Ahead(k) \ {vi})
<1> DEFINE f == GroupOf(count, Groups[k])
           I == Indices[Groups[k]]
           P == Passed(k)
           A == Ahead(k)
<1>1. count \in [Counters -> Nat] /\ Groups[k] \in DOMAIN Indices /\ I \subseteq Nat
  BY GroupNames DEF Typed, TypeOK
<1>2. \A x \in I : f[x] = count[<<Groups[k], x>>] /\ f[x] \in Nat
  BY <1>1, SumOfType
<1>3. \A S \in SUBSET I : IsFiniteSet(S) /\ Sum(f, S) \in Nat
  BY <1>1, Parts
<1>4. /\ P \in SUBSET I /\ A \in SUBSET I /\ vi \in A /\ vi \notin P /\ vi \in I
      /\ P \cup {vi} \in SUBSET I /\ A \ {vi} \in SUBSET I
  BY <1>1 DEF Passed, Ahead
<1> HIDE DEF f, I, P, A
<1>5. \A S \in SUBSET I : \A x \in S : Sum(f, S) = f[x] + Sum(f, S \ {x})
  <2> SUFFICES ASSUME NEW S \in SUBSET I PROVE \A x \in S : Sum(f, S) = f[x] + Sum(f, S \ {x})
    OBVIOUS
  <2>1. IsFiniteSet(S) /\ \A x \in S : f[x] \in Nat
    BY <1>2, <1>3
  <2> QED BY <2>1, SumRemove
<1>6. (P \cup {vi}) \ {vi} = P
  BY <1>4
<1>7. Sum(f, P \cup {vi}) = f[vi] + Sum(f, P) /\ Sum(f, A) = f[vi] + Sum(f, A \ {vi})
  BY <1>4, <1>5, <1>6
<1>8. f[vi] \in Nat /\ Sum(f, P) \in Nat /\ Sum(f, A \ {vi}) \in Nat
      /\ f[vi] = count[<<Groups[k], vi>>]
  BY <1>2, <1>3, <1>4
<1> QED BY <1>7, <1>8 DEF PartOf, f, P, A

LEMMA StepLoadCount ==
    ASSUME Typed, Typed', ViewInv, LoadCount
    PROVE  ViewInv'
<1>1. /\ vpc = "walk" /\ UNCHANGED <<wanted, shown, views, began, slack>>
      /\ UNCHANGED <<count, rpc, rp>>
  BY DEF LoadCount, vars, reader
<1>2. PICK k \in 1 .. 3 : Walking(k)
  BY <1>1 DEF ViewInv
<1>3. /\ wanted = {} /\ TotalLoaded /\ ErrorsLoaded
      /\ began \in Nat /\ began <= TotalOf("total")
  BY <1>1 DEF ViewInv
<1> DEFINE g == Groups[k]
           n == count[<<g, vi>>]
<1>4. /\ walk = Left(k) /\ Head(walk) = g /\ Tail(walk) = Left(k + 1)
      /\ vi \in Indices[g] /\ g \in DOMAIN Indices
      /\ \A j \in 1 .. 3 : j # k => Groups[j] # g
  BY <1>2, GroupNames DEF Walking
<1>5. /\ sums' = Put(sums, g, Sofar(k) + n)
      /\ IF vi < LastOf(g) THEN vi' = vi + 1 /\ UNCHANGED <<vpc, walk>>
                           ELSE Walk(Left(k + 1))
  BY <1>4 DEF LoadCount, Sofar
<1>6. /\ DOMAIN sums' = DOMAIN sums \cup {g} /\ sums'[g] = Sofar(k) + n
      /\ \A y \in DOMAIN sums : y # g => sums'[y] = sums[y]
  <2> DEFINE m == Sofar(k) + n
  <2>1. sums' = Put(sums, g, m)
    BY <1>5
  <2> HIDE DEF m, g
  <2>2. /\ DOMAIN sums' = DOMAIN sums \cup {g} /\ sums'[g] = m
        /\ \A y \in DOMAIN sums : y # g => sums'[y] = sums[y]
    BY <2>1 DEF Put
  <2> QED BY <2>2 DEF m
<1>7. /\ \A name : TotalOf(name)' = TotalOf(name)
      /\ \A j, S : PartOf(j, S)' = Sum(GroupOf(count, Groups[j]), S')
      /\ Floor' = Floor /\ Floor \in Int /\ TotalLoaded' /\ ErrorsLoaded'
  <2>1. /\ \A name : TotalOf(name)' = TotalOf(name)
        /\ \A j, S : PartOf(j, S)' = Sum(GroupOf(count, Groups[j]), S')
    BY <1>1, TotalsSame
  <2>2. Floor' = Floor /\ Floor \in Int
    BY <1>1, <1>3 DEF Floor, TotalLoaded
  <2> QED BY <1>1, <1>3, <2>1, <2>2 DEF TotalLoaded, ErrorsLoaded
<1>8. /\ n \in Nat /\ PartOf(k, Passed(k)) \in Nat /\ PartOf(k, Ahead(k) \ {vi}) \in Nat
      /\ PartOf(k, Passed(k) \cup {vi}) = PartOf(k, Passed(k)) + n
      /\ PartOf(k, Ahead(k)) = n + PartOf(k, Ahead(k) \ {vi})
  BY <1>4, MovesOn
<1>9. /\ LastOf(g) \in Nat /\ vi \in Nat /\ vi <= LastOf(g)
      /\ \A x \in Indices[g] : x <= LastOf(g) /\ x \in Nat
      /\ vi < LastOf(g) => vi + 1 \in Indices[g]
  BY <1>4, NextIndex, GroupNames
<1>10. /\ Sofar(k) \in Nat /\ Sofar(k) <= PartOf(k, Passed(k))
       /\ Floor <= Sofar(k) + PartOf(k, Ahead(k))
       /\ \A j \in 1 .. k - 1 : Whole(j)
       /\ \A j \in k + 1 .. 3 : Groups[j] \notin DOMAIN sums
  BY <1>2 DEF Walking
<1>11. /\ sums'[g] \in Nat /\ sums'[g] <= PartOf(k, Passed(k) \cup {vi})
       /\ Floor <= sums'[g] + PartOf(k, Ahead(k) \ {vi})
  <2> HIDE DEF n, g
  <2> QED BY <1>6, <1>7, <1>8, <1>10
<1>12. \A j \in 1 .. k - 1 : Whole(j)'
  <2> SUFFICES ASSUME NEW j \in 1 .. k - 1 PROVE Whole(j)'
    OBVIOUS
  <2>1. j \in 1 .. 3 /\ j # k
    OBVIOUS
  <2>2. Whole(j) /\ Groups[j] # g
    BY <1>4, <1>10, <2>1
  <2>3. Groups[j] \in DOMAIN sums' /\ sums'[Groups[j]] = sums[Groups[j]]
    BY <1>6, <2>2 DEF Whole
  <2> QED BY <1>7, <2>2, <2>3 DEF Whole
<1>13. \A j \in k + 1 .. 3 : Groups[j] \notin DOMAIN sums'
  <2>1. \A j \in k + 1 .. 3 : j \in 1 .. 3 /\ j # k
    OBVIOUS
  <2> QED BY <1>4, <1>6, <1>10, <2>1
<1> HIDE DEF n
<1>14. CASE vi < LastOf(g)
  <2>1. vi' = vi + 1 /\ vpc' = "walk" /\ walk' = Left(k)
    BY <1>1, <1>4, <1>5, <1>14
  <2>2. Passed(k)' = Passed(k) \cup {vi} /\ Ahead(k)' = Ahead(k) \ {vi}
    BY <1>4, <1>9, <2>1 DEF Passed, Ahead
  <2>3. /\ PartOf(k, Passed(k))' = PartOf(k, Passed(k) \cup {vi})
        /\ PartOf(k, Ahead(k))' = PartOf(k, Ahead(k) \ {vi})
    BY <1>7, <2>2 DEF PartOf
  <2>4. Sofar(k)' = sums'[g]
    BY <1>6 DEF Sofar
  <2>5. Walking(k)'
    BY <1>7, <1>9, <1>11, <1>12, <1>13, <1>14, <2>1, <2>3, <2>4 DEF Walking
  <2>6. ViewTypeOK'
    BY <1>1, <1>9, <2>1 DEF ViewInv, ViewTypeOK
  <2> QED BY <1>1, <1>3, <1>7, <2>1, <2>5, <2>6 DEF ViewInv
<1>15. CASE ~(vi < LastOf(g))
  <2>1. Walk(Left(k + 1)) /\ vi = LastOf(g)
    BY <1>5, <1>9, <1>15
  <2>2. Whole(k)'
    <3>1. Passed(k) \cup {vi} = Indices[g] /\ Ahead(k) \ {vi} = {}
      BY <1>4, <1>9, <2>1 DEF Passed, Ahead
    <3>2. PartOf(k, Indices[g]) = TotalOf(g) /\ PartOf(k, {}) = 0
      BY SumEmpty, TotalIs DEF PartOf, SumOf
    <3>3. sums'[g] <= TotalOf(g) /\ Floor <= sums'[g]
      <4>1. /\ PartOf(k, Passed(k) \cup {vi}) = TotalOf(g)
            /\ PartOf(k, Ahead(k) \ {vi}) = 0
        BY <3>1, <3>2
      <4>2. sums'[g] \in Nat
        BY <1>11
      <4> QED BY <1>11, <4>1, <4>2
    <3> QED BY <1>6, <1>7, <1>11, <3>3 DEF Whole
  <2>3. CASE k = 3
    <3>1. vi' = 0 /\ vpc' = "written"
      BY <2>1, <2>3, GroupNames DEF Walk
    <3>2. \A j \in 1 .. 3 : Whole(j)'
      BY <1>12, <2>2, <2>3
    <3>3. ViewTypeOK'
      BY <1>1, <3>1 DEF ViewInv, ViewTypeOK
    <3> QED BY <1>1, <1>3, <1>7, <3>1, <3>2, <3>3 DEF ViewInv
  <2>4. CASE k # 3
    <3>1. k + 1 \in 1 .. 3 /\ Left(k + 1) # <<>> /\ Head(Left(k + 1)) = Groups[k + 1]
      BY <2>4, GroupNames
    <3>2. walk' = Left(k + 1) /\ vi' = Min(Indices[Groups[k + 1]]) /\ vpc' = "walk"
      BY <2>1, <3>1 DEF Walk
    <3>3. \A j \in 1 .. (k + 1) - 1 : Whole(j)'
      BY <1>12, <2>2
    <3>4. Walking(k + 1)'
      <4>1. StartsWell'
        BY Starts, PTL
      <4>2. Starting(k + 1)'
        BY <1>7, <1>13, <3>1, <3>2, <3>3 DEF Starting
      <4> QED BY <3>1, <4>1, <4>2 DEF StartsWell
    <3>5. vi' \in Nat
      BY <3>1, <3>4, GroupNames DEF Walking
    <3>6. ViewTypeOK'
      BY <1>1, <3>2, <3>5 DEF ViewInv, ViewTypeOK
    <3> QED BY <1>1, <1>3, <1>7, <3>1, <3>2, <3>4, <3>6 DEF ViewInv
  <2> QED BY <2>3, <2>4
<1> QED BY <1>14, <1>15

(* The response begins, or one of its arguments is known.                  *)
LEMMA StepArgument ==
    ASSUME Typed, Typed', CountInv, ViewInv, [Next]_vars,
           \/ StartView \/ LoadTotal \/ LoadErrors \/ PercentileReturns
    PROVE  ViewInv'
<1>1. UNCHANGED count
  BY DEF StartView, LoadTotal, LoadErrors, PercentileReturns, ReadDone, Rest, vars
<1>2. /\ \A name : TotalOf(name)' = TotalOf(name)
      /\ TotalOf("total") \in Nat /\ Adding + crashes \in Nat
      /\ \A k \in 1 .. 3 : /\ TotalOf(Groups[k]) \in Nat
                           /\ TotalOf("total") - (Adding + crashes) <= TotalOf(Groups[k])
  <2>1. \A k \in 1 .. 3 : Groups[k] = Chain[k + 2] /\ k + 2 \in 1 .. 7
    BY GroupNames
  <2> QED BY <1>1, <2>1, TotalsSame, ChainOrder
<1>3. rpc' # "idle" => rp' \in Percentiles
  BY StepAsked DEF ViewInv
<1>4. /\ Total \in Arguments /\ Errors \in Arguments /\ Total # Errors
      /\ \A p : <<"percentile", p>> # Total /\ <<"percentile", p>> # Errors
      /\ \A p \in Percentiles : <<"percentile", p>> \in Arguments
  BY DEF Total, Errors, Arguments
<1>5. CASE StartView
  <2>1. /\ vpc' = "arguments" /\ wanted' = Arguments /\ shown' = <<>> /\ sums' = <<>>
        /\ views < MaxViews /\ views' = views + 1 /\ began' = TotalOf("total") /\ vi' = vi
    BY <1>5 DEF StartView
  <2>2. ViewTypeOK'
    BY <2>1, ViewAssumption DEF ViewInv, ViewTypeOK
  <2> QED BY <1>2, <1>3, <1>4, <2>1, <2>2 DEF ViewInv
<1>6. CASE LoadTotal
  <2>1. /\ vpc = "arguments" /\ UNCHANGED <<vpc, walk, vi, sums, views, began>>
        /\ Pass(Total, TotalOf("total")) /\ slack' = Adding + crashes
    BY <1>6 DEF LoadTotal, Total
  <2>2. /\ wanted' \subseteq Arguments /\ DOMAIN shown' \subseteq Arguments
        /\ wanted' = wanted \ {Total} /\ DOMAIN shown' = DOMAIN shown \cup {Total}
        /\ shown'[Total] = TotalOf("total")
        /\ \A y \in DOMAIN shown : y # Total => shown'[y] = shown[y]
    <3> DEFINE m == TotalOf("total")
    <3>1. wanted' = wanted \ {Total} /\ shown' = Put(shown, Total, m)
      BY <2>1 DEF Pass
    <3>2. wanted \subseteq Arguments /\ DOMAIN shown \subseteq Arguments
      BY DEF ViewInv, ViewTypeOK
    <3> HIDE DEF m
    <3>3. /\ DOMAIN shown' = DOMAIN shown \cup {Total} /\ shown'[Total] = m
          /\ \A y \in DOMAIN shown : y # Total => shown'[y] = shown[y]
      BY <3>1 DEF Put
    <3> QED BY <1>4, <3>1, <3>2, <3>3 DEF m
  <2>3. began \in Nat /\ began <= TotalOf("total") /\ (Errors \notin wanted => ErrorsLoaded)
    BY <2>1 DEF ViewInv
  <2>4. TotalLoaded'
    <3>1. Floor' = TotalOf("total") - (Adding + crashes)
      BY <2>1, <2>2 DEF Floor
    <3> QED BY <1>2, <2>1, <2>2, <2>3, <3>1 DEF TotalLoaded
  <2>5. Errors \notin wanted' => ErrorsLoaded'
    BY <1>2, <1>4, <2>2, <2>3 DEF ErrorsLoaded
  <2>6. ViewTypeOK'
    BY <2>1, <2>2 DEF ViewInv, ViewTypeOK
  <2> QED BY <1>2, <1>3, <2>1, <2>3, <2>4, <2>5, <2>6 DEF ViewInv
<1>7. ASSUME NEW arg \in Arguments, NEW n, Pass(arg, n), arg # Total,
             vpc \in {"arguments", "percentile"}, vpc' = "arguments",
             UNCHANGED <<walk, vi, sums, views, began, slack>>,
             arg = Errors => n \in Nat /\ n <= TotalOf("total")
      PROVE  ViewInv'
  <2>1. /\ wanted' \subseteq Arguments /\ DOMAIN shown' \subseteq Arguments
        /\ wanted' = wanted \ {arg} /\ DOMAIN shown' = DOMAIN shown \cup {arg}
        /\ shown'[arg] = n
        /\ \A y \in DOMAIN shown : y # arg => shown'[y] = shown[y]
    <3>1. wanted' = wanted \ {arg} /\ shown' = Put(shown, arg, n)
      BY <1>7 DEF Pass
    <3>2. wanted \subseteq Arguments /\ DOMAIN shown \subseteq Arguments
      BY DEF ViewInv, ViewTypeOK
    <3>3. /\ DOMAIN shown' = DOMAIN shown \cup {arg} /\ shown'[arg] = n
          /\ \A y \in DOMAIN shown : y # arg => shown'[y] = shown[y]
      BY <3>1 DEF Put
    <3> QED BY <1>7, <3>1, <3>2, <3>3
  <2>2. /\ began \in Nat /\ began <= TotalOf("total") /\ sums = <<>>
        /\ Total \notin wanted => TotalLoaded
        /\ Errors \notin wanted => ErrorsLoaded
    BY <1>7 DEF ViewInv
  <2>3. Total \notin wanted' => TotalLoaded'
    <3> SUFFICES ASSUME Total \notin wanted' PROVE TotalLoaded'
      OBVIOUS
    <3>1. TotalLoaded
      BY <1>7, <2>1, <2>2
    <3>2. Total \in DOMAIN shown' /\ shown'[Total] = shown[Total]
      BY <1>7, <2>1, <3>1 DEF TotalLoaded
    <3>3. Floor' = Floor
      BY <1>7, <3>2 DEF Floor
    <3> QED BY <1>2, <1>7, <3>1, <3>2, <3>3 DEF TotalLoaded
  <2>4. Errors \notin wanted' => ErrorsLoaded'
    <3>1. CASE arg = Errors
      BY <1>2, <1>7, <2>1, <3>1 DEF ErrorsLoaded
    <3>2. CASE arg # Errors
      BY <1>2, <2>1, <2>2, <3>2 DEF ErrorsLoaded
    <3> QED BY <3>1, <3>2
  <2>5. ViewTypeOK'
    BY <1>7, <2>1 DEF ViewInv, ViewTypeOK
  <2> QED BY <1>2, <1>3, <1>7, <2>2, <2>3, <2>4, <2>5 DEF ViewInv
<1>8. CASE LoadErrors
  <2>1. /\ vpc = "arguments" /\ UNCHANGED <<vpc, walk, vi, sums, views, began, slack>>
        /\ Pass(Errors, count[<<"status", 4>>] + count[<<"status", 5>>])
    BY <1>8 DEF LoadErrors, Errors
  <2> QED BY <1>4, <1>7, <2>1, ErrorsFit
<1>9. CASE PercentileReturns
  <2>1. /\ vpc = "percentile" /\ vpc' = "arguments"
        /\ UNCHANGED <<walk, vi, sums, views, began, slack>>
        /\ Pass(<<"percentile", rp>>, result) /\ rpc = "answered"
    BY <1>9 DEF PercentileReturns, ReadDone
  <2>2. rp \in Percentiles
    BY <2>1 DEF ViewInv
  <2> QED BY <1>4, <1>7, <2>1, <2>2
<1> QED BY <1>5, <1>6, <1>8, <1>9

LEMMA StepView ==
    Typed /\ Typed' /\ CountInv /\ ViewInv /\ [ViewNext]_<<vars, viewVars>> => ViewInv'
<1> SUFFICES ASSUME Typed, Typed', CountInv, ViewInv, [ViewNext]_<<vars, viewVars>>
             PROVE  ViewInv'
  OBVIOUS
<1>0. [Next]_vars
  BY ViewStep
<1>1. CASE UNCHANGED viewVars
  BY <1>0, <1>1, Waiting
<1>2. CASE Work \/ InPercentile \/ UNCHANGED <<vars, viewVars>>
  BY <1>1, <1>2 DEF Work, InPercentile, viewVars
<1>3. CASE StartView \/ LoadTotal \/ LoadErrors \/ PercentileReturns
  BY <1>0, <1>3, StepArgument
<1>4. CASE LoadCount
  BY <1>4, StepLoadCount
<1>5. rpc' # "idle" => rp' \in Percentiles
  BY <1>0, StepAsked DEF ViewInv
<1>6. CASE CallPercentile
  <2>1. /\ vpc = "arguments" /\ vpc' = "percentile"
        /\ UNCHANGED <<wanted, shown, walk, vi, sums, views, began, slack>> /\ UNCHANGED count
    BY <1>6 DEF CallPercentile, Percentile, Rest
  <2>2. \A name : TotalOf(name)' = TotalOf(name)
    BY <2>1, TotalsSame
  <2>3. (TotalLoaded => TotalLoaded') /\ (ErrorsLoaded => ErrorsLoaded')
    BY <2>1, <2>2 DEF TotalLoaded, ErrorsLoaded, Floor
  <2> QED BY <1>5, <2>1, <2>2, <2>3 DEF ViewInv, ViewTypeOK
<1>7. CASE ArgumentsDone
  <2>1. /\ vpc = "arguments" /\ wanted = {} /\ Walk(Groups) /\ UNCHANGED vars
        /\ UNCHANGED <<wanted, shown, sums, views, began, slack>> /\ UNCHANGED count
    BY <1>7 DEF ArgumentsDone, vars
  <2>2. \A name : TotalOf(name)' = TotalOf(name)
    BY <2>1, TotalsSame
  <2>3. TotalLoaded' /\ ErrorsLoaded'
    <3>1. TotalLoaded /\ ErrorsLoaded
      BY <2>1 DEF ViewInv
    <3> QED BY <2>1, <2>2, <3>1 DEF TotalLoaded, ErrorsLoaded, Floor
  <2>4. walk' = Left(1) /\ vi' = Min(Indices[Groups[1]]) /\ vpc' = "walk"
    BY <2>1, GroupNames DEF Walk
  <2>5. sums' = <<>> /\ began' \in Nat /\ began' <= TotalOf("total")'
    BY <2>1, <2>2 DEF ViewInv
  <2>6. Walking(1)'
    <3>1. StartsWell'
      BY Starts, PTL
    <3>2. 1 \in 1 .. 3 /\ (\A j \in 1 .. 1 - 1 : Whole(j)') /\ Groups[1] \notin DOMAIN sums'
          /\ \A j \in 1 .. 3 : Groups[j] \notin DOMAIN sums'
      BY <2>5
    <3>3. Starting(1)'
      BY <2>3, <2>4, <3>2 DEF Starting
    <3> QED BY <3>1, <3>2, <3>3 DEF StartsWell
  <2>7. vi' \in Nat
    BY <2>6, GroupNames DEF Walking
  <2>8. ViewTypeOK'
    BY <2>1, <2>4, <2>7 DEF ViewInv, ViewTypeOK
  <2> QED BY <1>5, <2>1, <2>3, <2>4, <2>5, <2>6, <2>8 DEF ViewInv
<1>8. CASE EndView
  <2>1. /\ vpc' = "idle" /\ shown' = <<>> /\ sums' = <<>>
        /\ UNCHANGED <<wanted, walk, vi, views>>
    BY <1>8 DEF EndView
  <2> QED BY <1>5, <2>1 DEF ViewInv, ViewTypeOK
<1> QED BY <1>2, <1>3, <1>4, <1>6, <1>7, <1>8 DEF ViewNext, View

(* With any workers adding and dying while it is written, a response shows *)
(* of every method, latency and size what its total counts, but for the    *)
(* requests being added when that was loaded and those of the dead, and    *)
(* nothing that has not come; and its errors exceed its total by no more   *)
(* than the requests that came during the response.                        *)
THEOREM ResponseHolds == ViewSpec => []ResponseAddsUp
<1> DEFINE I == Typed /\ CountInv /\ ViewInv
<1>1. ViewInit => I
  BY InitTyped, InitCount, InitView DEF ViewInit
<1>2. I /\ [ViewNext]_<<vars, viewVars>> => I'
  BY ViewStep, StepTyped, StepCount, StepView
<1>3. I => ResponseAddsUp
  <2> SUFFICES ASSUME Typed, CountInv, ViewInv PROVE ResponseAddsUp
    OBVIOUS
  <2>1. TotalOf("total") \in Nat /\ \A k \in 1 .. 3 : TotalOf(Groups[k]) \in Nat
                                                     /\ TotalOf(Groups[k]) <= TotalOf("total")
    <3>1. \A k \in 1 .. 3 : Groups[k] = Chain[k + 2] /\ k + 2 \in 1 .. 7
      BY GroupNames
    <3> QED BY <3>1, ChainOrder
  <2>2. ASSUME vpc = "written"
        PROVE  /\ \A k \in DOMAIN Groups :
                     sums[Groups[k]] \in shown[Total] - slack .. TotalOf("total")
               /\ shown[Errors] <= shown[Total] + TotalOf("total") - began
    <3>1. /\ TotalLoaded /\ ErrorsLoaded /\ began \in Nat /\ began <= TotalOf("total")
          /\ \A k \in 1 .. 3 : Whole(k)
      BY <2>2 DEF ViewInv
    <3>2. /\ shown[Total] \in Nat /\ slack \in Nat /\ shown[Total] >= began
          /\ shown[Errors] \in Nat /\ shown[Errors] <= TotalOf("total")
      BY <3>1 DEF TotalLoaded, ErrorsLoaded
    <3>3. \A k \in 1 .. 3 : /\ sums[Groups[k]] \in Nat /\ Floor <= sums[Groups[k]]
                            /\ sums[Groups[k]] <= TotalOf(Groups[k])
      BY <3>1 DEF Whole
    <3>4. Floor = shown[Total] - slack /\ Floor \in Int
      BY <3>2 DEF Floor
    <3>5. ASSUME NEW k \in 1 .. 3 PROVE sums[Groups[k]] \in Floor .. TotalOf("total")
      <4>1. /\ sums[Groups[k]] \in Nat /\ Floor <= sums[Groups[k]]
            /\ sums[Groups[k]] <= TotalOf(Groups[k]) /\ TotalOf(Groups[k]) \in Nat
            /\ TotalOf(Groups[k]) <= TotalOf("total") /\ TotalOf("total") \in Nat
        BY <2>1, <3>3
      <4> QED BY <3>4, <4>1
    <3>6. shown[Errors] <= shown[Total] + TotalOf("total") - began
      BY <2>1, <3>1, <3>2
    <3> QED BY <3>4, <3>5, <3>6, GroupNames
  <2> QED BY <2>2 DEF ResponseAddsUp, ViewInv, Total, Errors
<1> QED BY <1>1, <1>2, <1>3, PTL DEF ViewSpec
=============================================================================

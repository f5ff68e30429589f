--------------------------- MODULE TopTableProofs ----------------------------
(* What a row of the bounded tables is, and what its counters say, for any *)
(* number of workers, keys and rows, any clash of hashes and stored names, *)
(* and every death inside a call; and what a list copied from them shows.  *)
EXTENDS TopView, Sums, SequenceTheorems

(* The counters still to be added: the hit first, a 5xx last and after it  *)
(* was added to the failures.                                              *)
InOrder(t) ==
    \A j \in 1 .. Len(t) :
        /\ t[j] = "s5xx" => j = Len(t) /\ (j > 1 => t[j - 1] = "failures")
        /\ t[j] = "hits" => j = 1

LEMMA TailInOrder ==
    ASSUME NEW t \in Seq(Counters), t # <<>>, InOrder(t)
    PROVE  /\ Head(t) \in Counters /\ Tail(t) \in Seq(Counters) /\ InOrder(Tail(t))
           /\ Head(t) = "s5xx" => Tail(t) = <<>>
           /\ Tail(t) # <<>> /\ Head(Tail(t)) = "s5xx" => Head(t) = "failures"
           /\ Tail(t) # <<>> => Head(Tail(t)) # "hits"
<1>1. /\ Len(t) \in Nat /\ Len(t) > 0 /\ Head(t) = t[1] /\ Head(t) \in Counters
      /\ Tail(t) \in Seq(Counters) /\ Len(Tail(t)) = Len(t) - 1
      /\ \A j \in 1 .. Len(Tail(t)) : Tail(t)[j] = t[j + 1]
  BY EmptySeq, HeadTailProperties
<1>a. \A j \in 1 .. Len(t) :
         /\ t[j] = "s5xx" => j = Len(t) /\ (j > 1 => t[j - 1] = "failures")
         /\ t[j] = "hits" => j = 1
  BY DEF InOrder
<1>b. \A j \in 1 .. Len(Tail(t)) : Tail(t)[j] # "hits"
  <2> SUFFICES ASSUME NEW j \in 1 .. Len(Tail(t)) PROVE t[j + 1] # "hits"
    BY <1>1
  <2>1. j + 1 \in 1 .. Len(t) /\ j + 1 # 1
    BY <1>1
  <2> QED BY <2>1, <1>a
<1>2. InOrder(Tail(t))
  <2> SUFFICES ASSUME NEW j \in 1 .. Len(Tail(t)), Tail(t)[j] = "s5xx"
               PROVE  j = Len(Tail(t)) /\ (j > 1 => Tail(t)[j - 1] = "failures")
    BY <1>b DEF InOrder
  <2>1. j + 1 \in 1 .. Len(t) /\ t[j + 1] = "s5xx"
    BY <1>1
  <2>2. j + 1 = Len(t) /\ t[j] = "failures"
    <3>1. j + 1 = Len(t) /\ (j + 1 > 1 => t[(j + 1) - 1] = "failures")
      BY <1>a, <2>1
    <3> QED BY <3>1, <1>1
  <2>3. j > 1 => Tail(t)[j - 1] = t[j]
    <3> SUFFICES ASSUME j > 1 PROVE Tail(t)[j - 1] = t[j]
      OBVIOUS
    <3>1. j - 1 \in 1 .. Len(Tail(t)) /\ (j - 1) + 1 = j
      BY <1>1
    <3> QED BY <1>1, <3>1
  <2>4. j = Len(Tail(t))
    <3> DEFINE m == Len(Tail(t))
    <3>1. m = Len(t) - 1 /\ Len(t) \in Int /\ j \in Int
      BY <1>1
    <3>2. j + 1 = Len(t)
      BY <2>2
    <3> HIDE DEF m
    <3>3. j = m
      BY <3>1, <3>2
    <3> QED BY <3>3 DEF m
  <2> QED BY <2>2, <2>3, <2>4
<1>3. Head(t) = "s5xx" => Tail(t) = <<>>
  <2> SUFFICES ASSUME t[1] = "s5xx" PROVE Tail(t) = <<>>
    BY <1>1
  <2>1. Len(t) = 1
    <3>1. 1 \in 1 .. Len(t)
      BY <1>1
    <3> QED BY <1>a, <3>1
  <2>2. Len(Tail(t)) = 0
    BY <1>1, <2>1
  <2> QED BY <1>1, <2>2, EmptySeq
<1>4. Tail(t) # <<>> /\ Head(Tail(t)) = "s5xx" => Head(t) = "failures"
  <2> SUFFICES ASSUME Tail(t) # <<>>, Head(Tail(t)) = "s5xx" PROVE t[1] = "failures"
    BY <1>1
  <2>1. Len(Tail(t)) > 0 /\ Head(Tail(t)) = t[2]
    BY <1>1, EmptySeq
  <2>2. 2 \in 1 .. Len(t) /\ t[2] = "s5xx"
    BY <1>1, <2>1
  <2>3. t[2 - 1] = "failures"
    BY <1>a, <2>2
  <2> QED BY <2>3
<1>5. Tail(t) # <<>> => Head(Tail(t)) # "hits"
  <2> SUFFICES ASSUME Tail(t) # <<>> PROVE Head(Tail(t)) # "hits"
    OBVIOUS
  <2>1. Len(Tail(t)) > 0 /\ Head(Tail(t)) = Tail(t)[1]
    BY <1>1, EmptySeq
  <2>2. 1 \in 1 .. Len(Tail(t))
    BY <1>1, <2>1
  <2> QED BY <1>b, <2>1, <2>2
<1> QED BY <1>1, <1>2, <1>3, <1>4, <1>5

(* One more counter on a list.                                             *)
LEMMA Third ==
    ASSUME NEW a \in Counters, NEW b \in Counters, NEW c \in Counters
    PROVE  <<a, b>> \o <<c>> = <<a, b, c>>
<1> DEFINE s == Append(<<a, b>>, c)
<1>1. <<a, b>> \in Seq(Counters) /\ Len(<<a, b>>) = 2
  OBVIOUS
<1>2. s \in Seq(Counters) /\ Len(s) = 3 /\ s[1] = a /\ s[2] = b /\ s[3] = c
  BY <1>1, AppendProperties
<1>3. s = <<a, b>> \o <<c>>
  BY <1>1, AppendIsConcat
<1> HIDE DEF s
<1>4. s = <<a, b, c>>
  BY <1>2
<1> QED BY <1>3, <1>4

LEMMA Fourth ==
    ASSUME NEW a \in Counters, NEW b \in Counters, NEW c \in Counters, NEW d \in Counters
    PROVE  <<a, b, c>> \o <<d>> = <<a, b, c, d>>
<1> DEFINE s == Append(<<a, b, c>>, d)
<1>1. <<a, b, c>> \in Seq(Counters) /\ Len(<<a, b, c>>) = 3
  OBVIOUS
<1>2. s \in Seq(Counters) /\ Len(s) = 4 /\ s[1] = a /\ s[2] = b /\ s[3] = c /\ s[4] = d
  BY <1>1, AppendProperties
<1>3. s = <<a, b, c>> \o <<d>>
  BY <1>1, AppendIsConcat
<1> HIDE DEF s
<1>4. s = <<a, b, c, d>>
  BY <1>2
<1> QED BY <1>3, <1>4

LEMMA Known == /\ "hits" \in Counters /\ "totals" \in Counters /\ "errors" \in Counters
               /\ "failures" \in Counters /\ "s4xx" \in Counters /\ "s5xx" \in Counters
BY DEF Counters

(* A list as a call starts with it.                                        *)
Whole(t) == t \in Seq(Counters) /\ t # <<>> /\ Head(t) = "hits" /\ InOrder(t)

LEMMA Two == Whole(<<"hits", "totals">>) /\ <<"hits", "totals">> \o <<>> = <<"hits", "totals">>
<1>1. <<"hits", "totals">> \in Seq(Counters)
  BY Known
<1> QED BY <1>1, ConcatEmptySeq DEF Whole, InOrder

LEMMA Three ==
    ASSUME NEW c \in Counters, c \notin {"s5xx", "hits"}
    PROVE  /\ Whole(<<"hits", "totals">> \o <<c>>)
           /\ (<<"hits", "totals">> \o <<c>>) \o <<>> = <<"hits", "totals">> \o <<c>>
<1> DEFINE s == <<"hits", "totals", c>>
<1>1. <<"hits", "totals">> \o <<c>> = s
  BY Known, Third
<1>2. s \in Seq(Counters) /\ Len(s) = 3 /\ s[1] = "hits" /\ s[2] = "totals" /\ s[3] = c
  BY Known
<1>4. s # <<>> /\ Head(s) = "hits"
  BY Known
<1> HIDE DEF s
<1>3. InOrder(s)
  BY <1>2 DEF InOrder
<1> QED BY <1>1, <1>2, <1>3, <1>4, ConcatEmptySeq DEF Whole

LEMMA Four == Whole((<<"hits", "totals">> \o <<"failures">>) \o <<"s5xx">>)
<1> DEFINE s == <<"hits", "totals", "failures", "s5xx">>
<1>1. (<<"hits", "totals">> \o <<"failures">>) \o <<"s5xx">> = s
  <2>1. <<"hits", "totals">> \o <<"failures">> = <<"hits", "totals", "failures">>
    BY Known, Third
  <2>2. <<"hits", "totals", "failures">> \o <<"s5xx">> = s
    BY Known, Fourth
  <2> QED BY <2>1, <2>2
<1>2. /\ s \in Seq(Counters) /\ Len(s) = 4 /\ s[1] = "hits" /\ s[2] = "totals"
      /\ s[3] = "failures" /\ s[4] = "s5xx"
  BY Known
<1> HIDE DEF s
<1>3. Whole(s)
  BY <1>2 DEF Whole, InOrder
<1> QED BY <1>1, <1>3

LEMMA CallShape == \A s \in Nat : Whole(CountersOf(s))
<1> SUFFICES ASSUME NEW s \in Nat PROVE Whole(CountersOf(s))
  OBVIOUS
<1> DEFINE two == <<"hits", "totals">>
<1>0. two = <<"hits", "totals">>
  OBVIOUS
<1>1. /\ Whole(two) /\ two \o <<>> = two
      /\ Whole(two \o <<"errors">>)
      /\ Whole(two \o <<"failures">>) /\ (two \o <<"failures">>) \o <<>> = two \o <<"failures">>
      /\ Whole(two \o <<"s4xx">>) /\ (two \o <<"s4xx">>) \o <<>> = two \o <<"s4xx">>
      /\ Whole((two \o <<"failures">>) \o <<"s5xx">>)
  BY Two, Three, Four, Known
<1> HIDE DEF two
<1>2. Whole(TopCounters(s))
  <2>1. TopCounters(s) = two \o (IF s >= 400 THEN <<"errors">> ELSE <<>>)
    BY <1>0 DEF TopCounters
  <2> QED BY <1>1, <2>1
<1>3. Whole(UpstreamCounters(s))
  <2> DEFINE x == IF s = 0 \/ s >= 500 THEN <<"failures">> ELSE <<>>
             y == IF s >= 400 /\ s < 500 THEN <<"s4xx">> ELSE <<>>
             z == IF s >= 500 THEN <<"s5xx">> ELSE <<>>
  <2>1. UpstreamCounters(s) = two \o x \o y \o z
    BY <1>0 DEF UpstreamCounters
  <2>2. \/ x = <<"failures">> /\ y = <<>> /\ z \in {<<>>, <<"s5xx">>}
        \/ x = <<>> /\ y \in {<<>>, <<"s4xx">>} /\ z = <<>>
    <3>1. CASE s = 0
      BY <3>1
    <3>2. CASE s # 0 /\ s < 400
      BY <3>2
    <3>3. CASE s >= 400 /\ s < 500
      BY <3>3
    <3>4. CASE s >= 500
      BY <3>4
    <3> QED BY <3>1, <3>2, <3>3, <3>4
  <2> HIDE DEF x, y, z
  <2>3. Whole(two \o x \o y \o z)
    BY <1>1, <2>2
  <2> QED BY <2>1, <2>3
<1> QED BY <1>2, <1>3 DEF CountersOf

-----------------------------------------------------------------------------
Names   == {NameOf[k] : k \in Keys} \cup {NoName}
RowType == [name : Names, hash : Nat, count : [Counters -> Nat]]
Steps   == {"idle", "scan", "lock", "zero", "name", "hash", "unlock", "first", "add"}
Early   == {"scan", "lock", "zero", "name", "hash", "unlock", "first"}

(* The locals of a call: what is left to add, and the rows it may take.    *)
LocalInv == \A w \in Workers :
    /\ InOrder(todo[w])
    /\ pc[w] \in Early => Whole(todo[w])
    /\ pc[w] \in {"scan", "lock", "zero"} => empty[w] <= room[w]
    /\ pc[w] = "scan" => i[w] <= room[w]

Typed == TypeOK /\ LocalInv

LEMMA RoomTyped == TypeOK => \A w \in Workers : room[w] \in 1 .. Capacity
<1> SUFFICES ASSUME TypeOK, NEW w \in Workers PROVE room[w] \in 1 .. Capacity
  OBVIOUS
<1>1. room \in Rooms
  BY DEF TypeOK
<1>2. room \in [Workers -> 1 .. Capacity]
  BY <1>1, TopAssumption
<1> QED BY <1>2

LEMMA ZeroTyped == ZeroRow \in RowType
BY DEF ZeroRow, RowType, Names

(* A row whose counter goes up by one is a row.                            *)
LEMMA CountTyped ==
    ASSUME NEW row \in RowType, NEW c \in Counters
    PROVE  [row EXCEPT !.count = [row.count EXCEPT ![c] = row.count[c] + 1]] \in RowType
<1>1. row.count \in [Counters -> Nat]
  BY DEF RowType
<1>2. [row.count EXCEPT ![c] = row.count[c] + 1] \in [Counters -> Nat]
  BY <1>1
<1> QED BY <1>2 DEF RowType

(* Requests asked for a key: those of the rows the table starts with.      *)
Fiber(start, k, m)  == {n \in 1 .. m : start[n].key = k}
StartHits(start, m) == [n \in 1 .. m |-> start[n].hits]

LEMMA AskedAtStart ==
    ASSUME Init, NEW start \in Starts,
           asked = [k \in Keys |-> MapThenSumSet(LAMBDA n : start[n].hits,
                                     {n \in DOMAIN start : start[n].key = k})],
           NEW k \in Keys
    PROVE  asked[k] = Sum(StartHits(start, Len(start)), Fiber(start, k, Len(start)))
<1> DEFINE T == Fiber(start, k, Len(start))
           f == [n \in T |-> start[n].hits]
<1>1. start \in Seq([key : Keys, hits : Nat \ {0}]) /\ DOMAIN start = 1 .. Len(start)
      /\ Len(start) \in Nat
  <2>1. start \in Seq([key : Keys, hits : Nat \ {0}])
    BY TopAssumption
  <2> QED BY <2>1, LenProperties
<1>2. asked[k] = MapThenSumSet(LAMBDA n : start[n].hits, T)
  BY <1>1 DEF Fiber
<1>3. MapThenSumSet(LAMBDA n : start[n].hits, T) = Sum(f, T)
  BY DEF Sum, MapThenSumSet, MapThenFoldSet
<1>4. IsFiniteSet(T) /\ \A n \in T : f[n] = StartHits(start, Len(start))[n]
  <2>1. T \in SUBSET (1 .. Len(start)) /\ 1 \in Int /\ Len(start) \in Int
    BY <1>1 DEF Fiber
  <2>2. IsFiniteSet(1 .. Len(start))
    BY <2>1, FS_Interval
  <2>3. IsFiniteSet(T)
    BY <2>1, <2>2, FS_Subset
  <2> QED BY <2>1, <2>3 DEF StartHits
<1> HIDE DEF T, f
<1>5. Sum(f, T) = Sum(StartHits(start, Len(start)), T)
  BY <1>4, SumSame
<1> QED BY <1>2, <1>3, <1>5 DEF T

LEMMA StartHitsType ==
    ASSUME NEW start \in Starts
    PROVE  /\ start \in Seq([key : Keys, hits : Nat \ {0}]) /\ Len(start) \in Nat
           /\ \A n \in 1 .. Len(start) : /\ start[n].key \in Keys
                                         /\ StartHits(start, Len(start))[n] = start[n].hits
                                         /\ start[n].hits \in Nat
           /\ \A k \in Keys, m \in Nat : IsFiniteSet(Fiber(start, k, m))
<1>1. start \in Seq([key : Keys, hits : Nat \ {0}]) /\ Len(start) \in Nat
  <2>1. start \in Seq([key : Keys, hits : Nat \ {0}])
    BY TopAssumption
  <2> QED BY <2>1, LenProperties
<1>2. ASSUME NEW n \in 1 .. Len(start)
      PROVE  start[n].key \in Keys /\ start[n].hits \in Nat
  <2>1. start[n] \in [key : Keys, hits : Nat \ {0}]
    BY <1>1, ElementOfSeq
  <2> QED BY <2>1
<1>3. ASSUME NEW k \in Keys, NEW m \in Nat PROVE IsFiniteSet(Fiber(start, k, m))
  <2>1. IsFiniteSet(1 .. m) /\ Fiber(start, k, m) \in SUBSET (1 .. m)
    BY FS_Interval DEF Fiber
  <2> QED BY <2>1, FS_Subset
<1> QED BY <1>1, <1>2, <1>3 DEF StartHits

LEMMA InitAsked == Init => asked \in [Keys -> Nat]
<1> SUFFICES ASSUME Init PROVE asked \in [Keys -> Nat]
  OBVIOUS
<1>1. PICK start \in Starts :
        asked = [k \in Keys |-> MapThenSumSet(LAMBDA n : start[n].hits,
                                  {n \in DOMAIN start : start[n].key = k})]
  BY DEF Init
<1>2. ASSUME NEW k \in Keys PROVE asked[k] \in Nat
  <2> DEFINE f == StartHits(start, Len(start))
             T == Fiber(start, k, Len(start))
  <2>1. IsFiniteSet(T) /\ \A n \in T : f[n] \in Nat
    BY StartHitsType DEF Fiber
  <2>2. asked[k] = Sum(f, T)
    BY <1>1, AskedAtStart
  <2> HIDE DEF f, T
  <2> QED BY <2>1, <2>2, SumType
<1> QED BY <1>1, <1>2

LEMMA InitTyped == Init => Typed
<1> SUFFICES ASSUME Init PROVE Typed
  OBVIOUS
<1>1. room \in Rooms /\ kind \in Kinds
  BY DEF Init
<1>2. \A w \in Workers : room[w] \in 1 .. Capacity
  BY <1>1, TopAssumption
<1>3. rows \in [Rows -> RowType]
  <2>1. PICK start \in Starts :
          rows = [r \in Rows |-> IF r < Len(start) THEN RowOf(start[r + 1]) ELSE ZeroRow]
    BY DEF Init
  <2>2. start \in Seq([key : Keys, hits : Nat \ {0}])
    BY TopAssumption
  <2>3. \A u \in [key : Keys, hits : Nat \ {0}] : RowOf(u) \in RowType
    <3> SUFFICES ASSUME NEW u \in [key : Keys, hits : Nat \ {0}] PROVE RowOf(u) \in RowType
      OBVIOUS
    <3>1. u.key \in Keys /\ u.hits \in Nat
      OBVIOUS
    <3>2. NameOf[u.key] \in Names /\ HashOf[u.key] \in Nat
      BY <3>1, TopAssumption DEF Names
    <3>3. [c \in Counters |-> IF c \in {"hits", "totals"} THEN u.hits ELSE 0] \in [Counters -> Nat]
      BY <3>1
    <3> QED BY <3>2, <3>3 DEF RowOf, RowType
  <2>4. \A r \in Rows : r < Len(start) => RowOf(start[r + 1]) \in RowType
    <3> SUFFICES ASSUME NEW r \in Rows, r < Len(start) PROVE RowOf(start[r + 1]) \in RowType
      OBVIOUS
    <3>1. r + 1 \in 1 .. Len(start)
      BY <2>2, TopAssumption DEF Rows
    <3>2. start[r + 1] \in [key : Keys, hits : Nat \ {0}]
      BY <2>2, <3>1, ElementOfSeq
    <3> QED BY <2>3, <3>2
  <2> QED BY <2>1, <2>4, ZeroTyped
<1>4. key \in [Workers -> Keys] /\ status \in [Workers -> Statuses]
  <2> DEFINE k == CHOOSE x \in Keys : TRUE
             v == CHOOSE x \in Statuses : TRUE
  <2>1. k \in Keys /\ v \in Statuses
    BY TopAssumption
  <2>2. key \in [Workers -> {k}] /\ status \in [Workers -> {v}]
    BY DEF Init
  <2> HIDE DEF k, v
  <2> QED BY <2>1, <2>2
<1>5. /\ i \in [Workers -> 0 .. Capacity] /\ empty \in [Workers -> 0 .. Capacity]
      /\ victim \in [Workers -> Rows] /\ minHits \in [Workers -> Nat]
  BY TopAssumption DEF Init, Rows, Infinity
<1>6. pc \in [Workers -> Steps] /\ \A w \in Workers : pc[w] = "idle"
  BY DEF Init, Steps
<1>7. todo \in [Workers -> Seq(Counters)] /\ \A w \in Workers : InOrder(todo[w])
  BY EmptySeq DEF Init, InOrder
<1>8. asked \in [Keys -> Nat]
  BY InitAsked
<1>a. /\ mutex = {} /\ torn \subseteq Rows
      /\ raced \in BOOLEAN /\ alone \in SUBSET Workers
  BY DEF Init
<1>b. calls \in 0 .. MaxCalls /\ crashes \in 0 .. MaxCrashes
  BY TopAssumption DEF Init
<1>9. TypeOK
  BY <1>1, <1>3, <1>4, <1>5, <1>6, <1>7, <1>8, <1>a, <1>b DEF TypeOK, RowType, Names, Steps
<1> QED BY <1>6, <1>7, <1>9 DEF Typed, LocalInv, Early

LEMMA StepTyped == Typed /\ [Next]_vars => Typed'
<1> SUFFICES ASSUME Typed, [Next]_vars PROVE Typed'
  OBVIOUS
<1>t. /\ pc \in [Workers -> Steps] /\ i \in [Workers -> 0 .. Capacity]
      /\ key \in [Workers -> Keys]
      /\ empty \in [Workers -> 0 .. Capacity] /\ victim \in [Workers -> Rows]
      /\ minHits \in [Workers -> Nat] /\ todo \in [Workers -> Seq(Counters)]
  BY DEF Typed, TypeOK, Steps
<1>r. rows \in [Rows -> RowType]
  BY DEF Typed, TypeOK, RowType, Names
<1>m. \A w \in Workers : room[w] \in 1 .. Capacity /\ room[w] \in Nat
  BY RoomTyped, TopAssumption DEF Typed
<1>l. LocalInv /\ TypeOK
  BY DEF Typed
<1>c. Capacity \in Nat \ {0} /\ Rows = 0 .. Capacity - 1
  BY TopAssumption DEF Rows
<1>s. Early \subseteq Steps /\ "idle" \notin Early /\ "add" \notin Early
  BY DEF Early, Steps
<1> USE DEF Goto, locals, ghosts
<1>1. ASSUME NEW w \in Workers, Call(w) PROVE Typed'
  <2>1. PICK k \in Keys, v \in Statuses :
          /\ key' = [key EXCEPT ![w] = k]
          /\ status' = [status EXCEPT ![w] = v]
          /\ todo' = [todo EXCEPT ![w] = CountersOf(v)]
          /\ asked' = [asked EXCEPT ![k] = @ + 1]
    BY <1>1 DEF Call
  <2>2. /\ pc' = [pc EXCEPT ![w] = "scan"] /\ i' = [i EXCEPT ![w] = 0]
        /\ empty' = [empty EXCEPT ![w] = room[w]]
        /\ victim' = [victim EXCEPT ![w] = 0]
        /\ minHits' = [minHits EXCEPT ![w] = Infinity]
        /\ calls' = calls + 1 /\ calls < MaxCalls
        /\ UNCHANGED <<kind, room, crashes, torn, rows, mutex>>
    BY <1>1 DEF Call
  <2>3. Whole(CountersOf(v))
    BY CallShape, TopAssumption
  <2>4. /\ key' \in [Workers -> Keys] /\ status' \in [Workers -> Statuses]
        /\ todo' \in [Workers -> Seq(Counters)] /\ asked' \in [Keys -> Nat]
    <3>1. /\ key \in [Workers -> Keys] /\ status \in [Workers -> Statuses]
          /\ todo \in [Workers -> Seq(Counters)] /\ asked \in [Keys -> Nat]
          /\ CountersOf(v) \in Seq(Counters)
      BY <2>3, <1>t, <1>l DEF Whole, TypeOK
    <3> QED BY <2>1, <3>1
  <2>5. /\ pc' \in [Workers -> Steps] /\ i' \in [Workers -> 0 .. Capacity]
        /\ empty' \in [Workers -> 0 .. Capacity] /\ victim' \in [Workers -> Rows]
        /\ minHits' \in [Workers -> Nat]
    BY <2>2, <1>t, <1>m, <1>c DEF Steps, Infinity
  <2>6. /\ raced' \in BOOLEAN /\ alone' \in SUBSET Workers
        /\ calls' \in 0 .. MaxCalls
    BY <1>1, <2>2, <1>l, TopAssumption DEF Call, TypeOK
  <2>7. \A q \in Workers : pc'[q] \notin {"idle", "scan", "lock", "zero"} => i'[q] \in Rows
    BY <2>2, <1>t, <1>l DEF TypeOK
  <2>8. TypeOK'
    BY <2>2, <2>4, <2>5, <2>6, <2>7, <1>l DEF TypeOK, Steps
  <2>9. LocalInv'
    BY <2>1, <2>2, <2>3, <1>t, <1>m, <1>l DEF LocalInv, Whole, Early
  <2> QED BY <2>8, <2>9 DEF Typed
<1>2. ASSUME NEW w \in Workers, ScanEmpty(w) \/ ScanOther(w) PROVE Typed'
  <2>1. pc[w] = "scan" /\ i[w] < room[w] /\ i[w] \in Rows
    BY <1>2, <1>t, <1>m, <1>c DEF ScanEmpty, ScanOther, Scanning
  <2>2. /\ i' = [i EXCEPT ![w] = @ + 1]
        /\ UNCHANGED <<rows, mutex, pc, key, status, todo, ghosts>>
    BY <1>2 DEF ScanEmpty, ScanOther
  <2>3. /\ empty' = empty \/ empty' = [empty EXCEPT ![w] = i[w]]
        /\ victim' = victim \/ victim' = [victim EXCEPT ![w] = i[w]]
    BY <1>2 DEF ScanEmpty, ScanOther
  <2>4. minHits' = minHits \/ minHits' = [minHits EXCEPT ![w] = Hits(i[w])]
    BY <1>2 DEF ScanEmpty, ScanOther
  <2>5. Hits(i[w]) \in Nat
    BY <2>1, <1>r DEF Hits, RowType, Counters
  <2>6. /\ i' \in [Workers -> 0 .. Capacity] /\ empty' \in [Workers -> 0 .. Capacity]
        /\ victim' \in [Workers -> Rows] /\ minHits' \in [Workers -> Nat]
    <3>1. i[w] + 1 \in 0 .. Capacity /\ i[w] \in 0 .. Capacity
      BY <2>1, <1>c
    <3>2. i' \in [Workers -> 0 .. Capacity] /\ empty' \in [Workers -> 0 .. Capacity]
      BY <3>1, <2>2, <2>3, <1>t
    <3>3. victim' \in [Workers -> Rows]
      BY <2>1, <2>3, <1>t
    <3>4. minHits' \in [Workers -> Nat]
      BY <2>4, <2>5, <1>t
    <3> QED BY <3>2, <3>3, <3>4
  <2>7. \A q \in Workers : pc'[q] \notin {"idle", "scan", "lock", "zero"} => i'[q] \in Rows
    BY <2>1, <2>2, <1>t, <1>l DEF TypeOK
  <2>8. TypeOK'
    BY <2>2, <2>6, <2>7, <1>l DEF TypeOK
  <2>9. LocalInv'
    <3> SUFFICES ASSUME NEW q \in Workers
                 PROVE  /\ InOrder(todo'[q])
                        /\ pc'[q] \in Early => Whole(todo'[q])
                        /\ pc'[q] \in {"scan", "lock", "zero"} => empty'[q] <= room'[q]
                        /\ pc'[q] = "scan" => i'[q] <= room'[q]
      BY DEF LocalInv
    <3>1. /\ InOrder(todo[q])
          /\ pc[q] \in Early => Whole(todo[q])
          /\ pc[q] \in {"scan", "lock", "zero"} => empty[q] <= room[q]
          /\ pc[q] = "scan" => i[q] <= room[q]
      BY <1>l DEF LocalInv
    <3>2. CASE q = w
      BY <2>1, <2>2, <2>3, <3>1, <3>2, <1>t, <1>m, <1>c DEF Early
    <3>3. CASE q # w
      BY <2>1, <2>2, <2>3, <3>1, <3>3, <1>t
    <3> QED BY <3>2, <3>3
  <2> QED BY <2>8, <2>9 DEF Typed
<1>3. ASSUME NEW w \in Workers, ScanMatch(w) \/ ScanMiss(w) PROVE Typed'
  <2>1. /\ pc[w] = "scan"
        /\ \/ pc' = [pc EXCEPT ![w] = "add"] /\ i[w] \in Rows
           \/ pc' = [pc EXCEPT ![w] = "lock"]
    BY <1>3, <1>t, <1>m, <1>c DEF ScanMatch, ScanMiss, Scanning
  <2>2. /\ UNCHANGED <<rows, mutex, key, status, i, empty, victim, minHits, todo>>
        /\ UNCHANGED <<kind, room, calls, crashes, torn, asked, alone>>
        /\ raced' \in BOOLEAN
    BY <1>3, <1>l DEF ScanMatch, ScanMiss, TypeOK
  <2>3. pc' \in [Workers -> Steps]
    BY <2>1, <1>t DEF Steps
  <2>4. \A q \in Workers : pc'[q] \notin {"idle", "scan", "lock", "zero"} => i'[q] \in Rows
    BY <2>1, <2>2, <1>t, <1>l DEF TypeOK
  <2>5. TypeOK'
    BY <2>2, <2>3, <2>4, <1>l DEF TypeOK, Steps
  <2>6. LocalInv'
    BY <2>1, <2>2, <1>t, <1>l DEF LocalInv, Early
  <2> QED BY <2>5, <2>6 DEF Typed
<1>4. ASSUME NEW w \in Workers, Lock(w) \/ Unlock(w) PROVE Typed'
  <2>1. /\ \/ pc[w] = "lock" /\ pc' = [pc EXCEPT ![w] = "zero"]
           \/ pc[w] = "unlock" /\ pc' = [pc EXCEPT ![w] = "first"]
        /\ mutex' \in {{}, {w}}
        /\ UNCHANGED <<rows, key, status, i, empty, victim, minHits, todo, ghosts>>
    BY <1>4 DEF Lock, Unlock
  <2>2. pc' \in [Workers -> Steps]
    BY <2>1, <1>t DEF Steps
  <2>3. \A q \in Workers : pc'[q] \notin {"idle", "scan", "lock", "zero"} => i'[q] \in Rows
    BY <2>1, <1>t, <1>l DEF TypeOK
  <2>4. TypeOK'
    BY <2>1, <2>2, <2>3, <1>l DEF TypeOK, Steps
  <2>5. LocalInv'
    BY <2>1, <1>t, <1>l DEF LocalInv, Early
  <2> QED BY <2>4, <2>5 DEF Typed
<1>5. ASSUME NEW w \in Workers, Zero(w) PROVE Typed'
  <2>1. /\ pc[w] = "zero" /\ pc' = [pc EXCEPT ![w] = "name"]
        /\ i' = [i EXCEPT ![w] = Target(w)]
        /\ rows' = [rows EXCEPT ![Target(w)] = ZeroRow]
        /\ torn' = torn \ {Target(w)}
        /\ UNCHANGED <<mutex, key, status, empty, victim, minHits, todo, kind, room, calls,
                       crashes, asked, raced, alone>>
    BY <1>5 DEF Zero
  <2>2. Target(w) \in Rows
    <3>1. empty[w] <= room[w]
      BY <2>1, <1>l DEF LocalInv
    <3> QED BY <3>1, <1>t, <1>m, <1>c DEF Target
  <2>3. rows' \in [Rows -> RowType]
    BY <2>1, <1>r, ZeroTyped
  <2>4. pc' \in [Workers -> Steps] /\ i' \in [Workers -> 0 .. Capacity]
    BY <2>1, <2>2, <1>t, <1>c DEF Steps
  <2>5. \A q \in Workers : pc'[q] \notin {"idle", "scan", "lock", "zero"} => i'[q] \in Rows
    BY <2>1, <2>2, <1>t, <1>l DEF TypeOK
  <2>6. TypeOK'
    BY <2>1, <2>3, <2>4, <2>5, <1>l DEF TypeOK, Steps, RowType, Names
  <2>7. LocalInv'
    BY <2>1, <1>t, <1>l DEF LocalInv, Early
  <2> QED BY <2>6, <2>7 DEF Typed
<1>6. ASSUME NEW w \in Workers, WriteName(w) \/ WriteHash(w) PROVE Typed'
  <2>1. /\ \/ pc[w] = "name" /\ pc' = [pc EXCEPT ![w] = "hash"]
           \/ pc[w] = "hash" /\ pc' = [pc EXCEPT ![w] = "unlock"]
        /\ UNCHANGED <<mutex, key, status, i, empty, victim, minHits, todo, ghosts>>
    BY <1>6 DEF WriteName, WriteHash
  <2>2. i[w] \in Rows
    BY <2>1, <1>l DEF TypeOK
  <2>3. rows' \in [Rows -> RowType]
    <3>1. NameOf[key[w]] \in Names /\ HashOf[key[w]] \in Nat
      BY <1>t, TopAssumption DEF Names
    <3>2. rows[i[w]] \in RowType
      BY <2>2, <1>r
    <3>3. /\ [rows[i[w]] EXCEPT !.name = NameOf[key[w]]] \in RowType
          /\ [rows[i[w]] EXCEPT !.hash = HashOf[key[w]]] \in RowType
      BY <3>1, <3>2 DEF RowType
    <3>4. \/ rows' = [rows EXCEPT ![i[w]] = [rows[i[w]] EXCEPT !.name = NameOf[key[w]]]]
          \/ rows' = [rows EXCEPT ![i[w]] = [rows[i[w]] EXCEPT !.hash = HashOf[key[w]]]]
      BY <1>6, <2>2 DEF WriteName, WriteHash
    <3> QED BY <3>3, <3>4, <1>r
  <2>4. pc' \in [Workers -> Steps]
    BY <2>1, <1>t DEF Steps
  <2>5. \A q \in Workers : pc'[q] \notin {"idle", "scan", "lock", "zero"} => i'[q] \in Rows
    BY <2>1, <1>t, <1>l DEF TypeOK
  <2>6. TypeOK'
    BY <2>1, <2>3, <2>4, <2>5, <1>l DEF TypeOK, Steps, RowType, Names
  <2>7. LocalInv'
    BY <2>1, <1>t, <1>l DEF LocalInv, Early
  <2> QED BY <2>6, <2>7 DEF Typed
<1>7. ASSUME NEW w \in Workers, Add(w) PROVE Typed'
  <2>1. /\ pc[w] \in {"first", "add"} /\ todo[w] # <<>>
        /\ pc' = [pc EXCEPT ![w] = "idle"] \/ pc' = [pc EXCEPT ![w] = "add"]
        /\ todo' = [todo EXCEPT ![w] = Tail(todo[w])]
        /\ UNCHANGED <<mutex, key, status, i, empty, victim, minHits, ghosts>>
    BY <1>7 DEF Add, AddNext
  <2>2. i[w] \in Rows
    BY <2>1, <1>l DEF TypeOK
  <2>3. Head(todo[w]) \in Counters /\ Tail(todo[w]) \in Seq(Counters) /\ InOrder(Tail(todo[w]))
    BY <2>1, <1>t, <1>l, TailInOrder DEF LocalInv
  <2>4. rows' \in [Rows -> RowType]
    <3> DEFINE c == Head(todo[w])
               row == rows[i[w]]
    <3>1. row \in RowType
      BY <2>2, <1>r
    <3>2. rows' = [rows EXCEPT ![i[w]] =
                     [row EXCEPT !.count = [row.count EXCEPT ![c] = row.count[c] + 1]]]
      BY <1>7, <2>2 DEF Add, AddNext
    <3> QED BY <2>3, <3>1, <3>2, CountTyped, <1>r
  <2>5. pc' \in [Workers -> Steps] /\ todo' \in [Workers -> Seq(Counters)]
    BY <2>1, <2>3, <1>t DEF Steps
  <2>6. \A q \in Workers : pc'[q] \notin {"idle", "scan", "lock", "zero"} => i'[q] \in Rows
    BY <2>1, <2>2, <1>t, <1>l DEF TypeOK
  <2>7. TypeOK'
    BY <2>1, <2>4, <2>5, <2>6, <1>l DEF TypeOK, Steps, RowType, Names
  <2>8. LocalInv'
    BY <2>1, <2>3, <1>t, <1>l DEF LocalInv, Early
  <2> QED BY <2>7, <2>8 DEF Typed
<1>8. ASSUME NEW w \in Workers, Crash(w) PROVE Typed'
  <2>1. /\ pc' = [pc EXCEPT ![w] = "idle"] /\ todo' = [todo EXCEPT ![w] = <<>>]
        /\ mutex' = mutex \ {w} /\ crashes' = crashes + 1 /\ crashes < MaxCrashes
        /\ UNCHANGED <<rows, key, status, i, empty, victim, minHits, kind, room, calls,
                       asked, raced, alone>>
    BY <1>8 DEF Crash
  <2>2. torn' \subseteq Rows
    <3>1. pc[w] \in {"name", "hash"} => i[w] \in Rows
      BY <1>l DEF TypeOK
    <3>2. torn \subseteq Rows
      BY <1>l DEF TypeOK
    <3> QED BY <1>8, <3>1, <3>2 DEF Crash
  <2>3. mutex' = {} \/ \E q \in Workers : mutex' = {q}
    <3>1. mutex = {} \/ \E q \in Workers : mutex = {q}
      BY <1>l DEF TypeOK
    <3> QED BY <2>1, <3>1
  <2>4. <<>> \in Seq(Counters) /\ InOrder(<<>>)
    BY EmptySeq DEF InOrder
  <2>5. /\ pc' \in [Workers -> Steps] /\ todo' \in [Workers -> Seq(Counters)]
        /\ crashes' \in 0 .. MaxCrashes
    BY <2>1, <2>4, <1>t, <1>l, TopAssumption DEF Steps, TypeOK
  <2>6. \A q \in Workers : pc'[q] \notin {"idle", "scan", "lock", "zero"} => i'[q] \in Rows
    BY <2>1, <1>t, <1>l DEF TypeOK
  <2>7. TypeOK'
    BY <2>1, <2>2, <2>3, <2>5, <2>6, <1>l DEF TypeOK, Steps
  <2>8. LocalInv'
    BY <2>1, <2>4, <1>t, <1>l DEF LocalInv, Early
  <2> QED BY <2>7, <2>8 DEF Typed
<1>9. CASE UNCHANGED vars
  BY <1>9, <1>l DEF vars, Typed, TypeOK, LocalInv
<1> QED
  BY <1>1, <1>2, <1>3, <1>4, <1>5, <1>6, <1>7, <1>8, <1>9 DEF Next, Update

-----------------------------------------------------------------------------
(* Whoever rewrites a row holds the mutex; the hash of the row is written  *)
(* last, and a row that was left half-written has none.                    *)
RowInv ==
    /\ \A w \in Workers : pc[w] \in {"zero", "name", "hash", "unlock"} => mutex = {w}
    /\ \A w \in Workers : pc[w] \in {"name", "hash"} =>
          i[w] \notin torn /\ rows[i[w]].hash = 0
    /\ \A w \in Workers : pc[w] = "hash" => rows[i[w]].name = NameOf[key[w]]
    /\ \A r \in Rows \ torn :
          \/ rows[r].name = NoName \/ \E k \in Keys : Same(k, r)
          \/ \E w \in Workers : pc[w] = "hash" /\ i[w] = r
    /\ \A r \in torn : rows[r].hash = 0

LEMMA InitRow == Init => RowInv
<1> SUFFICES ASSUME Init PROVE RowInv
  OBVIOUS
<1>1. \A r \in Rows : rows[r].name = NoName \/ \E k \in Keys : Same(k, r)
  <2> SUFFICES ASSUME NEW r \in Rows PROVE rows[r].name = NoName \/ \E k \in Keys : Same(k, r)
    OBVIOUS
  <2>1. PICK start \in Starts :
          rows = [q \in Rows |-> IF q < Len(start) THEN RowOf(start[q + 1]) ELSE ZeroRow]
    BY DEF Init
  <2>2. CASE r < Len(start)
    <3>0. start \in Seq([key : Keys, hits : Nat \ {0}])
      BY TopAssumption
    <3>1. r + 1 \in 1 .. Len(start)
      BY <2>2, <3>0, TopAssumption DEF Rows
    <3>2. start[r + 1] \in [key : Keys, hits : Nat \ {0}]
      BY <3>0, <3>1, ElementOfSeq
    <3>3. rows[r] = RowOf(start[r + 1])
      BY <2>1, <2>2
    <3>4. Same(start[r + 1].key, r)
      BY <3>3 DEF RowOf, Same
    <3> QED BY <3>2, <3>4
  <2>3. CASE ~(r < Len(start))
    BY <2>1, <2>3 DEF ZeroRow
  <2> QED BY <2>2, <2>3
<1>2. torn = {} /\ \A w \in Workers : pc[w] = "idle"
  BY DEF Init
<1> QED BY <1>1, <1>2 DEF RowInv

LEMMA StepRow == Typed /\ RowInv /\ [Next]_vars => RowInv'
<1> SUFFICES ASSUME Typed, RowInv, [Next]_vars PROVE RowInv'
  OBVIOUS
<1>t. /\ pc \in [Workers -> Steps] /\ DOMAIN i = Workers /\ DOMAIN key = Workers
      /\ rows \in [Rows -> RowType] /\ key \in [Workers -> Keys]
      /\ \A w \in Workers : pc[w] \notin {"idle", "scan", "lock", "zero"} => i[w] \in Rows
      /\ torn \subseteq Rows
  BY DEF Typed, TypeOK, RowType, Names, Steps
<1> USE DEF Goto, locals, ghosts
(* Steps that rewrite no row and neither take nor release the mutex inside *)
(* a replacement.                                                          *)
<1>q. ASSUME NEW w \in Workers, NEW from, NEW to,
             from \notin {"zero", "name", "hash", "unlock"},
             to \notin {"zero", "name", "hash", "unlock"},
             pc[w] = from, pc' = [pc EXCEPT ![w] = to],
             \A v \in Workers \ {w} : i'[v] = i[v] /\ key'[v] = key[v],
             UNCHANGED <<mutex, torn>>,
             \A r \in Rows : rows'[r].name = rows[r].name /\ rows'[r].hash = rows[r].hash
      PROVE  RowInv'
  <2>1. \A v \in Workers : pc'[v] \in {"zero", "name", "hash", "unlock"} =>
            v # w /\ pc[v] = pc'[v] /\ i'[v] = i[v] /\ key'[v] = key[v]
    BY <1>q, <1>t
  <2>2. \A v \in Workers : pc[v] = "hash" => pc'[v] = "hash" /\ i'[v] = i[v]
    BY <1>q, <1>t
  <2>3. \A r \in Rows, k \in Keys : Same(k, r) => Same(k, r)'
    BY <1>q DEF Same
  <2>4. \A v \in Workers : pc'[v] \in {"zero", "name", "hash", "unlock"} => mutex' = {v}
    BY <2>1, <1>q DEF RowInv
  <2>5. \A v \in Workers : pc'[v] \in {"name", "hash"} =>
            i'[v] \notin torn' /\ rows'[i'[v]].hash = 0
    BY <2>1, <1>q, <1>t DEF RowInv
  <2>6. \A v \in Workers : pc'[v] = "hash" => rows'[i'[v]].name = NameOf[key'[v]]
    BY <2>1, <1>q, <1>t DEF RowInv
  <2>7. \A r \in Rows \ torn' :
          \/ rows'[r].name = NoName \/ \E k \in Keys : Same(k, r)'
          \/ \E v \in Workers : pc'[v] = "hash" /\ i'[v] = r
    BY <2>2, <2>3, <1>q DEF RowInv
  <2>8. \A r \in torn' : rows'[r].hash = 0
    BY <1>q, <1>t DEF RowInv
  <2> QED BY <2>4, <2>5, <2>6, <2>7, <2>8 DEF RowInv
<1>1. ASSUME NEW w \in Workers, Call(w) PROVE RowInv'
  <2>1. /\ pc[w] = "idle" /\ pc' = [pc EXCEPT ![w] = "scan"]
        /\ UNCHANGED <<mutex, torn, rows>>
        /\ \A v \in Workers \ {w} : i'[v] = i[v] /\ key'[v] = key[v]
    BY <1>1, <1>t DEF Call
  <2> QED BY <2>1, <1>q
<1>2. ASSUME NEW w \in Workers, ScanEmpty(w) \/ ScanOther(w) PROVE RowInv'
  <2>1. /\ pc[w] = "scan" /\ pc' = [pc EXCEPT ![w] = "scan"]
        /\ UNCHANGED <<mutex, torn, rows>>
        /\ \A v \in Workers \ {w} : i'[v] = i[v] /\ key'[v] = key[v]
    BY <1>2, <1>t DEF ScanEmpty, ScanOther, Scanning
  <2> QED BY <2>1, <1>q
<1>3. ASSUME NEW w \in Workers, ScanMatch(w) \/ ScanMiss(w) PROVE RowInv'
  <2>1. /\ pc[w] = "scan"
        /\ pc' = [pc EXCEPT ![w] = "add"] \/ pc' = [pc EXCEPT ![w] = "lock"]
        /\ UNCHANGED <<mutex, torn, rows, i, key>>
    BY <1>3 DEF ScanMatch, ScanMiss, Scanning
  <2> QED BY <2>1, <1>q
<1>4. ASSUME NEW w \in Workers, Lock(w) PROVE RowInv'
  <2>1. /\ pc[w] = "lock" /\ pc' = [pc EXCEPT ![w] = "zero"] /\ mutex = {} /\ mutex' = {w}
        /\ UNCHANGED <<torn, rows, i, key>>
    BY <1>4 DEF Lock
  <2> QED BY <2>1, <1>t DEF RowInv, Same
<1>5. ASSUME NEW w \in Workers, Unlock(w) PROVE RowInv'
  <2>1. /\ pc[w] = "unlock" /\ pc' = [pc EXCEPT ![w] = "first"] /\ mutex' = {}
        /\ UNCHANGED <<torn, rows, i, key>>
    BY <1>5 DEF Unlock
  <2> QED BY <2>1, <1>t DEF RowInv, Same
<1>6. ASSUME NEW w \in Workers, Zero(w) PROVE RowInv'
  <2>1. /\ pc[w] = "zero" /\ pc' = [pc EXCEPT ![w] = "name"]
        /\ i' = [i EXCEPT ![w] = Target(w)]
        /\ rows' = [rows EXCEPT ![Target(w)] = ZeroRow]
        /\ torn' = torn \ {Target(w)} /\ UNCHANGED <<mutex, key>>
    BY <1>6 DEF Zero
  <2>2. \A v \in Workers \ {w} : pc[v] \notin {"zero", "name", "hash", "unlock"}
    BY <2>1 DEF RowInv
  <2>3. \A v \in Workers : pc'[v] \in {"zero", "name", "hash", "unlock"} =>
            v = w /\ pc'[v] = "name" /\ i'[v] = Target(w)
    BY <2>1, <2>2, <1>t
  <2>4. \A r \in Rows : rows'[r] = IF r = Target(w) THEN ZeroRow ELSE rows[r]
    BY <2>1, <1>t
  <2>5. Target(w) \in Rows
    <3>1. Typed'
      BY StepTyped
    <3>2. i'[w] \in Rows
      BY <3>1, <2>1, <1>t DEF Typed, TypeOK
    <3> QED BY <3>2, <2>1, <1>t
  <2>6. ZeroRow.name = NoName /\ ZeroRow.hash = 0
    BY DEF ZeroRow
  <2>7. \A r \in Rows \ torn' : rows'[r].name = NoName \/ \E k \in Keys : Same(k, r)'
    <3> SUFFICES ASSUME NEW r \in Rows \ torn', r # Target(w)
                 PROVE  rows'[r].name = NoName \/ \E k \in Keys : Same(k, r)'
      BY <2>4, <2>6
    <3>1. r \notin torn /\ rows'[r] = rows[r] /\ ~\E v \in Workers : pc[v] = "hash"
      BY <2>1, <2>2, <2>4
    <3> QED BY <3>1 DEF RowInv, Same
  <2>8. \A r \in torn' : rows'[r].hash = 0
    BY <2>1, <2>4, <1>t DEF RowInv
  <2>9. \A v \in Workers : pc'[v] \in {"name", "hash"} =>
            i'[v] \notin torn' /\ rows'[i'[v]].hash = 0
    BY <2>1, <2>3, <2>4, <2>5, <2>6
  <2>10. mutex' = {w}
    BY <2>1 DEF RowInv
  <2> QED BY <2>3, <2>7, <2>8, <2>9, <2>10 DEF RowInv
<1>7. ASSUME NEW w \in Workers, WriteName(w) PROVE RowInv'
  <2>1. /\ pc[w] = "name" /\ pc' = [pc EXCEPT ![w] = "hash"] /\ i[w] \in Rows
        /\ rows' = [rows EXCEPT ![i[w]] = [rows[i[w]] EXCEPT !.name = NameOf[key[w]]]]
        /\ UNCHANGED <<mutex, key, i, torn>>
    BY <1>7, <1>t DEF WriteName
  <2>2. /\ \A r \in Rows : rows'[r].hash = rows[r].hash
        /\ \A r \in Rows : r # i[w] => rows'[r].name = rows[r].name
        /\ rows'[i[w]].name = NameOf[key[w]]
    BY <2>1, <1>t DEF RowType
  <2>3. \A v \in Workers \ {w} : pc[v] \notin {"zero", "name", "hash", "unlock"}
    BY <2>1 DEF RowInv
  <2>4. \A r \in Rows, k \in Keys : r # i[w] /\ Same(k, r) => Same(k, r)'
    BY <2>2 DEF Same
  <2>5. \A r \in Rows \ torn' :
          \/ rows'[r].name = NoName \/ \E k \in Keys : Same(k, r)'
          \/ \E v \in Workers : pc'[v] = "hash" /\ i'[v] = r
    BY <2>1, <2>2, <2>3, <2>4, <1>t DEF RowInv
  <2> QED BY <2>1, <2>2, <2>3, <2>5, <1>t DEF RowInv
<1>8. ASSUME NEW w \in Workers, WriteHash(w) PROVE RowInv'
  <2>1. /\ pc[w] = "hash" /\ pc' = [pc EXCEPT ![w] = "unlock"] /\ i[w] \in Rows
        /\ rows' = [rows EXCEPT ![i[w]] = [rows[i[w]] EXCEPT !.hash = HashOf[key[w]]]]
        /\ UNCHANGED <<mutex, key, i, torn>>
    BY <1>8, <1>t DEF WriteHash
  <2>2. /\ \A r \in Rows : rows'[r].name = rows[r].name
        /\ \A r \in Rows : r # i[w] => rows'[r].hash = rows[r].hash
        /\ rows'[i[w]].hash = HashOf[key[w]]
    BY <2>1, <1>t DEF RowType
  <2>3. \A v \in Workers \ {w} : pc[v] \notin {"zero", "name", "hash", "unlock"}
    BY <2>1 DEF RowInv
  <2>4. \A r \in Rows, k \in Keys : r # i[w] /\ Same(k, r) => Same(k, r)'
    BY <2>2 DEF Same
  <2>5. key[w] \in Keys /\ Same(key[w], i[w])' /\ i[w] \notin torn
    BY <2>1, <2>2, <1>t DEF RowInv, Same
  <2>6. \A r \in Rows \ torn' : rows'[r].name = NoName \/ \E k \in Keys : Same(k, r)'
    BY <2>1, <2>2, <2>3, <2>4, <2>5 DEF RowInv
  <2>7. \A r \in torn' : rows'[r].hash = 0
    BY <2>1, <2>2, <2>5, <1>t DEF RowInv
  <2> QED BY <2>1, <2>3, <2>6, <2>7, <1>t DEF RowInv
<1>9. ASSUME NEW w \in Workers, Add(w) PROVE RowInv'
  <2>1. /\ pc[w] \in {"first", "add"} /\ UNCHANGED <<mutex, key, i, torn>>
        /\ pc' = [pc EXCEPT ![w] = "idle"] \/ pc' = [pc EXCEPT ![w] = "add"]
    BY <1>9 DEF Add
  <2>2. \A r \in Rows : rows'[r].name = rows[r].name /\ rows'[r].hash = rows[r].hash
    <3>1. rows' = [rows EXCEPT ![i[w]] =
                     [rows[i[w]] EXCEPT !.count = [rows[i[w]].count EXCEPT
                        ![Head(todo[w])] = rows[i[w]].count[Head(todo[w])] + 1]]]
      BY <1>9, <2>1, <1>t DEF Add, AddNext
    <3> QED BY <3>1, <1>t DEF RowType
  <2> QED BY <2>1, <2>2, <1>q
<1>10. ASSUME NEW w \in Workers, Crash(w) PROVE RowInv'
  <2>1. /\ pc' = [pc EXCEPT ![w] = "idle"] /\ mutex' = mutex \ {w}
        /\ torn' = IF pc[w] \in {"name", "hash"} THEN torn \cup {i[w]} ELSE torn
        /\ UNCHANGED <<rows, key, i>>
    BY <1>10 DEF Crash
  <2>2. pc[w] \in {"name", "hash"} =>
           /\ rows[i[w]].hash = 0
           /\ \A v \in Workers \ {w} : pc[v] \notin {"zero", "name", "hash", "unlock"}
    BY DEF RowInv
  <2>3. \A v \in Workers : pc'[v] \in {"zero", "name", "hash", "unlock"} => mutex' = {v}
    BY <2>1, <1>t DEF RowInv
  <2>4. \A v \in Workers : pc'[v] \in {"name", "hash"} => v # w /\ pc[v] = pc'[v] /\ torn' = torn
    BY <2>1, <2>2, <1>t
  <2>5. \A r \in Rows \ torn' :
          \/ rows'[r].name = NoName \/ \E k \in Keys : Same(k, r)'
          \/ \E v \in Workers : pc'[v] = "hash" /\ i'[v] = r
    BY <2>1, <1>t DEF RowInv, Same
  <2>6. \A r \in torn' : rows'[r].hash = 0
    BY <2>1, <2>2 DEF RowInv
  <2> QED BY <2>1, <2>3, <2>4, <2>5, <2>6 DEF RowInv
<1>11. CASE UNCHANGED vars
  BY <1>11 DEF vars, RowInv, Same
<1> QED
  BY <1>1, <1>2, <1>3, <1>4, <1>5, <1>6, <1>7, <1>8, <1>9, <1>10, <1>11 DEF Next, Update

-----------------------------------------------------------------------------
(* As long as no insertion has overlapped another call: whoever inserts is *)
(* the only one inside a call, so that a row is not counted in before it   *)
(* is whole, and a torn one is not counted in at all.                      *)
Alone == \A w \in Workers : Inserting(w) => \A v \in Workers \ {w} : pc[v] = "idle"

Unclaimed ==
    /\ \A w \in Workers : pc[w] \in {"name", "hash"} => Hits(i[w]) = 0
    /\ \A w \in Workers : pc[w] \in {"unlock", "first", "add"} => i[w] \notin torn
    /\ \A r \in torn : Hits(r) = 0

RaceInv == ~raced => Alone /\ Unclaimed

NoZeroHash == \A k \in Keys : HashOf[k] # 0

LEMMA RacedForGood == Typed /\ [Next]_vars => (raced => raced')
BY DEF Typed, TypeOK, Next, Update, vars, locals, ghosts, Call, ScanEmpty, ScanMatch, ScanOther,
       ScanMiss, Lock, Zero, WriteName, WriteHash, Unlock, Add, Crash

LEMMA StepAlone == Typed /\ (~raced => Alone) /\ [Next]_vars => (~raced' => Alone')
<1> SUFFICES ASSUME Typed, Alone, [Next]_vars, ~raced, ~raced' PROVE Alone'
  BY RacedForGood
<1>t. pc \in [Workers -> Steps]
  BY DEF Typed, TypeOK, Steps
<1> USE DEF Goto, locals, ghosts
<1>1. ASSUME NEW w \in Workers, Call(w) PROVE Alone'
  <2>1. pc' = [pc EXCEPT ![w] = "scan"] /\ ~\E q \in Workers : Inserting(q)
    BY <1>1 DEF Call
  <2> QED BY <2>1, <1>t DEF Alone, Inserting
<1>2. ASSUME NEW w \in Workers, ScanMiss(w) PROVE Alone'
  <2>1. pc' = [pc EXCEPT ![w] = "lock"] /\ \A q \in Workers \ {w} : pc[q] = "idle"
    BY <1>2 DEF ScanMiss
  <2> QED BY <2>1, <1>t DEF Alone, Inserting
<1>3. ASSUME NEW w \in Workers, ScanMatch(w) PROVE Alone'
  <2>1. pc[w] = "scan" /\ pc' = [pc EXCEPT ![w] = "add"]
    BY <1>3 DEF ScanMatch, Scanning
  <2> QED BY <2>1, <1>t DEF Alone, Inserting
<1>4. ASSUME NEW w \in Workers, NEW to, Inserting(w), pc' = [pc EXCEPT ![w] = to]
      PROVE  Alone'
  <2>1. \A v \in Workers \ {w} : pc'[v] = "idle"
    BY <1>4, <1>t DEF Alone
  <2> QED BY <2>1 DEF Alone, Inserting
<1>5. ASSUME NEW w \in Workers,
             Lock(w) \/ Zero(w) \/ WriteName(w) \/ WriteHash(w) \/ Unlock(w)
      PROVE  Alone'
  <2>1. Inserting(w) /\ \E to \in Steps : pc' = [pc EXCEPT ![w] = to]
    BY <1>5 DEF Lock, Zero, WriteName, WriteHash, Unlock, Inserting, Steps
  <2> QED BY <2>1, <1>4
<1>6. ASSUME NEW w \in Workers, Add(w) \/ Crash(w) PROVE Alone'
  <2>1. \/ pc[w] = "add" \/ Inserting(w) \/ pc' = [pc EXCEPT ![w] = "idle"]
    BY <1>6 DEF Add, Crash, Inserting
  <2>2. pc' = [pc EXCEPT ![w] = "idle"] \/ pc' = [pc EXCEPT ![w] = "add"]
    BY <1>6 DEF Add, Crash
  <2> QED BY <2>1, <2>2, <1>t DEF Alone, Inserting
<1>7. CASE UNCHANGED pc
  BY <1>7 DEF Alone, Inserting
<1>8. \A w \in Workers : ScanEmpty(w) \/ ScanOther(w) => UNCHANGED pc
  BY DEF ScanEmpty, ScanOther
<1>9. UNCHANGED vars => UNCHANGED pc
  BY DEF vars
<1> QED BY <1>1, <1>2, <1>3, <1>5, <1>6, <1>7, <1>8, <1>9 DEF Next, Update

LEMMA StepRace ==
    ASSUME NoZeroHash
    PROVE  Typed /\ RowInv /\ RaceInv /\ [Next]_vars => RaceInv'
<1> SUFFICES ASSUME Typed, RowInv, RaceInv, [Next]_vars, ~raced' PROVE Alone' /\ Unclaimed'
  BY DEF RaceInv
<1>a. ~raced /\ Alone /\ Unclaimed /\ Alone'
  BY RacedForGood, StepAlone DEF RaceInv
<1>t. /\ pc \in [Workers -> Steps] /\ DOMAIN i = Workers
      /\ rows \in [Rows -> RowType] /\ key \in [Workers -> Keys]
      /\ \A w \in Workers : pc[w] \notin {"idle", "scan", "lock", "zero"} => i[w] \in Rows
      /\ torn \subseteq Rows
  BY DEF Typed, TypeOK, RowType, Names, Steps
<1> USE DEF Goto, locals, ghosts
(* Steps that count no hit.                                                *)
<1>1. ASSUME NEW w \in Workers, Call(w) \/ ScanEmpty(w) \/ ScanOther(w) \/ ScanMiss(w)
      PROVE  Unclaimed'
  <2>1. /\ \A v \in Workers : v # w => pc'[v] = pc[v] /\ i'[v] = i[v]
        /\ pc'[w] \in {"scan", "lock"} /\ UNCHANGED <<rows, torn>>
    BY <1>1, <1>t DEF Call, ScanEmpty, ScanOther, ScanMiss, Scanning
  <2> QED BY <2>1, <1>a DEF Unclaimed, Hits
<1>2. ASSUME NEW w \in Workers, ScanMatch(w) PROVE Unclaimed'
  <2>1. /\ pc[w] = "scan" /\ pc' = [pc EXCEPT ![w] = "add"] /\ UNCHANGED <<rows, torn, i>>
        /\ rows[i[w]].hash = HashOf[key[w]]
    BY <1>2 DEF ScanMatch, Scanning, Matches
  <2>2. i[w] \notin torn
    BY <2>1, <1>t DEF RowInv, NoZeroHash
  <2> QED BY <2>1, <2>2, <1>a, <1>t DEF Unclaimed, Hits
<1>3. ASSUME NEW w \in Workers, Lock(w) \/ Unlock(w) PROVE Unclaimed'
  <2>1. /\ \A v \in Workers : v # w => pc'[v] = pc[v]
        /\ (pc[w] = "unlock" /\ pc'[w] = "first") \/ pc'[w] = "zero"
        /\ UNCHANGED <<rows, torn, i>>
    BY <1>3, <1>t DEF Lock, Unlock
  <2> QED BY <2>1, <1>a DEF Unclaimed, Hits
<1>4. ASSUME NEW w \in Workers, Zero(w) PROVE Unclaimed'
  <2>1. /\ pc[w] = "zero" /\ pc' = [pc EXCEPT ![w] = "name"]
        /\ i' = [i EXCEPT ![w] = Target(w)]
        /\ rows' = [rows EXCEPT ![Target(w)] = ZeroRow]
        /\ torn' = torn \ {Target(w)}
    BY <1>4 DEF Zero
  <2>2. pc'[w] = "name" /\ \A v \in Workers : v # w => pc'[v] = "idle"
    BY <2>1, <1>a, <1>t DEF Alone, Inserting
  <2>3. \A r \in Rows : rows'[r] = IF r = Target(w) THEN ZeroRow ELSE rows[r]
    BY <2>1, <1>t
  <2>4. ZeroRow.count["hits"] = 0
    BY DEF ZeroRow, Counters
  <2>5. i'[w] = Target(w) /\ i'[w] \in Rows
    <3>1. Typed'
      BY StepTyped
    <3> QED BY <2>1, <2>2, <3>1, <1>t DEF Typed, TypeOK
  <2>6. Hits(i[w])' = 0
    BY <2>3, <2>4, <2>5 DEF Hits
  <2>7. \A r \in torn' : Hits(r)' = 0
    BY <2>1, <2>3, <1>a, <1>t DEF Unclaimed, Hits
  <2> QED BY <2>2, <2>6, <2>7 DEF Unclaimed, Hits
<1>5. ASSUME NEW w \in Workers, WriteName(w) \/ WriteHash(w) PROVE Unclaimed'
  <2>1. /\ \/ pc[w] = "name" /\ pc' = [pc EXCEPT ![w] = "hash"]
           \/ pc[w] = "hash" /\ pc' = [pc EXCEPT ![w] = "unlock"]
        /\ i[w] \in Rows /\ UNCHANGED <<i, torn>>
    BY <1>5, <1>t DEF WriteName, WriteHash
  <2>2. \A r \in Rows : rows'[r].count = rows[r].count
    <3>1. \/ rows' = [rows EXCEPT ![i[w]] = [rows[i[w]] EXCEPT !.name = NameOf[key[w]]]]
          \/ rows' = [rows EXCEPT ![i[w]] = [rows[i[w]] EXCEPT !.hash = HashOf[key[w]]]]
      BY <1>5, <2>1 DEF WriteName, WriteHash
    <3> QED BY <3>1, <2>1, <1>t DEF RowType
  <2>3. \A v \in Workers : v # w => pc'[v] = "idle"
    BY <2>1, <1>a, <1>t DEF Alone, Inserting
  <2>4. i[w] \notin torn
    BY <2>1 DEF RowInv
  <2> QED BY <2>1, <2>2, <2>3, <2>4, <1>a, <1>t DEF Unclaimed, Hits
<1>6. ASSUME NEW w \in Workers, Add(w) PROVE Unclaimed'
  <2>1. /\ pc[w] \in {"first", "add"} /\ UNCHANGED <<i, torn>>
        /\ pc' = [pc EXCEPT ![w] = "idle"] \/ pc' = [pc EXCEPT ![w] = "add"]
    BY <1>6 DEF Add
  <2>2. i[w] \in Rows /\ i[w] \notin torn
    BY <2>1, <1>a, <1>t DEF Unclaimed
  <2>3. \A r \in Rows : r # i[w] => rows'[r] = rows[r]
    BY <1>6, <2>2, <1>t DEF Add, AddNext
  <2>4. \A v \in Workers : pc[v] \notin {"name", "hash"}
    BY <2>1, <1>a DEF Alone, Inserting
  <2> QED BY <2>1, <2>2, <2>3, <2>4, <1>a, <1>t DEF Unclaimed, Hits
<1>7. ASSUME NEW w \in Workers, Crash(w) PROVE Unclaimed'
  <2>1. /\ pc' = [pc EXCEPT ![w] = "idle"] /\ UNCHANGED <<rows, i>>
        /\ torn' = IF pc[w] \in {"name", "hash"} THEN torn \cup {i[w]} ELSE torn
    BY <1>7 DEF Crash
  <2>2. pc[w] \in {"name", "hash"} => \A v \in Workers : pc'[v] = "idle"
    BY <2>1, <1>a, <1>t DEF Alone, Inserting
  <2> QED BY <2>1, <2>2, <1>a, <1>t DEF Unclaimed, Hits
<1>8. CASE UNCHANGED vars
  BY <1>8, <1>a DEF vars, Unclaimed, Hits
<1> QED
  BY <1>a, <1>1, <1>2, <1>3, <1>4, <1>5, <1>6, <1>7, <1>8 DEF Next, Update

(* Outside the mutex every row that no death left half-written carries the *)
(* name and the hash of one key, or is zeroed, and the half-written ones   *)
(* claim no hits unless an insertion overlapped another call: for any      *)
(* number of workers that rewrite rows at once, given that no key hashes   *)
(* to the zero of an empty row.                                            *)
THEOREM WholeRows == ASSUME NoZeroHash PROVE Spec => []RowsWhole
<1> DEFINE Inv == Typed /\ RowInv /\ RaceInv
<1>1. Init => Inv
  <2>1. Init => torn = {} /\ \A w \in Workers : pc[w] = "idle"
    BY DEF Init
  <2>2. Init => RaceInv
    BY <2>1 DEF RaceInv, Alone, Unclaimed, Inserting
  <2> QED BY <2>2, InitTyped, InitRow
<1>2. Inv /\ [Next]_vars => Inv'
  BY StepTyped, StepRow, StepRace
<1>3. Inv => RowsWhole
  <2> SUFFICES ASSUME Inv PROVE RowsWhole
    OBVIOUS
  <2>1. mutex = {} =>
          \A r \in Rows \ torn : rows[r].name = NoName \/ \E k \in Keys : Same(k, r)
    BY DEF RowInv
  <2> QED BY <2>1 DEF Typed, RaceInv, Unclaimed, RowsWhole
<1> QED BY <1>1, <1>2, <1>3, PTL DEF Spec

-----------------------------------------------------------------------------
(* The workers that have counted a failure in a row and not its 5xx yet:   *)
(* the row's failures cover them too.                                      *)
Pending(r) ==
    {w \in Workers : /\ pc[w] \in {"first", "add"} /\ i[w] = r
                     /\ todo[w] # <<>> /\ Head(todo[w]) = "s5xx"}

FailInv ==
    ~raced => \A r \in Rows :
        rows[r].count["failures"] >= rows[r].count["s5xx"] + Cardinality(Pending(r))

LEMMA PendingFinite ==
    ASSUME NEW S \in SUBSET Workers
    PROVE  IsFiniteSet(S) /\ Cardinality(S) \in Nat
BY TopAssumption, FS_Subset, FS_CardinalityType

LEMMA Fewer ==
    ASSUME NEW S \in SUBSET Workers, NEW T \in SUBSET S
    PROVE  Cardinality(T) <= Cardinality(S)
BY PendingFinite, FS_Subset

LEMMA StepFail == Typed /\ (~raced => Alone) /\ FailInv /\ [Next]_vars => FailInv'
<1> SUFFICES ASSUME Typed, ~raced => Alone, FailInv, [Next]_vars, ~raced', NEW r \in Rows
             PROVE  rows'[r].count["failures"]
                      >= rows'[r].count["s5xx"] + Cardinality(Pending(r)')
  BY DEF FailInv
<1>a. ~raced /\ Alone
  BY RacedForGood
<1>t. /\ pc \in [Workers -> Steps] /\ DOMAIN i = Workers
      /\ rows \in [Rows -> RowType] /\ todo \in [Workers -> Seq(Counters)]
      /\ \A w \in Workers : pc[w] \notin {"idle", "scan", "lock", "zero"} => i[w] \in Rows
  BY DEF Typed, TypeOK, RowType, Names, Steps
<1>n. /\ rows[r].count \in [Counters -> Nat]
      /\ rows[r].count["failures"] \in Nat /\ rows[r].count["s5xx"] \in Nat
      /\ Pending(r) \in SUBSET Workers /\ Pending(r)' \in SUBSET Workers
      /\ Cardinality(Pending(r)) \in Nat /\ Cardinality(Pending(r)') \in Nat
  <2>1. Pending(r) \in SUBSET Workers /\ Pending(r)' \in SUBSET Workers
    BY DEF Pending
  <2>2. Cardinality(Pending(r)) \in Nat /\ Cardinality(Pending(r)') \in Nat
    BY <2>1, PendingFinite
  <2> QED BY <2>1, <2>2, <1>t, Known DEF RowType
<1>f. rows[r].count["failures"] >= rows[r].count["s5xx"] + Cardinality(Pending(r))
  BY <1>a DEF FailInv
<1>w. \A w \in Workers : pc[w] \in Early => Head(todo[w]) = "hits"
  BY DEF Typed, LocalInv, Whole
<1> USE DEF Goto, locals, ghosts
(* Steps that count nothing.                                               *)
<1>1. ASSUME rows'[r].count = rows[r].count, Pending(r)' \subseteq Pending(r)
      PROVE  rows'[r].count["failures"] >= rows'[r].count["s5xx"] + Cardinality(Pending(r)')
  <2>1. Cardinality(Pending(r)') <= Cardinality(Pending(r))
    BY <1>1, <1>n, Fewer
  <2> QED BY <2>1, <1>1, <1>n, <1>f
<1>2. ASSUME NEW w \in Workers, Call(w) \/ ScanEmpty(w) \/ ScanOther(w) \/ ScanMiss(w)
                                \/ Lock(w) \/ Crash(w)
      PROVE  UNCHANGED rows /\ Pending(r)' \subseteq Pending(r)
  <2>1. /\ \A v \in Workers : v # w => pc'[v] = pc[v] /\ i'[v] = i[v] /\ todo'[v] = todo[v]
        /\ pc'[w] \in {"scan", "lock", "zero", "idle"} /\ UNCHANGED rows
    BY <1>2, <1>t DEF Call, ScanEmpty, ScanOther, ScanMiss, Scanning, Lock, Crash
  <2> QED BY <2>1 DEF Pending
<1>3. ASSUME NEW w \in Workers, ScanMatch(w) \/ Unlock(w)
      PROVE  UNCHANGED rows /\ Pending(r)' \subseteq Pending(r)
  <2>1. /\ \A v \in Workers : v # w => pc'[v] = pc[v]
        /\ pc[w] \in Early /\ UNCHANGED <<rows, i, todo>>
    BY <1>3, <1>t DEF ScanMatch, Scanning, Unlock, Early
  <2> QED BY <2>1, <1>w DEF Pending
<1>4. ASSUME NEW w \in Workers, WriteName(w) \/ WriteHash(w)
      PROVE  rows'[r].count = rows[r].count /\ Pending(r)' \subseteq Pending(r)
  <2>1. /\ i[w] \in Rows /\ UNCHANGED <<i, todo>> /\ pc'[w] \in {"hash", "unlock"}
        /\ \A v \in Workers : v # w => pc'[v] = pc[v]
    BY <1>4, <1>t DEF WriteName, WriteHash
  <2>2. \/ rows' = [rows EXCEPT ![i[w]] = [rows[i[w]] EXCEPT !.name = NameOf[key[w]]]]
        \/ rows' = [rows EXCEPT ![i[w]] = [rows[i[w]] EXCEPT !.hash = HashOf[key[w]]]]
    BY <1>4, <2>1 DEF WriteName, WriteHash
  <2>3. rows'[r].count = rows[r].count
    <3> DEFINE row == rows[i[w]]
    <3>1. row \in RowType /\ \A q \in Rows \ {i[w]} : rows'[q] = rows[q]
      BY <2>1, <2>2, <1>t
    <3>2. /\ [row EXCEPT !.name = NameOf[key[w]]].count = row.count
          /\ [row EXCEPT !.hash = HashOf[key[w]]].count = row.count
      BY <3>1 DEF RowType
    <3>3. rows'[i[w]].count = row.count
      <4>1. \/ rows'[i[w]] = [row EXCEPT !.name = NameOf[key[w]]]
            \/ rows'[i[w]] = [row EXCEPT !.hash = HashOf[key[w]]]
        BY <2>1, <2>2, <1>t
      <4> QED BY <4>1, <3>2
    <3> QED BY <3>1, <3>3
  <2> QED BY <2>1, <2>3 DEF Pending
<1>5. ASSUME NEW w \in Workers, Zero(w)
      PROVE  rows'[r].count["failures"] >= rows'[r].count["s5xx"] + Cardinality(Pending(r)')
  <2>1. /\ pc[w] = "zero" /\ pc' = [pc EXCEPT ![w] = "name"]
        /\ rows' = [rows EXCEPT ![Target(w)] = ZeroRow]
    BY <1>5 DEF Zero
  <2>2. Pending(r)' = {}
    BY <2>1, <1>a, <1>t DEF Alone, Inserting, Pending
  <2>3. CASE rows'[r] = rows[r]
    BY <2>2, <2>3, <1>1
  <2>4. CASE rows'[r] = ZeroRow
    <3>1. ZeroRow.count["failures"] = 0 /\ ZeroRow.count["s5xx"] = 0
      BY DEF ZeroRow, Counters
    <3>2. Cardinality(Pending(r)') = 0
      BY <2>2, FS_EmptySet
    <3> QED BY <2>4, <3>1, <3>2
  <2> QED BY <2>1, <2>3, <2>4, <1>t
(* A counter is added: that of a 5xx takes its worker off the pending, and *)
(* only that of a failure puts one on.                                     *)
<1>6. ASSUME NEW w \in Workers, Add(w)
      PROVE  rows'[r].count["failures"] >= rows'[r].count["s5xx"] + Cardinality(Pending(r)')
  <2> DEFINE c == Head(todo[w])
  <2>1. /\ pc[w] \in {"first", "add"} /\ todo[w] # <<>> /\ i' = i /\ i[w] \in Rows
        /\ \A v \in Workers : v # w => pc'[v] = pc[v] /\ todo'[v] = todo[v]
        /\ todo'[w] = Tail(todo[w])
    BY <1>6, <1>t DEF Add, AddNext
  <2>2. /\ c \in Counters
        /\ c = "s5xx" => Tail(todo[w]) = <<>>
        /\ Tail(todo[w]) # <<>> /\ Head(Tail(todo[w])) = "s5xx" => c = "failures"
    BY <2>1, <1>t, TailInOrder DEF Typed, LocalInv
  <2>3. rows' = [rows EXCEPT ![i[w]] =
                   [rows[i[w]] EXCEPT !.count = [rows[i[w]].count EXCEPT
                      ![c] = rows[i[w]].count[c] + 1]]]
    BY <1>6, <2>1 DEF Add, AddNext
  <2>4. CASE i[w] # r
    <3>1. rows'[r] = rows[r]
      BY <2>1, <2>3, <2>4, <1>t
    <3>2. Pending(r)' \subseteq Pending(r)
      BY <2>1, <2>4 DEF Pending
    <3> QED BY <3>1, <3>2, <1>1
  <2>5. CASE i[w] = r
    <3>1. rows'[r].count = [rows[r].count EXCEPT ![c] = rows[r].count[c] + 1]
      BY <2>3, <2>5, <1>t DEF RowType
    <3> HIDE DEF c
    <3>2. /\ rows'[r].count["failures"] =
                rows[r].count["failures"] + (IF c = "failures" THEN 1 ELSE 0)
          /\ rows'[r].count["s5xx"] = rows[r].count["s5xx"] + (IF c = "s5xx" THEN 1 ELSE 0)
      BY <3>1, <2>2, <1>n, Known
    <3>3. CASE c = "s5xx"
      <4>1. w \in Pending(r)
        BY <2>1, <2>5, <3>3 DEF Pending, c
      <4>2. Pending(r)' \subseteq Pending(r) \ {w}
        BY <2>1, <2>2, <3>3 DEF Pending
      <4>3. Cardinality(Pending(r) \ {w}) = Cardinality(Pending(r)) - 1
        BY <4>1, <1>n, PendingFinite, FS_RemoveElement
      <4>4. Cardinality(Pending(r)') <= Cardinality(Pending(r) \ {w})
        <5>1. Pending(r) \ {w} \in SUBSET Workers
          BY <1>n
        <5> QED BY <4>2, <5>1, Fewer
      <4> QED BY <4>3, <4>4, <3>2, <3>3, <1>n, <1>f
    <3>4. CASE c = "failures"
      <4>1. Pending(r)' \subseteq Pending(r) \cup {w}
        BY <2>1 DEF Pending
      <4>2. w \notin Pending(r)
        BY <3>4 DEF Pending, c
      <4>3. Cardinality(Pending(r) \cup {w}) = Cardinality(Pending(r)) + 1
        BY <4>2, <1>n, PendingFinite, FS_AddElement
      <4>4. Cardinality(Pending(r)') <= Cardinality(Pending(r) \cup {w})
        <5>1. Pending(r) \cup {w} \in SUBSET Workers
          BY <1>n
        <5> QED BY <4>1, <5>1, Fewer
      <4> QED BY <4>3, <4>4, <3>2, <3>4, <1>n, <1>f
    <3>5. CASE c # "s5xx" /\ c # "failures"
      <4>1. Pending(r)' \subseteq Pending(r)
        BY <2>1, <2>2, <3>5 DEF Pending
      <4>2. Cardinality(Pending(r)') <= Cardinality(Pending(r))
        BY <4>1, <1>n, Fewer
      <4> QED BY <4>2, <3>2, <3>5, <1>n, <1>f
    <3> QED BY <3>3, <3>4, <3>5
  <2> QED BY <2>4, <2>5
<1>7. CASE UNCHANGED vars
  <2>1. UNCHANGED rows /\ Pending(r)' \subseteq Pending(r)
    BY <1>7 DEF vars, Pending
  <2> QED BY <2>1, <1>1
<1>8. UNCHANGED rows => rows'[r].count = rows[r].count
  OBVIOUS
<1> QED BY <1>1, <1>2, <1>3, <1>4, <1>5, <1>6, <1>7, <1>8 DEF Next, Update

(* With no call under way, a row has at least as many failures as 5xx      *)
(* answers, unless an insertion overlapped another call: a death between   *)
(* the two additions leaves a failure too many, never one too few.         *)
THEOREM FailuresAlone == Spec => []FailuresCountedAlone
<1> DEFINE Inv == Typed /\ (~raced => Alone) /\ FailInv
<1>1. Init => Inv
  <2> SUFFICES ASSUME Init PROVE Alone /\ FailInv
    BY InitTyped
  <2>1. torn = {} /\ \A w \in Workers : pc[w] = "idle"
    BY DEF Init
  <2>2. Alone
    BY <2>1 DEF Alone, Inserting
  <2>3. \A r \in Rows : Cardinality(Pending(r)) = 0
    <3>1. \A r \in Rows : Pending(r) = {}
      BY <2>1 DEF Pending
    <3> QED BY <3>1, FS_EmptySet
  <2>4. \A r \in Rows : rows[r].count["failures"] = 0 /\ rows[r].count["s5xx"] = 0
    BY DEF Init, RowOf, ZeroRow, Counters
  <2> QED BY <2>2, <2>3, <2>4 DEF FailInv
<1>2. Inv /\ [Next]_vars => Inv'
  BY StepTyped, StepAlone, StepFail
<1>3. Inv => FailuresCountedAlone
  <2> SUFFICES ASSUME Typed, FailInv, ~raced, NEW r \in Rows
               PROVE  rows[r].count["failures"] >= rows[r].count["s5xx"]
    BY DEF FailuresCountedAlone
  <2>1. Pending(r) \in SUBSET Workers
    BY DEF Pending
  <2>2. Cardinality(Pending(r)) \in Nat
    BY <2>1, PendingFinite
  <2>3. rows[r].count["failures"] \in Nat /\ rows[r].count["s5xx"] \in Nat
    BY Known DEF Typed, TypeOK
  <2> QED BY <2>2, <2>3 DEF FailInv
<1> QED BY <1>1, <1>2, <1>3, PTL DEF Spec

-----------------------------------------------------------------------------
(* The workers whose call has not counted its hit yet, and the bound that  *)
(* keeps every count below the value the scan starts from.                 *)
Owing == {w \in Workers : todo[w] # <<>> /\ Head(todo[w]) = "hits"}

LEMMA InfinityType == Infinity \in Nat
BY SMT DEF Infinity

BoundInv == \A r \in Rows : Hits(r) + Cardinality(Owing) + MaxCalls < Infinity + calls

LEMMA InitBound == Init => BoundInv
<1> SUFFICES ASSUME Init, NEW r \in Rows
             PROVE  Hits(r) + Cardinality(Owing) + MaxCalls < Infinity + calls
  BY DEF BoundInv
<1>1. Owing = {} /\ calls = 0
  BY DEF Init, Owing
<1>2. Cardinality(Owing) = 0
  BY <1>1, FS_EmptySet
<1>3. PICK start \in Starts :
        rows = [q \in Rows |-> IF q < Len(start) THEN RowOf(start[q + 1]) ELSE ZeroRow]
  BY DEF Init
<1>4. start \in Seq([key : Keys, hits : Nat \ {0}])
  BY TopAssumption
<1>5. CASE r < Len(start)
  <2>1. r + 1 \in 1 .. Len(start)
    BY <1>4, <1>5, TopAssumption DEF Rows
  <2>2. start[r + 1] \in [key : Keys, hits : Nat \ {0}]
    BY <1>4, <2>1, ElementOfSeq
  <2>3. Hits(r) = start[r + 1].hits /\ start[r + 1].hits \in Nat
    BY <1>3, <1>5, <2>2 DEF Hits, RowOf, Counters
  <2>4. start[r + 1].hits + MaxCalls < Infinity
    BY <2>1, HitsFit
  <2>5. MaxCalls \in Nat /\ Infinity \in Nat
    BY TopAssumption, InfinityType
  <2> QED BY <1>1, <1>2, <2>3, <2>4, <2>5
<1>6. CASE ~(r < Len(start))
  <2>1. Hits(r) = 0
    BY <1>3, <1>6 DEF Hits, ZeroRow, Counters
  <2>2. MaxCalls \in Nat /\ MaxCalls < Infinity
    BY HitsFit, TopAssumption
  <2> QED BY <1>1, <1>2, <2>1, <2>2, InfinityType
<1> QED BY <1>5, <1>6


(* What a step does to the hits of the rows and to the hits that are owed. *)
Asks(w) ==
    /\ UNCHANGED rows /\ calls' = calls + 1 /\ Owing' = Owing \cup {w}
    /\ pc[w] = "idle" /\ pc'[w] = "scan"
    /\ \E k \in Keys : asked' = [asked EXCEPT ![k] = asked[k] + 1] /\ key' = [key EXCEPT ![w] = k]

Clears(w) ==
    /\ pc[w] = "zero" /\ Target(w) \in Rows
    /\ \A r \in Rows : Hits(r)' = IF r = Target(w) THEN 0 ELSE Hits(r)
    /\ Owing' = Owing /\ UNCHANGED <<calls, asked, key>>

Counts(w) ==
    /\ pc[w] \in {"first", "add"} /\ i[w] \in Rows /\ UNCHANGED i
    /\ w \in Owing /\ Owing' = Owing \ {w}
    /\ \A r \in Rows : Hits(r)' = IF r = i[w] THEN Hits(r) + 1 ELSE Hits(r)
    /\ UNCHANGED <<calls, asked, key>>

Keeps ==
    /\ \A r \in Rows : Hits(r)' = Hits(r)
    /\ Owing' \subseteq Owing /\ UNCHANGED <<calls, asked, key>>

LEMMA StepEffect ==
    ASSUME Typed, NEW w \in Workers, Call(w) \/ Update(w) \/ Crash(w)
    PROVE  Asks(w) \/ Clears(w) \/ Counts(w) \/ Keeps
<1>t. /\ pc \in [Workers -> Steps] /\ i \in [Workers -> 0 .. Capacity]
      /\ rows \in [Rows -> RowType] /\ todo \in [Workers -> Seq(Counters)]
      /\ asked \in [Keys -> Nat]
      /\ \A v \in Workers : pc[v] \notin {"idle", "scan", "lock", "zero"} => i[v] \in Rows
  BY DEF Typed, TypeOK, RowType, Names, Steps
<1> USE DEF Goto, locals, ghosts
<1>1. CASE Call(w)
  <2>1. PICK k \in Keys, v \in Statuses :
          /\ key' = [key EXCEPT ![w] = k]
          /\ todo' = [todo EXCEPT ![w] = CountersOf(v)]
          /\ asked' = [asked EXCEPT ![k] = @ + 1]
    BY <1>1 DEF Call
  <2>2. Whole(CountersOf(v))
    BY CallShape, TopAssumption
  <2>3. Owing' = Owing \cup {w}
    BY <2>1, <2>2, <1>t DEF Owing, Whole
  <2>4. UNCHANGED rows /\ calls' = calls + 1 /\ pc[w] = "idle" /\ pc'[w] = "scan"
    BY <1>1, <1>t DEF Call
  <2> QED BY <2>1, <2>3, <2>4 DEF Asks
<1>2. CASE ScanEmpty(w) \/ ScanMatch(w) \/ ScanOther(w) \/ ScanMiss(w) \/ Lock(w) \/ Unlock(w)
  <2>1. UNCHANGED <<rows, todo, calls, asked, key>>
    BY <1>2 DEF ScanEmpty, ScanMatch, ScanOther, ScanMiss, Lock, Unlock
  <2> QED BY <2>1 DEF Keeps, Hits, Owing
<1>3. CASE WriteName(w) \/ WriteHash(w)
  <2>1. /\ i[w] \in Rows /\ UNCHANGED <<todo, calls, asked, key>>
        /\ \/ rows' = [rows EXCEPT ![i[w]] = [rows[i[w]] EXCEPT !.name = NameOf[key[w]]]]
           \/ rows' = [rows EXCEPT ![i[w]] = [rows[i[w]] EXCEPT !.hash = HashOf[key[w]]]]
    BY <1>3, <1>t DEF WriteName, WriteHash
  <2>2. \A r \in Rows : rows'[r].count = rows[r].count
    <3> DEFINE row == rows[i[w]]
    <3>1. row \in RowType /\ \A r \in Rows \ {i[w]} : rows'[r] = rows[r]
      BY <2>1, <1>t
    <3>2. /\ [row EXCEPT !.name = NameOf[key[w]]].count = row.count
          /\ [row EXCEPT !.hash = HashOf[key[w]]].count = row.count
      BY <3>1 DEF RowType
    <3>3. \/ rows'[i[w]] = [row EXCEPT !.name = NameOf[key[w]]]
          \/ rows'[i[w]] = [row EXCEPT !.hash = HashOf[key[w]]]
      BY <2>1, <1>t
    <3> QED BY <3>1, <3>2, <3>3
  <2> QED BY <2>1, <2>2 DEF Keeps, Hits, Owing
<1>4. CASE Zero(w)
  <2>1. /\ pc[w] = "zero" /\ rows' = [rows EXCEPT ![Target(w)] = ZeroRow]
        /\ pc' = [pc EXCEPT ![w] = "name"] /\ i' = [i EXCEPT ![w] = Target(w)]
        /\ UNCHANGED <<todo, calls, asked, key>>
    BY <1>4 DEF Zero
  <2>2. Target(w) \in Rows
    <3>1. Typed'
      BY StepTyped DEF Next
    <3>2. i'[w] \in Rows
      BY <3>1, <2>1, <1>t DEF Typed, TypeOK
    <3> QED BY <3>2, <2>1, <1>t
  <2>3. ZeroRow.count["hits"] = 0
    BY DEF ZeroRow, Counters
  <2>4. \A r \in Rows : Hits(r)' = IF r = Target(w) THEN 0 ELSE Hits(r)
    BY <2>1, <2>2, <2>3, <1>t DEF Hits
  <2> QED BY <2>1, <2>2, <2>4 DEF Clears, Owing
<1>5. CASE Add(w)
  <2> DEFINE c == Head(todo[w])
  <2>1. /\ pc[w] \in {"first", "add"} /\ todo[w] # <<>> /\ i[w] \in Rows
        /\ todo' = [todo EXCEPT ![w] = Tail(todo[w])]
        /\ rows' = [rows EXCEPT ![i[w]] =
                      [rows[i[w]] EXCEPT !.count = [rows[i[w]].count EXCEPT
                         ![c] = rows[i[w]].count[c] + 1]]]
        /\ UNCHANGED <<calls, asked, key, i>>
    BY <1>5, <1>t DEF Add, AddNext
  <2>2. c \in Counters /\ (Tail(todo[w]) # <<>> => Head(Tail(todo[w])) # "hits")
    BY <2>1, <1>t, TailInOrder DEF Typed, LocalInv
  <2>3. Owing' = Owing \ {w} /\ (w \in Owing <=> c = "hits")
    BY <2>1, <2>2, <1>t DEF Owing
  <2>4. \A r \in Rows : rows[r].count \in [Counters -> Nat]
    BY <1>t DEF RowType
  <2> HIDE DEF c
  <2>5. /\ \A r \in Rows \ {i[w]} : rows'[r] = rows[r]
        /\ rows'[i[w]].count = [rows[i[w]].count EXCEPT ![c] = rows[i[w]].count[c] + 1]
    BY <2>1, <1>t DEF RowType
  <2>6. CASE c = "hits"
    <3>1. \A r \in Rows : Hits(r)' = IF r = i[w] THEN Hits(r) + 1 ELSE Hits(r)
      BY <2>1, <2>4, <2>5, <2>6, Known DEF Hits
    <3> QED BY <2>1, <2>3, <2>6, <3>1 DEF Counts
  <2>7. CASE c # "hits"
    <3>1. \A r \in Rows : Hits(r)' = Hits(r)
      BY <2>1, <2>4, <2>5, <2>7, Known DEF Hits
    <3> QED BY <2>1, <2>3, <3>1 DEF Keeps
  <2> QED BY <2>6, <2>7
<1>6. CASE Crash(w)
  <2>1. UNCHANGED <<rows, calls, asked, key>> /\ todo' = [todo EXCEPT ![w] = <<>>]
    BY <1>6 DEF Crash
  <2> QED BY <2>1, <1>t DEF Keeps, Hits, Owing
<1> QED BY <1>1, <1>2, <1>3, <1>4, <1>5, <1>6 DEF Update

LEMMA OwingType ==
    /\ Owing \in SUBSET Workers /\ IsFiniteSet(Owing) /\ Cardinality(Owing) \in Nat
    /\ \A w \in Workers : /\ w \in Owing => Cardinality(Owing \ {w}) = Cardinality(Owing) - 1
                          /\ Cardinality(Owing \cup {w}) <= Cardinality(Owing) + 1
<1>1. Owing \in SUBSET Workers
  BY DEF Owing
<1>2. IsFiniteSet(Owing) /\ Cardinality(Owing) \in Nat
  BY <1>1, PendingFinite
<1>3. ASSUME NEW w \in Workers, w \in Owing
      PROVE  Cardinality(Owing \ {w}) = Cardinality(Owing) - 1
  BY <1>2, <1>3, FS_RemoveElement
<1>4. ASSUME NEW w \in Workers PROVE Cardinality(Owing \cup {w}) <= Cardinality(Owing) + 1
  <2>1. Cardinality(Owing \cup {w}) = IF w \in Owing THEN Cardinality(Owing) ELSE Cardinality(Owing) + 1
    BY <1>2, FS_AddElement
  <2> QED BY <1>2, <2>1
<1> QED BY <1>1, <1>2, <1>3, <1>4

LEMMA HitsType == Typed => \A r \in Rows : Hits(r) \in Nat
BY Known DEF Typed, TypeOK, Hits

LEMMA StepBound == Typed /\ BoundInv /\ [Next]_vars => BoundInv'
<1> SUFFICES ASSUME Typed, BoundInv, [Next]_vars, NEW r \in Rows
             PROVE  (Hits(r) + Cardinality(Owing) + MaxCalls < Infinity + calls)'
  BY DEF BoundInv
<1>t. /\ Hits(r) \in Nat /\ MaxCalls \in Nat /\ Infinity \in Nat /\ calls \in Nat
      /\ Cardinality(Owing) \in Nat /\ Owing \in SUBSET Workers
      /\ Hits(r) + Cardinality(Owing) + MaxCalls < Infinity + calls
  <2>1. calls \in 0 .. MaxCalls /\ MaxCalls \in Nat
    BY TopAssumption DEF Typed, TypeOK
  <2> QED BY <2>1, HitsType, OwingType, InfinityType DEF BoundInv
<1>o. \A w \in Workers : /\ w \in Owing => Cardinality(Owing \ {w}) = Cardinality(Owing) - 1
                         /\ Cardinality(Owing \cup {w}) <= Cardinality(Owing) + 1
                         /\ Cardinality(Owing \cup {w}) \in Nat
  <2>1. \A w \in Workers : Owing \cup {w} \in SUBSET Workers
    BY <1>t
  <2> QED BY <2>1, OwingType, PendingFinite
<1>1. ASSUME NEW w \in Workers, Asks(w)
      PROVE  (Hits(r) + Cardinality(Owing) + MaxCalls < Infinity + calls)'
  <2>1. Hits(r)' = Hits(r) /\ calls' = calls + 1 /\ Cardinality(Owing)' <= Cardinality(Owing) + 1
        /\ Cardinality(Owing)' \in Nat
    BY <1>1, <1>o DEF Asks, Hits
  <2> QED BY <2>1, <1>t
<1>2. ASSUME NEW w \in Workers, Counts(w)
      PROVE  (Hits(r) + Cardinality(Owing) + MaxCalls < Infinity + calls)'
  <2>1. Hits(r)' <= Hits(r) + 1 /\ Hits(r)' \in Nat /\ calls' = calls
        /\ Cardinality(Owing)' = Cardinality(Owing) - 1
    BY <1>2, <1>o, <1>t DEF Counts
  <2> QED BY <2>1, <1>t
<1>3. ASSUME Hits(r)' \in {0, Hits(r)}, Owing' \subseteq Owing, calls' = calls
      PROVE  (Hits(r) + Cardinality(Owing) + MaxCalls < Infinity + calls)'
  <2>1. Cardinality(Owing)' \in Nat /\ Cardinality(Owing)' <= Cardinality(Owing)
    BY <1>3, <1>t, Fewer, PendingFinite
  <2> QED BY <1>3, <2>1, <1>t
<1>4. CASE UNCHANGED vars
  BY <1>3, <1>4 DEF vars, ghosts, locals, Hits, Owing
<1>5. ASSUME NEW w \in Workers, Call(w) \/ Update(w) \/ Crash(w)
      PROVE  (Hits(r) + Cardinality(Owing) + MaxCalls < Infinity + calls)'
  <2>1. Asks(w) \/ Clears(w) \/ Counts(w) \/ Keeps
    BY <1>5, StepEffect
  <2>2. Clears(w) \/ Keeps => Hits(r)' \in {0, Hits(r)} /\ Owing' \subseteq Owing /\ calls' = calls
    BY DEF Clears, Keeps
  <2> QED BY <2>1, <2>2, <1>1, <1>2, <1>3
<1> QED BY <1>4, <1>5 DEF Next

LEMMA Below == Typed /\ BoundInv => \A r \in Rows : Hits(r) < Infinity
<1> SUFFICES ASSUME Typed, BoundInv, NEW r \in Rows PROVE Hits(r) < Infinity
  OBVIOUS
<1>1. Hits(r) \in Nat /\ Cardinality(Owing) \in Nat /\ calls \in 0 .. MaxCalls /\ MaxCalls \in Nat
  BY HitsType, OwingType, TopAssumption DEF Typed, TypeOK
<1>2. Hits(r) + Cardinality(Owing) + MaxCalls < Infinity + calls
  BY DEF BoundInv
<1> QED BY <1>1, <1>2, InfinityType

(* A call that overlaps no other has seen the rows as they are: those it   *)
(* has passed are empty[w] or have at least minHits[w] hits.               *)
Seen(w, n) ==
    /\ empty[w] <= room[w]
    /\ empty[w] # room[w] => Hits(empty[w]) = 0
    /\ empty[w] = room[w] =>
          /\ \A r \in 0 .. n - 1 : Hits(r) >= minHits[w]
          /\ IF n = 0 THEN minHits[w] = Infinity ELSE Hits(victim[w]) = minHits[w]

ScanInv == \A w \in alone :
    /\ \A v \in Workers \ {w} : pc[v] = "idle"
    /\ pc[w] = "scan" => Seen(w, i[w])
    /\ pc[w] \in {"lock", "zero"} => Seen(w, room[w])

LEMMA StepScan == Typed /\ BoundInv /\ ScanInv /\ [Next]_vars => ScanInv'
<1> SUFFICES ASSUME Typed, BoundInv, ScanInv, [Next]_vars PROVE ScanInv'
  OBVIOUS
<1>t. /\ pc \in [Workers -> Steps] /\ i \in [Workers -> 0 .. Capacity]
      /\ empty \in [Workers -> 0 .. Capacity] /\ victim \in [Workers -> Rows]
      /\ minHits \in [Workers -> Nat] /\ alone \in SUBSET Workers
  BY DEF Typed, TypeOK, Steps
<1>m. \A w \in Workers : room[w] \in 1 .. Capacity /\ room[w] \in Nat
  BY RoomTyped, TopAssumption DEF Typed
<1>c. Capacity \in Nat \ {0} /\ Rows = 0 .. Capacity - 1
  BY TopAssumption DEF Rows
<1> USE DEF Goto, locals, ghosts
<1>1. ASSUME NEW w \in Workers, Call(w) PROVE ScanInv'
  <2>1. /\ pc' = [pc EXCEPT ![w] = "scan"] /\ i' = [i EXCEPT ![w] = 0]
        /\ empty' = [empty EXCEPT ![w] = room[w]]
        /\ minHits' = [minHits EXCEPT ![w] = Infinity] /\ UNCHANGED room
        /\ alone' = IF \A q \in Workers : pc[q] = "idle" THEN {w} ELSE {}
    BY <1>1 DEF Call
  <2> SUFFICES ASSUME alone' = {w}, \A q \in Workers : pc[q] = "idle" PROVE ScanInv'
    BY <2>1 DEF ScanInv
  <2>2. /\ pc'[w] = "scan" /\ i'[w] = 0 /\ empty'[w] = room'[w] /\ minHits'[w] = Infinity
        /\ \A v \in Workers \ {w} : pc'[v] = "idle"
    BY <2>1, <1>t
  <2>3. Seen(w, 0)'
    BY <2>2, <1>m, <2>1 DEF Seen
  <2>4. Seen(w, i[w])'
    BY <2>2, <2>3
  <2> QED BY <2>2, <2>4 DEF ScanInv
(* Any other step is one of the only worker inside a call.                 *)
<1>2. ASSUME NEW w \in Workers, Update(w) \/ Crash(w) PROVE ScanInv'
  <2>0. /\ pc[w] # "idle" /\ alone' = alone /\ room' = room
        /\ \A v \in Workers \ {w} : pc'[v] = pc[v]
    BY <1>2, <1>t DEF Update, Crash, ScanEmpty, ScanMatch, ScanOther, ScanMiss, Lock, Zero,
       WriteName, WriteHash, Unlock, Add, Scanning
  <2> SUFFICES ASSUME w \in alone
               PROVE  /\ pc'[w] = "scan" => Seen(w, i[w])'
                      /\ pc'[w] \in {"lock", "zero"} => Seen(w, room[w])'
    <3>1. \A u \in alone' : u = w
      BY <2>0, <1>t DEF ScanInv
    <3>2. w \in alone => \A v \in Workers \ {w} : pc'[v] = "idle"
      BY <2>0 DEF ScanInv
    <3> QED BY <2>0, <3>1, <3>2 DEF ScanInv
  <2>1. CASE ScanEmpty(w)
    <3>1. /\ pc[w] = "scan" /\ pc' = pc /\ i[w] < room[w] /\ rows' = rows
          /\ Hits(i[w]) = 0 /\ empty' = [empty EXCEPT ![w] = i[w]]
      BY <2>1 DEF ScanEmpty, Scanning, TakesEmpty
    <3>2. empty'[w] = i[w] /\ Hits(i[w])' = Hits(i[w])'
      BY <3>1, <1>t
    <3>3. empty'[w] < room'[w] /\ rows'[empty'[w]].count["hits"] = 0
      BY <3>1, <3>2, <2>0 DEF Hits
    <3>4. empty'[w] \in Int /\ room'[w] \in Int
      BY <3>2, <2>0, <1>t, <1>m
    <3>5. Seen(w, i[w])'
      BY <3>3, <3>4 DEF Seen, Hits
    <3> QED BY <3>1, <3>5
  <2>2. CASE ScanOther(w)
    <3>1. /\ pc[w] = "scan" /\ pc' = pc /\ i[w] < room[w] /\ rows' = rows /\ empty' = empty
          /\ ~(Hits(i[w]) = 0 /\ empty[w] = room[w])
          /\ i' = [i EXCEPT ![w] = @ + 1]
      BY <2>2 DEF ScanOther, Scanning, TakesEmpty
    <3>2. \/ /\ Hits(i[w]) < minHits[w]
             /\ minHits'[w] = Hits(i[w]) /\ victim'[w] = i[w]
          \/ /\ ~(Hits(i[w]) < minHits[w])
             /\ minHits'[w] = minHits[w] /\ victim'[w] = victim[w]
      BY <2>2, <1>t DEF ScanOther
    <3>3. Seen(w, i[w]) /\ i[w] \in Nat /\ i'[w] = i[w] + 1 /\ i[w] \in Rows
      BY <3>1, <1>t, <1>m, <1>c DEF ScanInv
    <3>4. /\ \A r \in Rows : Hits(r) \in Nat /\ Hits(r)' = Hits(r)
          /\ \A r \in Rows : Hits(r) < Infinity
      BY <3>1, HitsType, Below DEF Hits
    <3>5. CASE empty[w] # room[w]
      BY <3>1, <3>3, <3>5, <2>0 DEF Seen, Hits
    <3>6. CASE empty[w] = room[w]
      <4>1. /\ \A r \in 0 .. i[w] - 1 : Hits(r) >= minHits[w] /\ r \in Rows
            /\ IF i[w] = 0 THEN minHits[w] = Infinity ELSE Hits(victim[w]) = minHits[w]
        BY <3>3, <3>6, <1>c DEF Seen
      <4>2. \A r \in 0 .. i[w] : r = i[w] \/ r \in 0 .. i[w] - 1
        BY <3>3
      <4>3. \A r \in 0 .. i[w] : Hits(r)' = Hits(r) /\ Hits(r) >= minHits'[w]
        BY <4>1, <4>2, <3>2, <3>3, <3>4, <1>t
      <4>4. Hits(victim'[w]) = minHits'[w] /\ victim'[w] \in Rows
        BY <4>1, <3>2, <3>3, <3>4, <1>t
      <4>5. rows'[victim'[w]].count["hits"] = minHits'[w]
        BY <4>4, <3>1 DEF Hits
      <4>6. i'[w] # 0 /\ i'[w] - 1 = i[w]
        BY <3>3
      <4>7. empty'[w] = room'[w] /\ room'[w] \in Nat
        BY <3>1, <3>6, <2>0, <1>m
      <4> QED BY <4>3, <4>5, <4>6, <4>7, <3>1 DEF Seen, Hits
    <3> QED BY <3>1, <3>5, <3>6
  <2>3. CASE ScanMiss(w)
    <3>1. /\ pc[w] = "scan" /\ i[w] = room[w] /\ pc' = [pc EXCEPT ![w] = "lock"]
          /\ UNCHANGED <<rows, empty, victim, minHits>>
      BY <2>3 DEF ScanMiss
    <3>2. Seen(w, room[w])
      BY <3>1 DEF ScanInv
    <3> QED BY <3>1, <3>2, <2>0, <1>t DEF Seen, Hits
  <2>4. CASE Lock(w)
    <3>1. /\ pc[w] = "lock" /\ pc' = [pc EXCEPT ![w] = "zero"]
          /\ UNCHANGED <<rows, empty, victim, minHits>>
      BY <2>4 DEF Lock
    <3>2. Seen(w, room[w])
      BY <3>1 DEF ScanInv
    <3> QED BY <3>1, <3>2, <2>0, <1>t DEF Seen, Hits
  <2>5. CASE ScanMatch(w) \/ Zero(w) \/ WriteName(w) \/ WriteHash(w) \/ Unlock(w) \/ Add(w)
             \/ Crash(w)
    BY <2>5, <1>t DEF ScanMatch, Zero, WriteName, WriteHash, Unlock, Add, Crash
  <2> QED BY <1>2, <2>1, <2>2, <2>3, <2>4, <2>5 DEF Update
<1>3. CASE UNCHANGED vars
  BY <1>3 DEF vars, ScanInv, Seen, Hits
<1> QED BY <1>1, <1>2, <1>3 DEF Next

(* A call that overlaps no other gives up a row with the fewest hits of    *)
(* those its worker may use, for any table, room and history: the scan     *)
(* starts above every count, so that a table without an empty row always   *)
(* has a victim.                                                           *)
THEOREM EvictsLeast == Spec => EvictsFewest
<1> DEFINE Inv == Typed /\ BoundInv /\ ScanInv
           Fewest == \A w \in Workers : pc[w] = "zero" /\ pc'[w] = "name" /\ w \in alone =>
                         \A r \in 0 .. room[w] - 1 : Hits(i'[w]) <= Hits(r)
<1>1. Init => Inv
  <2>1. Init => ScanInv
    BY DEF Init, ScanInv
  <2> QED BY <2>1, InitTyped, InitBound
<1>2. Inv /\ [Next]_vars => Inv'
  BY StepTyped, StepBound, StepScan
<1>3. Inv /\ [Next]_vars => Fewest
  <2> SUFFICES ASSUME Inv, [Next]_vars, NEW w \in Workers, pc[w] = "zero", pc'[w] = "name",
                      w \in alone, NEW r \in 0 .. room[w] - 1
               PROVE  Hits(i'[w]) <= Hits(r)
    OBVIOUS
  <2>1. Seen(w, room[w]) /\ room[w] \in 1 .. Capacity /\ pc \in [Workers -> Steps]
        /\ i \in [Workers -> 0 .. Capacity] /\ minHits[w] \in Nat
    BY RoomTyped DEF Typed, TypeOK, Steps, ScanInv
  <2>2. Zero(w)
    <3>1. PICK v \in Workers : Call(v) \/ Update(v) \/ Crash(v)
      BY DEF Next, vars, locals
    <3>2. v = w
      BY <2>1, <3>1 DEF Update, Call, ScanEmpty, ScanMatch, ScanOther, ScanMiss, Lock, Zero,
         WriteName, WriteHash, Unlock, Add, Crash, Goto, locals
    <3> QED BY <2>1, <3>1, <3>2 DEF Update, Call, ScanEmpty, ScanMatch, ScanOther, ScanMiss,
            Lock, WriteName, WriteHash, Unlock, Add, Crash, Goto, Scanning, locals
  <2>3. i'[w] = Target(w)
    BY <2>1, <2>2 DEF Zero
  <2>4. r \in Rows /\ Hits(r) \in Nat
    <3>1. r \in Rows
      BY <2>1, TopAssumption DEF Rows
    <3> QED BY <3>1, HitsType
  <2>5. CASE empty[w] # room[w]
    BY <2>1, <2>3, <2>4, <2>5 DEF Target, Seen
  <2>6. CASE empty[w] = room[w]
    BY <2>1, <2>3, <2>4, <2>6 DEF Target, Seen
  <2> QED BY <2>5, <2>6
<1> QED BY <1>1, <1>2, <1>3, PTL DEF Spec, EvictsFewest

-----------------------------------------------------------------------------
(* The hits of the table and the calls made, as sums, and what is between  *)
(* them: the hits of the calls that have not counted theirs.               *)
RowHits == [r \in Rows |-> Hits(r)]

SumInv == Sum(RowHits, Rows) + Cardinality(Owing) <= Sum(asked, Keys)

LEMMA RowsFinite == IsFiniteSet(Rows)
<1>1. 0 \in Int /\ Capacity - 1 \in Int
  BY TopAssumption
<1> QED BY <1>1, FS_Interval DEF Rows

Summed ==
    /\ \A r \in Rows : RowHits[r] = Hits(r) /\ RowHits[r] \in Nat
    /\ Sum(RowHits, Rows) \in Nat /\ Sum(asked, Keys) \in Nat

LEMMA HitsSum == Typed => Summed
<1> SUFFICES ASSUME Typed PROVE Summed
  OBVIOUS
<1>1. \A r \in Rows : RowHits[r] = Hits(r) /\ RowHits[r] \in Nat
  BY HitsType DEF RowHits
<1>2. Sum(RowHits, Rows) \in Nat
  BY <1>1, RowsFinite, SumType
<1>3. Sum(asked, Keys) \in Nat
  <2>1. IsFiniteSet(Keys) /\ \A k \in Keys : asked[k] \in Nat
    BY TopAssumption DEF Typed, TypeOK
  <2> QED BY <2>1, SumType
<1> QED BY <1>1, <1>2, <1>3 DEF Summed

(* At the start the two sums are the same: row by row, the hits of each    *)
(* are those asked for its key.                                            *)
LEMMA StartSums ==
    ASSUME NEW start \in Starts
    PROVE  Sum([r \in Rows |-> IF r < Len(start) THEN start[r + 1].hits ELSE 0], Rows)
           = Sum([k \in Keys |-> Sum(StartHits(start, Len(start)), Fiber(start, k, Len(start)))],
                 Keys)
<1> DEFINE L == Len(start)
           h == StartHits(start, L)
           F(m) == [r \in Rows |-> IF r < m THEN start[r + 1].hits ELSE 0]
           G(m) == [k \in Keys |-> Sum(h, Fiber(start, k, m))]
           P == {m \in Nat : m <= L => Sum(F(m), Rows) = Sum(G(m), Keys)}
<1>1. /\ L \in Nat /\ IsFiniteSet(Keys) /\ L <= Capacity /\ Capacity \in Nat
      /\ \A n \in 1 .. L : start[n].key \in Keys /\ h[n] = start[n].hits /\ h[n] \in Nat
      /\ \A k \in Keys, m \in Nat : IsFiniteSet(Fiber(start, k, m))
  BY StartHitsType, TopAssumption
<1> HIDE DEF h
<1>2. 0 \in P
  <2>1. \A r \in Rows : F(0)[r] = 0
    BY <1>1 DEF Rows
  <2>2. \A k \in Keys : G(0)[k] = 0
    <3>1. \A k \in Keys : Fiber(start, k, 0) = {}
      BY DEF Fiber
    <3> QED BY <3>1, SumEmpty
  <2> HIDE DEF F, G
  <2>3. Sum(F(0), Rows) = 0 /\ Sum(G(0), Keys) = 0
    BY <2>1, <2>2, <1>1, RowsFinite, SumZero
  <2> QED BY <2>3
<1>3. ASSUME NEW m \in Nat, m \in P PROVE m + 1 \in P
  <2> SUFFICES ASSUME m + 1 <= L PROVE Sum(F(m + 1), Rows) = Sum(G(m + 1), Keys)
    OBVIOUS
  <2> DEFINE k0 == start[m + 1].key
             v == start[m + 1].hits
  <2>1. /\ m \in Rows /\ m + 1 \in 1 .. L /\ k0 \in Keys /\ v \in Nat /\ h[m + 1] = v
        /\ Sum(F(m), Rows) = Sum(G(m), Keys)
    BY <1>1, <1>3 DEF Rows
  <2>2. ASSUME NEW k \in Keys PROVE G(m)[k] \in Nat
    <3>1. \A n \in Fiber(start, k, m) : h[n] \in Nat
      BY <1>1 DEF Fiber
    <3>2. IsFiniteSet(Fiber(start, k, m))
      BY <1>1
    <3>3. Sum(h, Fiber(start, k, m)) \in Nat
      BY <3>1, <3>2, SumType
    <3> QED BY <3>3
  <2>3. ASSUME NEW k \in Keys, k # k0 PROVE G(m + 1)[k] = G(m)[k]
    <3>1. Fiber(start, k, m + 1) = Fiber(start, k, m)
      <4>1. \A n \in 1 .. m + 1 : n = m + 1 \/ n \in 1 .. m
        OBVIOUS
      <4>2. \A n \in 1 .. m : n \in 1 .. m + 1
        OBVIOUS
      <4> QED BY <2>3, <4>1, <4>2 DEF Fiber
    <3> QED BY <3>1
  <2>4. G(m + 1)[k0] = v + G(m)[k0]
    <3> DEFINE T == Fiber(start, k0, m + 1)
    <3>1. m + 1 \in T /\ T \ {m + 1} = Fiber(start, k0, m)
      <4>1. \A n \in 1 .. m + 1 : n = m + 1 \/ n \in 1 .. m
        OBVIOUS
      <4>2. \A n \in 1 .. m : n \in 1 .. m + 1 /\ n # m + 1
        OBVIOUS
      <4>3. m + 1 \in 1 .. m + 1
        OBVIOUS
      <4> QED BY <4>1, <4>2, <4>3 DEF Fiber
    <3>2. IsFiniteSet(T)
      BY <1>1, <2>1
    <3>3. \A n \in T : h[n] \in Nat
      <4>1. \A n \in 1 .. m + 1 : n \in 1 .. L
        BY <1>1
      <4> QED BY <4>1, <1>1 DEF Fiber
    <3> HIDE DEF T
    <3>4. Sum(h, T) = h[m + 1] + Sum(h, T \ {m + 1})
      BY <3>1, <3>2, <3>3, SumRemove
    <3> QED BY <3>1, <3>4, <2>1 DEF T
  <2>5. /\ \A r \in Rows : F(m)[r] \in Nat /\ F(m + 1)[r] \in Nat
        /\ \A r \in Rows \ {m} : F(m)[r] = F(m + 1)[r]
        /\ F(m)[m] = 0 /\ F(m + 1)[m] = v
    <3>1. \A r \in Rows : r < m + 1 => r + 1 \in 1 .. L
      BY <1>1 DEF Rows
    <3>2. \A r \in Rows : r < m + 1 => start[r + 1].hits \in Nat
      BY <3>1, <1>1
    <3>3. \A r \in Rows : r \in Nat /\ (r < m => r < m + 1) /\ (r # m /\ r < m + 1 => r < m)
      BY <1>1 DEF Rows
    <3> QED BY <2>1, <3>2, <3>3
  <2>6. \A k \in Keys : G(m + 1)[k] \in Nat
    BY <2>1, <2>2, <2>3, <2>4
  <2> HIDE DEF F, G, v, k0
  <2>7. Sum(F(m), Rows) + F(m + 1)[m] = Sum(F(m + 1), Rows) + F(m)[m]
    <3> DEFINE f == F(m)
               g == F(m + 1)
    <3>1. \A r \in Rows : f[r] \in Nat /\ g[r] \in Nat
      BY <2>5
    <3>2. \A r \in Rows \ {m} : f[r] = g[r]
      BY <2>5
    <3>3. m \in Rows
      BY <2>1
    <3> HIDE DEF f, g
    <3>4. ASSUME NEW x \in Rows, \A r \in Rows \ {x} : f[r] = g[r]
          PROVE  Sum(f, Rows) + g[x] = Sum(g, Rows) + f[x]
      BY <3>1, <3>4, RowsFinite, SumChange
    <3>5. Sum(f, Rows) + g[m] = Sum(g, Rows) + f[m]
      BY <3>2, <3>3, <3>4
    <3> QED BY <3>5 DEF f, g
  <2>8. Sum(G(m), Keys) + G(m + 1)[k0] = Sum(G(m + 1), Keys) + G(m)[k0]
    <3>1. \A k \in Keys \ {k0} : G(m)[k] = G(m + 1)[k]
      BY <2>3
    <3>2. \A k \in Keys : G(m)[k] \in Nat /\ G(m + 1)[k] \in Nat
      BY <2>2, <2>6
    <3> QED BY <1>1, <2>1, <3>1, <3>2, SumChange
  <2>9. /\ Sum(F(m), Rows) \in Nat /\ Sum(F(m + 1), Rows) \in Nat
        /\ Sum(G(m + 1), Keys) \in Nat /\ G(m)[k0] \in Nat
    BY <1>1, <2>1, <2>2, <2>5, <2>6, RowsFinite, SumType
  <2>10. Sum(F(m), Rows) + v = Sum(F(m + 1), Rows)
    <3>1. Sum(F(m), Rows) + v = Sum(F(m + 1), Rows) + 0
      BY <2>5, <2>7
    <3> QED BY <3>1, <2>9
  <2>11. Sum(F(m), Rows) + (v + G(m)[k0]) = Sum(G(m + 1), Keys) + G(m)[k0]
    BY <2>1, <2>4, <2>8
  <2>12. ASSUME NEW a \in Nat, NEW b \in Nat, NEW c \in Nat, NEW x \in Nat, NEW y \in Nat,
                a + x = b, a + (x + y) = c + y
         PROVE  b = c
    BY <2>12
  <2>13. v \in Nat
    BY <2>1
  <2> QED BY <2>9, <2>10, <2>11, <2>12, <2>13
<1> HIDE DEF P
<1>4. Nat \subseteq P
  BY <1>2, <1>3, NatAll
<1>5. L \in P
  BY <1>1, <1>4
<1>6. Sum(F(L), Rows) = Sum(G(L), Keys)
  BY <1>1, <1>5 DEF P
<1> QED BY <1>6 DEF h

LEMMA InitSum == Init => SumInv
<1> SUFFICES ASSUME Init PROVE SumInv
  OBVIOUS
<1>1. PICK start \in Starts :
        /\ rows = [r \in Rows |-> IF r < Len(start) THEN RowOf(start[r + 1]) ELSE ZeroRow]
        /\ asked = [k \in Keys |-> MapThenSumSet(LAMBDA n : start[n].hits,
                                     {n \in DOMAIN start : start[n].key = k})]
  BY DEF Init
<1> DEFINE F == [r \in Rows |-> IF r < Len(start) THEN start[r + 1].hits ELSE 0]
           G == [k \in Keys |-> Sum(StartHits(start, Len(start)), Fiber(start, k, Len(start)))]
<1>2. Sum(F, Rows) = Sum(G, Keys)
  BY StartSums
<1>3. \A r \in Rows : RowHits[r] = F[r]
  BY <1>1 DEF RowHits, Hits, RowOf, ZeroRow, Counters
<1>4. \A k \in Keys : asked[k] = G[k]
  BY <1>1, AskedAtStart
<1> HIDE DEF F, G
<1>5. Sum(RowHits, Rows) = Sum(F, Rows)
  BY <1>3, RowsFinite, SumSame
<1>6. Sum(asked, Keys) = Sum(G, Keys)
  <2>1. IsFiniteSet(Keys)
    BY TopAssumption
  <2> QED BY <2>1, <1>4, SumSame
<1>7. Cardinality(Owing) = 0
  <2>1. Owing = {}
    BY DEF Init, Owing
  <2> QED BY <2>1, FS_EmptySet
<1>8. Sum(RowHits, Rows) \in Nat
  BY InitTyped, HitsSum DEF Summed
<1> QED BY <1>2, <1>5, <1>6, <1>7, <1>8 DEF SumInv

LEMMA Slack ==
    ASSUME NEW R \in Nat, NEW O \in Nat, NEW A \in Nat, R + O <= A,
           NEW p \in Nat, NEW q \in Nat, NEW b \in Nat,
           \/ p <= R /\ q <= O + 1 /\ b = A + 1
           \/ p <= R + 1 /\ q = O - 1 /\ b = A
           \/ p <= R /\ q <= O /\ b = A
    PROVE  p + q <= b
OBVIOUS

LEMMA StepSum == Typed /\ SumInv /\ [Next]_vars => SumInv'
<1> SUFFICES ASSUME Typed, SumInv, [Next]_vars PROVE SumInv'
  OBVIOUS
<1> DEFINE R == Sum(RowHits, Rows)
           A == Sum(asked, Keys)
           O == Cardinality(Owing)
<1>1. /\ R \in Nat /\ A \in Nat /\ O \in Nat /\ R + O <= A
      /\ \A r \in Rows : RowHits[r] = Hits(r) /\ RowHits[r] \in Nat
  BY HitsSum, OwingType DEF SumInv, Summed
<1>n. R \in Nat /\ A \in Nat /\ O \in Nat /\ R + O <= A
  BY <1>1
<1>2. /\ R' \in Nat /\ A' \in Nat /\ O' \in Nat
      /\ \A r \in Rows : RowHits'[r] = Hits(r)' /\ RowHits'[r] \in Nat
  <2>1. Typed'
    BY StepTyped
  <2>2. Typed' => Summed'
    BY HitsSum, PTL
  <2>3. Owing' \in SUBSET Workers
    BY DEF Owing
  <2>4. O' \in Nat
    BY <2>3, PendingFinite
  <2> QED BY <2>1, <2>2, <2>4 DEF Summed
<1>p. R' \in Nat /\ A' \in Nat /\ O' \in Nat
  BY <1>2
<1>3. (\A r \in Rows : Hits(r)' <= Hits(r)) => R' <= R
  <2> SUFFICES ASSUME \A r \in Rows : Hits(r)' <= Hits(r) PROVE R' <= R
    OBVIOUS
  <2>1. \A r \in Rows : RowHits'[r] \in Nat /\ RowHits[r] \in Nat /\ RowHits'[r] <= RowHits[r]
    BY <1>1, <1>2
  <2>2. Sum(RowHits', Rows) <= Sum(RowHits, Rows)
    BY <2>1, RowsFinite, SumLess
  <2> QED BY <2>2
<1>g. (R + O <= A)' <=> R' + O' <= A'
  OBVIOUS
<1>s. R' + O' <= A' => SumInv'
  BY DEF SumInv
<1>4. ASSUME NEW w \in Workers, Asks(w) PROVE SumInv'
  <2>1. PICK k \in Keys : asked' = [asked EXCEPT ![k] = asked[k] + 1]
    BY <1>4 DEF Asks
  <2>2. A + asked'[k] = A' + asked[k]
    <3>0. asked \in [Keys -> Nat]
      BY DEF Typed, TypeOK
    <3>1. /\ \A y \in Keys : asked[y] \in Nat /\ asked'[y] \in Nat
          /\ \A y \in Keys \ {k} : asked[y] = asked'[y]
      BY <2>1, <3>0
    <3>2. IsFiniteSet(Keys)
      BY TopAssumption
    <3>3. Sum(asked, Keys) + asked'[k] = Sum(asked', Keys) + asked[k]
      BY <3>1, <3>2, SumChange, SMTT(30)
    <3> QED BY <3>3
  <2>3. asked[k] \in Nat /\ asked'[k] = asked[k] + 1
    BY <2>1 DEF Typed, TypeOK
  <2>4. O' <= O + 1
    BY <1>4, OwingType DEF Asks
  <2>5. R' <= R
    <3>1. \A r \in Rows : Hits(r)' = Hits(r)
      BY <1>4 DEF Asks, Hits
    <3> QED BY <3>1, <1>1, <1>3
  <2>6. A' = A + 1
    BY <1>n, <1>p, <2>2, <2>3
  <2>7. R' + O' <= A'
    BY <1>n, <1>p, <2>4, <2>5, <2>6, Slack
  <2> QED BY <2>7, <1>s
<1>5. ASSUME NEW w \in Workers, Counts(w) PROVE SumInv'
  <2>1. i[w] \in Rows /\ Hits(i[w])' = Hits(i[w])'
    BY <1>5 DEF Counts
  <2>2. R + RowHits'[i[w]] = R' + RowHits[i[w]]
    <3>1. \A y \in Rows \ {i[w]} : RowHits[y] = RowHits'[y]
      BY <1>5, <1>1, <1>2 DEF Counts
    <3>2. Sum(RowHits, Rows) + RowHits'[i[w]] = Sum(RowHits', Rows) + RowHits[i[w]]
      BY <3>1, <2>1, <1>1, <1>2, RowsFinite, SumChange
    <3> QED BY <3>2
  <2>3. RowHits'[i[w]] = RowHits[i[w]] + 1 /\ RowHits[i[w]] \in Nat
    BY <1>5, <2>1, <1>1, <1>2 DEF Counts
  <2>4. O' = O - 1
    BY <1>5, OwingType DEF Counts
  <2>5. A' = A
    BY <1>5 DEF Counts
  <2>6. R' <= R + 1
    BY <1>n, <1>p, <2>2, <2>3
  <2>7. R' + O' <= A'
    BY <1>n, <1>p, <2>4, <2>5, <2>6, Slack
  <2> QED BY <2>7, <1>s
<1>6. ASSUME \A r \in Rows : Hits(r)' <= Hits(r), Owing' \subseteq Owing, asked' = asked
      PROVE  SumInv'
  <2>1. O' <= O
    BY <1>6, OwingType, Fewer
  <2>2. A' = A /\ R' <= R
    BY <1>6, <1>3
  <2>3. R' + O' <= A'
    BY <1>n, <1>p, <2>1, <2>2, Slack
  <2> QED BY <2>3, <1>s
<1>7. ASSUME NEW w \in Workers, Clears(w) \/ Keeps PROVE SumInv'
  <2>1. \A r \in Rows : Hits(r)' <= Hits(r)
    BY <1>7, <1>1 DEF Clears, Keeps
  <2>2. Owing' \subseteq Owing /\ asked' = asked
    BY <1>7 DEF Clears, Keeps
  <2> QED BY <2>1, <2>2, <1>6
<1>8. CASE UNCHANGED vars
  <2>1. \A r \in Rows : Hits(r)' <= Hits(r)
    BY <1>8, <1>1 DEF vars, Hits
  <2>2. Owing' \subseteq Owing /\ asked' = asked
    BY <1>8 DEF vars, Owing, locals, ghosts
  <2> QED BY <2>1, <2>2, <1>6
<1>9. ASSUME NEW w \in Workers, Call(w) \/ Update(w) \/ Crash(w) PROVE SumInv'
  BY <1>9, StepEffect, <1>4, <1>5, <1>7
<1> QED BY <1>8, <1>9 DEF Next

(* However the calls interleave and wherever workers die, the table as a   *)
(* whole never counts more hits than there were calls.                     *)
THEOREM CountedOnce == Spec => []NeverCountedTwice
<1>1. Init => Typed /\ SumInv
  BY InitTyped, InitSum
<1>2. Typed /\ SumInv /\ [Next]_vars => (Typed /\ SumInv)'
  BY StepTyped, StepSum
<1>3. Typed /\ SumInv => NeverCountedTwice
  <2> SUFFICES ASSUME Typed, SumInv PROVE NeverCountedTwice
    OBVIOUS
  <2>1. /\ Sum(RowHits, Rows) \in Nat /\ Sum(asked, Keys) \in Nat /\ Cardinality(Owing) \in Nat
        /\ Sum(RowHits, Rows) + Cardinality(Owing) <= Sum(asked, Keys)
    BY HitsSum, OwingType DEF SumInv, Summed
  <2>2. Sum(RowHits, Rows) <= Sum(asked, Keys)
    BY <2>1
  <2>3. MapThenSumSet(Hits, Rows) = Sum(RowHits, Rows)
    BY DEF Sum, RowHits, MapThenSumSet, MapThenFoldSet
  <2>4. MapThenSumSet(LAMBDA k : asked[k], Keys) = Sum(asked, Keys)
    BY DEF Sum
  <2> QED BY <2>2, <2>3, <2>4 DEF NeverCountedTwice
<1> QED BY <1>1, <1>2, <1>3, PTL DEF Spec

-----------------------------------------------------------------------------
(* No two of the rows that all workers use are for the same key: while no  *)
(* insertion has overlapped another call, a worker that rewrites a row has *)
(* seen that no other row it may use is for its key (Missed), and one that *)
(* counts does so in a row for its key (Found).                            *)
Shared(r) == \A w \in Workers : r < room[w]

Distinct == \A r, s \in Rows :
    r # s /\ Shared(r) /\ Shared(s) =>
        \/ rows[r].hash # rows[s].hash \/ rows[r].name # rows[s].name
        \/ rows[r].hash = 0 \/ rows[r].name = NoName

Missed == \A w \in Workers :
    /\ pc[w] = "scan" =>
          \A r \in Rows : r < i[w] /\ r # empty[w] => ~Same(key[w], r)
    /\ pc[w] \in {"lock", "zero"} =>
          \A r \in Rows : r < room[w] /\ r # empty[w] => ~Same(key[w], r)
    /\ pc[w] \in {"name", "hash"} =>
          \A r \in Rows : r < room[w] /\ r # i[w] => ~Same(key[w], r)

Found == \A w \in Workers : pc[w] \in {"unlock", "first", "add"} => Same(key[w], i[w])

Claimed == \A r \in Rows : Hits(r) > 0 => \E k \in Keys : Same(k, r)

(* The calls whose hit is due to a row, and the keys it is for.            *)
Owed(r)    == {w \in Owing : Same(key[w], r)}
Callers(r) == {k \in Keys : Same(k, r)}

Counted == \A r \in Rows : Hits(r) + Cardinality(Owed(r)) <= Sum(asked, Callers(r))

Busy == \A w \in Owing : pc[w] # "idle" /\ asked[key[w]] >= 1

UniqueInv == ~raced => Distinct /\ Missed /\ Found /\ Claimed /\ Counted

(* No start has two rows for the same key, which is what the workers that  *)
(* filled the table leave behind while no insertion overlaps another call. *)
DistinctStarts ==
    \A start \in Starts : \A m, n \in 1 .. Len(start) :
        m # n => \/ HashOf[start[m].key] # HashOf[start[n].key]
                 \/ NameOf[start[m].key] # NameOf[start[n].key]

(* What a step does to the names and the hashes of the rows.               *)
Still == \A r \in Rows : rows'[r].name = rows[r].name /\ rows'[r].hash = rows[r].hash

Rewrites(w, r) ==
    /\ r \in Rows /\ Inserting(w) /\ UNCHANGED key
    /\ \A s \in Rows \ {r} : rows'[s] = rows[s]

Blanks(w) == /\ Rewrites(w, Target(w)) /\ pc[w] = "zero" /\ pc'[w] = "name"
             /\ rows'[Target(w)] = ZeroRow /\ i'[w] = Target(w) /\ UNCHANGED empty

Labels(w) == /\ Rewrites(w, i[w]) /\ pc[w] = "name" /\ pc'[w] = "hash" /\ UNCHANGED i
             /\ rows'[i[w]].hash = 0 /\ rows'[i[w]].count = rows[i[w]].count

Signs(w) == /\ Rewrites(w, i[w]) /\ pc[w] = "hash" /\ pc'[w] = "unlock" /\ UNCHANGED i
            /\ Same(key[w], i[w])' /\ rows'[i[w]].count = rows[i[w]].count

LEMMA StepLabels ==
    ASSUME Typed, RowInv, NEW w \in Workers, Call(w) \/ Update(w) \/ Crash(w)
    PROVE  Still \/ Blanks(w) \/ Labels(w) \/ Signs(w)
<1>t. /\ pc \in [Workers -> Steps] /\ i \in [Workers -> 0 .. Capacity]
      /\ rows \in [Rows -> RowType]
      /\ \A v \in Workers : pc[v] \notin {"idle", "scan", "lock", "zero"} => i[v] \in Rows
  BY DEF Typed, TypeOK, RowType, Names, Steps
<1> USE DEF Goto, locals, ghosts
<1>1. CASE Call(w) \/ ScanEmpty(w) \/ ScanMatch(w) \/ ScanOther(w) \/ ScanMiss(w) \/ Lock(w)
           \/ Unlock(w) \/ Crash(w)
  <2>1. UNCHANGED rows
    BY <1>1 DEF Call, ScanEmpty, ScanMatch, ScanOther, ScanMiss, Lock, Unlock, Crash
  <2> QED BY <2>1 DEF Still
<1>2. CASE Add(w)
  <2>1. i[w] \in Rows
    BY <1>2, <1>t DEF Add
  <2>2. rows' = [rows EXCEPT ![i[w]] =
                   [rows[i[w]] EXCEPT !.count = [rows[i[w]].count EXCEPT
                      ![Head(todo[w])] = rows[i[w]].count[Head(todo[w])] + 1]]]
    BY <1>2, <2>1, <1>t DEF Add, AddNext
  <2> QED BY <2>1, <2>2, <1>t DEF Still, RowType
<1>3. CASE Zero(w)
  <2>1. /\ pc[w] = "zero" /\ rows' = [rows EXCEPT ![Target(w)] = ZeroRow]
        /\ pc' = [pc EXCEPT ![w] = "name"] /\ i' = [i EXCEPT ![w] = Target(w)]
        /\ UNCHANGED <<key, empty>>
    BY <1>3 DEF Zero
  <2>2. Target(w) \in Rows
    <3>1. Typed'
      BY StepTyped, <1>3 DEF Next, Update
    <3>2. i'[w] \in Rows
      BY <3>1, <2>1, <1>t DEF Typed, TypeOK
    <3> QED BY <3>2, <2>1, <1>t
  <2>3. /\ rows'[Target(w)] = ZeroRow /\ \A s \in Rows \ {Target(w)} : rows'[s] = rows[s]
        /\ pc'[w] = "name" /\ i'[w] = Target(w)
    BY <2>1, <2>2, <1>t
  <2>4. Inserting(w)
    BY <2>1 DEF Inserting
  <2> QED BY <2>1, <2>2, <2>3, <2>4 DEF Blanks, Rewrites
<1>4. CASE WriteName(w)
  <2>1. /\ pc[w] = "name" /\ pc' = [pc EXCEPT ![w] = "hash"] /\ i[w] \in Rows
        /\ rows' = [rows EXCEPT ![i[w]] = [rows[i[w]] EXCEPT !.name = NameOf[key[w]]]]
        /\ UNCHANGED <<key, i>> /\ rows[i[w]].hash = 0
    BY <1>4, <1>t DEF WriteName, RowInv
  <2>2. /\ rows'[i[w]].hash = 0 /\ rows'[i[w]].count = rows[i[w]].count
        /\ \A s \in Rows \ {i[w]} : rows'[s] = rows[s]
    BY <2>1, <1>t DEF RowType
  <2>3. Inserting(w) /\ pc'[w] = "hash"
    BY <2>1, <1>t DEF Inserting
  <2> QED BY <2>1, <2>2, <2>3 DEF Labels, Rewrites
<1>5. CASE WriteHash(w)
  <2>1. /\ pc[w] = "hash" /\ pc' = [pc EXCEPT ![w] = "unlock"] /\ i[w] \in Rows
        /\ rows' = [rows EXCEPT ![i[w]] = [rows[i[w]] EXCEPT !.hash = HashOf[key[w]]]]
        /\ UNCHANGED <<key, i>> /\ rows[i[w]].name = NameOf[key[w]]
    BY <1>5, <1>t DEF WriteHash, RowInv
  <2>2. /\ rows'[i[w]].hash = HashOf[key[w]] /\ rows'[i[w]].name = NameOf[key[w]]
        /\ rows'[i[w]].count = rows[i[w]].count
        /\ \A s \in Rows \ {i[w]} : rows'[s] = rows[s]
    BY <2>1, <1>t DEF RowType
  <2>3. Inserting(w) /\ pc'[w] = "unlock" /\ Same(key[w], i[w])'
    BY <2>1, <2>2, <1>t DEF Inserting, Same
  <2> QED BY <2>1, <2>2, <2>3 DEF Signs, Rewrites
<1> QED BY <1>1, <1>2, <1>3, <1>4, <1>5 DEF Update

(* A step that rewrites a row is one of the only worker inside a call.     *)
LEMMA OtherRows ==
    ASSUME Typed, Alone, NEW w \in Workers, NEW x, Rewrites(w, x)
    PROVE  /\ \A v \in Workers \ {w} : pc[v] = "idle"
           /\ \A r \in Rows \ {x}, k \in Keys : Same(k, r)' <=> Same(k, r)
BY DEF Rewrites, Alone, Same

LEMMA StillRows ==
    ASSUME Still
    PROVE  \A r \in Rows, k \in Keys : Same(k, r)' <=> Same(k, r)
BY DEF Still, Same

LEMMA StepDistinct ==
    ASSUME Typed, RowInv, Alone, Missed, Distinct, room' = room,
           NEW w \in Workers, Call(w) \/ Update(w) \/ Crash(w)
    PROVE  Distinct'
<1> SUFFICES ASSUME NEW r \in Rows, NEW s \in Rows, r # s, Shared(r), Shared(s),
                    rows'[r].hash = rows'[s].hash, rows'[r].name = rows'[s].name
             PROVE  rows'[r].hash = 0 \/ rows'[r].name = NoName
  BY DEF Distinct, Shared
<1>1. CASE Still
  BY <1>1 DEF Distinct, Still
<1>2. CASE Blanks(w)
  BY <1>2 DEF Blanks, Rewrites, ZeroRow, Distinct
<1>3. CASE Labels(w)
  BY <1>3 DEF Labels, Rewrites, Distinct
<1>4. CASE Signs(w)
  <2>1. \A q \in Rows : q # i[w] /\ Shared(q) => rows'[q] = rows[q] /\ ~Same(key[w], q)
    BY <1>4 DEF Signs, Rewrites, Missed, Shared
  <2>2. rows'[i[w]].hash = HashOf[key[w]] /\ rows'[i[w]].name = NameOf[key[w]]
    BY <1>4 DEF Signs, Rewrites, Same
  <2>3. r # i[w] /\ s # i[w]
    BY <2>1, <2>2 DEF Same
  <2> QED BY <2>1, <2>3 DEF Distinct
<1> QED BY <1>1, <1>2, <1>3, <1>4, StepLabels

LEMMA StepFound ==
    ASSUME Typed, RowInv, Alone, Found, NEW w \in Workers, Call(w) \/ Update(w) \/ Crash(w)
    PROVE  Found'
<1>t. /\ pc \in [Workers -> Steps] /\ DOMAIN i = Workers /\ DOMAIN key = Workers
      /\ key \in [Workers -> Keys]
      /\ \A v \in Workers : pc[v] \notin {"idle", "scan", "lock", "zero"} => i[v] \in Rows
  BY DEF Typed, TypeOK, Steps
<1> USE DEF Goto, locals, ghosts
<1>1. ASSUME NEW v \in Workers \ {w}, pc'[v] \in {"unlock", "first", "add"}
      PROVE  Same(key[v], i[v])'
  <2>1. pc'[v] = pc[v] /\ i'[v] = i[v] /\ key'[v] = key[v]
    BY <1>t DEF Call, Update, Crash, ScanEmpty, ScanMatch, ScanOther, ScanMiss, Lock, Zero,
       WriteName, WriteHash, Unlock, Add
  <2>2. Same(key[v], i[v]) /\ i[v] \in Rows /\ key[v] \in Keys
    BY <1>1, <2>1, <1>t DEF Found
  <2>3. Still
    <3>1. \A x : ~Rewrites(w, x)
      BY <1>1, <2>1 DEF Rewrites, Alone
    <3> QED BY <3>1, StepLabels DEF Blanks, Labels, Signs
  <2> QED BY <2>1, <2>2, <2>3 DEF Still, Same
<1>2. ASSUME pc'[w] \in {"unlock", "first", "add"} PROVE Same(key[w], i[w])'
  <2>1. ScanMatch(w) \/ WriteHash(w) \/ Unlock(w) \/ Add(w)
    BY <1>2, <1>t DEF Call, Update, Crash, ScanEmpty, ScanMatch, ScanOther, ScanMiss, Lock, Zero,
       WriteName, WriteHash, Unlock, Add, Scanning
  <2>2. CASE ScanMatch(w)
    BY <2>2 DEF ScanMatch, Matches, Same
  <2>3. CASE WriteHash(w)
    <3>1. pc[w] = "hash" /\ UNCHANGED <<i, key>> /\ i[w] \in Rows
          /\ rows' = [rows EXCEPT ![i[w]] = [rows[i[w]] EXCEPT !.hash = HashOf[key[w]]]]
      BY <2>3, <1>t DEF WriteHash
    <3>2. rows[i[w]].name = NameOf[key[w]] /\ rows \in [Rows -> RowType]
      BY <3>1 DEF RowInv, Typed, TypeOK, RowType, Names
    <3> QED BY <3>1, <3>2 DEF Same, RowType
  <2>4. CASE Unlock(w)
    <3>1. pc[w] = "unlock" /\ UNCHANGED <<rows, i, key>>
      BY <2>4 DEF Unlock
    <3> QED BY <3>1 DEF Found, Same
  <2>5. CASE Add(w)
    <3>1. pc[w] \in {"first", "add"} /\ UNCHANGED <<i, key>> /\ i[w] \in Rows /\ key[w] \in Keys
      BY <2>5, <1>t DEF Add
    <3>2. Still
      <4>1. pc[w] \notin {"zero", "name", "hash"}
        BY <3>1
      <4> QED BY <4>1, StepLabels DEF Blanks, Labels, Signs
    <3>3. Same(key[w], i[w])
      BY <3>1 DEF Found
    <3> QED BY <3>1, <3>2, <3>3 DEF Still, Same
  <2> QED BY <2>1, <2>2, <2>3, <2>4, <2>5
<1> QED BY <1>1, <1>2 DEF Found

LEMMA StepMissed ==
    ASSUME Typed, RowInv, Alone, Missed, NEW w \in Workers, Call(w) \/ Update(w) \/ Crash(w)
    PROVE  Missed'
<1>t. /\ pc \in [Workers -> Steps] /\ i \in [Workers -> 0 .. Capacity]
      /\ empty \in [Workers -> 0 .. Capacity] /\ DOMAIN key = Workers
      /\ key \in [Workers -> Keys] /\ \A v \in Workers : room[v] \in Nat
      /\ \A r \in Rows : r \in Nat
      /\ \A v \in Workers : pc[v] \notin {"idle", "scan", "lock", "zero"} => i[v] \in Rows
  <2>1. \A v \in Workers : room[v] \in 1 .. Capacity
    BY RoomTyped DEF Typed
  <2>2. (\A v \in Workers : room[v] \in Nat) /\ \A r \in Rows : r \in Nat
    BY <2>1, TopAssumption DEF Rows
  <2> QED BY <2>2 DEF Typed, TypeOK, Steps
<1>r. room' = room
  BY DEF Call, Update, Crash, ScanEmpty, ScanMatch, ScanOther, ScanMiss, Lock, Zero, WriteName,
     WriteHash, Unlock, Add, ghosts
<1> USE DEF Goto, locals, ghosts
<1> DEFINE MissedBy(v) ==
      /\ pc[v] = "scan" =>
            \A r \in Rows : r < i[v] /\ r # empty[v] => ~Same(key[v], r)
      /\ pc[v] \in {"lock", "zero"} =>
            \A r \in Rows : r < room[v] /\ r # empty[v] => ~Same(key[v], r)
      /\ pc[v] \in {"name", "hash"} =>
            \A r \in Rows : r < room[v] /\ r # i[v] => ~Same(key[v], r)
<1>1. ASSUME NEW v \in Workers \ {w} PROVE MissedBy(v)'
  <2>1. pc'[v] = pc[v] /\ i'[v] = i[v] /\ key'[v] = key[v] /\ empty'[v] = empty[v]
    BY <1>t DEF Call, Update, Crash, ScanEmpty, ScanMatch, ScanOther, ScanMiss, Lock, Zero,
       WriteName, WriteHash, Unlock, Add
  <2>2. CASE pc[v] = "idle"
    BY <2>1, <2>2
  <2>3. CASE pc[v] # "idle"
    <3>1. Still
      <4>1. \A x : ~Rewrites(w, x)
        BY <2>3 DEF Rewrites, Alone
      <4> QED BY <4>1, StepLabels DEF Blanks, Labels, Signs
    <3>2. \A r \in Rows : Same(key[v], r)' <=> Same(key[v], r)
      BY <3>1, <2>1 DEF Still, Same
    <3>3. MissedBy(v)
      BY DEF Missed
    <3> QED BY <2>1, <3>2, <3>3, <1>r
  <2> QED BY <2>2, <2>3
<1>m. MissedBy(w)
  BY DEF Missed
<1>2. MissedBy(w)'
  <2>1. CASE Call(w)
    <3>1. pc'[w] = "scan" /\ i'[w] = 0
      BY <2>1, <1>t DEF Call
    <3> QED BY <3>1, <1>t
  <2>2. CASE ScanEmpty(w) \/ ScanOther(w)
    <3>1. /\ pc[w] = "scan" /\ UNCHANGED <<pc, key, rows>> /\ i[w] < room[w]
          /\ i'[w] = i[w] + 1 /\ i[w] \in Nat
          /\ \/ empty[w] = room[w] /\ empty'[w] = i[w]
             \/ empty'[w] = empty[w] /\ ~Same(key[w], i[w])
      BY <2>2, <1>t DEF ScanEmpty, ScanOther, Scanning, TakesEmpty, Matches, Same
    <3>2. \A r \in Rows : r < i[w] /\ r # empty[w] => ~Same(key[w], r)
      BY <3>1, <1>m
    <3>3. \A r \in Rows : r < i[w] + 1 /\ r # empty'[w] => ~Same(key[w], r)
      <4> SUFFICES ASSUME NEW r \in Rows, r < i[w] + 1, r # empty'[w] PROVE ~Same(key[w], r)
        OBVIOUS
      <4>1. r \in Nat /\ room[w] \in Nat
        BY <1>t
      <4>2. r = i[w] \/ r < i[w]
        BY <3>1, <4>1
      <4>3. CASE r = i[w]
        BY <3>1, <4>3
      <4>4. CASE r < i[w]
        <5>1. r < room[w] /\ r # room[w]
          BY <3>1, <4>1, <4>4
        <5> QED BY <3>1, <3>2, <4>4, <5>1
      <4> QED BY <4>2, <4>3, <4>4
    <3>4. \A r \in Rows : Same(key[w], r)' <=> Same(key[w], r)
      BY <3>1 DEF Same
    <3> QED BY <3>1, <3>3, <3>4
  <2>3. CASE ScanMiss(w)
    <3>1. pc[w] = "scan" /\ pc'[w] = "lock" /\ i[w] = room[w] /\ UNCHANGED <<key, rows, empty>>
      BY <2>3, <1>t DEF ScanMiss
    <3> QED BY <3>1, <1>m, <1>r DEF Same
  <2>4. CASE Lock(w)
    <3>1. pc[w] = "lock" /\ pc'[w] = "zero" /\ UNCHANGED <<key, rows, empty>>
      BY <2>4, <1>t DEF Lock
    <3> QED BY <3>1, <1>m, <1>r DEF Same
  <2>5. CASE Zero(w)
    <3>1. Blanks(w)
      <4>1. pc[w] = "zero" /\ pc'[w] = "name" /\ i'[w] = Target(w) /\ UNCHANGED <<key, empty>>
            /\ rows' = [rows EXCEPT ![Target(w)] = ZeroRow] /\ Inserting(w)
        BY <2>5, <1>t DEF Zero, Inserting
      <4>2. Target(w) \in Rows
        <5>1. Typed'
          BY StepTyped, <2>5 DEF Next, Update
        <5>2. i'[w] \in Rows
          BY <5>1, <4>1 DEF Typed, TypeOK
        <5> QED BY <5>2, <4>1
      <4>3. DOMAIN rows = Rows
        BY DEF Typed, TypeOK
      <4> QED BY <4>1, <4>2, <4>3 DEF Blanks, Rewrites
    <3>2. \A r \in Rows : r < room[w] /\ r # Target(w) => r # empty[w]
      BY <1>t DEF Target
    <3>3. \A r \in Rows : r < room[w] /\ r # Target(w) => ~Same(key[w], r)
      BY <3>1, <3>2, <1>m DEF Blanks
    <3> QED BY <3>1, <3>3, <1>r DEF Blanks, Rewrites, Same
  <2>6. CASE WriteName(w)
    <3>1. /\ pc[w] = "name" /\ pc'[w] = "hash" /\ UNCHANGED <<key, i>> /\ i[w] \in Rows
          /\ rows' = [rows EXCEPT ![i[w]] = [rows[i[w]] EXCEPT !.name = NameOf[key[w]]]]
      BY <2>6, <1>t DEF WriteName
    <3>2. \A r \in Rows \ {i[w]} : rows'[r] = rows[r]
      BY <3>1 DEF Typed, TypeOK
    <3> QED BY <3>1, <3>2, <1>m, <1>r DEF Same
  <2>7. CASE ScanMatch(w) \/ WriteHash(w) \/ Unlock(w) \/ Add(w) \/ Crash(w)
    <3>1. pc'[w] \notin {"scan", "lock", "zero", "name", "hash"}
      BY <2>7, <1>t DEF ScanMatch, WriteHash, Unlock, Add, Crash
    <3> QED BY <3>1
  <2> QED BY <2>1, <2>2, <2>3, <2>4, <2>5, <2>6, <2>7 DEF Update
<1> QED BY <1>1, <1>2 DEF Missed

LEMMA StepBusy == Typed /\ Busy /\ [Next]_vars => Busy'
<1> SUFFICES ASSUME Typed, Busy, [Next]_vars PROVE Busy'
  OBVIOUS
<1>t. /\ pc \in [Workers -> Steps] /\ todo \in [Workers -> Seq(Counters)]
      /\ key \in [Workers -> Keys] /\ asked \in [Keys -> Nat]
  BY DEF Typed, TypeOK, Steps
<1> USE DEF Goto, locals, ghosts
<1>1. ASSUME NEW w \in Workers, Call(w) \/ Update(w) \/ Crash(w),
             NEW v \in Workers, v \in Owing'
      PROVE  pc'[v] # "idle" /\ asked'[key'[v]] >= 1
  <2>1. CASE Call(w)
    <3>1. PICK k \in Keys : /\ key' = [key EXCEPT ![w] = k]
                            /\ asked' = [asked EXCEPT ![k] = @ + 1]
      BY <2>1 DEF Call
    <3>2. \A x \in Keys : asked'[x] \in Nat /\ asked'[x] >= asked[x]
      BY <3>1, <1>t
    <3>3. pc' = [pc EXCEPT ![w] = "scan"] /\ \A u \in Workers \ {w} : todo'[u] = todo[u]
      BY <2>1, <1>t DEF Call
    <3>4. CASE v = w
      BY <3>1, <3>3, <3>4, <1>t
    <3>5. CASE v # w
      <4>1. v \in Owing
        BY <1>1, <3>3, <3>5 DEF Owing
      <4>2. pc[v] # "idle" /\ asked[key[v]] >= 1 /\ key'[v] = key[v] /\ pc'[v] = pc[v]
            /\ key[v] \in Keys
        BY <4>1, <3>1, <3>3, <3>5, <1>t DEF Busy
      <4>3. asked'[key[v]] >= asked[key[v]] /\ asked[key[v]] \in Nat /\ asked'[key[v]] \in Nat
        BY <4>2, <3>2, <1>t
      <4>4. asked'[key[v]] >= 1
        BY <4>2, <4>3
      <4> QED BY <4>2, <4>4
    <3> QED BY <3>4, <3>5
  <2>2. CASE Update(w) \/ Crash(w)
    <3>1. UNCHANGED <<key, asked>> /\ \A u \in Workers \ {w} : todo'[u] = todo[u] /\ pc'[u] = pc[u]
      BY <2>2, <1>t DEF Update, Crash, ScanEmpty, ScanMatch, ScanOther, ScanMiss, Lock, Zero,
         WriteName, WriteHash, Unlock, Add, AddNext
    <3>2. CASE v # w
      <4>1. v \in Owing
        BY <1>1, <3>1, <3>2 DEF Owing
      <4> QED BY <4>1, <3>1, <3>2 DEF Busy
    <3>3. CASE v = w
      <4>1. ~Crash(w)
        BY <1>1, <3>3, <1>t DEF Crash, Owing
      <4>2. ~Add(w)
        <5> SUFFICES ASSUME Add(w) PROVE FALSE
          OBVIOUS
        <5>1. todo[w] # <<>> /\ todo'[w] = Tail(todo[w])
          BY <1>t DEF Add, AddNext
        <5>2. Tail(todo[w]) # <<>> => Head(Tail(todo[w])) # "hits"
          BY <5>1, <1>t, TailInOrder DEF Typed, LocalInv
        <5> QED BY <5>1, <5>2, <1>1, <3>3 DEF Owing
      <4>3. todo'[w] = todo[w] /\ pc'[w] # "idle"
        BY <2>2, <4>1, <4>2, <1>t DEF Update, ScanEmpty, ScanMatch, ScanOther, ScanMiss, Lock,
           Zero, WriteName, WriteHash, Unlock, Scanning
      <4>4. w \in Owing
        BY <1>1, <3>3, <4>3 DEF Owing
      <4> QED BY <4>3, <4>4, <3>1, <3>3 DEF Busy
    <3> QED BY <3>2, <3>3
  <2> QED BY <1>1, <2>1, <2>2
<1>2. CASE UNCHANGED vars
  BY <1>2 DEF vars, Busy, Owing
<1>3. Owing' \in SUBSET Workers
  BY DEF Owing
<1> QED BY <1>1, <1>2, <1>3 DEF Next, Busy

LEMMA HitsTypeNext == ASSUME Typed' PROVE \A r \in Rows : Hits(r)' \in Nat
<1>1. rows' \in [Rows -> [name : {NameOf[k] : k \in Keys} \cup {NoName}, hash : Nat,
                          count : [Counters -> Nat]]]
  BY DEF Typed, TypeOK
<1> QED BY <1>1, Known DEF Hits

(* Hits go up only in the row of the worker that counts its hit.           *)
LEMMA HitsUp ==
    ASSUME Typed, Typed', NEW w \in Workers, Call(w) \/ Update(w) \/ Crash(w),
           NEW r \in Rows, ~(Hits(r)' <= Hits(r))
    PROVE  Counts(w) /\ r = i[w] /\ Hits(r)' = Hits(r) + 1
<1>1. Hits(r) \in Nat
  BY HitsType
<1>2. ~Asks(w) /\ ~Clears(w) /\ ~Keeps
  BY <1>1 DEF Asks, Clears, Keeps, Hits
<1>3. Counts(w)
  BY <1>2, StepEffect
<1> QED BY <1>1, <1>3 DEF Counts

LEMMA StepClaimed ==
    ASSUME Typed, Typed', RowInv, Alone, Unclaimed, Found, Claimed,
           NEW w \in Workers, Call(w) \/ Update(w) \/ Crash(w)
    PROVE  Claimed'
<1> SUFFICES ASSUME NEW r \in Rows, Hits(r)' > 0 PROVE \E k \in Keys : Same(k, r)'
  BY DEF Claimed
<1>t. /\ Hits(r) \in Nat /\ Hits(r)' \in Nat /\ key \in [Workers -> Keys]
  BY HitsType, HitsTypeNext DEF Typed, TypeOK
<1>1. CASE Still
  <2>1. \E k \in Keys : Same(k, r)
    <3>1. CASE Hits(r)' <= Hits(r)
      BY <3>1, <1>t DEF Claimed
    <3>2. CASE ~(Hits(r)' <= Hits(r))
      BY <3>2, <1>t, HitsUp DEF Counts, Found
    <3> QED BY <3>1, <3>2
  <2> QED BY <2>1, <1>1, StillRows
<1>2. CASE Blanks(w)
  <2>1. r # Target(w)
    BY <1>2 DEF Blanks, Hits, ZeroRow, Counters
  <2> QED BY <1>2, <2>1 DEF Blanks, Rewrites, Claimed, Hits, Same
<1>3. CASE Labels(w) \/ Signs(w)
  <2>1. r # i[w]
    <3>1. Hits(i[w])' = Hits(i[w]) /\ Hits(i[w]) = 0
      BY <1>3 DEF Labels, Signs, Unclaimed, Hits
    <3>2. rows'[i[w]].count["hits"] = 0
      BY <1>3, <3>1 DEF Labels, Signs, Hits
    <3> QED BY <3>2 DEF Hits
  <2> QED BY <1>3, <2>1 DEF Labels, Signs, Rewrites, Claimed, Hits, Same
<1> QED BY <1>1, <1>2, <1>3, StepLabels

LEMMA OwedType ==
    ASSUME Typed, NEW r \in Rows
    PROVE  /\ Owed(r) \in SUBSET Workers /\ IsFiniteSet(Owed(r)) /\ Cardinality(Owed(r)) \in Nat
           /\ Callers(r) \in SUBSET Keys /\ IsFiniteSet(Callers(r))
           /\ Sum(asked, Callers(r)) \in Nat
<1>1. Owed(r) \in SUBSET Workers /\ Callers(r) \in SUBSET Keys
  BY DEF Owed, Owing, Callers
<1>2. IsFiniteSet(Owed(r)) /\ Cardinality(Owed(r)) \in Nat /\ IsFiniteSet(Callers(r))
  BY <1>1, PendingFinite, TopAssumption, FS_Subset
<1>3. \A k \in Callers(r) : asked[k] \in Nat
  BY <1>1 DEF Typed, TypeOK
<1> QED BY <1>1, <1>2, <1>3, SumType

LEMMA StepCounted ==
    ASSUME NoZeroHash, Typed, Typed', RowInv, Alone, Unclaimed, Found, Busy, Counted,
           NEW w \in Workers, Call(w) \/ Update(w) \/ Crash(w)
    PROVE  Counted'
<1> SUFFICES ASSUME NEW r \in Rows
             PROVE  (Hits(r) + Cardinality(Owed(r)) <= Sum(asked, Callers(r)))'
  BY DEF Counted
<1>t. /\ pc \in [Workers -> Steps] /\ key \in [Workers -> Keys] /\ asked \in [Keys -> Nat]
      /\ Hits(r) \in Nat /\ Hits(r)' \in Nat /\ Owed(r) \in SUBSET Workers
      /\ IsFiniteSet(Owed(r)) /\ IsFiniteSet(Callers(r))
  <2>1. Hits(r) \in Nat /\ Hits(r)' \in Nat
    BY HitsType, HitsTypeNext
  <2> QED BY <2>1, OwedType DEF Typed, TypeOK, Steps
<1>p. /\ Owed(r)' \in SUBSET Workers /\ IsFiniteSet(Callers(r)') /\ Callers(r)' \in SUBSET Keys
      /\ asked' \in [Keys -> Nat] /\ key' \in [Workers -> Keys]
  <2>1. Owed(r)' \in SUBSET Workers /\ Callers(r)' \in SUBSET Keys
    BY DEF Owed, Owing, Callers
  <2>2. IsFiniteSet(Callers(r)')
    BY <2>1, TopAssumption, FS_Subset
  <2> QED BY <2>1, <2>2 DEF Typed, TypeOK
<1> DEFINE H == Hits(r)
           O == Cardinality(Owed(r))
           A == Sum(asked, Callers(r))
<1>n. H \in Nat /\ O \in Nat /\ A \in Nat /\ H + O <= A
  BY <1>t, OwedType DEF Counted
<1>q. H' \in Nat /\ O' \in Nat /\ A' \in Nat
  <2>1. \A k \in Callers(r)' : asked'[k] \in Nat
    BY <1>p
  <2>2. A' \in Nat
    BY <2>1, <1>p, SumType
  <2>3. O' \in Nat
    BY <1>p, PendingFinite
  <2> QED BY <2>2, <2>3, <1>t
<1>s. H' + O' <= A' => (H + O <= A)'
  OBVIOUS
(* The row keeps its key, and no more is asked for or owed.                *)
<1>1. ASSUME Callers(r)' = Callers(r), asked' = asked, Owed(r)' \subseteq Owed(r), H' <= H
      PROVE  H' + O' <= A'
  <2>1. O' <= O
    BY <1>1, <1>t, Fewer
  <2>2. A' = A
    BY <1>1
  <2> QED BY <1>1, <1>n, <1>q, <2>1, <2>2, Slack
(* The row is nobody's.                                                    *)
<1>2. ASSUME H' = 0, \A k \in Keys : ~Same(k, r)' PROVE H' + O' <= A'
  <2>1. Owed(r)' = {}
    BY <1>2, <1>p DEF Owed, Owing
  <2>2. O' = 0
    BY <2>1, FS_EmptySet
  <2> QED BY <1>2, <1>q, <2>2
<1>3. CASE Still
  <2>1. Callers(r)' = Callers(r) /\ \A k \in Keys : Same(k, r)' <=> Same(k, r)
    BY <1>3, StillRows DEF Callers
  <2>2. ASSUME Owing' \subseteq Owing, key' = key PROVE Owed(r)' \subseteq Owed(r)
    <3>1. \A v \in Owing : Same(key[v], r)' <=> Same(key[v], r)
      BY <2>1, <2>2, <1>t DEF Owing
    <3>2. \A v \in Owed(r)' : v \in Owing' /\ Same(key[v], r)'
      BY <2>2 DEF Owed, Same
    <3> QED BY <3>1, <3>2, <2>2 DEF Owed
  <2>3. CASE Asks(w)
    <3>1. PICK k \in Keys : /\ asked' = [asked EXCEPT ![k] = asked[k] + 1]
                            /\ key' = [key EXCEPT ![w] = k]
      BY <2>3 DEF Asks
    <3>2. H' = H /\ Owing' = Owing \cup {w} /\ w \notin Owing
      BY <2>3 DEF Asks, Hits, Busy
    <3>3. \A v \in Owed(r)' \ {w} : v \in Owed(r)
      <4> SUFFICES ASSUME NEW v \in Owed(r)', v # w PROVE v \in Owed(r)
        OBVIOUS
      <4>1. v \in Owing /\ key'[v] = key[v]
        BY <3>1, <3>2, <1>t DEF Owed, Owing
      <4>2. rows'[r].hash = HashOf[key[v]] /\ rows'[r].name = NameOf[key[v]]
        BY <4>1 DEF Owed, Same
      <4>3. Same(key[v], r)
        BY <4>2, <1>3 DEF Still, Same
      <4> QED BY <4>1, <4>3 DEF Owed
    <3>4. w \in Owed(r)' => k \in Callers(r)
      <4> SUFFICES ASSUME w \in Owed(r)' PROVE k \in Callers(r)
        OBVIOUS
      <4>1. key'[w] = k /\ rows'[r].hash = HashOf[key'[w]] /\ rows'[r].name = NameOf[key'[w]]
        BY <3>1, <1>t DEF Owed, Same
      <4>2. Same(k, r)'
        BY <4>1 DEF Same
      <4> QED BY <4>2, <2>1 DEF Callers
    <3>5. /\ \A y \in Callers(r) : asked[y] \in Nat /\ asked'[y] \in Nat
          /\ \A y \in Callers(r) : y # k => asked[y] = asked'[y]
          /\ asked[k] \in Nat /\ asked'[k] = asked[k] + 1
      BY <3>1, <1>t DEF Callers
    <3>6. CASE k \in Callers(r)
      <4>1. Sum(asked, Callers(r)) + asked'[k] = Sum(asked', Callers(r)) + asked[k]
        <5>1. \A y \in Callers(r) \ {k} : asked[y] = asked'[y]
          BY <3>5
        <5> QED BY <5>1, <3>5, <3>6, <1>t, SumChange
      <4>2. A' = Sum(asked', Callers(r))
        BY <2>1
      <4>3. A' = A + 1
        BY <4>1, <4>2, <3>5, <1>n, <1>q
      <4>4. O' <= O + 1
        <5>1. Owed(r)' \subseteq Owed(r) \cup {w} /\ Owed(r) \cup {w} \in SUBSET Workers
          BY <3>3, <1>t
        <5>2. O' <= Cardinality(Owed(r) \cup {w})
          BY <5>1, Fewer
        <5>3. Cardinality(Owed(r) \cup {w}) = IF w \in Owed(r) THEN O ELSE O + 1
          BY <1>t, FS_AddElement
        <5> QED BY <5>2, <5>3, <1>n, <1>q
      <4>5. H' <= H
        BY <3>2, <1>n
      <4> QED BY <4>3, <4>4, <4>5, <1>n, <1>q, <1>s, Slack
    <3>7. CASE k \notin Callers(r)
      <4>1. Owed(r)' \subseteq Owed(r)
        BY <3>3, <3>4, <3>7
      <4>2. Sum(asked', Callers(r)) = Sum(asked, Callers(r))
        <5>1. \A y \in Callers(r) : asked'[y] = asked[y]
          BY <3>5, <3>7
        <5> QED BY <5>1, <1>t, SumSame
      <4>3. A' = A
        BY <2>1, <4>2
      <4>4. O' <= O /\ H' <= H
        BY <4>1, <3>2, <1>t, <1>n, Fewer
      <4> QED BY <4>3, <4>4, <1>n, <1>q, <1>s, Slack
    <3> QED BY <3>6, <3>7
  <2>4. CASE Counts(w) /\ r = i[w]
    <3>1. Owing' = Owing \ {w} /\ w \in Owing /\ asked' = asked /\ key' = key /\ H' = H + 1
      BY <2>4 DEF Counts
    <3>2. w \in Owed(r)
      BY <2>4, <3>1 DEF Counts, Found, Owed
    <3>3. Owed(r)' \subseteq Owed(r) \ {w}
      <4>1. Owed(r)' \subseteq Owed(r)
        BY <3>1, <2>2
      <4>2. w \notin Owed(r)'
        BY <3>1 DEF Owed
      <4> QED BY <4>1, <4>2
    <3>4. Cardinality(Owed(r) \ {w}) = O - 1
      BY <3>2, <1>t, FS_RemoveElement
    <3>5. O' <= Cardinality(Owed(r) \ {w})
      <4>1. Owed(r) \ {w} \in SUBSET Workers
        BY <1>t
      <4> QED BY <3>3, <4>1, Fewer
    <3>6. A' = A
      BY <2>1, <3>1
    <3> QED BY <3>1, <3>4, <3>5, <3>6, <1>n, <1>q, <1>s
  <2>5. CASE ~Asks(w) /\ ~(Counts(w) /\ r = i[w])
    <3>1. Owing' \subseteq Owing /\ asked' = asked /\ key' = key
      BY <2>5, StepEffect DEF Clears, Counts, Keeps
    <3>2. H' <= H
      BY <2>5, HitsUp
    <3> QED BY <3>1, <3>2, <2>1, <2>2, <1>1, <1>s
  <2> QED BY <2>3, <2>4, <2>5
<1>4. ASSUME NEW x, Rewrites(w, x), pc[w] \in {"zero", "name", "hash"}
      PROVE  /\ Owing' \subseteq Owing /\ asked' = asked /\ key' = key /\ H' <= H
             /\ r # x => H' + O' <= A'
             /\ \A v \in Owing : v = w
  <2>1. ~Asks(w)
    BY <1>4 DEF Rewrites, Inserting, Asks
  <2>2. Owing' \subseteq Owing /\ asked' = asked /\ key' = key
    BY <2>1, <1>4, StepEffect DEF Clears, Counts, Keeps, Rewrites
  <2>3. \A v \in Owing : v = w
    BY <1>4, OtherRows DEF Busy, Owing
  <2>4. H' <= H
    <3>1. CASE r # x
      BY <1>4, <3>1, <1>t DEF Rewrites, Hits
    <3>2. CASE r = x
      <4>1. ~Counts(w)
        BY <1>4 DEF Counts
      <4> QED BY <4>1, HitsUp
    <3> QED BY <3>1, <3>2
  <2>5. r # x => H' + O' <= A'
    <3> SUFFICES ASSUME r # x PROVE H' + O' <= A'
      OBVIOUS
    <3>1. \A k \in Keys : Same(k, r)' <=> Same(k, r)
      BY <1>4, OtherRows
    <3>2. Callers(r)' = Callers(r)
      BY <3>1 DEF Callers
    <3>3. Owed(r)' \subseteq Owed(r)
      <4>1. rows'[r] = rows[r]
        BY <1>4 DEF Rewrites
      <4>2. \A v \in Owed(r)' : v \in Owing /\ rows'[r].hash = HashOf[key[v]]
                                            /\ rows'[r].name = NameOf[key[v]]
        BY <2>2 DEF Owed, Same
      <4> QED BY <4>1, <4>2 DEF Owed, Same
    <3> QED BY <3>2, <3>3, <2>2, <2>4, <1>1
  <2> QED BY <2>2, <2>3, <2>4, <2>5
<1>5. CASE Blanks(w)
  <2>1. Rewrites(w, Target(w)) /\ rows'[Target(w)] = ZeroRow /\ pc[w] = "zero"
    BY <1>5 DEF Blanks
  <2>2. CASE r = Target(w)
    <3>1. H' = 0 /\ \A k \in Keys : ~Same(k, r)'
      BY <2>1, <2>2, TopAssumption DEF Hits, ZeroRow, Counters, Same
    <3> QED BY <3>1, <1>2, <1>s
  <2> QED BY <2>1, <2>2, <1>4, <1>s
<1>6. CASE Labels(w)
  <2>1. Rewrites(w, i[w]) /\ rows'[i[w]].hash = 0 /\ Hits(i[w]) = 0
        /\ rows'[i[w]].count = rows[i[w]].count /\ pc[w] = "name"
    BY <1>6 DEF Labels, Unclaimed
  <2>2. CASE r = i[w]
    <3>1. H' = 0 /\ \A k \in Keys : ~Same(k, r)'
      BY <2>1, <2>2 DEF Hits, Same, NoZeroHash
    <3> QED BY <3>1, <1>2, <1>s
  <2> QED BY <2>1, <2>2, <1>4, <1>s
<1>7. CASE Signs(w)
  <2>1. /\ Rewrites(w, i[w]) /\ pc[w] = "hash" /\ Hits(i[w]) = 0 /\ key[w] \in Keys
        /\ rows'[i[w]].count = rows[i[w]].count
        /\ rows'[i[w]].hash = HashOf[key[w]] /\ rows'[i[w]].name = NameOf[key[w]]
    BY <1>7, <1>t DEF Signs, Rewrites, Unclaimed, Same
  <2>2. CASE r = i[w]
    <3>1. H' = 0 /\ key' = key /\ asked' = asked /\ Owed(r)' \subseteq {w} /\ Owed(r)' \subseteq Owing
      BY <2>1, <2>2, <1>4 DEF Hits, Owed
    <3>2. CASE w \notin Owing
      <4>1. Owed(r)' = {}
        BY <3>1, <3>2
      <4>2. O' = 0
        BY <4>1, FS_EmptySet
      <4> QED BY <3>1, <4>2, <1>q, <1>s
    <3>3. CASE w \in Owing
      <4>1. O' <= 1
        <5>1. {w} \in SUBSET Workers /\ Cardinality({w}) = 1
          BY FS_Singleton
        <5>2. O' <= Cardinality({w})
          BY <5>1, <3>1, Fewer
        <5> QED BY <5>1, <5>2
      <4>2. key[w] \in Callers(r)' /\ asked'[key[w]] >= 1
        <5>1. Same(key[w], r)'
          BY <2>1, <2>2, <3>1 DEF Same
        <5>2. asked[key[w]] >= 1
          BY <3>3 DEF Busy
        <5> QED BY <5>1, <5>2, <2>1, <3>1 DEF Callers, Same
      <4>3. A' >= 1
        <5> DEFINE S == Callers(r)'
                   T == S \ {key[w]}
        <5>1. \A y \in S : asked'[y] \in Nat
          BY <1>p
        <5>2. T \in SUBSET S /\ IsFiniteSet(T) /\ IsFiniteSet(S)
          BY <1>p, FS_Subset
        <5>3. \A y \in T : asked'[y] \in Nat
          BY <5>1
        <5> HIDE DEF S
        <5>4. Sum(asked', S) = asked'[key[w]] + Sum(asked', T)
          BY <4>2, <5>1, <5>2, SumRemove DEF S
        <5> HIDE DEF T
        <5>5. Sum(asked', T) \in Nat
          BY <5>2, <5>3, SumType
        <5>6. asked'[key[w]] \in Nat
          BY <2>1, <1>p
        <5>7. Sum(asked', S) >= 1
          BY <4>2, <5>4, <5>5, <5>6
        <5> QED BY <5>7 DEF S
      <4> QED BY <3>1, <4>1, <4>3, <1>q, <1>s
    <3> QED BY <3>2, <3>3
  <2> QED BY <2>1, <2>2, <1>4, <1>s
<1> QED BY <1>3, <1>5, <1>6, <1>7, StepLabels

LEMMA StepUnique ==
    ASSUME NoZeroHash
    PROVE  Typed /\ RowInv /\ RaceInv /\ Busy /\ UniqueInv /\ [Next]_vars => UniqueInv'
<1> SUFFICES ASSUME Typed, RowInv, RaceInv, Busy, UniqueInv, [Next]_vars, ~raced'
             PROVE  Distinct' /\ Missed' /\ Found' /\ Claimed' /\ Counted'
  BY DEF UniqueInv
<1>1. ~raced /\ Alone /\ Unclaimed /\ Distinct /\ Missed /\ Found /\ Claimed /\ Counted
  BY RacedForGood DEF RaceInv, UniqueInv
<1>2. Typed'
  BY StepTyped
<1>3. ASSUME NEW w \in Workers, Call(w) \/ Update(w) \/ Crash(w)
      PROVE  Distinct' /\ Missed' /\ Found' /\ Claimed' /\ Counted'
  <2>1. room' = room
    BY <1>3 DEF Call, Update, Crash, ScanEmpty, ScanMatch, ScanOther, ScanMiss, Lock, Zero,
       WriteName, WriteHash, Unlock, Add, ghosts
  <2> QED BY <2>1, <1>1, <1>2, <1>3, StepDistinct, StepMissed, StepFound, StepClaimed, StepCounted
<1>4. CASE UNCHANGED vars
  <2>1. UNCHANGED <<rows, pc, key, i, empty, todo, room, asked>>
    BY <1>4 DEF vars, locals, ghosts
  <2>2. Distinct' /\ Missed' /\ Found' /\ Claimed'
    BY <2>1, <1>1 DEF Distinct, Shared, Missed, Found, Claimed, Same, Hits
  <2>3. \A r \in Rows : Hits(r)' = Hits(r) /\ Owed(r)' = Owed(r) /\ Callers(r)' = Callers(r)
    BY <2>1 DEF Hits, Owed, Owing, Callers, Same
  <2>4. Counted'
    BY <2>1, <2>3, <1>1 DEF Counted
  <2> QED BY <2>2, <2>4
<1> QED BY <1>3, <1>4 DEF Next

LEMMA InitUnique == ASSUME DistinctStarts PROVE Init => Busy /\ UniqueInv
<1> SUFFICES ASSUME Init PROVE Busy /\ UniqueInv
  OBVIOUS
<1>1. PICK start \in Starts :
        /\ rows = [r \in Rows |-> IF r < Len(start) THEN RowOf(start[r + 1]) ELSE ZeroRow]
        /\ asked = [k \in Keys |-> MapThenSumSet(LAMBDA n : start[n].hits,
                                     {n \in DOMAIN start : start[n].key = k})]
  BY DEF Init
<1>2. Owing = {} /\ \A w \in Workers : pc[w] = "idle"
  BY DEF Init, Owing
<1>3. Busy /\ Missed /\ Found
  BY <1>2 DEF Busy, Missed, Found
<1>4. /\ Len(start) \in Nat
      /\ \A n \in 1 .. Len(start) : start[n].key \in Keys /\ start[n].hits \in Nat
      /\ \A r \in Rows : r \in Nat /\ (r < Len(start) => r + 1 \in 1 .. Len(start))
  <2>1. \A r \in Rows : r \in Nat
    BY TopAssumption DEF Rows
  <2> QED BY <2>1, StartHitsType
<1>5. ASSUME NEW r \in Rows
      PROVE  \/ /\ r < Len(start) /\ Same(start[r + 1].key, r)
                /\ Hits(r) = start[r + 1].hits
             \/ ~(r < Len(start)) /\ rows[r].name = NoName /\ Hits(r) = 0
  BY <1>1 DEF RowOf, ZeroRow, Same, Hits, Counters
<1>6. Distinct
  <2> SUFFICES ASSUME NEW r \in Rows, NEW s \in Rows, r # s, rows[r].hash = rows[s].hash,
                      rows[r].name = rows[s].name, rows[r].name # NoName
               PROVE  FALSE
    BY DEF Distinct
  <2>1. r < Len(start) /\ s < Len(start) /\ Same(start[r + 1].key, r) /\ Same(start[s + 1].key, s)
    BY <1>5
  <2>2. r + 1 \in 1 .. Len(start) /\ s + 1 \in 1 .. Len(start) /\ r + 1 # s + 1
    BY <1>4, <2>1
  <2> QED BY <2>1, <2>2 DEF DistinctStarts, Same
<1>7. Claimed
  <2> SUFFICES ASSUME NEW r \in Rows, Hits(r) > 0 PROVE \E k \in Keys : Same(k, r)
    BY DEF Claimed
  <2> QED BY <1>4, <1>5
<1>8. Counted
  <2> SUFFICES ASSUME NEW r \in Rows
               PROVE  Hits(r) + Cardinality(Owed(r)) <= Sum(asked, Callers(r))
    BY DEF Counted
  <2>1. Cardinality(Owed(r)) = 0
    <3>1. Owed(r) = {}
      BY <1>2 DEF Owed
    <3> QED BY <3>1, FS_EmptySet
  <2>2. Typed /\ Sum(asked, Callers(r)) \in Nat /\ IsFiniteSet(Callers(r))
        /\ \A k \in Callers(r) : asked[k] \in Nat
    <3>1. Typed
      BY InitTyped
    <3> QED BY <3>1, OwedType DEF Callers, Typed, TypeOK
  <2>3. CASE ~(r < Len(start))
    <3>1. Hits(r) = 0
      BY <1>5, <2>3
    <3> QED BY <3>1, <2>1, <2>2
  <2>4. CASE r < Len(start)
    <3> DEFINE n == r + 1
               k == start[n].key
               h == StartHits(start, Len(start))
               T == Fiber(start, k, Len(start))
    <3>1. n \in 1 .. Len(start) /\ k \in Keys /\ n \in T /\ k \in Callers(r)
      BY <1>4, <1>5, <2>4 DEF Fiber, Callers
    <3>2. Hits(r) = h[n] /\ h[n] \in Nat
      BY <1>5, <2>4, <3>1, StartHitsType
    <3>3. asked[k] = Sum(h, T)
      BY <1>1, <3>1, AskedAtStart
    <3>4. IsFiniteSet(T) /\ \A x \in T : h[x] \in Nat
      BY <3>1, <1>4, StartHitsType DEF Fiber
    <3> HIDE DEF n, k, h, T
    <3>5. Sum(h, T) >= h[n]
      <4>0. \A x \in T : Sum(h, T) = h[x] + Sum(h, T \ {x})
        BY <3>4, SumRemove
      <4>1. Sum(h, T) = h[n] + Sum(h, T \ {n})
        BY <3>1, <4>0
      <4>2. Sum(h, T \ {n}) \in Nat
        <5> DEFINE U == T \ {n}
        <5>1. IsFiniteSet(U) /\ \A x \in U : h[x] \in Nat
          BY <3>4, FS_RemoveElement
        <5> HIDE DEF U
        <5>2. Sum(h, U) \in Nat
          BY <5>1, SumType
        <5> QED BY <5>2 DEF U
      <4> QED BY <4>1, <4>2, <3>2
    <3>6. Sum(asked, Callers(r)) >= asked[k]
      <4> DEFINE C == Callers(r)
                 U == C \ {k}
      <4>1. IsFiniteSet(C) /\ k \in C /\ \A x \in C : asked[x] \in Nat
        BY <2>2, <3>1
      <4>2. IsFiniteSet(U) /\ \A x \in U : asked[x] \in Nat
        BY <4>1, FS_RemoveElement
      <4> HIDE DEF C
      <4>3. Sum(asked, C) = asked[k] + Sum(asked, U)
        BY <4>1, SumRemove
      <4> HIDE DEF U
      <4>4. Sum(asked, U) \in Nat
        BY <4>2, SumType
      <4>5. Sum(asked, C) >= asked[k]
        BY <4>1, <4>3, <4>4
      <4> QED BY <4>5 DEF C
    <3>7. asked[k] \in Nat
      BY <2>2, <3>1
    <3> QED BY <2>1, <2>2, <3>2, <3>3, <3>5, <3>6, <3>7
  <2> QED BY <2>3, <2>4
<1> QED BY <1>3, <1>6, <1>7, <1>8 DEF UniqueInv

(* As long as no insertion overlaps another call, no two of the rows that  *)
(* all workers use are for the same key, and no row claims more hits than  *)
(* there were calls for the keys it cannot tell apart: for any clash of    *)
(* hashes and of stored names, any rooms, and deaths at every step, given  *)
(* that no key hashes to the zero of an empty row.                         *)
THEOREM OneRowPerKey == ASSUME NoZeroHash, DistinctStarts PROVE Spec => []KeysUnique
<1> DEFINE Inv == Typed /\ RowInv /\ RaceInv /\ Busy /\ UniqueInv
<1>1. Init => Inv
  <2>1. Init => torn = {} /\ \A w \in Workers : pc[w] = "idle"
    BY DEF Init
  <2>2. Init => RaceInv
    BY <2>1 DEF RaceInv, Alone, Unclaimed, Inserting
  <2> QED BY <2>2, InitTyped, InitRow, InitUnique
<1>2. Inv /\ [Next]_vars => Inv'
  BY StepTyped, StepRow, StepRace, StepBusy, StepUnique
<1>3. Inv => KeysUnique
  <2> SUFFICES ASSUME Inv, ~raced
               PROVE  /\ \A r, s \in Rows :
                            /\ r # s /\ Hits(r) > 0 /\ Hits(s) > 0
                            /\ \A w \in Workers : r < room[w] /\ s < room[w]
                            => rows[r].hash # rows[s].hash \/ rows[r].name # rows[s].name
                      /\ \A r \in Rows : Hits(r) <= Requests(r)
    BY DEF KeysUnique
  <2>1. Distinct /\ Claimed /\ Counted
    BY DEF UniqueInv
  <2>2. \A r \in Rows : Hits(r) > 0 => rows[r].hash # 0 /\ rows[r].name # NoName
    BY <2>1, TopAssumption DEF Claimed, Same, NoZeroHash
  <2>3. ASSUME NEW r \in Rows PROVE Hits(r) <= Requests(r)
    <3>1. Requests(r) = Sum(asked, Callers(r))
      BY DEF Requests, Sum, Callers
    <3>2. /\ Hits(r) \in Nat /\ Cardinality(Owed(r)) \in Nat /\ Sum(asked, Callers(r)) \in Nat
          /\ Hits(r) + Cardinality(Owed(r)) <= Sum(asked, Callers(r))
      BY <2>1, HitsType, OwedType DEF Counted
    <3> HIDE DEF Inv
    <3>3. Hits(r) <= Sum(asked, Callers(r))
      BY <3>2
    <3> QED BY <3>1, <3>3
  <2> QED BY <2>1, <2>2, <2>3 DEF Distinct, Shared
<1> QED BY <1>1, <1>2, <1>3, PTL DEF Spec

-----------------------------------------------------------------------------
(* The sort of the entries that a list of top entries shows.               *)
EntryType == [name : Names, count : [Counters -> Nat]]

LEMMA HitsOfType == \A entry \in EntryType : HitsOf(entry) \in Nat
BY DEF EntryType, HitsOf, Counters

Ranked(v) == \A m, n \in DOMAIN v : m < n => HitsOf(v[m]) >= HitsOf(v[n])

(* Where the entries of v are in s: no two in one place.                   *)
OneToOne(p, A, B) == p \in [A -> B] /\ \A a, b \in A : p[a] = p[b] => a = b

Arranges(s, v, p) == OneToOne(p, DOMAIN v, DOMAIN s) /\ \A m \in DOMAIN v : s[p[m]] = v[m]

LEMMA InsertAtIs ==
    ASSUME NEW S, NEW v \in Seq(S), NEW entry \in S, NEW at \in 1 .. Len(v) + 1
    PROVE  /\ InsertAt(v, at, entry) \in Seq(S)
           /\ Len(InsertAt(v, at, entry)) = Len(v) + 1
           /\ \A m \in 1 .. Len(v) + 1 :
                 InsertAt(v, at, entry)[m] =
                     IF m < at THEN v[m] ELSE IF m = at THEN entry ELSE v[m - 1]
<1> DEFINE a == SubSeq(v, 1, at - 1)
           b == SubSeq(v, at, Len(v))
           n == Len(v)
<1>1. n \in Nat /\ at \in 1 .. n + 1 /\ \A j \in 1 .. n : v[j] \in S
  BY LenProperties
<1>2. /\ a \in Seq(S) /\ Len(a) = at - 1
      /\ \A m \in 1 .. at - 1 : a[m] = v[m]
  <2>1. \A j \in 1 .. at - 1 : v[j] \in S
    BY <1>1
  <2> QED BY <1>1, <2>1, SubSeqProperties
<1>3. /\ b \in Seq(S) /\ Len(b) = n - at + 1
      /\ \A m \in 1 .. n - at + 1 : b[m] = v[at + m - 1]
  <2>1. \A j \in at .. n : v[j] \in S
    BY <1>1
  <2> QED BY <1>1, <2>1, SubSeqProperties
<1>4. <<entry>> \in Seq(S) /\ Len(<<entry>>) = 1 /\ <<entry>>[1] = entry
  OBVIOUS
<1> DEFINE c == a \o <<entry>>
           d == c \o b
<1>5. InsertAt(v, at, entry) = d
  BY DEF InsertAt
<1> HIDE DEF a, b, n
<1>6. /\ c \in Seq(S) /\ Len(c) = at
      /\ \A m \in 1 .. at : c[m] = IF m < at THEN a[m] ELSE entry
  <2>1. /\ c \in Seq(S) /\ Len(c) = (at - 1) + 1
        /\ \A m \in 1 .. (at - 1) + 1 :
              c[m] = IF m <= at - 1 THEN a[m] ELSE <<entry>>[m - (at - 1)]
    BY <1>2, <1>4, ConcatProperties
  <2>2. at \in Int
    BY <1>1
  <2> HIDE DEF c
  <2> QED BY <1>4, <2>1, <2>2
<1> HIDE DEF c
<1>7. /\ d \in Seq(S) /\ Len(d) = at + (n - at + 1)
      /\ \A m \in 1 .. at + (n - at + 1) : d[m] = IF m <= at THEN c[m] ELSE b[m - at]
  <2> HIDE DEF c
  <2>1. /\ d \in Seq(S) /\ Len(d) = Len(c) + Len(b)
        /\ \A m \in 1 .. Len(c) + Len(b) :
              d[m] = IF m <= Len(c) THEN c[m] ELSE b[m - Len(c)]
    BY <1>3, <1>6, ConcatProperties
  <2> HIDE DEF d
  <2> QED BY <1>3, <1>6, <2>1
<1> HIDE DEF d
<1>8. ASSUME NEW m \in 1 .. n + 1
      PROVE  d[m] = IF m < at THEN v[m] ELSE IF m = at THEN entry ELSE v[m - 1]
  <2>1. CASE m <= at
    <3>1. d[m] = IF m < at THEN a[m] ELSE entry
      BY <1>1, <1>6, <1>7, <2>1
    <3> QED BY <1>1, <1>2, <2>1, <3>1
  <2>2. CASE m > at
    <3>1. m - at \in 1 .. n - at + 1 /\ at + (m - at) - 1 = m - 1
      BY <1>1, <2>2
    <3>2. d[m] = b[m - at]
      BY <1>1, <1>7, <2>2
    <3> QED BY <1>1, <1>3, <2>2, <3>1, <3>2
  <2> QED BY <1>1, <2>1, <2>2
<1> QED BY <1>1, <1>5, <1>7, <1>8 DEF n

LEMMA MaxIn ==
    ASSUME NEW S, IsFiniteSet(S), S \subseteq Nat, S # {}
    PROVE  Max(S) \in S /\ \A x \in S : x <= Max(S)
<1>1. \E x \in S : \A y \in S : y <= x
  BY NatMax
<1>2. \E x \in S : \A y \in S : x >= y
  BY <1>1
<1>3. Max(S) \in S /\ \A y \in S : Max(S) >= y
  BY <1>2 DEF Max
<1> QED BY <1>3

(* An insertion keeps the ranks and every entry.                           *)
LEMMA InsertRanks ==
    ASSUME NEW v \in Seq(EntryType), NEW entry \in EntryType, Ranked(v)
    PROVE  /\ Insert(v, entry) \in Seq(EntryType)
           /\ Len(Insert(v, entry)) = Len(v) + 1
           /\ Ranked(Insert(v, entry))
           /\ \E at \in 1 .. Len(v) + 1 :
                 \A m \in 1 .. Len(v) + 1 :
                    Insert(v, entry)[m] =
                        IF m < at THEN v[m] ELSE IF m = at THEN entry ELSE v[m - 1]
<1> DEFINE T == {0} \cup {j \in DOMAIN v : HitsOf(v[j]) >= HitsOf(entry)}
           at == 1 + Max(T)
<1>1. /\ Len(v) \in Nat /\ DOMAIN v = 1 .. Len(v)
      /\ \A j \in 1 .. Len(v) : v[j] \in EntryType /\ HitsOf(v[j]) \in Nat
  BY LenProperties, HitsOfType
<1>2. HitsOf(entry) \in Nat
  BY HitsOfType
<1>3. IsFiniteSet(T) /\ T \subseteq 0 .. Len(v) /\ 0 \in T
  <2>1. T \subseteq 0 .. Len(v) /\ 0 \in T
    BY <1>1
  <2>2. IsFiniteSet(0 .. Len(v))
    BY <1>1, FS_Interval
  <2> QED BY <2>1, <2>2, FS_Subset
<1>4. Max(T) \in T /\ \A j \in T : j <= Max(T)
  <2> HIDE DEF T
  <2>1. T \subseteq Nat /\ T # {}
    BY <1>1, <1>3
  <2> QED BY <1>3, <2>1, MaxIn
<1>5. at \in 1 .. Len(v) + 1
  BY <1>1, <1>3, <1>4
<1>6. \A j \in 1 .. Len(v) : j >= at => HitsOf(v[j]) < HitsOf(entry)
  BY <1>1, <1>2, <1>4
<1>7. \A j \in 1 .. Len(v) : j < at => HitsOf(v[j]) >= HitsOf(entry)
  <2> SUFFICES ASSUME NEW j \in 1 .. Len(v), j < at PROVE HitsOf(v[j]) >= HitsOf(entry)
    OBVIOUS
  <2>1. Max(T) \in 1 .. Len(v) /\ j <= Max(T) /\ HitsOf(v[Max(T)]) >= HitsOf(entry)
    BY <1>1, <1>3, <1>4
  <2>2. HitsOf(v[j]) >= HitsOf(v[Max(T)])
    BY <1>1, <2>1 DEF Ranked
  <2> QED BY <1>1, <1>2, <2>1, <2>2
<1>8. Insert(v, entry) = InsertAt(v, at, entry)
  BY DEF Insert
<1> HIDE DEF at
<1> DEFINE s == InsertAt(v, at, entry)
<1>9. /\ s \in Seq(EntryType) /\ Len(s) = Len(v) + 1
      /\ \A m \in 1 .. Len(v) + 1 :
            s[m] = IF m < at THEN v[m] ELSE IF m = at THEN entry ELSE v[m - 1]
  <2> HIDE DEF s
  <2>1. /\ InsertAt(v, at, entry) \in Seq(EntryType)
        /\ Len(InsertAt(v, at, entry)) = Len(v) + 1
        /\ \A m \in 1 .. Len(v) + 1 :
              InsertAt(v, at, entry)[m] =
                  IF m < at THEN v[m] ELSE IF m = at THEN entry ELSE v[m - 1]
    BY <1>5, InsertAtIs
  <2> QED BY <2>1 DEF s
<1> HIDE DEF s
<1>10. Ranked(s)
  <2> SUFFICES ASSUME NEW m \in 1 .. Len(v) + 1, NEW n \in 1 .. Len(v) + 1, m < n
               PROVE  HitsOf(s[m]) >= HitsOf(s[n])
    BY <1>9, LenProperties DEF Ranked
  <2>1. \A x, y \in 1 .. Len(v) : x < y => HitsOf(v[x]) >= HitsOf(v[y])
    BY <1>1 DEF Ranked
  <2>2. CASE n < at
    <3>1. s[m] = v[m] /\ s[n] = v[n] /\ m \in 1 .. Len(v) /\ n \in 1 .. Len(v)
      BY <1>1, <1>5, <1>9, <2>2
    <3> QED BY <2>1, <3>1
  <2>3. CASE n = at
    <3>1. s[m] = v[m] /\ s[n] = entry /\ m \in 1 .. Len(v)
      BY <1>1, <1>5, <1>9, <2>3
    <3> QED BY <1>7, <2>3, <3>1
  <2>4. CASE n > at /\ m = at
    <3>1. s[m] = entry /\ s[n] = v[n - 1] /\ n - 1 \in 1 .. Len(v) /\ n - 1 >= at
      BY <1>1, <1>5, <1>9, <2>4
    <3>2. HitsOf(v[n - 1]) < HitsOf(entry) /\ HitsOf(v[n - 1]) \in Nat
      BY <1>1, <1>6, <3>1
    <3> QED BY <1>2, <3>1, <3>2
  <2>5. CASE n > at /\ m < at
    <3>1. s[m] = v[m] /\ s[n] = v[n - 1] /\ m \in 1 .. Len(v) /\ n - 1 \in 1 .. Len(v)
          /\ n - 1 >= at
      BY <1>1, <1>5, <1>9, <2>5
    <3>2. HitsOf(v[n - 1]) < HitsOf(entry) /\ HitsOf(v[m]) >= HitsOf(entry)
      BY <1>6, <1>7, <2>5, <3>1
    <3> QED BY <1>1, <1>2, <3>1, <3>2
  <2>6. CASE n > at /\ m > at
    <3>1. s[m] = v[m - 1] /\ s[n] = v[n - 1] /\ m - 1 \in 1 .. Len(v)
          /\ n - 1 \in 1 .. Len(v) /\ m - 1 < n - 1
      BY <1>1, <1>5, <1>9, <2>6
    <3> QED BY <2>1, <3>1
  <2> QED BY <1>5, <2>2, <2>3, <2>4, <2>5, <2>6
<1> QED BY <1>5, <1>8, <1>9, <1>10 DEF s

(* What the fold of the community modules makes of it: the function behind *)
(* it solves this equation.                                                *)
SortBody(v, s, g) == IF s = {} THEN <<>> ELSE Insert(g[s \ {Max(s)}], v[Max(s)])
SortSolves(v, g)  == g = [s \in SUBSET DOMAIN v |-> SortBody(v, s, g)]

LEMMA SortUnfold ==
    ASSUME NEW v, \E g : SortSolves(v, g)
    PROVE  \E g : SortSolves(v, g) /\ SortTop(v) = g[DOMAIN v]
BY DEF SortTop, FoldLeft, MapThenFoldSet, SortSolves, SortBody

(* The equation has a solution: one up to every size of the subsets.       *)
LEMMA SortExists ==
    ASSUME NEW v \in Seq(EntryType)
    PROVE  \E g : SortSolves(v, g)
<1> DEFINE S == DOMAIN v
           Upto(n) == {s \in SUBSET S : Cardinality(s) <= n}
           Q == {n \in Nat : \E g : g = [s \in Upto(n) |-> SortBody(v, s, g)]}
<1>0. IsFiniteSet(S) /\ S \subseteq Nat
  <2>1. S = 1 .. Len(v) /\ Len(v) \in Nat
    BY LenProperties
  <2> QED BY <2>1, FS_Interval
<1> HIDE DEF S
<1>1. \A s \in SUBSET S : IsFiniteSet(s) /\ Cardinality(s) \in Nat
  BY <1>0, FS_Subset, FS_CardinalityType
<1>2. 0 \in Q
  <2> DEFINE g == [s \in Upto(0) |-> <<>>]
  <2>1. \A s \in Upto(0) : s = {}
    BY <1>1, FS_EmptySet
  <2>2. g = [s \in Upto(0) |-> SortBody(v, s, g)]
    BY <2>1 DEF SortBody
  <2> QED BY <2>2
<1>3. ASSUME NEW n \in Nat, n \in Q PROVE n + 1 \in Q
  <2>1. PICK g : g = [s \in Upto(n) |-> SortBody(v, s, g)]
    BY <1>3
  <2> DEFINE h == [s \in Upto(n + 1) |-> SortBody(v, s, g)]
  <2>2. \A s \in Upto(n) : s \in Upto(n + 1) /\ h[s] = g[s]
    <3> SUFFICES ASSUME NEW s \in Upto(n) PROVE s \in Upto(n + 1) /\ h[s] = g[s]
      OBVIOUS
    <3>1. s \in Upto(n + 1)
      BY <1>1
    <3> HIDE DEF Upto
    <3>2. h[s] = SortBody(v, s, g)
      BY <3>1
    <3>3. g[s] = SortBody(v, s, g)
      BY <2>1
    <3> QED BY <3>1, <3>2, <3>3
  <2>3. \A s \in Upto(n + 1) : s # {} => s \ {Max(s)} \in Upto(n)
    <3> SUFFICES ASSUME NEW s \in Upto(n + 1), s # {} PROVE s \ {Max(s)} \in Upto(n)
      OBVIOUS
    <3>1. Max(s) \in s
      BY <1>0, <1>1, MaxIn
    <3>2. Cardinality(s \ {Max(s)}) = Cardinality(s) - 1
      BY <1>1, <3>1, FS_RemoveElement
    <3> QED BY <1>1, <3>2
  <2> HIDE DEF Upto
  <2>4. \A s \in Upto(n + 1) : SortBody(v, s, g) = SortBody(v, s, h)
    BY <2>2, <2>3 DEF SortBody
  <2>5. h = [s \in Upto(n + 1) |-> SortBody(v, s, h)]
    BY <2>4
  <2> HIDE DEF h
  <2> QED BY <2>5
<1> HIDE DEF Q
<1>4. Nat \subseteq Q
  BY <1>2, <1>3, NatAll
<1>5. Cardinality(S) \in Q
  BY <1>0, <1>1, <1>4
<1>6. PICK g : g = [s \in Upto(Cardinality(S)) |-> SortBody(v, s, g)]
  BY <1>5 DEF Q
<1>7. Upto(Cardinality(S)) = SUBSET S
  BY <1>0, FS_Subset
<1> QED BY <1>6, <1>7 DEF SortSolves, S

(* The sorted list is ranked, and has every entry it was given once.       *)
LEMMA SortRanks ==
    ASSUME NEW v \in Seq(EntryType)
    PROVE  /\ SortTop(v) \in Seq(EntryType) /\ Len(SortTop(v)) = Len(v)
           /\ Ranked(SortTop(v))
           /\ \E p : Arranges(SortTop(v), v, p)
<1>1. PICK g : SortSolves(v, g) /\ SortTop(v) = g[DOMAIN v]
  BY SortExists, SortUnfold
<1>2. /\ Len(v) \in Nat /\ DOMAIN v = 1 .. Len(v)
      /\ \A j \in 1 .. Len(v) : v[j] \in EntryType
  BY LenProperties
<1> DEFINE Sorted(n) ==
               /\ g[1 .. n] \in Seq(EntryType) /\ Len(g[1 .. n]) = n /\ Ranked(g[1 .. n])
               /\ \E p : /\ OneToOne(p, 1 .. n, 1 .. n)
                         /\ \A m \in 1 .. n : g[1 .. n][p[m]] = v[m]
           Q == {n \in Nat : n <= Len(v) => Sorted(n)}
<1>3. 0 \in Q
  <2>1. 1 .. 0 = {} /\ {} \in SUBSET DOMAIN v
    OBVIOUS
  <2>2. g[{}] = <<>>
    BY <1>1, <2>1 DEF SortSolves, SortBody
  <2>3. <<>> \in Seq(EntryType) /\ Len(<<>>) = 0 /\ Ranked(<<>>)
    BY EmptySeq DEF Ranked
  <2> DEFINE p == [m \in {} |-> 0]
  <2>4. OneToOne(p, {}, {})
    BY DEF OneToOne
  <2> HIDE DEF p
  <2>5. Sorted(0)
    BY <2>1, <2>2, <2>3, <2>4
  <2> QED BY <2>5
<1>4. ASSUME NEW n \in Nat, n \in Q PROVE n + 1 \in Q
  <2> SUFFICES ASSUME n + 1 <= Len(v) PROVE Sorted(n + 1)
    OBVIOUS
  <2>1. n <= Len(v) /\ n + 1 \in 1 .. Len(v)
    BY <1>2
  <2>2. Sorted(n)
    BY <1>4, <2>1
  <2> DEFINE s == g[1 .. n]
             t == g[1 .. n + 1]
             e == v[n + 1]
  <2>3. t = Insert(s, e)
    <3> DEFINE T == 1 .. n + 1
    <3>0. IsFiniteSet(T)
      BY FS_Interval
    <3>1. IsFiniteSet(T) /\ T \subseteq Nat /\ T # {} /\ T \in SUBSET DOMAIN v
      <4>1. n + 1 \in T /\ T \subseteq 1 .. Len(v)
        BY <1>2, <2>1
      <4> HIDE DEF T
      <4> QED BY <1>2, <3>0, <4>1
    <3>2. Max(T) \in T /\ \A x \in T : x <= Max(T)
      <4> HIDE DEF T
      <4> QED BY <3>1, MaxIn
    <3>3. Max(T) = n + 1
      BY <3>2
    <3>4. T \ {n + 1} = 1 .. n
      OBVIOUS
    <3>5. g[T] = SortBody(v, T, g)
      BY <1>1, <3>1 DEF SortSolves
    <3> HIDE DEF T
    <3>6. g[T] = Insert(g[T \ {Max(T)}], v[Max(T)])
      BY <3>1, <3>5 DEF SortBody
    <3> QED BY <3>3, <3>4, <3>6 DEF T
  <2>4. s \in Seq(EntryType) /\ Len(s) = n /\ Ranked(s) /\ e \in EntryType
    BY <1>2, <2>1, <2>2
  <2>5. PICK p : OneToOne(p, 1 .. n, 1 .. n) /\ \A m \in 1 .. n : s[p[m]] = v[m]
    BY <2>2
  <2> HIDE DEF s, t, e
  <2>6. /\ t \in Seq(EntryType) /\ Len(t) = Len(s) + 1 /\ Ranked(t)
        /\ \E at \in 1 .. Len(s) + 1 :
              \A m \in 1 .. Len(s) + 1 :
                  t[m] = IF m < at THEN s[m] ELSE IF m = at THEN e ELSE s[m - 1]
    <3> DEFINE u == Insert(s, e)
    <3>1. /\ u \in Seq(EntryType) /\ Len(u) = Len(s) + 1 /\ Ranked(u)
          /\ \E at \in 1 .. Len(s) + 1 :
                \A m \in 1 .. Len(s) + 1 :
                    u[m] = IF m < at THEN s[m] ELSE IF m = at THEN e ELSE s[m - 1]
      BY <2>4, InsertRanks
    <3> HIDE DEF u
    <3>2. t = u
      BY <2>3 DEF u
    <3> QED BY <3>1, <3>2
  <2>7. PICK at \in 1 .. n + 1 :
           \A m \in 1 .. n + 1 : t[m] = IF m < at THEN s[m] ELSE IF m = at THEN e ELSE s[m - 1]
    BY <2>4, <2>6
  <2> DEFINE q == [m \in 1 .. n + 1 |->
                      IF m = n + 1 THEN at ELSE IF p[m] < at THEN p[m] ELSE p[m] + 1]
  <2>8. \A m \in 1 .. n : p[m] \in 1 .. n
    BY <2>5 DEF OneToOne
  <2>9. OneToOne(q, 1 .. n + 1, 1 .. n + 1)
    <3>1. q \in [1 .. n + 1 -> 1 .. n + 1]
      <4>1. ASSUME NEW m \in 1 .. n + 1 PROVE q[m] \in 1 .. n + 1
        <5>1. CASE m = n + 1
          BY <5>1
        <5>2. CASE m # n + 1
          <6>1. p[m] \in 1 .. n
            BY <2>8, <5>2
          <6> QED BY <5>2, <6>1
        <5> QED BY <5>1, <5>2
      <4> QED BY <4>1
    <3>2. ASSUME NEW a \in 1 .. n + 1, NEW b \in 1 .. n + 1, q[a] = q[b] PROVE a = b
      <4>1. CASE a = n + 1 \/ b = n + 1
        <5>1. \A m \in 1 .. n : q[m] # at
          <6> SUFFICES ASSUME NEW m \in 1 .. n PROVE q[m] # at
            OBVIOUS
          <6>1. p[m] \in 1 .. n /\ m # n + 1
            BY <2>8
          <6> QED BY <6>1
        <5>2. q[n + 1] = at
          OBVIOUS
        <5> HIDE DEF q
        <5> QED BY <3>2, <4>1, <5>1, <5>2
      <4>2. CASE a # n + 1 /\ b # n + 1
        <5>1. a \in 1 .. n /\ b \in 1 .. n
          BY <4>2
        <5>2. p[a] \in 1 .. n /\ p[b] \in 1 .. n
          BY <2>8, <5>1
        <5>3. p[a] = p[b]
          BY <3>2, <4>2, <5>2
        <5> QED BY <2>5, <5>1, <5>3 DEF OneToOne
      <4> QED BY <4>1, <4>2
    <3> HIDE DEF q
    <3> QED BY <3>1, <3>2 DEF OneToOne
  <2>10. ASSUME NEW m \in 1 .. n + 1 PROVE t[q[m]] = v[m]
    <3>1. CASE m = n + 1
      BY <2>7, <3>1 DEF e
    <3>2. CASE m # n + 1
      <4>1. m \in 1 .. n /\ p[m] \in 1 .. n /\ s[p[m]] = v[m]
        BY <2>5, <2>8, <3>2
      <4>2. CASE p[m] < at
        <5>1. q[m] = p[m] /\ p[m] \in 1 .. n + 1
          BY <3>2, <4>1, <4>2
        <5> QED BY <2>7, <4>1, <4>2, <5>1
      <4>3. CASE ~(p[m] < at)
        <5>1. q[m] = p[m] + 1 /\ p[m] + 1 \in 1 .. n + 1 /\ (p[m] + 1) - 1 = p[m]
              /\ ~(p[m] + 1 < at) /\ p[m] + 1 # at
          BY <3>2, <4>1, <4>3
        <5>2. t[p[m] + 1] = s[(p[m] + 1) - 1]
          BY <2>7, <5>1
        <5> QED BY <4>1, <5>1, <5>2
      <4> QED BY <4>2, <4>3
    <3> QED BY <3>1, <3>2
  <2> HIDE DEF q
  <2>11. \E r : OneToOne(r, 1 .. n + 1, 1 .. n + 1) /\ \A m \in 1 .. n + 1 : t[r[m]] = v[m]
    BY <2>9, <2>10
  <2> QED BY <2>4, <2>6, <2>11 DEF t
<1>5. Sorted(Len(v))
  <2> HIDE DEF Sorted
  <2>1. Nat \subseteq Q
    <3> HIDE DEF Q
    <3> QED BY <1>3, <1>4, NatAll
  <2>2. Len(v) \in Q
    BY <1>2, <2>1
  <2> QED BY <1>2, <2>2
<1>6. DOMAIN SortTop(v) = DOMAIN v
  BY <1>1, <1>2, <1>5, LenProperties
<1> QED BY <1>1, <1>2, <1>5, <1>6 DEF Arranges

-----------------------------------------------------------------------------
(* A response that copies the table.  Its locals; a row that it copies is  *)
(* in the table, and the entry it fills is the last one.                   *)
ViewTyped ==
    /\ vpc \in {"idle", "test", "name", "hits", "rest", "written"}
    /\ vi \in 0 .. Capacity /\ view \in Seq(EntryType)
    /\ floor \in [Rows -> RowType] /\ overlapped \in BOOLEAN
    /\ vpc \in {"name", "hits", "rest"} => vi \in Rows
    /\ vpc \in {"hits", "rest"} => view # <<>>

(* As long as no insertion has overlapped the walk nobody inserts, and the *)
(* rows are what they were when it began, with counters that have grown.   *)
Calm == vpc # "idle" /\ ~overlapped

CalmInv ==
    Calm =>
        /\ \A w \in Workers : ~Inserting(w)
        /\ \A r \in Rows :
              /\ rows[r].name = floor[r].name
              /\ \A c \in Counters : floor[r].count[c] <= rows[r].count[c]

(* The rows behind the walk: those to be shown, and those that may be; and *)
(* the entries that are filled.                                            *)
Due(n)  == {r \in Rows : r < n /\ floor[r].count["hits"] > 0}
Used(n) == {r \in Rows : r < n /\ ~Unused(r)}
Filled  == IF vpc \in {"hits", "rest"} THEN 1 .. Len(view) - 1 ELSE 1 .. Len(view)

ShowInv ==
    Calm =>
        /\ Cardinality(Filled) <= Cardinality(Used(vi))
        /\ \E at \in [Due(vi) -> Filled] :
              \A r, s \in Due(vi) : Shows(view[at[r]], r) /\ (at[r] = at[s] => r = s)
        /\ vpc \in {"name", "hits", "rest"} => ~Unused(vi)
        /\ vpc \in {"hits", "rest"} => view[Len(view)].name = floor[vi].name
        /\ vpc = "rest" => /\ floor[vi].count["hits"] <= HitsOf(view[Len(view)])
                           /\ HitsOf(view[Len(view)]) <= Hits(vi)
        /\ vpc = "written" => vi = Capacity

ViewInv ==
    /\ ViewTyped /\ CalmInv /\ ShowInv
    /\ vpc = "written" /\ kind = "top" => Ranked(view)

LEMMA InitView == ViewInit => Typed /\ ViewInv
<1> SUFFICES ASSUME ViewInit PROVE Typed /\ ViewInv
  OBVIOUS
<1>1. Typed
  BY InitTyped DEF ViewInit
<1>2. None \in [Rows -> RowType]
  BY ZeroTyped DEF None
<1>3. <<>> \in Seq(EntryType)
  BY EmptySeq
<1>4. ViewTyped
  <2>1. vpc = "idle" /\ vi = 0 /\ view = <<>> /\ floor = None /\ overlapped = FALSE
    BY DEF ViewInit
  <2>2. 0 \in 0 .. Capacity
    BY TopAssumption
  <2> QED BY <1>2, <1>3, <2>1, <2>2 DEF ViewTyped
<1>5. CalmInv /\ ShowInv
  BY DEF ViewInit, CalmInv, ShowInv, Calm
<1> QED BY <1>1, <1>4, <1>5 DEF ViewInv, ViewInit

LEMMA RowsTyped == Typed => rows \in [Rows -> RowType]
BY DEF Typed, TypeOK, RowType, Names

LEMMA CountsTyped ==
    ASSUME NEW row \in RowType, NEW c \in Counters
    PROVE  row.count[c] \in Nat /\ row.name \in Names /\ row.count \in [Counters -> Nat]
BY DEF RowType

(* Of the updates only an insertion does anything to a row but add to it.  *)
Grow(r) == /\ rows'[r].name = rows[r].name
           /\ \A c \in Counters : rows[r].count[c] <= rows'[r].count[c]

LEMMA StepGrow ==
    ASSUME Typed, Next, \A w \in Workers : ~Inserting(w)
    PROVE  \A r \in Rows : Grow(r)
<1>t. /\ rows \in [Rows -> RowType] /\ pc \in [Workers -> Steps]
      /\ todo \in [Workers -> Seq(Counters)]
      /\ \A w \in Workers : pc[w] = "add" => i[w] \in Rows
  BY RowsTyped DEF Typed, TypeOK, Steps
<1>1. PICK w \in Workers : Call(w) \/ Update(w) \/ Crash(w)
  BY DEF Next
<1>2. pc[w] \notin {"lock", "zero", "name", "hash", "unlock", "first"}
  BY DEF Inserting
<1>3. CASE Add(w)
  <2> DEFINE c == Head(todo[w])
             x == i[w]
  <2>1. x \in Rows
    BY <1>2, <1>3, <1>t DEF Add
  <2>2. c \in Counters
    BY <1>3, <1>t, HeadTailProperties DEF Add
  <2>3. rows' = [rows EXCEPT ![x].count[c] = @ + 1]
    BY <1>3 DEF Add, AddNext
  <2> HIDE DEF c, x
  <2> SUFFICES ASSUME NEW r \in Rows PROVE Grow(r)
    OBVIOUS
  <2>4. \A d \in Counters : rows[r].count[d] \in Nat
    BY <1>t, CountsTyped
  <2>5. rows[r] \in RowType /\ rows[r].count \in [Counters -> Nat]
    BY <1>t DEF RowType
  <2>6. CASE r # x
    <3>1. rows'[r] = rows[r]
      BY <1>t, <2>3, <2>6
    <3> QED BY <2>4, <3>1 DEF Grow
  <2>7. CASE r = x
    <3>1. rows'[r] = [rows[r] EXCEPT !.count = [rows[r].count EXCEPT ![c] = rows[r].count[c] + 1]]
      BY <1>t, <2>1, <2>3, <2>7
    <3>2. rows'[r].name = rows[r].name
      BY <2>5, <3>1 DEF RowType
    <3>3. rows'[r].count = [rows[r].count EXCEPT ![c] = rows[r].count[c] + 1]
      BY <2>5, <3>1 DEF RowType
    <3> QED BY <2>4, <2>5, <3>2, <3>3 DEF Grow
  <2> QED BY <2>6, <2>7
<1>4. CASE ~Add(w)
  <2>1. rows' = rows
    BY <1>1, <1>2, <1>4 DEF Update, Call, Crash, ScanEmpty, ScanMatch, ScanOther, ScanMiss, Lock,
       Zero, WriteName, WriteHash, Unlock, Goto, locals
  <2> QED BY <2>1, <1>t, CountsTyped DEF Grow
<1> QED BY <1>3, <1>4

LEMMA UsedFinite == \A n : IsFiniteSet(Used(n)) /\ Cardinality(Used(n)) \in Nat
BY RowsFinite, FS_Subset, FS_CardinalityType DEF Used

LEMMA FilledFinite == ViewTyped => IsFiniteSet(Filled)
<1> SUFFICES ASSUME ViewTyped PROVE IsFiniteSet(Filled)
  OBVIOUS
<1>1. Len(view) \in Nat
  BY LenProperties DEF ViewTyped
<1>2. IsFiniteSet(1 .. Len(view)) /\ IsFiniteSet(1 .. Len(view) - 1)
  BY <1>1, FS_Interval
<1> QED BY <1>2 DEF Filled

LEMMA TableView == Typed /\ Typed' /\ ViewInv /\ Table => ViewInv'
<1> SUFFICES ASSUME Typed, Typed', ViewInv, Table PROVE ViewInv'
  OBVIOUS
<1>1. UNCHANGED <<vpc, vi, view>>
  BY DEF Table
<1>2. kind' = kind
  BY DEF Table, Next, Update, Call, Crash, ScanEmpty, ScanMatch, ScanOther, ScanMiss, Lock,
     Zero, WriteName, WriteHash, Unlock, Add, Goto, locals, ghosts
<1>3. ViewTyped'
  <2>1. None \in [Rows -> RowType]
    BY ZeroTyped DEF None
  <2>2. floor' \in [Rows -> RowType] /\ overlapped' \in BOOLEAN
    BY <2>1 DEF Table, ViewInv, ViewTyped
  <2> QED BY <1>1, <2>2 DEF ViewInv, ViewTyped
<1>4. ASSUME Calm' PROVE CalmInv' /\ ShowInv'
  <2>1. /\ \A w \in Workers : ~Inserting(w)'
        /\ floor' = floor /\ overlapped' = overlapped /\ Calm
    BY <1>1, <1>4 DEF Table, Calm
  <2>2. \A r \in Rows : Grow(r)
    BY <2>1, StepGrow DEF ViewInv, CalmInv, Table
  <2>3. /\ rows \in [Rows -> RowType] /\ rows' \in [Rows -> RowType]
        /\ floor \in [Rows -> RowType]
    <3>1. rows' \in [Rows -> RowType]
      BY DEF Typed, TypeOK, RowType, Names
    <3> QED BY <3>1, RowsTyped DEF ViewInv, ViewTyped
  <2>4. \A r \in Rows, c \in Counters :
           rows[r].count[c] \in Nat /\ rows'[r].count[c] \in Nat /\ floor[r].count[c] \in Nat
    BY <2>3, CountsTyped
  <2>5. CalmInv'
    <3> SUFFICES ASSUME NEW r \in Rows
                 PROVE  /\ rows'[r].name = floor'[r].name
                        /\ \A c \in Counters : floor'[r].count[c] <= rows'[r].count[c]
      BY <2>1 DEF CalmInv
    <3>1. /\ rows[r].name = floor[r].name
          /\ \A c \in Counters : floor[r].count[c] <= rows[r].count[c]
      BY <2>1 DEF ViewInv, CalmInv
    <3> QED BY <2>1, <2>2, <2>4, <3>1 DEF Grow
  <2>6. \A r \in Rows : ~Unused(r) => ~Unused(r)'
    <3> SUFFICES ASSUME NEW r \in Rows, ~Unused(r) PROVE ~Unused(r)'
      OBVIOUS
    <3>1. /\ rows[r].count["hits"] <= rows'[r].count["hits"]
          /\ rows[r].count["hits"] \in Nat /\ rows'[r].count["hits"] \in Nat
      BY <2>2, <2>4 DEF Grow, Counters
    <3> QED BY <3>1 DEF Unused, Hits
  <2>7. Used(vi) \subseteq Used(vi)' /\ Due(vi)' = Due(vi) /\ Filled' = Filled
    BY <1>1, <2>1, <2>6 DEF Used, Due, Filled
  <2>8. Cardinality(Used(vi)) <= Cardinality(Used(vi)')
    <3>1. IsFiniteSet(Used(vi)')
      BY RowsFinite, FS_Subset DEF Used, Rows
    <3> QED BY <2>7, <3>1, FS_Subset
  <2>9. ASSUME NEW entry \in EntryType, NEW r \in Rows, Shows(entry, r) PROVE Shows(entry, r)'
    <3>1. \A c \in Counters : entry.count[c] \in Nat
      BY DEF EntryType
    <3> QED BY <2>1, <2>2, <2>4, <2>9, <3>1 DEF Shows, Grow
  <2>10. \A m \in Filled : view[m] \in EntryType
    BY LenProperties DEF ViewInv, ViewTyped, Filled
  <2>11. PICK at \in [Due(vi) -> Filled] :
            \A r, s \in Due(vi) : Shows(view[at[r]], r) /\ (at[r] = at[s] => r = s)
    BY <2>1 DEF ViewInv, ShowInv
  <2>12. \A r, s \in Due(vi) : Shows(view[at[r]], r)' /\ (at[r] = at[s] => r = s)
    <3> SUFFICES ASSUME NEW r \in Due(vi), NEW s \in Due(vi)
                 PROVE  Shows(view[at[r]], r)' /\ (at[r] = at[s] => r = s)
      OBVIOUS
    <3>1. r \in Rows /\ view[at[r]] \in EntryType
      BY <2>10, <2>11 DEF Due
    <3>2. Shows(view[at[r]], r) /\ (at[r] = at[s] => r = s)
      BY <2>11
    <3> QED BY <1>1, <2>9, <3>1, <3>2
  <2>13. \E a \in [Due(vi)' -> Filled'] :
            \A r, s \in Due(vi)' : Shows(view[a[r]], r)' /\ (a[r] = a[s] => r = s)
    BY <2>7, <2>11, <2>12
  <2>14. Cardinality(Filled') <= Cardinality(Used(vi)')
    <3>1. Cardinality(Filled) <= Cardinality(Used(vi)) /\ Cardinality(Used(vi)) \in Nat
      BY <2>1, UsedFinite DEF ViewInv, ShowInv
    <3>2. Cardinality(Used(vi)') \in Nat /\ Cardinality(Filled) \in Nat
      <4>1. IsFiniteSet(Used(vi)')
        BY RowsFinite, FS_Subset DEF Used, Rows
      <4> QED BY <4>1, FilledFinite, FS_CardinalityType DEF ViewInv
    <3> QED BY <2>7, <2>8, <3>1, <3>2
  <2>15. vi \in Rows =>
            /\ ~Unused(vi) => ~Unused(vi)'
            /\ floor[vi].count["hits"] <= HitsOf(view[Len(view)]) /\ HitsOf(view[Len(view)]) <= Hits(vi)
               /\ HitsOf(view[Len(view)]) \in Nat
                  => HitsOf(view[Len(view)]) <= Hits(vi)'
    <3> SUFFICES ASSUME vi \in Rows
                 PROVE  /\ ~Unused(vi) => ~Unused(vi)'
                        /\ HitsOf(view[Len(view)]) <= Hits(vi) /\ HitsOf(view[Len(view)]) \in Nat
                              => HitsOf(view[Len(view)]) <= Hits(vi)'
      OBVIOUS
    <3>1. rows[vi].count["hits"] \in Nat /\ rows'[vi].count["hits"] \in Nat
          /\ rows[vi].count["hits"] <= rows'[vi].count["hits"]
      BY <2>2, <2>4 DEF Grow, Counters
    <3>2. Hits(vi) = rows[vi].count["hits"] /\ Hits(vi)' = rows'[vi].count["hits"]
      BY <1>1 DEF Hits
    <3> QED BY <1>1, <2>6, <3>1, <3>2
  <2>16. vpc = "rest" => HitsOf(view[Len(view)]) \in Nat
    BY <2>10, LenProperties, HitsOfType DEF ViewInv, ViewTyped
  <2>17. ShowInv'
    BY <1>1, <2>1, <2>13, <2>14, <2>15, <2>16 DEF ShowInv, ViewInv, ViewTyped
  <2> QED BY <2>5, <2>17
<1>5. CalmInv' /\ ShowInv'
  BY <1>4 DEF CalmInv, ShowInv
<1> QED BY <1>1, <1>2, <1>3, <1>5 DEF ViewInv, Ranked

LEMMA LastSet ==
    ASSUME NEW v \in Seq(EntryType), v # <<>>, NEW entry \in EntryType
    PROVE  LET s == [v EXCEPT ![Len(v)] = entry]
           IN  /\ s \in Seq(EntryType) /\ Len(s) = Len(v) /\ s # <<>>
               /\ s[Len(v)] = entry /\ \A m \in 1 .. Len(v) - 1 : s[m] = v[m]
<1> DEFINE n == Len(v)
           s == [v EXCEPT ![n] = entry]
<1>1. n \in Nat \ {0}
  BY EmptySeq, LenProperties
<1> HIDE DEF n
<1>2. n \in 1 .. n
  BY <1>1
<1>3. /\ s \in Seq(EntryType) /\ Len(s) = n
      /\ \A m \in 1 .. n : s[m] = IF m = n THEN entry ELSE v[m]
  <2> HIDE DEF s
  <2>1. /\ [v EXCEPT ![n] = entry] \in Seq(EntryType) /\ Len([v EXCEPT ![n] = entry]) = Len(v)
        /\ \A m \in 1 .. Len(v) : [v EXCEPT ![n] = entry][m] = IF m = n THEN entry ELSE v[m]
    BY <1>2, ExceptSeq DEF n
  <2> QED BY <2>1 DEF n, s
<1> HIDE DEF s
<1>4. s[n] = entry /\ \A m \in 1 .. n - 1 : s[m] = v[m]
  BY <1>1, <1>2, <1>3
<1>5. s # <<>>
  BY <1>1, <1>3
<1> QED BY <1>3, <1>4, <1>5 DEF n, s

(* The steps of the walk change nothing of the table.                      *)
LEMMA WalkView == Typed /\ ViewInv /\ View => ViewInv'
<1> SUFFICES ASSUME Typed, ViewInv, View PROVE ViewInv'
  OBVIOUS
<1>u. /\ rows' = rows /\ kind' = kind /\ pc' = pc
      /\ \A w \in Workers : Inserting(w)' = Inserting(w)
  BY DEF View, vars, locals, ghosts, Inserting
<1>t. /\ vi \in 0 .. Capacity /\ view \in Seq(EntryType) /\ Len(view) \in Nat
      /\ \A m \in 1 .. Len(view) : view[m] \in EntryType
      /\ floor \in [Rows -> RowType] /\ overlapped \in BOOLEAN
      /\ Capacity \in Nat \ {0} /\ Rows = 0 .. Capacity - 1
      /\ rows \in [Rows -> RowType]
  BY LenProperties, TopAssumption, RowsTyped DEF ViewInv, ViewTyped, Rows
<1>h. \A r \in Rows : Hits(r) \in Nat
  BY HitsType
<1>c. \A r \in Rows, c \in Counters :
         floor[r].count[c] \in Nat /\ rows[r].count[c] \in Nat
  BY <1>t, CountsTyped
<1>k. ASSUME Calm
      PROVE  /\ \A r \in Rows : Unused(r) => floor[r].count["hits"] = 0
             /\ Cardinality(Filled) <= Cardinality(Used(vi))
             /\ \E at \in [Due(vi) -> Filled] :
                   \A r, s \in Due(vi) : Shows(view[at[r]], r) /\ (at[r] = at[s] => r = s)
  <2> SUFFICES ASSUME NEW r \in Rows, Unused(r) PROVE floor[r].count["hits"] = 0
    BY <1>k DEF ViewInv, ShowInv
  <2>1. floor[r].count["hits"] <= rows[r].count["hits"] /\ floor[r].count["hits"] \in Nat
    BY <1>k, <1>c DEF ViewInv, CalmInv, Counters
  <2> QED BY <2>1 DEF Unused, Hits
(* What is left to show of a step that goes on with the walk.              *)
<1> DEFINE Goes == vpc # "idle" /\ vpc' # "idle" /\ UNCHANGED <<floor, overlapped>>
<1>g. ASSUME Goes PROVE CalmInv' /\ (Calm' => Calm) /\ \A n : Due(n)' = Due(n)
  <2>1. Calm' => Calm
    BY <1>g DEF Calm
  <2>2. \A n : Due(n)' = Due(n)
    BY <1>g DEF Due
  <2> QED BY <2>1, <2>2, <1>g, <1>u DEF ViewInv, CalmInv
<1>s. ASSUME NEW D, NEW F, Due(vi)' = D, Filled' = F, floor' = floor,
             \E at \in [D -> F] : \A r, s \in D : Shows(view'[at[r]], r) /\ (at[r] = at[s] => r = s)
      PROVE  \E at \in [Due(vi)' -> Filled'] :
                \A r, s \in Due(vi)' : Shows(view[at[r]], r)' /\ (at[r] = at[s] => r = s)
  <2>1. PICK at \in [D -> F] : \A r, s \in D : Shows(view'[at[r]], r) /\ (at[r] = at[s] => r = s)
    BY <1>s
  <2>2. \A r : Shows(view[at[r]], r)' = Shows(view'[at[r]], r)
    BY <1>s, <1>u DEF Shows
  <2> QED BY <1>s, <2>1, <2>2
<1>1. CASE StartView
  <2>1. /\ vpc' = "test" /\ vi' = 0 /\ view' = <<>> /\ overlapped' \in BOOLEAN
        /\ overlapped' = (\E w \in Workers : Inserting(w))
        /\ floor' = IF overlapped' THEN None ELSE rows
    BY <1>1 DEF StartView, ViewGoto
  <2>2. None \in [Rows -> RowType]
    BY ZeroTyped DEF None
  <2>3. ViewTyped'
    BY <2>1, <2>2, <1>t, EmptySeq DEF ViewTyped
  <2>4. CalmInv'
    <3> SUFFICES ASSUME Calm' PROVE CalmInv'
      BY DEF CalmInv
    <3>1. floor' = rows /\ \A w \in Workers : ~Inserting(w)
      BY <2>1 DEF Calm
    <3> QED BY <3>1, <1>u, <1>c DEF CalmInv
  <2>5. Due(vi)' = {} /\ Used(vi)' = {} /\ Filled' = {}
    <3>1. \A r \in Rows : ~(r < 0)
      BY <1>t
    <3>2. Len(view') = 0 /\ 1 .. 0 = {}
      BY <2>1
    <3> QED BY <2>1, <3>1, <3>2 DEF Due, Used, Filled
  <2>6. ShowInv'
    <3> DEFINE at == [r \in {} |-> 0]
    <3>1. at \in [{} -> {}]
      OBVIOUS
    <3> HIDE DEF at
    <3>2. \E a \in [Due(vi)' -> Filled'] :
             \A r, s \in Due(vi)' : Shows(view[a[r]], r)' /\ (a[r] = a[s] => r = s)
      BY <2>5, <3>1
    <3>3. Cardinality(Filled') <= Cardinality(Used(vi)')
      BY <2>5, FS_EmptySet
    <3> QED BY <2>1, <3>2, <3>3 DEF ShowInv
  <2> QED BY <2>1, <2>3, <2>4, <2>6 DEF ViewInv
<1>2. CASE SkipRow
  <2>1. /\ vpc = "test" /\ vi < Capacity /\ Unused(vi) /\ vi' = vi + 1 /\ vi \in Rows
        /\ UNCHANGED <<vpc, view, views, floor, overlapped>> /\ Goes
    BY <1>2, <1>t DEF SkipRow
  <2>2. ViewTyped'
    BY <2>1, <1>t DEF ViewTyped
  <2>3. ShowInv'
    <3> SUFFICES ASSUME Calm' PROVE ShowInv'
      BY DEF ShowInv
    <3>1. Calm /\ floor[vi].count["hits"] = 0
      BY <1>k, <1>g, <2>1
    <3>2. \A r \in Rows : r < vi + 1 <=> r < vi \/ r = vi
      BY <1>t
    <3>3. Due(vi)' = Due(vi) /\ Used(vi)' = Used(vi) /\ Filled' = Filled
      BY <2>1, <3>1, <3>2, <1>u DEF Due, Used, Filled, Unused, Hits
    <3>4. \A entry, r : Shows(entry, r)' = Shows(entry, r)
      BY <2>1, <1>u DEF Shows
    <3> QED BY <1>k, <2>1, <3>1, <3>3, <3>4 DEF ShowInv
  <2> QED BY <1>g, <2>1, <2>2, <2>3 DEF ViewInv
<1>3. CASE FindRow
  <2>1. /\ vpc = "test" /\ vpc' = "name" /\ vi < Capacity /\ ~Unused(vi) /\ vi \in Rows
        /\ UNCHANGED <<vi, view, views, floor, overlapped>> /\ Goes
    BY <1>3, <1>t DEF FindRow, ViewGoto
  <2>2. ViewTyped'
    BY <2>1, <1>t DEF ViewTyped
  <2>3. ShowInv'
    <3> SUFFICES ASSUME Calm' PROVE ShowInv'
      BY DEF ShowInv
    <3>1. Calm
      BY <1>g, <2>1
    <3>2. Due(vi)' = Due(vi) /\ Used(vi)' = Used(vi) /\ Filled' = Filled /\ ~Unused(vi)'
      BY <2>1, <1>u DEF Due, Used, Filled, Unused, Hits
    <3>3. \A entry, r : Shows(entry, r)' = Shows(entry, r)
      BY <2>1, <1>u DEF Shows
    <3> QED BY <1>k, <2>1, <3>1, <3>2, <3>3 DEF ShowInv
  <2> QED BY <1>g, <2>1, <2>2, <2>3 DEF ViewInv
<1>4. CASE CopyName
  <2> DEFINE new == [name |-> rows[vi].name, count |-> ZeroRow.count]
  <2>1. /\ vpc = "name" /\ vpc' = "hits" /\ vi \in Rows
        /\ view' = Append(view, new)
        /\ UNCHANGED <<vi, views, floor, overlapped>> /\ Goes
    BY <1>4 DEF CopyName, ViewGoto, ViewInv, ViewTyped
  <2>2. new \in EntryType
    <3>1. rows[vi].name \in Names /\ ZeroRow.count \in [Counters -> Nat]
      BY <2>1, <1>t, ZeroTyped DEF RowType
    <3> QED BY <3>1 DEF EntryType
  <2>3. new.name = rows[vi].name
    OBVIOUS
  <2> HIDE DEF new
  <2>4. /\ view' \in Seq(EntryType) /\ view' # <<>> /\ Len(view') = Len(view) + 1
        /\ \A m \in 1 .. Len(view) : view'[m] = view[m]
        /\ view'[Len(view) + 1] = new
    BY <2>1, <2>2, <1>t, AppendProperties
  <2>5. ViewTyped'
    BY <2>1, <2>4, <1>t DEF ViewTyped
  <2>6. ShowInv'
    <3> SUFFICES ASSUME Calm' PROVE ShowInv'
      BY DEF ShowInv
    <3>1. Calm
      BY <1>g, <2>1
    <3>2. Due(vi)' = Due(vi) /\ Used(vi)' = Used(vi) /\ Filled' = Filled /\ Unused(vi)' = Unused(vi)
      BY <2>1, <2>4, <1>t, <1>u DEF Due, Used, Filled, Unused, Hits
    <3>3. \A m \in Filled : view'[m] = view[m]
      BY <2>1, <2>4 DEF Filled
    <3>4. \E at \in [Due(vi) -> Filled] :
             \A r, s \in Due(vi) : Shows(view'[at[r]], r) /\ (at[r] = at[s] => r = s)
      BY <1>k, <3>1, <3>3
    <3>6. view'[Len(view')].name = floor'[vi'].name
      BY <2>1, <2>3, <2>4, <3>1 DEF ViewInv, CalmInv
    <3>7. ~Unused(vi)'
      BY <2>1, <3>1, <3>2 DEF ViewInv, ShowInv
    <3>8. \E at \in [Due(vi)' -> Filled'] :
             \A r, s \in Due(vi)' : Shows(view[at[r]], r)' /\ (at[r] = at[s] => r = s)
      <4>1. Due(vi)' = Due(vi) /\ Filled' = Filled /\ floor' = floor
        BY <2>1, <3>2
      <4> QED BY <1>s, <3>4, <4>1
    <3>9. Cardinality(Filled') <= Cardinality(Used(vi)')
      BY <1>k, <3>1, <3>2
    <3> QED BY <2>1, <3>6, <3>7, <3>8, <3>9 DEF ShowInv
  <2> QED BY <1>g, <2>1, <2>5, <2>6 DEF ViewInv
<1>5. CASE CopyHits
  <2> DEFINE last == view[Len(view)]
             new == [last EXCEPT !.count["hits"] = Hits(vi)]
  <2>1. /\ vpc = "hits" /\ vpc' = "rest" /\ vi \in Rows /\ view # <<>>
        /\ view' = [view EXCEPT ![Len(view)].count["hits"] = Hits(vi)]
        /\ UNCHANGED <<vi, views, floor, overlapped>> /\ Goes
    BY <1>5 DEF CopyHits, ViewGoto, ViewInv, ViewTyped
  <2>2. last \in EntryType /\ Len(view) \in Nat \ {0}
    BY <2>1, <1>t, EmptySeq
  <2>3. view' = [view EXCEPT ![Len(view)] = new]
    BY <2>1
  <2>4. new \in EntryType /\ new.name = last.name /\ HitsOf(new) = Hits(vi)
    BY <2>1, <2>2, <1>h DEF EntryType, HitsOf, Counters
  <2> HIDE DEF new
  <2>5. /\ view' \in Seq(EntryType) /\ Len(view') = Len(view) /\ view' # <<>>
        /\ view'[Len(view)] = new /\ \A m \in 1 .. Len(view) - 1 : view'[m] = view[m]
    <3>1. view \in Seq(EntryType) /\ view # <<>> /\ new \in EntryType
      BY <2>1, <2>4, <1>t
    <3> QED BY <2>3, <3>1, LastSet
  <2>6. ViewTyped'
    BY <2>1, <2>5, <1>t DEF ViewTyped
  <2>7. ShowInv'
    <3> SUFFICES ASSUME Calm' PROVE ShowInv'
      BY DEF ShowInv
    <3>1. Calm
      BY <1>g, <2>1
    <3>2. Due(vi)' = Due(vi) /\ Used(vi)' = Used(vi) /\ Filled' = Filled /\ Unused(vi)' = Unused(vi)
      BY <2>1, <2>5, <1>u DEF Due, Used, Filled, Unused, Hits
    <3>3. \A m \in Filled : view'[m] = view[m]
      BY <2>1, <2>5 DEF Filled
    <3>4. \E at \in [Due(vi) -> Filled] :
             \A r, s \in Due(vi) : Shows(view'[at[r]], r) /\ (at[r] = at[s] => r = s)
      BY <1>k, <3>1, <3>3
    <3>6. view'[Len(view')].name = floor'[vi'].name /\ ~Unused(vi)'
      BY <2>1, <2>4, <2>5, <3>1, <3>2 DEF ViewInv, ShowInv
    <3>7. /\ floor'[vi'].count["hits"] <= HitsOf(view'[Len(view')])
          /\ HitsOf(view'[Len(view')]) <= Hits(vi)'
      <4>1. floor[vi].count["hits"] <= Hits(vi)
        BY <2>1, <3>1 DEF ViewInv, CalmInv, Counters, Hits
      <4>2. Hits(vi)' = Hits(vi)
        BY <2>1, <1>u DEF Hits
      <4> QED BY <1>h, <2>1, <2>4, <2>5, <4>1, <4>2
    <3>8. \E at \in [Due(vi)' -> Filled'] :
             \A r, s \in Due(vi)' : Shows(view[at[r]], r)' /\ (at[r] = at[s] => r = s)
      <4>1. Due(vi)' = Due(vi) /\ Filled' = Filled /\ floor' = floor
        BY <2>1, <3>2
      <4> QED BY <1>s, <3>4, <4>1
    <3>9. Cardinality(Filled') <= Cardinality(Used(vi)')
      BY <1>k, <3>1, <3>2
    <3> QED BY <2>1, <3>6, <3>7, <3>8, <3>9 DEF ShowInv
  <2> QED BY <1>g, <2>1, <2>6, <2>7 DEF ViewInv
<1>6. CASE CopyRest
  <2> DEFINE n == Len(view)
             last == view[n]
             new == [last EXCEPT !.count = [rows[vi].count EXCEPT !["hits"] = HitsOf(last)]]
  <2>1. /\ vpc = "rest" /\ vpc' = "test" /\ vi \in Rows /\ view # <<>> /\ vi' = vi + 1
        /\ view' = [view EXCEPT ![n].count = [rows[vi].count EXCEPT !["hits"] = HitsOf(last)]]
        /\ UNCHANGED <<views, floor, overlapped>> /\ Goes
    BY <1>6 DEF CopyRest, ViewGoto, ViewInv, ViewTyped, Last
  <2>2. last \in EntryType /\ n \in Nat \ {0} /\ HitsOf(last) \in Nat
    BY <2>1, <1>t, EmptySeq, HitsOfType
  <2>3. view' = [view EXCEPT ![n] = new]
    BY <2>1
  <2>4. /\ new \in EntryType /\ new.name = last.name /\ HitsOf(new) = HitsOf(last)
        /\ \A c \in Counters : c # "hits" => new.count[c] = rows[vi].count[c]
    <3>1. rows[vi].count \in [Counters -> Nat]
      BY <2>1, <1>t DEF RowType
    <3> QED BY <2>2, <3>1 DEF EntryType, HitsOf, Counters
  <2> HIDE DEF new
  <2>5. /\ view' \in Seq(EntryType) /\ Len(view') = n /\ view' # <<>>
        /\ view'[n] = new /\ \A m \in 1 .. n - 1 : view'[m] = view[m]
    BY <2>1, <2>3, <2>4, <1>t, LastSet
  <2>6. ViewTyped'
    <3>1. vi + 1 \in 0 .. Capacity
      BY <2>1, <1>t
    <3> QED BY <2>1, <2>5, <3>1, <1>t DEF ViewTyped
  <2>7. ShowInv'
    <3> SUFFICES ASSUME Calm' PROVE ShowInv'
      BY DEF ShowInv
    <3>1. /\ Calm /\ ~Unused(vi) /\ last.name = floor[vi].name
          /\ floor[vi].count["hits"] <= HitsOf(last) /\ HitsOf(last) <= Hits(vi)
      BY <1>g, <2>1 DEF ViewInv, ShowInv
    <3>2. \A r \in Rows : r < vi + 1 <=> r < vi \/ r = vi
      BY <1>t
    <3>3. Used(vi)' = Used(vi) \cup {vi} /\ vi \notin Used(vi)
      BY <2>1, <3>1, <3>2, <1>t, <1>u DEF Used, Unused, Hits
    <3>4. Due(vi)' \subseteq Due(vi) \cup {vi} /\ Due(vi) \subseteq Due(vi)' /\ vi \notin Due(vi)
      BY <2>1, <3>2, <1>t DEF Due
    <3>5. Filled = 1 .. n - 1 /\ Filled' = 1 .. n
      BY <2>1, <2>5 DEF Filled
    <3>6. Cardinality(Filled') <= Cardinality(Used(vi)')
      <4>1. Cardinality(Filled) = n - 1 /\ Cardinality(Filled') = n
        <5>1. Cardinality(1 .. n - 1) = n - 1 /\ Cardinality(1 .. n) = n
          <6> HIDE DEF n
          <6>1. 0 + 1 = 1 /\ n - 1 \in Nat
            BY <2>2
          <6> QED BY <2>2, <6>1, FS_Interval
        <5> QED BY <3>5, <5>1
      <4>2. Cardinality(Used(vi) \cup {vi}) = Cardinality(Used(vi)) + 1
        BY <3>3, UsedFinite, FS_AddElement
      <4>3. Cardinality(Filled) <= Cardinality(Used(vi))
        BY <1>k, <3>1
      <4>4. Cardinality(Used(vi)) \in Nat
        BY UsedFinite
      <4> HIDE DEF n
      <4> QED BY <2>2, <3>3, <4>1, <4>2, <4>3, <4>4
    <3>7. PICK D : D = Due(vi)'
      OBVIOUS
    <3>8. Shows(new, vi)
      <4>1. new.name = floor[vi].name
        BY <2>4, <3>1
      <4>2. ASSUME NEW c \in Counters
            PROVE  floor[vi].count[c] <= new.count[c] /\ new.count[c] <= rows[vi].count[c]
        <5>1. CASE c = "hits"
          BY <2>4, <3>1, <5>1 DEF HitsOf, Hits
        <5>2. CASE c # "hits"
          <6>1. floor[vi].count[c] <= rows[vi].count[c]
            BY <2>1, <3>1 DEF ViewInv, CalmInv
          <6>2. new.count[c] = rows[vi].count[c] /\ rows[vi].count[c] \in Nat
            BY <1>c, <2>1, <2>4, <5>2
          <6> QED BY <6>1, <6>2
        <5> QED BY <5>1, <5>2
      <4> QED BY <4>1, <4>2 DEF Shows
    <3>9. PICK at \in [Due(vi) -> Filled] :
             \A r, s \in Due(vi) : Shows(view[at[r]], r) /\ (at[r] = at[s] => r = s)
      BY <1>k, <3>1
    <3> DEFINE to == [r \in D |-> IF r = vi THEN n ELSE at[r]]
    <3>10. \A r \in Due(vi) : at[r] \in 1 .. n - 1 /\ to[r] = at[r] /\ at[r] # n
      <4> SUFFICES ASSUME NEW r \in Due(vi) PROVE at[r] \in 1 .. n - 1 /\ to[r] = at[r] /\ at[r] # n
        OBVIOUS
      <4>1. at[r] \in 1 .. n - 1
        BY <3>5, <3>9
      <4>2. to[r] = at[r]
        BY <3>4, <3>7
      <4> QED BY <2>2, <4>1, <4>2
    <3>11. vi \in D => to[vi] = n
      OBVIOUS
    <3>12. \A r \in D : r = vi \/ r \in Due(vi)
      BY <3>4, <3>7
    <3>13. to \in [D -> 1 .. n]
      <4>1. \A r \in D : to[r] \in 1 .. n
        <5> HIDE DEF to, n
        <5> QED BY <2>2, <3>10, <3>11, <3>12
      <4> QED BY <4>1
    <3> HIDE DEF to
    <3>14. ASSUME NEW r \in D PROVE Shows(view'[to[r]], r)
      <4>1. CASE r = vi
        BY <2>5, <3>8, <3>11, <4>1
      <4>2. CASE r # vi
        <5>1. r \in Due(vi)
          BY <3>12, <4>2
        <5>2. view'[to[r]] = view[at[r]]
          BY <2>5, <3>10, <5>1
        <5>3. Shows(view[at[r]], r)
          BY <3>9, <5>1
        <5> QED BY <5>2, <5>3
      <4> QED BY <4>1, <4>2
    <3>15. ASSUME NEW r \in D, NEW s \in D, to[r] = to[s] PROVE r = s
      <4> HIDE DEF n
      <4> QED BY <3>9, <3>10, <3>11, <3>12, <3>15
    <3>16. \E a \in [Due(vi)' -> Filled'] :
              \A r, s \in Due(vi)' : Shows(view[a[r]], r)' /\ (a[r] = a[s] => r = s)
      <4>1. \E a \in [D -> 1 .. n] : \A r, s \in D : Shows(view'[a[r]], r) /\ (a[r] = a[s] => r = s)
        BY <3>13, <3>14, <3>15
      <4> HIDE DEF n
      <4>2. PICK F : F = 1 .. n
        OBVIOUS
      <4>3. Due(vi)' = D /\ Filled' = F /\ floor' = floor
        BY <2>1, <3>5, <3>7, <4>2
      <4>4. \E a \in [D -> F] : \A r, s \in D : Shows(view'[a[r]], r) /\ (a[r] = a[s] => r = s)
        BY <4>1, <4>2
      <4> QED BY <1>s, <4>3, <4>4
    <3> QED BY <2>1, <3>6, <3>16 DEF ShowInv
  <2> QED BY <1>g, <2>1, <2>6, <2>7 DEF ViewInv
<1>7. CASE EndView
  <2>1. /\ vpc = "test" /\ vpc' = "written" /\ vi = Capacity
        /\ view' = IF kind = "top" THEN SortTop(view) ELSE view
        /\ UNCHANGED <<vi, views, floor, overlapped>> /\ Goes
    BY <1>7 DEF EndView, ViewGoto
  <2>2. /\ view' \in Seq(EntryType) /\ Len(view') = Len(view)
        /\ kind = "top" => Ranked(view')
        /\ \E p : Arranges(view', view, p)
    <3>1. CASE kind = "top"
      BY <1>t, <2>1, <3>1, SortRanks
    <3>2. CASE kind # "top"
      <4> DEFINE p == [m \in DOMAIN view |-> m]
      <4>1. Arranges(view, view, p)
        BY DEF Arranges, OneToOne
      <4> HIDE DEF p
      <4> QED BY <1>t, <2>1, <3>2, <4>1
    <3> QED BY <3>1, <3>2
  <2>3. ViewTyped'
    <3>1. Capacity \in 0 .. Capacity
      BY <1>t
    <3> QED BY <1>t, <2>1, <2>2, <3>1 DEF ViewTyped
  <2>4. ShowInv'
    <3> SUFFICES ASSUME Calm' PROVE ShowInv'
      BY DEF ShowInv
    <3>1. Calm
      BY <1>g, <2>1
    <3>2. Due(vi)' = Due(vi) /\ Used(vi)' = Used(vi) /\ Filled' = Filled
      BY <2>1, <2>2, <1>u DEF Due, Used, Filled, Unused, Hits
    <3>3. Cardinality(Filled') <= Cardinality(Used(vi)')
      BY <1>k, <3>1, <3>2
    <3>4. Filled = DOMAIN view /\ Filled = DOMAIN view'
      BY <1>t, <2>1, <2>2, LenProperties DEF Filled
    <3>5. PICK at \in [Due(vi) -> Filled] :
             \A r, s \in Due(vi) : Shows(view[at[r]], r) /\ (at[r] = at[s] => r = s)
      BY <1>k, <3>1
    <3>6. PICK p : Arranges(view', view, p)
      BY <2>2
    <3>7. /\ p \in [Filled -> Filled] /\ \A m \in Filled : view'[p[m]] = view[m]
          /\ \A a, b \in Filled : p[a] = p[b] => a = b
      BY <3>4, <3>6 DEF Arranges, OneToOne
    <3> DEFINE to == [r \in Due(vi) |-> p[at[r]]]
    <3>8. to \in [Due(vi) -> Filled]
      BY <3>5, <3>7
    <3>9. \A r, s \in Due(vi) : Shows(view'[to[r]], r) /\ (to[r] = to[s] => r = s)
      <4> SUFFICES ASSUME NEW r \in Due(vi), NEW s \in Due(vi)
                   PROVE  Shows(view'[to[r]], r) /\ (to[r] = to[s] => r = s)
        OBVIOUS
      <4>1. at[r] \in Filled /\ at[s] \in Filled /\ to[r] = p[at[r]] /\ to[s] = p[at[s]]
        BY <3>5
      <4>2. Shows(view[at[r]], r) /\ (at[r] = at[s] => r = s)
        BY <3>5
      <4>3. view'[p[at[r]]] = view[at[r]]
        BY <3>7, <4>1
      <4>4. p[at[r]] = p[at[s]] => at[r] = at[s]
        BY <3>7, <4>1
      <4> HIDE DEF to
      <4> QED BY <4>1, <4>2, <4>3, <4>4
    <3> HIDE DEF to
    <3>10. \E a \in [Due(vi)' -> Filled'] :
              \A r, s \in Due(vi)' : Shows(view[a[r]], r)' /\ (a[r] = a[s] => r = s)
      BY <1>s, <2>1, <3>2, <3>8, <3>9
    <3> QED BY <2>1, <3>3, <3>10 DEF ShowInv
  <2> QED BY <1>g, <1>u, <2>1, <2>2, <2>3, <2>4 DEF ViewInv, Ranked
<1>8. CASE FreeView
  <2>1. vpc' = "idle" /\ vi' = 0 /\ view' = <<>> /\ floor' = None /\ overlapped' = FALSE
    BY <1>8 DEF FreeView, ViewGoto
  <2>2. None \in [Rows -> RowType]
    BY ZeroTyped DEF None
  <2>3. ViewTyped'
    <3>1. 0 \in 0 .. Capacity
      BY <1>t
    <3> QED BY <2>1, <2>2, <3>1, EmptySeq DEF ViewTyped
  <2>4. CalmInv' /\ ShowInv'
    BY <2>1 DEF CalmInv, ShowInv, Calm
  <2> QED BY <2>1, <2>3, <2>4 DEF ViewInv
<1> QED BY <1>1, <1>2, <1>3, <1>4, <1>5, <1>6, <1>7, <1>8 DEF View

LEMMA HonestIn == ViewInv => ViewHonest
<1> SUFFICES ASSUME ViewInv, vpc = "written" PROVE ViewHonest
  BY DEF ViewHonest
<1>1. kind = "top" => \A m, n \in DOMAIN view : m < n => HitsOf(view[m]) >= HitsOf(view[n])
  BY DEF ViewInv, Ranked
<1> DEFINE before == {r \in Rows : floor[r].count["hits"] > 0}
           used == {r \in Rows : ~Unused(r)}
<1>2. ASSUME ~overlapped
      PROVE  /\ Len(view) <= Cardinality(used)
             /\ \E at \in [before -> DOMAIN view] :
                   \A r, s \in before : Shows(view[at[r]], r) /\ (at[r] = at[s] => r = s)
  <2>1. /\ vi = Capacity /\ Cardinality(Filled) <= Cardinality(Used(vi))
        /\ \E at \in [Due(vi) -> Filled] :
              \A r, s \in Due(vi) : Shows(view[at[r]], r) /\ (at[r] = at[s] => r = s)
    BY <1>2 DEF ViewInv, ShowInv, Calm
  <2>2. \A r \in Rows : r < Capacity
    BY TopAssumption DEF Rows
  <2>3. Due(vi) = before /\ Used(vi) = used
    BY <2>1, <2>2 DEF Due, Used
  <2>4. Len(view) \in Nat /\ DOMAIN view = 1 .. Len(view) /\ Filled = 1 .. Len(view)
    BY LenProperties DEF ViewInv, ViewTyped, Filled
  <2>5. Cardinality(Filled) = Len(view)
    <3>1. Cardinality(1 .. Len(view)) = Len(view)
      <4>1. 1 \in Int /\ Len(view) \in Int
        BY <2>4
      <4>2. Cardinality(1 .. Len(view)) = IF 1 > Len(view) THEN 0 ELSE Len(view) - 1 + 1
        BY <4>1, FS_Interval
      <4> QED BY <2>4, <4>2
    <3> QED BY <2>4, <3>1
  <2> HIDE DEF before, used
  <2> QED BY <2>1, <2>3, <2>4, <2>5
<1> QED BY <1>1, <1>2 DEF ViewHonest

(* A list of top entries is ranked however the rows change while they are  *)
(* copied, and as long as no insertion overlaps the walk, it shows every   *)
(* row that was in use when it began once, for every table and any number  *)
(* of workers: the walk and the sort of json_top_entries.                  *)
THEOREM ViewIsHonest == ViewSpec => []ViewHonest
<1>1. ViewInit => Typed /\ ViewInv
  BY InitView
<1>2. Typed /\ ViewInv /\ [ViewNext]_<<vars, viewVars>> => Typed' /\ ViewInv'
  <2> SUFFICES ASSUME Typed, ViewInv, [ViewNext]_<<vars, viewVars>> PROVE Typed' /\ ViewInv'
    OBVIOUS
  <2>1. [Next]_vars
    BY DEF ViewNext, Table, View
  <2>2. Typed'
    BY <2>1, StepTyped
  <2>3. CASE Table
    BY <2>2, <2>3, TableView
  <2>4. CASE View
    BY <2>2, <2>4, WalkView
  <2>5. CASE UNCHANGED <<vars, viewVars>>
    <3>1. /\ UNCHANGED <<vpc, vi, view, floor, overlapped>>
          /\ UNCHANGED <<rows, pc, kind>>
      BY <2>5 DEF vars, locals, ghosts, viewVars
    <3>2. ViewTyped'
      BY <3>1 DEF ViewInv, ViewTyped
    <3>3. CalmInv'
      BY <3>1 DEF ViewInv, CalmInv, Calm, Inserting
    <3>4. ShowInv'
      <4>1. (Calm' = Calm) /\ Due(vi)' = Due(vi) /\ Used(vi)' = Used(vi) /\ Filled' = Filled
        BY <3>1 DEF Calm, Due, Used, Filled, Unused, Hits
      <4>2. \A entry, r : Shows(entry, r)' = Shows(entry, r)
        BY <3>1 DEF Shows
      <4>3. Unused(vi)' = Unused(vi) /\ Hits(vi)' = Hits(vi)
        BY <3>1 DEF Unused, Hits
      <4> QED BY <3>1, <4>1, <4>2, <4>3 DEF ViewInv, ShowInv
    <3>5. (vpc = "written" /\ kind = "top" => Ranked(view))'
      BY <3>1 DEF ViewInv, Ranked
    <3> QED BY <2>2, <3>2, <3>3, <3>4, <3>5 DEF ViewInv
  <2> QED BY <2>2, <2>3, <2>4, <2>5 DEF ViewNext
<1>3. ViewInv => ViewHonest
  BY HonestIn
<1> QED BY <1>1, <1>2, <1>3, PTL DEF ViewSpec
=============================================================================

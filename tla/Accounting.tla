------------------------------ MODULE Accounting ------------------------------
(***************************************************************************)
(* The log-phase handler: each worker adds a finished request to the       *)
(* shared counters, one atomic addition after the other, while the other   *)
(* workers do the same and readers compute percentiles from the latency    *)
(* histogram.  The tables of URLs, user agents and peers that follow the   *)
(* counters in account_request are the subject of module TopTable.         *)
(***************************************************************************)
EXTENDS Integers, Sequences, FiniteSetsExt

CONSTANTS
    Workers,
    SlotOf,         \* the row of sh->workers[] each worker uses
    Methods,        \* the methods that have a counter, in the code's order
    LatencyBounds,  \* upper bounds of the latency buckets but the last
    SizeBounds,     \* upper bounds of the size buckets but the last
    Requests,       \* the finished requests: see RequestType
    Earlier,        \* requests that may have been counted before
    Percentiles,    \* the percentiles a reader asks for
    MaxRequests, MaxReads, MaxCrashes

Slow == 30000     \* milliseconds above which a worker counts an error

RequestType == [endpoint : BOOLEAN, method : STRING, status : Nat, ms : Int,
                length : Int, ssl : BOOLEAN, nth : Nat \ {0}]

ASSUME AccountingAssumption ==
    /\ IsFiniteSet(Workers)
    /\ Methods \in Seq(STRING) /\ SizeBounds \in Seq(Nat) /\ LatencyBounds \in Seq(0 .. Slow)
    /\ \A a, b \in DOMAIN LatencyBounds : a < b => LatencyBounds[a] <= LatencyBounds[b]
    /\ IsFiniteSet(Requests) /\ Requests # {}
    /\ Requests \subseteq RequestType /\ Earlier \subseteq Requests
    /\ Percentiles \subseteq 1 .. 100
    /\ MaxRequests \in Nat /\ MaxReads \in Nat /\ MaxCrashes \in Nat

VARIABLES
    count,        \* the counters of shared memory
    req, todo,    \* of a worker: its request and the additions still to make
    reqs, crashes,
    rpc, ri, rtotal, rcount, rp, result, reads,   \* a reader in percentile
    observed,     \* latencies in the histogram, as a bag
    undisturbed   \* nothing was added to the histogram during the read

reader == <<rpc, ri, rtotal, rcount, rp, result, reads, undisturbed>>
vars   == <<count, req, todo, reqs, crashes, reader, observed>>

-----------------------------------------------------------------------------
(* Which bucket: the first whose bound is not exceeded, else the last.     *)
BucketOf(bounds, n) ==
    IF \E b \in DOMAIN bounds : n <= bounds[b]
      THEN Min({b \in DOMAIN bounds : n <= bounds[b]}) - 1
      ELSE Len(bounds)

(* Mutation: a latency equal to a bound goes to the next bucket.           *)
LatencyBucket_Below(ms) ==
    IF \E b \in DOMAIN LatencyBounds : ms < LatencyBounds[b]
      THEN Min({b \in DOMAIN LatencyBounds : ms < LatencyBounds[b]}) - 1
      ELSE Len(LatencyBounds)

LatencyBucket(ms) == BucketOf(LatencyBounds, ms)

SizeBucket(bytes) == BucketOf(SizeBounds, bytes)

MethodIndex(m) ==
    IF \E k \in DOMAIN Methods : Methods[k] = m
      THEN CHOOSE k \in DOMAIN Methods : Methods[k] = m ELSE Len(Methods) + 1

StatusClass(s) ==
    IF s < 200 THEN 1 ELSE IF s < 300 THEN 2 ELSE IF s < 400 THEN 3
    ELSE IF s < 500 THEN 4 ELSE 5

(* A clock that went backwards gives no negative latency, a response       *)
(* without a length counts no bytes, a request without a status is a 499.  *)
Latency(r) == IF r.ms > 0 THEN r.ms ELSE 0
Bytes(r)   == IF r.length < 0 THEN 0 ELSE r.length
Status(r)  == IF r.status = 0 THEN 499 ELSE r.status

One(name, index) == <<[counter |-> <<name, index>>, by |-> 1]>>
Some(name, index, n) == <<[counter |-> <<name, index>>, by |-> n]>>
If(condition, additions) == IF condition THEN additions ELSE <<>>

(* A slow request and a 5xx answer are each an error of the worker.        *)
WorkerAdditions(w, r) ==
    One("wrequests", SlotOf[w]) \o Some("wbytes", SlotOf[w], Bytes(r))
    \o If(Latency(r) > Slow, One("werrors", SlotOf[w]))
    \o If(Status(r) >= 500, One("werrors", SlotOf[w]))

(* Mutation: an answer without a status is left out of the classes.        *)
Additions_NoStatus(w, r) ==
    One("total", 0) \o One("responses", 0)
    \o Some("bytes", 0, Bytes(r)) \o Some("time", 0, Latency(r))
    \o One("method", MethodIndex(r.method))
    \o One("latency", LatencyBucket(Latency(r)))
    \o One("size", SizeBucket(Bytes(r)))
    \o If(r.status # 0, One("status", StatusClass(r.status)))
    \o WorkerAdditions(w, r)

Additions(w, r) ==
    One("total", 0) \o One("responses", 0)
    \o Some("bytes", 0, Bytes(r)) \o Some("time", 0, Latency(r))
    \o One("method", MethodIndex(r.method))
    \o One("latency", LatencyBucket(Latency(r)))
    \o One("size", SizeBucket(Bytes(r)))
    \o One("status", StatusClass(Status(r)))
    \o If(r.ssl, One("ssl_requests", 0) \o If(r.nth <= 1, One("ssl_handshakes", 0)))
    \o If(r.nth > 1, One("keepalive", 0))
    \o WorkerAdditions(w, r)

Single == {"total", "responses", "bytes", "time", "ssl_requests", "ssl_handshakes",
           "keepalive"}

(* The indices of each group of counters.                                  *)
Indices ==
    [name \in Single \cup {"method", "latency", "size", "status", "wrequests", "wbytes",
                           "werrors"} |->
        CASE name \in Single   -> {0}
          [] name = "method"   -> 1 .. Len(Methods) + 1
          [] name = "latency"  -> 0 .. Len(LatencyBounds)
          [] name = "size"     -> 0 .. Len(SizeBounds)
          [] name = "status"   -> 1 .. 5
          [] OTHER             -> {SlotOf[w] : w \in Workers}]

Counters == UNION {{name} \X Indices[name] : name \in DOMAIN Indices}

-----------------------------------------------------------------------------
(* What a request adds to a counter.                                       *)
Added(w, r, c) ==
    LET list == Additions(w, r)
    IN  MapThenSumSet(LAMBDA k : list[k].by, {k \in DOMAIN list : list[k].counter = c})

(* And what a set of requests does.                                        *)
AddedBy(w, requests, c) == MapThenSumSet(LAMBDA r : Added(w, r, c), requests)

NoRequest == CHOOSE r \in Requests : TRUE    \* no matter which

Busy(w) == todo[w] # <<>>

(* The zone is new, or a reload kept what was counted.                     *)
Init ==
    /\ \E before \in SUBSET Earlier, w \in Workers :
          /\ count = [c \in Counters |-> AddedBy(w, before, c)]
          /\ observed = [ms \in {Latency(r) : r \in Requests} |->
                              Cardinality({r \in before : Latency(r) = ms})]
    /\ req = [w \in Workers |-> NoRequest]
    /\ todo = [w \in Workers |-> <<>>]
    /\ reqs = 0 /\ crashes = 0
    /\ rpc = "idle" /\ ri = 0 /\ rtotal = 0 /\ rcount = 0 /\ rp = 0 /\ result = 0
    /\ reads = 0
    /\ undisturbed = TRUE

(* log_handler: requests to the monitoring endpoints are not counted.      *)
LogHandler(w) ==
    /\ ~Busy(w) /\ reqs < MaxRequests
    /\ \E r \in Requests :
          IF r.endpoint THEN UNCHANGED <<req, todo>>
          ELSE /\ req' = [req EXCEPT ![w] = r]
               /\ todo' = [todo EXCEPT ![w] = Additions(w, r)]
    /\ reqs' = reqs + 1
    /\ UNCHANGED <<count, crashes, reader, observed>>

AddNext(w) ==
    /\ Busy(w)
    /\ LET a == Head(todo[w]) IN
       /\ count' = [count EXCEPT ![a.counter] = @ + a.by]
       /\ IF a.counter[1] = "latency"
            THEN /\ observed' = [observed EXCEPT ![Latency(req[w])] = @ + 1]
                 /\ undisturbed' = FALSE
            ELSE UNCHANGED <<observed, undisturbed>>
    /\ todo' = [todo EXCEPT ![w] = Tail(@)]
    /\ req' = IF todo'[w] = <<>> THEN [req EXCEPT ![w] = NoRequest] ELSE req
    /\ UNCHANGED <<reqs, crashes, rpc, ri, rtotal, rcount, rp, result, reads>>

(* A worker dies; what it had not added yet is never added.                *)
Crash(w) ==
    /\ Busy(w) /\ crashes < MaxCrashes
    /\ todo' = [todo EXCEPT ![w] = <<>>]
    /\ req' = [req EXCEPT ![w] = NoRequest]
    /\ crashes' = crashes + 1
    /\ UNCHANGED <<count, reqs, reader, observed>>

-----------------------------------------------------------------------------
(* percentile: one pass sums the histogram, a second one looks for the     *)
(* first bucket that reaches the target.                                   *)
Last == Len(LatencyBounds)
InBucket(b) == count[<<"latency", b>>]
Rest == <<count, req, todo, reqs, crashes, observed>>

Percentile ==
    /\ rpc = "idle" /\ reads < MaxReads
    /\ \E p \in Percentiles : rp' = p
    /\ rpc' = "sum" /\ ri' = 0 /\ rtotal' = 0 /\ rcount' = 0
    /\ reads' = reads + 1 /\ undisturbed' = TRUE
    /\ UNCHANGED <<result, Rest>>

SumBucket ==
    /\ rpc = "sum" /\ ri <= Last
    /\ rtotal' = rtotal + InBucket(ri)
    /\ ri' = ri + 1
    /\ UNCHANGED <<rpc, rcount, rp, result, reads, undisturbed, Rest>>

Answer(n) == result' = n /\ rpc' = "answered"

SumDone ==
    /\ rpc = "sum" /\ ri > Last
    /\ IF rtotal = 0 THEN Answer(0) ELSE rpc' = "find" /\ UNCHANGED result
    /\ ri' = 0
    /\ UNCHANGED <<rtotal, rcount, rp, reads, undisturbed, Rest>>

Target == Max({1, (rtotal * rp) \div 100})

FindBucket ==
    /\ rpc = "find" /\ ri < Last
    /\ rcount' = rcount + InBucket(ri)
    /\ IF rcount' >= Target THEN Answer(LatencyBounds[ri + 1]) /\ UNCHANGED ri
                            ELSE ri' = ri + 1 /\ UNCHANGED <<rpc, result>>
    /\ UNCHANGED <<rtotal, rp, reads, undisturbed, Rest>>

FindNone ==
    /\ rpc = "find" /\ ri >= Last
    /\ Answer(Slow)
    /\ UNCHANGED <<ri, rtotal, rcount, rp, reads, undisturbed, Rest>>

ReadDone ==
    /\ rpc = "answered"
    /\ rpc' = "idle"
    /\ ri' = 0 /\ rtotal' = 0 /\ rcount' = 0 /\ rp' = 0 /\ result' = 0
    /\ undisturbed' = TRUE
    /\ UNCHANGED <<reads, Rest>>

Next ==
    \/ \E w \in Workers : LogHandler(w) \/ AddNext(w) \/ Crash(w)
    \/ Percentile \/ SumBucket \/ SumDone \/ FindBucket \/ FindNone \/ ReadDone

Spec == Init /\ [][Next]_vars

-----------------------------------------------------------------------------
TypeOK ==
    /\ count \in [Counters -> Nat]
    /\ req \in [Workers -> Requests]
    /\ \A w \in Workers : \A k \in DOMAIN todo[w] : todo[w][k].counter \in Counters
    /\ reqs \in 0 .. MaxRequests /\ crashes \in 0 .. MaxCrashes
    /\ rpc \in {"idle", "sum", "find", "answered"}
    /\ ri \in 0 .. Last + 1 /\ rtotal \in Nat /\ rcount \in Nat
    /\ rp \in Percentiles \cup {0} /\ result \in Nat /\ reads \in 0 .. MaxReads
    /\ undisturbed \in BOOLEAN

TotalOf(name) ==
    MapThenSumSet(LAMBDA k : count[<<name, k>>], Indices[name])

Adding == Cardinality({w \in Workers : Busy(w)})

(* In every state, whoever is in the middle of a request and whoever died  *)
(* there, responses never exceed requests and no breakdown holds more than *)
(* was counted before it; and each falls behind the total by no more than  *)
(* the requests being added at the moment and the workers that died: with  *)
(* everything at rest and no crash, methods, buckets, classes and workers  *)
(* add up to the total.                                                    *)
BreakdownsAddUp ==
    /\ TypeOK
    /\ TotalOf("total") >= TotalOf("responses")
    /\ TotalOf("responses") >= TotalOf("method")
    /\ TotalOf("method") >= TotalOf("latency")
    /\ TotalOf("latency") >= TotalOf("size")
    /\ TotalOf("size") >= TotalOf("status")
    /\ TotalOf("status") >= TotalOf("wrequests")
    /\ TotalOf("total") - TotalOf("wrequests") <= Adding + crashes

(* The latency of rank n among those observed.                             *)
Ranked(n) ==
    Min({ms \in DOMAIN observed :
            MapThenSumSet(LAMBDA l : observed[l],
                          {l \in DOMAIN observed : l <= ms}) >= n})

RoundedUp(ms) ==
    Min({Slow} \cup {LatencyBounds[b] : b \in {k \in DOMAIN LatencyBounds :
                                                   ms <= LatencyBounds[k]}})

(* However the histogram grows between the two passes, a percentile is a   *)
(* bound under which some request was observed, and when no bucket reaches *)
(* the target there really was a request above the last bound.  Read while *)
(* the histogram stands still, it is the latency of its rank, rounded up   *)
(* to the bound of its bucket.                                             *)
PercentileHonest ==
    rpc = "answered" =>
        /\ result # 0 =>
               \E ms \in DOMAIN observed : observed[ms] > 0 /\ RoundedUp(ms) = result
        /\ undisturbed =>
               result = IF rtotal = 0 THEN 0
                        ELSE RoundedUp(Ranked(Max({1, (rtotal * rp) \div 100})))
=============================================================================

------------------------------- MODULE TopTable -------------------------------
(***************************************************************************)
(* The bounded tables of shared memory: top URLs and user agents           *)
(* (update_top) and upstream peers (update_upstream_slot).  Both functions *)
(* scan the rows without a lock, add to a matching row atomically, and on  *)
(* a miss take the slab mutex to rewrite an empty row or the row with the  *)
(* fewest hits; the counters of the new row are added after the mutex is   *)
(* released.  Any number of workers do this at once.                       *)
(*                                                                         *)
(* A key is abstracted to its 32-bit hash and to the name a row stores,    *)
(* which is the key cut to 127 bytes: distinct keys may agree on either.   *)
(* The sums of bytes and latencies move together and are one counter, the  *)
(* number of additions to them.                                            *)
(***************************************************************************)
EXTENDS Integers, Sequences, FiniteSetsExt

CONSTANTS
    Workers,      \* worker processes
    Keys,         \* URLs, user agents or peers
    HashOf,       \* the hash of each key
    NameOf,       \* the stored name of each key
    Kinds,        \* of table: "top", "upstream" or both
    Statuses,     \* response statuses
    Capacity,     \* rows of the table
    Rooms,        \* the rows that each worker may use, by its configuration
    Starts,       \* tables to start from: [key, hits] for the rows in use
    MaxCalls,     \* bound on the calls
    MaxCrashes    \* bound on the workers that die

NoName == "none"    \* the name of a zeroed row

ASSUME TopAssumption ==
    /\ IsFiniteSet(Workers) /\ IsFiniteSet(Keys) /\ Keys # {} /\ Statuses # {}
    /\ Capacity \in Nat \ {0}
    /\ Rooms \subseteq [Workers -> 1 .. Capacity]
    /\ MaxCalls \in Nat /\ MaxCrashes \in Nat
    /\ Kinds \subseteq {"top", "upstream"}
    /\ Statuses \subseteq Nat
    /\ HashOf \in [Keys -> Nat]
    /\ \A k \in Keys : NameOf[k] # NoName
    /\ Starts \subseteq Seq([key : Keys, hits : Nat \ {0}])
    /\ \A start \in Starts : Len(start) <= Capacity

(* Above every count: the counters of the code are 64 bits wide, and the   *)
(* scan starts from the greatest of them.                                  *)
Infinity == 2147483647

ASSUME HitsFit ==
    /\ MaxCalls < Infinity
    /\ \A start \in Starts : \A n \in 1 .. Len(start) : start[n].hits + MaxCalls < Infinity

VARIABLES
    kind, room,   \* which of the tables this is, and the choice of Rooms
    rows,         \* the table
    mutex,        \* the worker that holds shpool->mutex, or {}
    pc, key, status,
    i, empty, victim, minHits,   \* the locals of the scan
    todo,         \* counters still to be added to row i
    calls, crashes,
    torn,         \* rows that a worker was rewriting when it died
    asked,        \* for each key, the calls made for it
    raced,        \* an insertion has overlapped another call
    alone         \* the workers whose call has overlapped no other

locals == <<pc, key, status, i, empty, victim, minHits, todo>>
ghosts == <<kind, room, calls, crashes, torn, asked, raced, alone>>
vars   == <<rows, mutex, locals, ghosts>>

Counters == {"hits", "totals", "errors", "failures", "s4xx", "s5xx"}
Rows     == 0 .. Capacity - 1
ZeroRow  == [name |-> NoName, hash |-> 0, count |-> [c \in Counters |-> 0]]

Hits(r)  == rows[r].count["hits"]

(* The counters a call adds to its row, in the order of the code.          *)
TopCounters(s) ==
    <<"hits", "totals">> \o (IF s >= 400 THEN <<"errors">> ELSE <<>>)

(* Mutation: the first 5xx status is taken for a success.                  *)
UpstreamCounters_Above(s) ==
    <<"hits", "totals">>
    \o (IF s = 0 \/ s > 500 THEN <<"failures">> ELSE <<>>)
    \o (IF s >= 400 /\ s < 500 THEN <<"s4xx">> ELSE <<>>)
    \o (IF s >= 500 THEN <<"s5xx">> ELSE <<>>)

(* A failure is a status of zero (no answer) or a 5xx.                     *)
UpstreamCounters(s) ==
    <<"hits", "totals">>
    \o (IF s = 0 \/ s >= 500 THEN <<"failures">> ELSE <<>>)
    \o (IF s >= 400 /\ s < 500 THEN <<"s4xx">> ELSE <<>>)
    \o (IF s >= 500 THEN <<"s5xx">> ELSE <<>>)

CountersOf(s) == IF kind = "top" THEN TopCounters(s) ELSE UpstreamCounters(s)

-----------------------------------------------------------------------------
(* The zone is fresh, or a reload has kept the table of the workers before;*)
(* monitor_max_top_urls may differ between them and those that come.       *)
RowOf(used) ==
    [name |-> NameOf[used.key], hash |-> HashOf[used.key],
     count |-> [c \in Counters |-> IF c \in {"hits", "totals"} THEN used.hits ELSE 0]]

Init ==
    /\ kind \in Kinds
    /\ room \in Rooms
    /\ \E start \in Starts :
          /\ kind = "upstream" \/ start = <<>> => \A w \in Workers : room[w] = Capacity
          /\ rows = [r \in Rows |-> IF r < Len(start) THEN RowOf(start[r + 1]) ELSE ZeroRow]
          /\ asked = [k \in Keys |-> MapThenSumSet(LAMBDA n : start[n].hits,
                                       {n \in DOMAIN start : start[n].key = k})]
    /\ mutex = {}
    /\ pc = [w \in Workers |-> "idle"]
    /\ key \in [Workers -> {CHOOSE k \in Keys : TRUE}]
    /\ status \in [Workers -> {CHOOSE s \in Statuses : TRUE}]
    /\ i = [w \in Workers |-> 0]
    /\ empty = [w \in Workers |-> Capacity]
    /\ victim = [w \in Workers |-> 0]
    /\ minHits = [w \in Workers |-> Infinity]
    /\ todo = [w \in Workers |-> <<>>]
    /\ calls = 0 /\ crashes = 0 /\ torn = {}
    /\ raced = FALSE
    /\ alone = {}

Goto(w, from, to) == pc[w] = from /\ pc' = [pc EXCEPT ![w] = to]

(* A worker that missed and has not counted its hit in the new row yet.    *)
Inserting(w) == pc[w] \in {"lock", "zero", "name", "hash", "unlock", "first"}

Call(w) ==
    /\ calls < MaxCalls
    /\ Goto(w, "idle", "scan")
    /\ \E k \in Keys, s \in Statuses :
          /\ key' = [key EXCEPT ![w] = k]
          /\ status' = [status EXCEPT ![w] = s]
          /\ todo' = [todo EXCEPT ![w] = CountersOf(s)]
          /\ asked' = [asked EXCEPT ![k] = @ + 1]
    /\ i' = [i EXCEPT ![w] = 0]
    /\ empty' = [empty EXCEPT ![w] = room[w]]
    /\ victim' = [victim EXCEPT ![w] = 0]
    /\ minHits' = [minHits EXCEPT ![w] = Infinity]
    /\ calls' = calls + 1
    /\ raced' = (raced \/ \E q \in Workers : Inserting(q))
    /\ alone' = IF \A q \in Workers : pc[q] = "idle" THEN {w} ELSE {}
    /\ UNCHANGED <<kind, room, crashes, torn, rows, mutex>>

-----------------------------------------------------------------------------
(* The scan, one row at a time and without a lock.                         *)
Scanning(w) == pc[w] = "scan" /\ i[w] < room[w]
TakesEmpty(w) == Hits(i[w]) = 0 /\ empty[w] = room[w]

(* Mutation: the stored name is compared with the key before it is cut.    *)
Matches_Uncut(w) == rows[i[w]].hash = HashOf[key[w]] /\ rows[i[w]].name = key[w]

Matches(w) == rows[i[w]].hash = HashOf[key[w]] /\ rows[i[w]].name = NameOf[key[w]]

ScanEmpty(w) ==
    /\ Scanning(w) /\ TakesEmpty(w)
    /\ empty' = [empty EXCEPT ![w] = i[w]]
    /\ i' = [i EXCEPT ![w] = @ + 1]
    /\ UNCHANGED <<rows, mutex, pc, key, status, victim, minHits, todo, ghosts>>

ScanMatch(w) ==
    /\ Scanning(w) /\ ~TakesEmpty(w) /\ Matches(w)
    /\ pc' = [pc EXCEPT ![w] = "add"]
    /\ UNCHANGED <<rows, mutex, key, status, i, empty, victim, minHits, todo, ghosts>>

ScanOther(w) ==
    /\ Scanning(w) /\ ~TakesEmpty(w) /\ ~Matches(w)
    /\ IF Hits(i[w]) < minHits[w]
         THEN /\ minHits' = [minHits EXCEPT ![w] = Hits(i[w])]
              /\ victim' = [victim EXCEPT ![w] = i[w]]
         ELSE UNCHANGED <<minHits, victim>>
    /\ i' = [i EXCEPT ![w] = @ + 1]
    /\ UNCHANGED <<rows, mutex, pc, key, status, empty, todo, ghosts>>

ScanMiss(w) ==
    /\ i[w] = room[w]
    /\ Goto(w, "scan", "lock")
    /\ raced' = (raced \/ \E q \in Workers \ {w} : pc[q] # "idle")
    /\ UNCHANGED <<kind, room, rows, mutex, key, status, i, empty, victim, minHits, todo,
                   calls, crashes, torn, asked, alone>>

-----------------------------------------------------------------------------
(* Mutation: the row is rewritten without the mutex.                       *)
Lock_Free(w) ==
    /\ Goto(w, "lock", "zero")
    /\ UNCHANGED <<rows, mutex, key, status, i, empty, victim, minHits, todo, ghosts>>

(* The replacement, under the slab mutex.                                  *)
Lock(w) ==
    /\ mutex = {}
    /\ Goto(w, "lock", "zero")
    /\ mutex' = {w}
    /\ UNCHANGED <<rows, key, status, i, empty, victim, minHits, todo, ghosts>>

(* Mutation: the victim is always the first row.                           *)
Target_First(w) == IF empty[w] # room[w] THEN empty[w] ELSE 0

Target(w) == IF empty[w] # room[w] THEN empty[w] ELSE victim[w]

Zero(w) ==
    /\ Goto(w, "zero", "name")
    /\ i' = [i EXCEPT ![w] = Target(w)]
    /\ rows' = [rows EXCEPT ![Target(w)] = ZeroRow]
    /\ torn' = torn \ {Target(w)}
    /\ UNCHANGED <<mutex, key, status, empty, victim, minHits, todo, kind, room, calls,
                   crashes, asked, raced, alone>>

WriteName(w) ==
    /\ Goto(w, "name", "hash")
    /\ rows' = [rows EXCEPT ![i[w]].name = NameOf[key[w]]]
    /\ UNCHANGED <<mutex, key, status, i, empty, victim, minHits, todo, ghosts>>

WriteHash(w) ==
    /\ Goto(w, "hash", "unlock")
    /\ rows' = [rows EXCEPT ![i[w]].hash = HashOf[key[w]]]
    /\ UNCHANGED <<mutex, key, status, i, empty, victim, minHits, todo, ghosts>>

(* Mutation: the mutex is never released.                                  *)
Unlock_Kept(w) ==
    /\ Goto(w, "unlock", "first")
    /\ UNCHANGED <<rows, mutex, key, status, i, empty, victim, minHits, todo, ghosts>>

Unlock(w) ==
    /\ Goto(w, "unlock", "first")
    /\ mutex' = {}
    /\ UNCHANGED <<rows, key, status, i, empty, victim, minHits, todo, ghosts>>

-----------------------------------------------------------------------------
(* Mutation: the first hit of a new row is set and added.                  *)
AddNext_Twice(w) ==
    /\ rows' = [rows EXCEPT ![i[w]].count[Head(todo[w])] =
                    @ + IF pc[w] = "first" THEN 2 ELSE 1]
    /\ todo' = [todo EXCEPT ![w] = Tail(@)]

(* The atomic additions, one counter at a time.                            *)
AddNext(w) ==
    /\ rows' = [rows EXCEPT ![i[w]].count[Head(todo[w])] = @ + 1]
    /\ todo' = [todo EXCEPT ![w] = Tail(@)]

Add(w) ==
    /\ pc[w] \in {"first", "add"} /\ todo[w] # <<>>
    /\ AddNext(w)
    /\ pc' = [pc EXCEPT ![w] = IF Tail(todo[w]) = <<>> THEN "idle" ELSE "add"]
    /\ UNCHANGED <<mutex, key, status, i, empty, victim, minHits, ghosts>>

Update(w) ==
    \/ ScanEmpty(w) \/ ScanMatch(w) \/ ScanOther(w) \/ ScanMiss(w)
    \/ Lock(w) \/ Zero(w) \/ WriteName(w) \/ WriteHash(w) \/ Unlock(w)
    \/ Add(w)

(* A worker dies inside a call; the master releases the mutex it held.     *)
Crash(w) ==
    /\ pc[w] # "idle" /\ crashes < MaxCrashes
    /\ crashes' = crashes + 1
    /\ pc' = [pc EXCEPT ![w] = "idle"]
    /\ todo' = [todo EXCEPT ![w] = <<>>]
    /\ mutex' = mutex \ {w}
    /\ torn' = IF pc[w] \in {"name", "hash"} THEN torn \cup {i[w]} ELSE torn
    /\ UNCHANGED <<rows, key, status, i, empty, victim, minHits, kind, room, calls, asked,
                   raced, alone>>

Next == \E w \in Workers : Call(w) \/ Update(w) \/ Crash(w)

Spec == Init /\ [][Next]_vars /\ \A w \in Workers : WF_vars(Update(w))

-----------------------------------------------------------------------------
TypeOK ==
    /\ rows \in [Rows -> [name : {NameOf[k] : k \in Keys} \cup {NoName},
                          hash : Nat, count : [Counters -> Nat]]]
    /\ mutex = {} \/ \E w \in Workers : mutex = {w}
    /\ pc \in [Workers -> {"idle", "scan", "lock", "zero", "name", "hash", "unlock",
                           "first", "add"}]
    /\ key \in [Workers -> Keys]
    /\ status \in [Workers -> Statuses]
    /\ i \in [Workers -> 0 .. Capacity]
    /\ \A w \in Workers : pc[w] \notin {"idle", "scan", "lock", "zero"} => i[w] \in Rows
    /\ empty \in [Workers -> 0 .. Capacity]
    /\ victim \in [Workers -> Rows]
    /\ minHits \in [Workers -> Nat]
    /\ todo \in [Workers -> Seq(Counters)]
    /\ kind \in Kinds /\ room \in Rooms
    /\ calls \in 0 .. MaxCalls /\ crashes \in 0 .. MaxCrashes /\ torn \subseteq Rows
    /\ asked \in [Keys -> Nat]
    /\ raced \in BOOLEAN /\ alone \in SUBSET Workers

(* Keys a row cannot tell apart.                                           *)
Same(k, r) == rows[r].hash = HashOf[k] /\ rows[r].name = NameOf[k]

(* Outside the mutex every row carries a name and the hash of one and the  *)
(* same key, or is zeroed: two replacements never mix in one row, however  *)
(* many workers picked the same victim.  Only a worker that dies while it  *)
(* rewrites a row leaves half of one, and that one claims no hits unless   *)
(* another call still had it.                                              *)
RowsWhole ==
    /\ TypeOK
    /\ mutex = {} =>
        \A r \in Rows \ torn : rows[r].name = NoName \/ \E k \in Keys : Same(k, r)
    /\ ~raced => \A r \in torn : Hits(r) = 0

Requests(r) == MapThenSumSet(LAMBDA k : asked[k], {k \in Keys : Same(k, r)})

(* As long as no insertion overlaps another call, a key has at most one of *)
(* the rows that all workers use, also when keys share a hash or a         *)
(* truncated name and the configurations of the workers differ, and no row *)
(* claims more hits than there were calls for its key.                     *)
KeysUnique ==
    ~raced =>
        /\ \A r, s \in Rows :
              r # s /\ Hits(r) > 0 /\ Hits(s) > 0 /\ (\A w \in Workers : r < room[w] /\ s < room[w]) =>
                  rows[r].hash # rows[s].hash \/ rows[r].name # rows[s].name
        /\ \A r \in Rows : Hits(r) <= Requests(r)

(* Whatever the interleaving, the table as a whole never counts more hits  *)
(* than there were calls: a hit may be lost or land in another key's row,  *)
(* it is never counted twice.                                              *)
NeverCountedTwice ==
    MapThenSumSet(Hits, Rows) <= MapThenSumSet(LAMBDA k : asked[k], Keys)

(* A call that overlaps no other gives up a row with the fewest hits, an   *)
(* empty one if there is one, whatever happened to the table before, of    *)
(* those its worker may use.                                               *)
EvictsFewest ==
    [][\A w \in Workers :
          pc[w] = "zero" /\ pc'[w] = "name" /\ w \in alone =>
              \A r \in 0 .. room[w] - 1 : Hits(i'[w]) <= Hits(r)]_vars

(* "Failures are counted from zero or 5xx upstream statuses": as long as   *)
(* no insertion overlaps another call, and with no call under way, a row   *)
(* has at least as many failures as 5xx answers.                           *)
FailuresCountedAlone ==
    ~raced /\ (\A w \in Workers : pc[w] = "idle") =>
        \A r \in Rows : rows[r].count["failures"] >= rows[r].count["s5xx"]

(* Every call ends: the mutex is never kept, not even by the dead, and the *)
(* scan is finite.  The calls are bounded, so that this leaves the workers *)
(* idle for good.                                                          *)
CallsEnd == <>[](\A w \in Workers : pc[w] = "idle")
=============================================================================

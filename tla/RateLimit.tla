------------------------------ MODULE RateLimit ------------------------------
(***************************************************************************)
(* The global rate limit of the monitoring endpoints: one window (a second *)
(* of the caller's cached clock) and one count in shared memory.  The      *)
(* window is tested without a lock, tested again and stored under the slab *)
(* mutex, and the count is zeroed after the window is stored; requests     *)
(* that find the window current add to the count without the mutex.        *)
(*                                                                         *)
(* time is the wall clock in seconds; a worker uses the second it cached   *)
(* when its event loop last woke up, at most lag seconds old.              *)
(***************************************************************************)
EXTENDS Integers, FiniteSets

CONSTANTS
    Workers,
    Limits,       \* the values of monitor_rate_limit in the locations
    Lags,         \* how many seconds a cached clock may be behind
    MaxTime,      \* bound on the wall clock
    MaxRequests,  \* bound on the requests
    MaxCrashes    \* bound on the workers that die

ASSUME RateAssumption ==
    /\ Limits \subseteq Nat
    /\ Lags \subseteq Nat
    /\ MaxTime \in Nat \ {0} /\ MaxRequests \in Nat /\ MaxCrashes \in Nat

VARIABLES
    lag,                      \* the greatest lag of this behaviour
    time, clock,              \* the wall clock and each worker's cached second
    window, count, limited,   \* rate_limit_window, rate_limit_count, rate_limited
    mutex,                    \* the holder of shpool->mutex, as a set
    pc, now, limit,           \* each worker inside check_rate_limit
    alone,                    \* the request is the first of its second and by itself
    arrived, admitted,        \* requests per second, and per limit
    requests, crashes

shared == <<window, count, limited, mutex>>
local  == <<pc, now, limit, alone>>
tally  == <<arrived, admitted>>
vars   == <<lag, time, clock, shared, local, tally, requests, crashes>>

Seconds == 1 .. MaxTime

Init ==
    /\ lag \in Lags
    /\ time = 1
    /\ clock = [w \in Workers |-> 1]
    /\ window = 0 /\ count = 0 /\ limited = 0
    /\ mutex = {}
    /\ pc = [w \in Workers |-> "idle"]
    /\ now = [w \in Workers |-> 1]
    /\ limit = [w \in Workers |-> 0]
    /\ alone = [w \in Workers |-> FALSE]
    /\ arrived = [s \in Seconds |-> 0]
    /\ admitted = [s \in Seconds |-> [l \in Limits |-> 0]]
    /\ requests = 0 /\ crashes = 0

Goto(w, from, to) == pc[w] = from /\ pc' = [pc EXCEPT ![w] = to]

Idle(w) == pc[w] = "idle"

-----------------------------------------------------------------------------
(* The clock.  No cached second and no request under way may fall more     *)
(* than lag behind; an event loop that wakes up refreshes its second.   *)
Tick ==
    /\ time < MaxTime
    /\ \A w \in Workers :
          /\ time + 1 - clock[w] <= lag + (IF Idle(w) THEN 1 ELSE 0)
    /\ time' = time + 1
    /\ UNCHANGED <<lag, clock, shared, local, tally, requests, crashes>>

UpdateTime(w) ==
    /\ Idle(w) /\ clock[w] # time
    /\ clock' = [clock EXCEPT ![w] = time]
    /\ UNCHANGED <<lag, time, shared, local, tally, requests, crashes>>

-----------------------------------------------------------------------------
(* A limit of zero admits the request before anything shared is touched.   *)
Request(w) ==
    /\ requests < MaxRequests /\ time - clock[w] <= lag
    /\ Idle(w)
    /\ \E l \in Limits :
          /\ limit' = [limit EXCEPT ![w] = l]
          /\ IF l = 0
               THEN /\ admitted' = [admitted EXCEPT ![clock[w]][l] = @ + 1]
                    /\ UNCHANGED <<pc, arrived, alone>>
               ELSE /\ Goto(w, "idle", "test")
                    /\ arrived' = [arrived EXCEPT ![clock[w]] = @ + 1]
                    /\ alone' = [q \in Workers |->
                          /\ q = w
                          /\ \A v \in Workers \ {w} : Idle(v)
                          /\ \A s \in Seconds : s >= clock[w] => arrived[s] = 0]
                    /\ UNCHANGED admitted
    /\ now' = [now EXCEPT ![w] = clock[w]]
    /\ requests' = requests + 1
    /\ UNCHANGED <<lag, time, clock, shared, crashes>>

Unchanged(w) == UNCHANGED <<lag, time, clock, now, limit, alone, tally, requests, crashes>>

TestWindow(w) ==
    /\ pc[w] = "test"
    /\ pc' = [pc EXCEPT ![w] = IF window # now[w] THEN "lock" ELSE "add"]
    /\ UNCHANGED shared /\ Unchanged(w)

Lock(w) ==
    /\ mutex = {}
    /\ Goto(w, "lock", "retest")
    /\ mutex' = {w}
    /\ UNCHANGED <<window, count, limited>> /\ Unchanged(w)

(* Mutation: the window is not tested again under the mutex.               *)
Retest_Skip(w) ==
    /\ Goto(w, "retest", "window")
    /\ UNCHANGED shared /\ Unchanged(w)

Retest(w) ==
    /\ pc[w] = "retest"
    /\ pc' = [pc EXCEPT ![w] = IF window # now[w] THEN "window" ELSE "unlock"]
    /\ UNCHANGED shared /\ Unchanged(w)

StoreWindow(w) ==
    /\ Goto(w, "window", "zero")
    /\ window' = now[w]
    /\ UNCHANGED <<count, limited, mutex>> /\ Unchanged(w)

(* Mutation: the count of the previous second is kept.                     *)
ZeroCount_Kept(w) ==
    /\ Goto(w, "zero", "unlock")
    /\ UNCHANGED shared /\ Unchanged(w)

ZeroCount(w) ==
    /\ Goto(w, "zero", "unlock")
    /\ count' = 0
    /\ UNCHANGED <<window, limited, mutex>> /\ Unchanged(w)

(* Mutation: the mutex is kept.                                            *)
Unlock_Kept(w) ==
    /\ Goto(w, "unlock", "add")
    /\ UNCHANGED shared /\ Unchanged(w)

Unlock(w) ==
    /\ Goto(w, "unlock", "add")
    /\ mutex' = {}
    /\ UNCHANGED <<window, count, limited>> /\ Unchanged(w)

OverLimit(n, l) == n > l

(* fetch_add returns the count before the addition.                        *)
Add(w) ==
    /\ count' = count + 1
    /\ IF OverLimit(count + 1, limit[w])
         THEN Goto(w, "add", "limited") /\ UNCHANGED <<admitted, alone>>
         ELSE /\ Goto(w, "add", "idle")
              /\ admitted' = [admitted EXCEPT ![now[w]][limit[w]] = @ + 1]
              /\ alone' = [alone EXCEPT ![w] = FALSE]
    /\ UNCHANGED <<lag, time, clock, window, limited, mutex, now, limit, arrived,
                   requests, crashes>>

Decline(w) ==
    /\ Goto(w, "limited", "idle")
    /\ limited' = limited + 1
    /\ alone' = [alone EXCEPT ![w] = FALSE]
    /\ UNCHANGED <<lag, time, clock, window, count, mutex, now, limit, arrived, admitted,
                   requests, crashes>>

(* A worker dies anywhere; the master frees a mutex it held and respawns.  *)
Crash(w) ==
    /\ crashes < MaxCrashes /\ ~Idle(w)
    /\ crashes' = crashes + 1
    /\ pc' = [pc EXCEPT ![w] = "idle"]
    /\ mutex' = mutex \ {w}
    /\ alone' = [alone EXCEPT ![w] = FALSE]
    /\ clock' = [clock EXCEPT ![w] = time]
    /\ UNCHANGED <<lag, time, window, count, limited, now, limit, tally, requests>>

Check(w) ==
    \/ TestWindow(w) \/ Lock(w) \/ Retest(w) \/ StoreWindow(w) \/ ZeroCount(w)
    \/ Unlock(w) \/ Add(w) \/ Decline(w)

Next ==
    \/ Tick
    \/ \E w \in Workers : UpdateTime(w) \/ Request(w) \/ Check(w) \/ Crash(w)

Spec == Init /\ [][Next]_vars /\ \A w \in Workers : WF_vars(Check(w))

-----------------------------------------------------------------------------
TypeOK ==
    /\ lag \in Lags /\ time \in Seconds
    /\ clock \in [Workers -> Seconds]
    /\ window \in Seconds \cup {0}
    /\ count \in Nat /\ limited \in Nat
    /\ mutex = {} \/ \E w \in Workers : mutex = {w}
    /\ pc \in [Workers -> {"idle", "test", "lock", "retest", "window", "zero",
                           "unlock", "add", "limited"}]
    /\ now \in [Workers -> Seconds]
    /\ limit \in [Workers -> Limits \cup {0}]
    /\ alone \in [Workers -> BOOLEAN]
    /\ arrived \in [Seconds -> Nat]
    /\ admitted \in [Seconds -> [Limits -> Nat]]
    /\ requests \in 0 .. MaxRequests /\ crashes \in 0 .. MaxCrashes

(* With the clocks in step, a second admits at most twice the limit: one   *)
(* share against the count left from the second before, by requests that   *)
(* see the new window before the count is zeroed, and one share after.     *)
AdmittedTwiceAtMost == lag = 0 =>
    \A s \in Seconds : \A l \in Limits \ {0} : admitted[s][l] <= 2 * l

(* The first request of a second, when no other is being checked, starts   *)
(* from a zero count: neither an earlier race, nor a lagging clock, nor a  *)
(* worker that died between storing the window and zeroing the count,      *)
(* outlives the second it happened in.                                     *)
FreshSecondAdmits ==
    /\ TypeOK
    /\ \A w \in Workers : pc[w] = "add" /\ alone[w] => count = 0

(* Every check ends, also for those that wait for the mutex.               *)
ChecksEnd == \A w \in Workers : ~Idle(w) ~> Idle(w)
=============================================================================

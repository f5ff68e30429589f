------------------------------ MODULE Sampling -------------------------------
(***************************************************************************)
(* When the history is sampled and what a sample measures.  Every worker   *)
(* has its own timer; the one that wins collector_lock takes a sample if   *)
(* monitor_resolution has passed since the previous one by the clock it    *)
(* cached when its event loop woke up.  Module Collector has the lock and  *)
(* the life of the timers, module HistoryRing the ring the sample goes to. *)
(*                                                                         *)
(* Time is in arbitrary ticks.  A timer is served, and a pass finished, at *)
(* most lag ticks late; with lag 0 all the cached clocks are the real one. *)
(***************************************************************************)
EXTENDS Integers, FiniteSets

CONSTANTS
    Workers,
    Stagger,      \* delay of each worker's first timer
    Refresh,      \* monitor_refresh_interval
    Resolution,   \* monitor_resolution
    Scale,        \* what a count per tick is multiplied by before it is divided
    Wrap,         \* 2 to the width of ngx_msec_t
    Lags,         \* how late a worker may be: a set of possibilities
    MaxTime, MaxRequests

ASSUME SamplingAssumption ==
    /\ Stagger \in [Workers -> Nat]
    /\ {Refresh, Resolution, Scale, Wrap} \subseteq Nat \ {0}
    /\ MaxTime < Wrap
    /\ Lags \subseteq Nat /\ MaxTime \in Nat \ {0} /\ MaxRequests \in Nat

VARIABLES
    lag,                   \* the greatest lag of this behaviour
    time,                  \* the wall clock
    clock, due,            \* of a worker: its cached clock, its timer
    lock,                  \* the holder of collector_lock, as a set
    total,                 \* requests.total
    prev, prevReq, ewma,   \* prev_history_msec, prev_req_total, ewma_rps_milli
    pc, req, dt,           \* a worker inside collect_history
    sampledAt, gap,        \* when the last sample was taken, how long after the other
    reported, peak         \* requests in all samples, the greatest raw rate

shared       == <<lock, total, prev, prevReq, ewma>>
local        == <<pc, req, dt>>
ghosts       == <<sampledAt, gap, reported, peak>>
samplingVars == <<lag, time, clock, due, shared, local, ghosts>>

Larger(a, b) == IF a > b THEN a ELSE b
Never == 0 - 1      \* no sample or no gap yet

SamplingInit ==
    /\ lag \in Lags
    /\ time = 1
    /\ clock = [w \in Workers |-> 1]
    /\ due = [w \in Workers |-> 1 + Stagger[w]]
    /\ lock = {} /\ total = 0
    /\ prev = 0 /\ prevReq = 0 /\ ewma = 0
    /\ pc = [w \in Workers |-> "idle"]
    /\ req = [w \in Workers |-> 0]
    /\ dt = [w \in Workers |-> 0]
    /\ sampledAt = Never /\ gap = Never
    /\ reported = 0 /\ peak = 0

Idle(w) == pc[w] = "idle"
Goto(w, from, to) == pc[w] = from /\ pc' = [pc EXCEPT ![w] = to]

-----------------------------------------------------------------------------
Tick ==
    /\ time < MaxTime
    /\ \A w \in Workers :
          time + 1 - (IF Idle(w) THEN due[w] ELSE clock[w]) <= lag
    /\ time' = time + 1
    /\ UNCHANGED <<lag, clock, due, shared, local, ghosts>>

Request ==
    /\ total < MaxRequests
    /\ total' = total + 1
    /\ UNCHANGED <<lag, time, clock, due, lock, prev, prevReq, ewma, local, ghosts>>

(* collect: the timer has expired by the clock the worker cached.  The     *)
(* pass is skipped, and the timer added again, when the lock is taken.     *)
Fire(w) ==
    /\ Idle(w)
    /\ \E c \in Larger(clock[w], due[w]) .. time :
          /\ time - c <= lag
          /\ clock' = [clock EXCEPT ![w] = c]
          /\ IF lock = {}
               THEN /\ lock' = {w}
                    /\ Goto(w, "idle", "test")
                    /\ UNCHANGED due
               ELSE /\ due' = [due EXCEPT ![w] = c + Refresh]
                    /\ UNCHANGED <<lock, pc>>
    /\ UNCHANGED <<lag, time, total, prev, prevReq, ewma, req, dt, ghosts>>

(* Mutation: a sample is due a tick too early.                             *)
SampleDue_Early(now) == prev = 0 \/ (now - prev) % Wrap >= Resolution - 1

(* An unsigned subtraction: a clock behind the last sample's is far ahead. *)
SampleDue(now) == prev = 0 \/ (now - prev) % Wrap >= Resolution

PaceTest(w) ==
    /\ Goto(w, "test", IF SampleDue(clock[w]) THEN "measure" ELSE "unlock")
    /\ UNCHANGED <<lag, time, clock, due, shared, req, dt, ghosts>>

Elapsed(now) == IF prev = 0 \/ now <= prev THEN Refresh ELSE now - prev

Measure(w) ==
    /\ Goto(w, "measure", "smooth")
    /\ req' = [req EXCEPT ![w] = total]
    /\ dt' = [dt EXCEPT ![w] = Elapsed(clock[w])]
    /\ UNCHANGED <<lag, time, clock, due, shared, ghosts>>

Delta(now, before) == IF now >= before THEN now - before ELSE 0

RawRate(w) == (Delta(req[w], prevReq) * Scale) \div dt[w]

(* Mutation: the weights add up to more than one.                          *)
Smoothed_Heavy(old, raw) == IF old = 0 THEN raw ELSE (old * 8 + raw * 3) \div 10

Smoothed(old, raw) == IF old = 0 THEN raw ELSE (old * 7 + raw * 3) \div 10

(* The smoothed rate, then the sample in the ring.                         *)
Smooth(w) ==
    /\ Goto(w, "smooth", "store")
    /\ ewma' = Smoothed(ewma, RawRate(w))
    /\ peak' = Larger(peak, RawRate(w))
    /\ reported' = reported + Delta(req[w], prevReq)
    /\ gap' = IF sampledAt = Never THEN Never ELSE time - sampledAt
    /\ sampledAt' = time
    /\ UNCHANGED <<lag, time, clock, due, lock, total, prev, prevReq, req, dt>>

(* Mutation: the counter is read again instead of the value measured.      *)
StorePrevious_Reread(w) ==
    /\ Goto(w, "store", "unlock")
    /\ prevReq' = total
    /\ prev' = clock[w]
    /\ UNCHANGED <<lag, time, clock, due, lock, total, ewma, req, dt, ghosts>>

StorePrevious(w) ==
    /\ Goto(w, "store", "unlock")
    /\ prevReq' = req[w]
    /\ prev' = clock[w]
    /\ UNCHANGED <<lag, time, clock, due, lock, total, ewma, req, dt, ghosts>>

Finish(w) ==
    /\ Goto(w, "unlock", "idle")
    /\ lock' = {}
    /\ due' = [due EXCEPT ![w] = clock[w] + Refresh]
    /\ req' = [req EXCEPT ![w] = 0]
    /\ dt' = [dt EXCEPT ![w] = 0]
    /\ UNCHANGED <<lag, time, clock, total, prev, prevReq, ewma, ghosts>>

Pass(w) == PaceTest(w) \/ Measure(w) \/ Smooth(w) \/ StorePrevious(w) \/ Finish(w)

SamplingNext == Tick \/ Request \/ \E w \in Workers : Fire(w) \/ Pass(w)

SamplingSpec == SamplingInit /\ [][SamplingNext]_samplingVars

-----------------------------------------------------------------------------
SamplingTypeOK ==
    /\ lag \in Lags /\ time \in 1 .. MaxTime
    /\ clock \in [Workers -> 1 .. MaxTime] /\ \A w \in Workers : clock[w] <= time
    /\ due \in [Workers -> Nat]
    /\ Cardinality(lock) <= 1 /\ lock = {w \in Workers : ~Idle(w)}
    /\ total \in 0 .. MaxRequests /\ prevReq \in 0 .. total
    /\ prev \in 0 .. MaxTime /\ ewma \in Nat
    /\ pc \in [Workers -> {"idle", "test", "measure", "smooth", "store", "unlock"}]
    /\ req \in [Workers -> 0 .. MaxRequests] /\ dt \in [Workers -> Nat]
    /\ {sampledAt, gap} \subseteq 0 .. MaxTime \cup {Never}
    /\ reported \in 0 .. MaxRequests /\ peak \in Nat

(* With the cached clocks in step and the timers served in time, two       *)
(* samples are at least the resolution apart, whichever workers take them, *)
(* and the history has no holes: after the first sample there is never a   *)
(* stretch as long as the resolution and a refresh interval together       *)
(* without one, though the workers compete for the lock and the loser      *)
(* skips its turn.                                                         *)
Paced == lag = 0 =>
    /\ gap = Never \/ gap >= Resolution
    /\ sampledAt # Never => time - sampledAt < Resolution + Refresh

(* Requests that arrive during a pass are not lost between two samples and *)
(* are in no two of them.                                                  *)
RequestsAccounted ==
    /\ SamplingTypeOK
    /\ (\A w \in Workers : pc[w] # "store") => reported = prevReq

(* The smoothed rate never exceeds the greatest rate that was measured.    *)
EwmaWithinPeak == ewma <= peak
=============================================================================

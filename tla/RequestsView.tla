----------------------------- MODULE RequestsView ------------------------------
(***************************************************************************)
(* The response /monitor/api/requests, written while the workers of        *)
(* Accounting add to the counters.  json_requests passes the totals, the   *)
(* sum of the error classes and the percentiles to one call, whose         *)
(* arguments the compiler evaluates in any order, and then walks the       *)
(* counts of the methods, of the latencies and of the sizes.  The total,   *)
(* which is loaded again for the averages, is loaded once.  4xx and 5xx    *)
(* only grow: the sum of two loads was their sum at a moment in between.   *)
(***************************************************************************)
EXTENDS Accounting

CONSTANTS
    MaxViews,          \* bound on the responses
    MaxViewEvents      \* bound on the requests and crashes when there is one

ASSUME ViewAssumption == {MaxViews, MaxViewEvents} \subseteq Nat

VARIABLES
    vpc, wanted,       \* where it is, the arguments that are still missing
    shown,             \* the arguments
    walk, vi, sums,    \* the groups to walk, the next index, their sums
    views,
    began, slack       \* the total when it began; how much the breakdowns may
                       \* have been behind the total that is shown

viewVars == <<vpc, wanted, shown, walk, vi, sums, views, began, slack>>

Groups    == <<"method", "latency", "size">>
Arguments == {<<"total", 0>>, <<"errors", 0>>} \cup {<<"percentile", p>> : p \in Percentiles}

ViewInit ==
    /\ Init
    /\ vpc = "idle" /\ wanted = {} /\ shown = <<>>
    /\ walk = <<>> /\ vi = 0 /\ sums = <<>>
    /\ views = 0 /\ began = 0 /\ slack = 0

StartView ==
    /\ vpc = "idle" /\ views < MaxViews /\ reqs + crashes <= MaxViewEvents
    /\ vpc' = "arguments"
    /\ wanted' = Arguments /\ shown' = <<>> /\ sums' = <<>>
    /\ views' = views + 1
    /\ began' = TotalOf("total")
    /\ UNCHANGED <<walk, vi, slack, vars>>

(* f with n at x.                                                          *)
Put(f, x, n) == [y \in DOMAIN f \cup {x} |-> IF y = x THEN n ELSE f[y]]

(* An argument is known.                                                   *)
Pass(arg, n) ==
    /\ wanted' = wanted \ {arg}
    /\ shown' = Put(shown, arg, n)

LoadTotal ==
    /\ vpc = "arguments" /\ <<"total", 0>> \in wanted
    /\ Pass(<<"total", 0>>, TotalOf("total"))
    /\ slack' = Adding + crashes
    /\ UNCHANGED <<vpc, walk, vi, sums, views, began, vars>>

LoadErrors ==
    /\ vpc = "arguments" /\ <<"errors", 0>> \in wanted
    /\ Pass(<<"errors", 0>>, count[<<"status", 4>>] + count[<<"status", 5>>])
    /\ UNCHANGED <<vpc, walk, vi, sums, views, began, slack, vars>>

CallPercentile ==
    /\ vpc = "arguments" /\ vpc' = "percentile"
    /\ Percentile /\ <<"percentile", rp'>> \in wanted
    /\ UNCHANGED <<wanted, shown, walk, vi, sums, views, began, slack>>

InPercentile ==
    /\ vpc = "percentile"
    /\ SumBucket \/ SumDone \/ FindBucket \/ FindNone
    /\ UNCHANGED viewVars

PercentileReturns ==
    /\ vpc = "percentile" /\ vpc' = "arguments"
    /\ ReadDone
    /\ Pass(<<"percentile", rp>>, result)
    /\ UNCHANGED <<walk, vi, sums, views, began, slack>>

Walk(groups) ==
    /\ walk' = groups
    /\ vi' = IF groups = <<>> THEN 0 ELSE Min(Indices[Head(groups)])
    /\ vpc' = IF groups = <<>> THEN "written" ELSE "walk"

ArgumentsDone ==
    /\ vpc = "arguments" /\ wanted = {}
    /\ Walk(Groups)
    /\ UNCHANGED <<wanted, shown, sums, views, began, slack, vars>>

(* Mutation: the open bucket at the end, or the other methods, are left    *)
(* out.                                                                    *)
LastOf_Closed(name) == Max(Indices[name]) - 1

LastOf(name) == Max(Indices[name])

LoadCount ==
    /\ vpc = "walk"
    /\ LET name  == Head(walk)
           sofar == IF name \in DOMAIN sums THEN sums[name] ELSE 0
       IN  /\ sums' = Put(sums, name, sofar + count[<<name, vi>>])
           /\ IF vi < LastOf(name) THEN vi' = vi + 1 /\ UNCHANGED <<vpc, walk>>
                                   ELSE Walk(Tail(walk))
    /\ UNCHANGED <<wanted, shown, views, began, slack, vars>>

EndView ==
    /\ vpc = "written" /\ vpc' = "idle"
    /\ shown' = <<>> /\ sums' = <<>> /\ began' = 0 /\ slack' = 0
    /\ UNCHANGED <<wanted, walk, vi, views, vars>>

View ==
    \/ StartView \/ LoadTotal \/ LoadErrors
    \/ CallPercentile \/ InPercentile \/ PercentileReturns
    \/ ArgumentsDone \/ LoadCount \/ EndView

Work ==
    /\ \E w \in Workers : LogHandler(w) \/ AddNext(w) \/ Crash(w)
    /\ views = 0 \/ reqs' + crashes' <= MaxViewEvents
    /\ UNCHANGED <<vpc, wanted, shown, walk, vi, sums, views, began, slack>>

ViewNext == Work \/ View

ViewSpec == ViewInit /\ [][ViewNext]_<<vars, viewVars>>

-----------------------------------------------------------------------------
ViewTypeOK ==
    /\ vpc \in {"idle", "arguments", "percentile", "walk", "written"}
    /\ wanted \subseteq Arguments /\ DOMAIN shown \subseteq Arguments
    /\ views \in 0 .. MaxViews /\ vi \in Nat

(* What a response says adds up although it is not a snapshot: each of its *)
(* histograms counts a request in one bucket, not in all that bound it, so *)
(* that the counts of a group make up the total, but for the requests that *)
(* were being added when it was loaded and those of the dead, and count    *)
(* none that has not come; and the error rate is above 1 by no more than   *)
(* the requests that came during the response.                             *)
ResponseAddsUp ==
    /\ ViewTypeOK
    /\ vpc = "written" =>
        /\ \A k \in DOMAIN Groups :
              sums[Groups[k]] \in shown[<<"total", 0>>] - slack .. TotalOf("total")
        /\ shown[<<"errors", 0>>] <= shown[<<"total", 0>>] + TotalOf("total") - began

(* The last count the walk takes from a histogram, that of the bucket the  *)
(* response labels "+Inf", is the number of all requests, as the documents *)
(* of the response show it: "le" counts are cumulative.                    *)
HistogramsCumulative ==
    vpc = "walk" /\ Head(walk) \in {"latency", "size"} /\ vi = LastOf(Head(walk)) =>
        count[<<Head(walk), vi>>] \in shown[<<"total", 0>>] - slack .. TotalOf("total")
=============================================================================

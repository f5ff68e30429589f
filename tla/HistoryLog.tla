----------------------------- MODULE HistoryLog ------------------------------
(* What the history promises while nobody reloads the configuration: the   *)
(* window of the most recent samples, at most capacity of them,            *)
(* consecutive and oldest first.  A full window gives up its oldest sample *)
(* before the next one is appended.                                        *)
EXTENDS Integers, Sequences

VARIABLES capacity,   \* how many samples are kept
          appended,   \* samples appended since the zone was created
          window      \* the numbers of the samples still kept

logVars == <<capacity, appended, window>>

LogInit == capacity \in Nat \ {0} /\ appended = 0 /\ window = <<>>

Evict ==
    /\ Len(window) = capacity
    /\ window' = Tail(window)
    /\ UNCHANGED <<capacity, appended>>

AppendSample ==
    /\ Len(window) < capacity
    /\ appended' = appended + 1
    /\ window' = Append(window, appended + 1)
    /\ UNCHANGED capacity

LogNext == Evict \/ AppendSample
LogStep == LogNext \/ UNCHANGED logVars
=============================================================================

----------------------------- MODULE MCCollector -----------------------------
(* A small instance of Collector for TLC: two pids, so that a new worker   *)
(* takes a fresh one while the other worker is not there, or one that a    *)
(* dead worker had, and two rows.  Process slots 0 and 1 have a row each;  *)
(* slots 0 and 2 share one, as slots do that are WORKERS_MAX apart.        *)
EXTENDS Collector

MCProcs   == {"p", "q"}
MCPids    == {101, 102}
MCLayouts ==
    {[x \in MCProcs |-> IF x = "p" THEN 0 ELSE other] : other \in {1, 2}}
=============================================================================

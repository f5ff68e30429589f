----------------------------- MODULE MCAccounting -----------------------------
(* A small instance of Accounting and RequestsView: requests on both sides *)
(* of each test in the code - a negative and a slow latency, a latency on  *)
(* a bound, a missing length, a missing status, a first and a later        *)
(* request over TLS, a monitoring endpoint.                                *)
EXTENDS RequestsView, TLC

Req(m, s, ms, len, tls, n) ==
    [endpoint |-> FALSE, method |-> m, status |-> s, ms |-> ms, length |-> len,
     ssl |-> tls, nth |-> n]

MCMethods == <<"GET", "POST">>
MCLatencyBounds == <<5, 100, 30000>>
MCSizeBounds    == <<512>>

MCRequests == {
    Req("GET", 200, -3, 512, TRUE, 1),
    Req("LOCK", 0, 100, -1, TRUE, 2),
    Req("POST", 502, 40000, 700, FALSE, 2),
    [Req("GET", 200, 1, 0, FALSE, 1) EXCEPT !.endpoint = TRUE]}

MCEarlier == {Req("POST", 502, 40000, 700, FALSE, 2)}

CONSTANTS w1, w2
MCWorkers == {w1, w2}
OneSlot == [w \in MCWorkers |-> 0]
Alike == Permutations(MCWorkers)
=============================================================================

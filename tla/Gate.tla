-------------------------------- MODULE Gate ---------------------------------
(***************************************************************************)
(* What the content handler decides about a request before any endpoint    *)
(* is served: which endpoint the path names, what the location allows, and *)
(* the status with which the request stops.  A path is the sequence of its *)
(* segments; a network is the set of its addresses; credentials and tokens *)
(* are values that are compared; of several X-Monitor-Token headers the    *)
(* first counts, and a request is given with that one.                     *)
(***************************************************************************)
EXTENDS Naturals, Sequences, FiniteSetsExt, TLC

Sections == {"system", "nginx", "network", "disk", "processes", "upstreams",
             "connections", "requests"}

MatchEndpoint(uri) ==
    CASE uri \in {<<"monitor">>, <<"monitor", "">>} -> "dashboard"
      [] uri \in {<<"monitor", e>> : e \in {"live", "metrics", "health"}} -> uri[2]
      [] uri = <<"monitor", "api">> -> "full"
      [] uri \in {<<"monitor", "api", s>> : s \in Sections} -> uri[3]
      [] OTHER -> "none"

-----------------------------------------------------------------------------
(* The directives of one block are a function on those that it gives; what *)
(* neither a block nor the one around it gives has its default.            *)
Defaults ==
    [monitor |-> FALSE, dashboard |-> TRUE, api |-> TRUE, sse |-> TRUE,
     rate_limit |-> 60, api_token |-> "", basic_auth |-> "", cors |-> "",
     rules |-> <<>>]

MergeLocConf(outer, inner) ==
    [d \in DOMAIN Defaults |->
        CASE d \in DOMAIN inner -> inner[d]
          [] d \in DOMAIN outer \ DOMAIN inner -> outer[d]
          [] OTHER -> Defaults[d]]

(* monitor_allow and monitor_deny: "all" stands for every family.          *)
AccessRule(conf, deny, family, hosts) ==
    LET own == IF "rules" \in DOMAIN conf THEN conf.rules ELSE <<>>
    IN  [rules |-> Append(own, [deny |-> deny, family |-> family, hosts |-> hosts])]
        @@ conf

RuleMatches(rule, addr) ==
    \/ rule.family = "all"
    \/ rule.family = addr.family /\ addr.host \in rule.hosts

(* Mutation: the last rule that matches decides.                           *)
MatchAccess_Last(rules, addr) ==
    LET hits == {i \in DOMAIN rules : RuleMatches(rules[i], addr)}
    IN  hits = {} \/ ~rules[Max(hits)].deny

(* The first rule that matches decides; without one, access is allowed.    *)
MatchAccess(rules, addr) ==
    LET hits == {i \in DOMAIN rules : RuleMatches(rules[i], addr)}
    IN  hits = {} \/ ~rules[Min(hits)].deny

BasicAuthOK(conf, r) ==
    \/ conf.basic_auth \in {"", "off"}
    \/ r.auth = [scheme |-> "Basic", value |-> conf.basic_auth]

ApiTokenOK(conf, r) ==
    \/ conf.api_token = ""
    \/ r.header = conf.api_token
    \/ r.auth = [scheme |-> "Bearer", value |-> conf.api_token]
    \/ r.arg = conf.api_token

(* The origin that may read the answer; cors is one, "*" or "off".         *)
AddCors(conf, fields) ==
    IF conf.cors \in {"", "off"} THEN fields ELSE Append(fields, conf.cors)

-----------------------------------------------------------------------------
SwitchedOff(e, conf) ==
    \/ e = "dashboard" /\ ~conf.dashboard
    \/ e \in Sections \cup {"full"} /\ ~conf.api
    \/ e = "live" /\ ~conf.sse

Stop(on, status) == [on |-> on, status |-> status]

(* The tests in the order in which the handler makes them.                 *)
Tests(e, conf, r, limited) ==
    << Stop(e = "none" \/ ~conf.monitor, "declined"),
       Stop(r.method = "OPTIONS", "204"),
       Stop(r.method \notin {"GET", "HEAD"}, "405"),
       Stop(SwitchedOff(e, conf), "404"),
       Stop(~MatchAccess(conf.rules, r.addr), "403"),
       Stop(~BasicAuthOK(conf, r), "401"),
       Stop(e # "dashboard" /\ ~ApiTokenOK(conf, r), "401"),
       Stop(conf.rate_limit # 0 /\ limited, "429") >>

(* The status of the first test that stops the request.                    *)
Verdict(e, conf, r, limited) ==
    LET tests == Tests(e, conf, r, limited)
        stops == {i \in DOMAIN tests : tests[i].on}
    IN  IF stops = {} THEN "serve" ELSE tests[Min(stops)].status
=============================================================================

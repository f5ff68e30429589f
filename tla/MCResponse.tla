----------------------------- MODULE MCResponse ------------------------------
(* Response with every kind of request against two dozen configurations   *)
(* and nothing to write; with one request and every sequence of up to two  *)
(* pieces before the rows, around the end of a buffer of a few bytes; and  *)
(* with one request that the access rules refuse.                          *)
EXTENDS Response

NoAuth == [scheme |-> "none", value |-> ""]

MCRequests ==
    [uri : {<<"monitor", "">>, <<"monitor", "live">>, <<"monitor", "health">>,
            <<"monitor", "api">>, <<"monitor", "api", "disk">>, <<"other">>},
     method : {"GET", "HEAD", "OPTIONS", "POST"},
     addr : {[family |-> "inet", host |-> h] : h \in {"near", "far"}}
            \cup {[family |-> "inet6", host |-> "near"], [family |-> "unix", host |-> ""]},
     auth : {NoAuth, [scheme |-> "Basic", value |-> "pass"],
             [scheme |-> "Basic", value |-> "wrong"],
             [scheme |-> "Bearer", value |-> "token"]},
     header : {"", "wrong", "token"},
     arg : {"", "token"}]

On == [monitor |-> TRUE]

(* Nearby addresses only; then all the others, or none of them.            *)
Near   == AccessRule(<<>>, FALSE, "inet", {"near"})
OnlyNear == AccessRule(Near, TRUE, "all", {})
NotFar == AccessRule(AccessRule(<<>>, TRUE, "inet", {"far"}), FALSE, "all", {})
NoSix  == AccessRule(<<>>, TRUE, "inet6", {"near"})

Locks ==
    {[basic_auth |-> b, api_token |-> t, rate_limit |-> n] :
        b \in {"off", "pass"}, t \in {"", "token"}, n \in {0, 60}}

MCBlocks ==
    {<<<<>>, <<>>>>, <<On, <<>>>>, <<On, [monitor |-> FALSE]>>,
     <<On, [dashboard |-> FALSE, sse |-> FALSE]>>,
     <<[api |-> FALSE, sse |-> FALSE], On @@ [cors |-> "*"]>>,
     <<On @@ OnlyNear @@ [cors |-> "site"], <<>>>>,
     <<On @@ OnlyNear @@ [cors |-> "*"], NotFar @@ [cors |-> "off"]>>, <<On @@ NoSix, [api |-> TRUE]>>}
    \cup {<<On, l>> : l \in Locks} \cup {<<On @@ [cors |-> "site"] @@ OnlyNear, l>> : l \in Locks}

Plain ==
    [uri |-> <<"monitor", "api">>, method |-> "GET",
     addr |-> [family |-> "inet", host |-> "near"],
     auth |-> NoAuth, header |-> "", arg |-> ""]

Contents(heads, feet, counts) == [head : heads, foot : feet, rowCount : counts]

Open(contents) ==
    [requests |-> {Plain}, blocks |-> {<<On, <<>>>>}, contents |-> contents]

MCCases ==
    {[requests |-> MCRequests, blocks |-> MCBlocks,
      contents |-> Contents({<<>>}, {<<>>}, {0})],
     Open(Contents(UNION {[1 .. m -> [by : {"append"}, len : 0 .. 5]
                                     \cup [by : {"printf"}, len : 1 .. 5]] : m \in 0 .. 2},
                   {<<>>, <<[by |-> "append", len |-> 1]>>}, 0 .. 2))}

MCRefused ==
    {[requests |-> {Plain}, blocks |-> {<<On, AccessRule(<<>>, TRUE, "all", {})>>},
      contents |-> Contents({<<>>}, {<<>>}, 0 .. 20)]}
=============================================================================

------------------------------ MODULE Response -------------------------------
(***************************************************************************)
(* A request to the module, from the content handler to the answer.  First *)
(* the gate: a request that it refuses gets a plain response at once.  The *)
(* return value of that response is what nginx said about sending it, and  *)
(* the handler goes on to the endpoint when it is NGX_OK.                  *)
(*                                                                         *)
(* A JSON, Prometheus or health response is written into one buffer of a   *)
(* fixed size, piece by piece, by two primitives.  The first piece that    *)
(* does not fit marks the response as failed; the pieces after it are      *)
(* skipped, and the request is answered with a 500 instead.  A piece is    *)
(* abstracted to the primitive that writes it and its length.  The pieces  *)
(* are a head, then, in the full response, one row for each sample of the  *)
(* history (with a comma before all but the first), then a foot.           *)
(***************************************************************************)
EXTENDS Integers, Functions, Gate

CONSTANTS
    Size,         \* of the buffer
    Cases,        \* families of requests, the blocks around them, and contents
    RowLength     \* the length of a row of the history

(* Every format of json_printf has characters of its own.                  *)
Piece == [by : {"append"}, len : Nat] \cup [by : {"printf"}, len : Nat \ {0}]

Rule == [deny : BOOLEAN, family : STRING, hosts : SUBSET STRING]

Block(b) == "rules" \in DOMAIN b => b.rules \in Seq(Rule)

ASSUME ResponseAssumption ==
    /\ {Size, RowLength} \subseteq Nat \ {0}
    /\ \A family \in Cases :
          /\ \A b \in family.blocks : b = <<b[1], b[2]>> /\ Block(b[1]) /\ Block(b[2])
          /\ \A c \in family.contents :
                c.head \in Seq(Piece) /\ c.foot \in Seq(Piece) /\ c.rowCount \in Nat

VARIABLES
    request,
    outer, inner,     \* the directives of the location and of the block around it
    content,          \* what is to be written
    fields,           \* of the header: origins that may read it, a challenge
    header, carried,  \* the status of the header that was sent, and its fields
    bodies,           \* the statuses whose bodies went to the output filter
    pos, failed,      \* the writer
    stage, k          \* where the handler is; which piece of the part it writes

given  == <<request, outer, inner, content>>
answer == <<fields, header, carried, bodies>>
responseVars == <<given, answer, pos, failed, stage, k>>

ResponseInit ==
    /\ \E family \in Cases :
           /\ request \in family.requests /\ content \in family.contents
           /\ \E blocks \in family.blocks : outer = blocks[1] /\ inner = blocks[2]
    /\ fields = <<>> /\ header = "none" /\ carried = <<>> /\ bodies = <<>>
    /\ pos = 0 /\ failed = FALSE
    /\ stage = "gate" /\ k = 1

Endpoint == MatchEndpoint(request.uri)
Conf     == MergeLocConf(outer, inner)

-----------------------------------------------------------------------------
(* nginx: only the first header is sent; a second one is an error.         *)
SendHeader(status) ==
    IF header = "none" THEN header' = status /\ carried' = fields'
                       ELSE UNCHANGED <<header, carried>>

(* No body for HEAD.  The body goes out whatever became of the header.     *)
SendBody(status) ==
    bodies' = IF request.method = "HEAD" THEN bodies ELSE Append(bodies, status)

(* An answer that nginx makes from a status, unless a header was sent.     *)
Special(status) ==
    /\ SendHeader(status)
    /\ IF header = "none" THEN SendBody(status) ELSE UNCHANGED bodies

Handle(limited, verdict) ==
    /\ stage = "gate"
    /\ verdict = Verdict(Endpoint, Conf, request, limited)
    /\ UNCHANGED <<given, pos, failed, k>>

DeclineRequest ==
    /\ \E limited \in BOOLEAN : Handle(limited, "declined")
    /\ stage' = "declined" /\ UNCHANGED answer

Preflight ==
    /\ \E limited \in BOOLEAN : Handle(limited, "204")
    /\ fields' = AddCors(Conf, fields)
    /\ SendHeader("204") /\ stage' = "done" /\ UNCHANGED bodies

Reject ==
    /\ UNCHANGED fields
    /\ \E limited \in BOOLEAN, status \in {"404", "405"} :
           Handle(limited, status) /\ Special(status)
    /\ stage' = "done"

(* authorize returns what nginx says about the refusal: NGX_OK when it     *)
(* was sent, and then the handler goes on, and adds the origin too late.   *)
Challenge(status) ==
    IF status = "401" /\ ~BasicAuthOK(Conf, request) THEN <<"challenge">> ELSE <<>>

Refuse ==
    /\ \E limited \in BOOLEAN, status \in {"401", "403", "429"} :
           /\ Handle(limited, status)
           /\ fields' = Challenge(status)
           /\ SendHeader(status) /\ SendBody(status)
    /\ \E rc \in {"ok", "again", "error"} :
           stage' = IF rc = "ok" THEN "admitted" ELSE "done"

Admit ==
    /\ \E limited \in BOOLEAN : Handle(limited, "serve")
    /\ stage' = "admitted" /\ UNCHANGED answer

Serve ==
    /\ stage = "admitted"
    /\ fields' = AddCors(Conf, fields)
    /\ stage' = "serve"
    /\ UNCHANGED <<given, header, carried, bodies, pos, failed, k>>

SendDashboard ==
    /\ stage = "serve" /\ Endpoint = "dashboard"
    /\ UNCHANGED <<given, fields, pos, failed, k>>
    /\ SendHeader("200") /\ SendBody("200") /\ stage' = "done"

(* A stream starts only when its header could be sent.                     *)
SendSse ==
    /\ stage = "serve" /\ Endpoint = "live"
    /\ UNCHANGED <<given, fields, bodies, pos, failed, k>>
    /\ SendHeader("200")
    /\ stage' = IF header = "none" /\ request.method = "GET" THEN "stream" ELSE "done"

SendJson ==
    /\ stage = "serve" /\ Endpoint \notin {"dashboard", "live"}
    /\ stage' = "head"
    /\ UNCHANGED <<given, answer, pos, failed, k>>

-----------------------------------------------------------------------------
(* json_append, and the characters of json_string, may fill the buffer.    *)
AppendFits(len, p) == p + len <= Size

(* Mutation: a result that was cut is taken for a whole one.               *)
PrintfFits_Cut(len, p) == Size - p > 1

(* json_printf cannot tell a result that fills the buffer from one that    *)
(* was cut: it fails both, and it fails with a byte or less to go.         *)
PrintfFits(len, p) == Size - p > 1 /\ p + len < Size

Fits(piece, p) ==
    IF piece.by = "append" THEN AppendFits(piece.len, p) ELSE PrintfFits(piece.len, p)

(* Where a piece ends that is taken to fit; vslprintf stops at the end.    *)
EndOf(piece, p) ==
    IF piece.by = "append" THEN p + piece.len ELSE Min({p + piece.len, Size})

Put(piece) ==
    IF failed \/ ~Fits(piece, pos)
      THEN failed' = TRUE /\ UNCHANGED pos
      ELSE pos' = EndOf(piece, pos) /\ UNCHANGED failed

Part(name, pieces, next) ==
    /\ stage = name
    /\ IF k <= Len(pieces)
         THEN Put(pieces[k]) /\ k' = k + 1 /\ UNCHANGED stage
         ELSE stage' = next /\ k' = 1 /\ UNCHANGED <<pos, failed>>
    /\ UNCHANGED <<given, answer>>

WriteHead == Part("head", content.head, "rows")

(* Only the full response has the history.                                 *)
RowCount == IF Endpoint = "full" THEN content.rowCount ELSE 0

Comma == [by |-> "append", len |-> 1]
Row   == [by |-> "printf", len |-> RowLength]

(* A row after its comma; they fail together with whichever does not fit.  *)
WriteRow ==
    /\ stage = "rows" /\ k <= RowCount
    /\ LET comma == ~failed /\ (k = 1 \/ Fits(Comma, pos))
           at    == IF k > 1 /\ comma THEN EndOf(Comma, pos) ELSE pos
           row   == comma /\ Fits(Row, at)
       IN  /\ failed' = ~row
           /\ pos' = IF row THEN EndOf(Row, at) ELSE at
    /\ k' = k + 1
    /\ UNCHANGED <<given, answer, stage>>

RowsDone ==
    /\ stage = "rows" /\ k > RowCount
    /\ stage' = "foot" /\ k' = 1
    /\ UNCHANGED <<given, answer, pos, failed>>

WriteFoot == Part("foot", content.foot, "send")

(* send_buffer, or the 500 of a response that does not fit.                *)
SendBuffer ==
    /\ stage = "send"
    /\ UNCHANGED <<given, fields, pos, failed, k>>
    /\ IF failed
         THEN Special("500") /\ stage' = "error"
         ELSE SendHeader("200") /\ SendBody("200") /\ stage' = "sent"

ResponseNext ==
    \/ DeclineRequest \/ Preflight \/ Reject \/ Refuse \/ Admit \/ Serve
    \/ SendDashboard \/ SendSse \/ SendJson
    \/ WriteHead \/ WriteRow \/ RowsDone \/ WriteFoot \/ SendBuffer

ResponseSpec == ResponseInit /\ [][ResponseNext]_responseVars

-----------------------------------------------------------------------------
Statuses == {"200", "204", "401", "403", "404", "405", "429", "500"}
Ends     == {"declined", "done", "stream", "sent", "error"}

ResponseTypeOK ==
    /\ \E family \in Cases :
           /\ request \in family.requests /\ content \in family.contents
           /\ <<outer, inner>> \in family.blocks
    /\ header \in Statuses \cup {"none"} /\ bodies \in Seq(Statuses)
    /\ {fields, carried} \subseteq Seq({"challenge", Conf.cors})
    /\ pos \in 0 .. Size /\ failed \in BOOLEAN
    /\ stage \in {"gate", "admitted", "serve", "head", "rows", "foot", "send"} \cup Ends
    /\ k \in Nat \ {0}

Lengths(pieces) ==
    LET len == [i \in DOMAIN pieces |-> pieces[i].len]
    IN  SumFunctionOnSet(len, DOMAIN pieces)

Whole ==
    Lengths(content.head) + Lengths(content.foot) + RowCount * RowLength
    + (IF RowCount = 0 THEN 0 ELSE RowCount - 1)

(* A response that is sent is whole, never cut at the end of the buffer or *)
(* with a piece in the middle left out; and only one that does not fit, or *)
(* that would fill the buffer to the last byte, becomes an error.          *)
WholeOrError ==
    /\ ResponseTypeOK
    /\ stage = "sent" => pos = Whole
    /\ stage = "error" => Whole >= Size

-----------------------------------------------------------------------------
(* "ACL rules are evaluated in order"; a block without any takes those of  *)
(* the block around it.                                                    *)
Rules ==
    IF "rules" \in DOMAIN inner THEN inner.rules
    ELSE IF "rules" \in DOMAIN outer THEN outer.rules ELSE <<>>

Blocked ==
    \E i \in DOMAIN Rules :
        /\ Rules[i].deny /\ RuleMatches(Rules[i], request.addr)
        /\ \A j \in 1 .. i - 1 : ~RuleMatches(Rules[j], request.addr)

(* "Basic Auth or API token is missing or wrong."  The dashboard needs no  *)
(* token; a token may come in any of three places.                         *)
Credentials ==
    /\ Conf.basic_auth \notin {"", "off"} =>
           request.auth = [scheme |-> "Basic", value |-> Conf.basic_auth]
    /\ Conf.api_token # "" /\ Endpoint # "dashboard" =>
           \/ Conf.api_token \in {request.header, request.arg}
           \/ request.auth = [scheme |-> "Bearer", value |-> Conf.api_token]

Documented ==
    /\ header = "403" <=> Blocked
    /\ header = "401" <=> ~Blocked /\ ~Credentials
    /\ header = "429" => Conf.rate_limit # 0
    /\ ~Blocked /\ Credentials => header \in {"200", "429", "500"}

(* "`monitor_cors` accepts `off`, `*`, or a literal origin."               *)
Origins == IF Conf.cors \in {"", "off"} THEN <<>> ELSE <<Conf.cors>>

(* The status that a client reads is the one the documentation names: 403  *)
(* for exactly the addresses that the rules block, 401 for missing or      *)
(* wrong credentials, 429 only where a limit is set, and a request without *)
(* any such fault is served, whatever the handler does after a refusal.    *)
(* What is served, and what answers a preflight, may be read by the origin *)
(* of monitor_cors, named once; a refusal by none.                         *)
AnswerAsDocumented ==
    stage \in Ends /\ Conf.monitor /\ Endpoint # "none" =>
        /\ request.method \in {"GET", "HEAD"} /\ header # "404" => Documented
        /\ header \in {"200", "204", "500"} => carried = Origins
        /\ header \in {"401", "403", "404", "405", "429"} =>
               carried \in {<<>>, <<"challenge">>}

(* "`403`: `monitor_allow` / `monitor_deny` blocked the client IP": such a *)
(* request gets that answer and no other one after it.                     *)
AnsweredOnce == Len(bodies) <= 1
=============================================================================

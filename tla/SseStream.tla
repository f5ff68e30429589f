------------------------------ MODULE SseStream ------------------------------
(***************************************************************************)
(* The Server-Sent-Events endpoint /monitor/live.  A client is a request   *)
(* that stays open: send_sse counts it in the shared gauge sse_clients,    *)
(* writes a first event and arms a timer; every tick writes one event from *)
(* one of two buffers used in turn, or skips when the connection still     *)
(* holds output; the pool's cleanup undoes the registration.               *)
(*                                                                         *)
(* A worker runs one handler at a time; handlers of different workers      *)
(* interleave at the shared counters.  nginx owns the connection: that it  *)
(* sends or keeps a buffer, drains it, sees the peer go and frees a        *)
(* finalized request is modelled as the environment of this code.          *)
(***************************************************************************)
EXTENDS Integers, FiniteSets

CONSTANTS
    Workers, Clients,
    MaxEvents,    \* bound on the events written to a client
    MaxCrashes    \* bound on the workers that die

ASSUME SseAssumption ==
    /\ IsFiniteSet(Clients) /\ Clients # {}
    /\ MaxEvents \in Nat \ {0} /\ MaxCrashes \in Nat

VARIABLES
    home,        \* the worker that accepted the connection of a client
    life,        \* of a worker: "up", "exiting" or "down"
    pc, cur,     \* the handler a worker is in, and its client
    request,     \* of a client: "none", "open", "finalized" or "freed"
    closed, timer, sequence, slot,    \* ngx_http_monitoring_sse_client_t
    held,        \* the buffers the connection has not sent yet
    peer,        \* "fine", "gone" (writes fail) or "error" (connection->error)
    spoiled,     \* a buffer was rewritten while the connection held it
    sseClients, sseEvents,            \* shared memory
    leaked, crashes

client  == <<request, closed, timer, sequence, slot>>
conn    == <<held, peer, spoiled>>
gauges  == <<sseClients, sseEvents>>
vars    == <<home, life, pc, cur, client, conn, gauges, leaked, crashes>>

Handlers == {"idle", "first", "tick", "events", "cleanup", "decrement"}

Init ==
    /\ home \in [Clients -> Workers]
    /\ life = [w \in Workers |-> "up"]
    /\ pc = [w \in Workers |-> "idle"]
    /\ cur \in [Workers -> {CHOOSE c \in Clients : TRUE}]
    /\ request = [c \in Clients |-> "none"]
    /\ closed = [c \in Clients |-> FALSE]
    /\ timer = [c \in Clients |-> FALSE]
    /\ sequence = [c \in Clients |-> 0]
    /\ slot = [c \in Clients |-> 0]
    /\ held = [c \in Clients |-> {}]
    /\ peer = [c \in Clients |-> "fine"]
    /\ spoiled = FALSE
    /\ sseClients = 0 /\ sseEvents = 0
    /\ leaked = 0 /\ crashes = 0

Free(w) == life[w] # "down" /\ pc[w] = "idle"

Enter(c, handler) ==
    /\ Free(home[c])
    /\ pc' = [pc EXCEPT ![home[c]] = handler]
    /\ cur' = [cur EXCEPT ![home[c]] = c]

Leave(w) == pc' = [pc EXCEPT ![w] = "idle"] /\ UNCHANGED cur

-----------------------------------------------------------------------------
NextSlot(c) == 1 - slot[c]

(* sse_write up to the output filter: the other buffer is filled, whether  *)
(* or not the connection still holds it.  The filter sends it, keeps it or *)
(* fails; the payload always fits in a buffer.                             *)
Fill(c, s) ==
    /\ slot' = [slot EXCEPT ![c] = s]
    /\ spoiled' = (spoiled \/ s \in held[c])

Sent(c) == held[c] = {} /\ UNCHANGED held
Kept(c) == held' = [held EXCEPT ![c] = @ \cup {NextSlot(c)}]

Finalize(c) == request' = [request EXCEPT ![c] = "finalized"]

(* Mutation: a tick does not look whether output is pending.               *)
Blocked_Never(c) == FALSE

(* The connection reports buffered output.                                 *)
Blocked(c) == held[c] # {}

-----------------------------------------------------------------------------
(* send_sse: the headers are out and the client is registered.  The first  *)
(* event follows in the same handler.                                      *)
Open(c) ==
    /\ request[c] = "none" /\ life[home[c]] = "up"
    /\ Enter(c, "first")
    /\ request' = [request EXCEPT ![c] = "open"]
    /\ sseClients' = sseClients + 1
    /\ UNCHANGED <<home, life, closed, timer, sequence, slot, conn, sseEvents, leaked, crashes>>

(* Mutation: a failed connection is left to the write to find out.         *)
Tick_NoError(c) ==
    /\ timer[c] /\ (sequence[c] < MaxEvents \/ peer[c] # "fine")
    /\ Free(home[c])
    /\ IF Blocked(c)
         THEN UNCHANGED <<request, timer, pc, cur>>
         ELSE /\ Enter(c, "tick") /\ timer' = [timer EXCEPT ![c] = FALSE]
              /\ UNCHANGED request
    /\ UNCHANGED <<home, life, closed, sequence, slot, conn, gauges, leaked, crashes>>

(* The timer fires: a client that is closed or whose connection failed is  *)
(* finalized, one with pending output waits another interval.              *)
Tick(c) ==
    /\ timer[c] /\ (sequence[c] < MaxEvents \/ peer[c] # "fine")
    /\ Free(home[c])
    /\ IF closed[c] \/ peer[c] = "error"
         THEN /\ Finalize(c) /\ timer' = [timer EXCEPT ![c] = FALSE]
              /\ UNCHANGED <<pc, cur>>
         ELSE IF Blocked(c)
         THEN UNCHANGED <<request, timer, pc, cur>>
         ELSE /\ Enter(c, "tick") /\ timer' = [timer EXCEPT ![c] = FALSE]
              /\ UNCHANGED request
    /\ UNCHANGED <<home, life, closed, sequence, slot, conn, gauges, leaked, crashes>>

Write(w) ==
    LET c == cur[w] IN
    /\ pc[w] \in {"first", "tick"} /\ peer[c] = "fine"
    /\ Fill(c, NextSlot(c))
    /\ Sent(c) \/ Kept(c)
    /\ pc' = [pc EXCEPT ![w] = "events"] /\ UNCHANGED cur
    /\ UNCHANGED <<home, life, request, closed, timer, sequence, peer, gauges, leaked, crashes>>

(* The write fails: the request is finalized and the timer not armed.      *)
WriteFails(w) ==
    LET c == cur[w] IN
    /\ pc[w] \in {"first", "tick"} /\ peer[c] # "fine"
    /\ Fill(c, NextSlot(c))
    /\ Finalize(c)
    /\ Leave(w)
    /\ UNCHANGED <<home, life, closed, timer, sequence, held, peer, gauges, leaked, crashes>>

(* Mutation: only the first event arms the timer.                          *)
CountEvent_Once(w) ==
    LET c == cur[w] IN
    /\ pc[w] = "events"
    /\ sseEvents' = sseEvents + 1
    /\ sequence' = [sequence EXCEPT ![c] = @ + 1]
    /\ timer' = [timer EXCEPT ![c] = (sequence[c] = 0)]
    /\ Leave(w)
    /\ UNCHANGED <<home, life, request, closed, slot, conn, sseClients, leaked, crashes>>

CountEvent(w) ==
    LET c == cur[w] IN
    /\ pc[w] = "events"
    /\ sseEvents' = sseEvents + 1
    /\ sequence' = [sequence EXCEPT ![c] = @ + 1]
    /\ timer' = [timer EXCEPT ![c] = TRUE]
    /\ Leave(w)
    /\ UNCHANGED <<home, life, request, closed, slot, conn, sseClients, leaked, crashes>>

-----------------------------------------------------------------------------
(* Mutation: freeing the request leaves its timer armed.                   *)
Cleanup_Timer(c) ==
    /\ request[c] = "finalized" /\ ~closed[c]
    /\ Enter(c, "cleanup")
    /\ closed' = [closed EXCEPT ![c] = TRUE]
    /\ UNCHANGED <<home, life, request, timer, sequence, slot, conn, gauges, leaked, crashes>>

(* sse_cleanup, run when nginx frees the request's pool.                   *)
Cleanup(c) ==
    /\ request[c] = "finalized" /\ ~closed[c]
    /\ Enter(c, "cleanup")
    /\ closed' = [closed EXCEPT ![c] = TRUE]
    /\ timer' = [timer EXCEPT ![c] = FALSE]
    /\ UNCHANGED <<home, life, request, sequence, slot, conn, gauges, leaked, crashes>>

Released(w) ==
    /\ request' = [request EXCEPT ![cur[w]] = "freed"]
    /\ held' = [held EXCEPT ![cur[w]] = {}]

TestGauge(w) ==
    /\ pc[w] = "cleanup"
    /\ IF sseClients > 0
         THEN /\ pc' = [pc EXCEPT ![w] = "decrement"]
              /\ UNCHANGED <<cur, request, held>>
         ELSE Leave(w) /\ Released(w)
    /\ UNCHANGED <<home, life, closed, timer, sequence, slot, peer, spoiled, gauges,
                   leaked, crashes>>

(* Mutation: the gauge goes up when a client leaves.                       *)
Decrement_Up(w) ==
    /\ pc[w] = "decrement"
    /\ sseClients' = sseClients + 1
    /\ Leave(w) /\ Released(w)
    /\ UNCHANGED <<home, life, closed, timer, sequence, slot, peer, spoiled, sseEvents,
                   leaked, crashes>>

Decrement(w) ==
    /\ pc[w] = "decrement"
    /\ sseClients' = sseClients - 1
    /\ Leave(w) /\ Released(w)
    /\ UNCHANGED <<home, life, closed, timer, sequence, slot, peer, spoiled, sseEvents,
                   leaked, crashes>>

-----------------------------------------------------------------------------
(* The environment: the connection sends what it holds, the peer goes      *)
(* away, nginx ends the request for reasons of its own.                    *)
Drain(c) ==
    /\ held[c] # {} /\ Free(home[c])
    /\ held' = [held EXCEPT ![c] = {}]
    /\ UNCHANGED <<home, life, pc, cur, client, peer, spoiled, gauges, leaked, crashes>>

PeerGoes(c) ==
    /\ request[c] = "open" /\ peer[c] = "fine" /\ life[home[c]] # "down"
    /\ peer' = [peer EXCEPT ![c] = "gone"]
    /\ UNCHANGED <<home, life, pc, cur, client, held, spoiled, gauges, leaked, crashes>>

(* nginx notices, and may end the request without waiting for the timer.   *)
Notice(c) ==
    /\ request[c] = "open" /\ peer[c] = "gone" /\ Free(home[c])
    /\ peer' = [peer EXCEPT ![c] = "error"]
    /\ \/ Finalize(c)
       \/ UNCHANGED request
    /\ UNCHANGED <<home, life, pc, cur, closed, timer, sequence, slot, held, spoiled, gauges,
                   leaked, crashes>>

Quit(w) ==
    /\ life[w] = "up" /\ Free(w)
    /\ life' = [life EXCEPT ![w] = "exiting"]
    /\ UNCHANGED <<home, pc, cur, client, conn, gauges, leaked, crashes>>

Served(w) == {c \in Clients : home[c] = w /\ request[c] \in {"open", "finalized"}}

(* The end of a process takes its requests along and runs no cleanup.      *)
Vanish(w) ==
    /\ life' = [life EXCEPT ![w] = "down"]
    /\ leaked' = leaked + Cardinality(Served(w))
    /\ request' = [c \in Clients |-> IF c \in Served(w) THEN "freed" ELSE request[c]]
    /\ pc' = [pc EXCEPT ![w] = "idle"]
    /\ UNCHANGED <<home, cur, closed, sequence, slot, conn, gauges>>

(* A worker that quits waits until no timer is left, and for nothing else: *)
(* a finalized request that nginx has not freed yet is lost.               *)
Exit(w) ==
    /\ life[w] = "exiting" /\ Free(w)
    /\ \A c \in Clients : home[c] = w => ~timer[c]
    /\ Vanish(w)
    /\ UNCHANGED <<timer, crashes>>

Crash(w) ==
    /\ life[w] # "down" /\ crashes < MaxCrashes
    /\ crashes' = crashes + 1
    /\ timer' = [c \in Clients |-> timer[c] /\ home[c] # w]
    /\ Vanish(w)

Handle(w) == Write(w) \/ WriteFails(w) \/ CountEvent(w) \/ TestGauge(w) \/ Decrement(w)

Next ==
    \/ \E c \in Clients : Open(c) \/ Tick(c) \/ Cleanup(c)
    \/ \E c \in Clients : Drain(c) \/ PeerGoes(c) \/ Notice(c)
    \/ \E w \in Workers : Handle(w) \/ Quit(w) \/ Exit(w) \/ Crash(w)

(* Handlers run on, expired timers are served, a worker with no timer left *)
(* exits.  Nothing is assumed of the connection: a peer may stay for ever, *)
(* its output need not drain, and nginx need never notice that it went,    *)
(* for the module asks for no event and no timeout of the connection; nor  *)
(* of when nginx frees a finalized request.                                *)
Fairness ==
    /\ \A c \in Clients : WF_vars(Tick(c))
    /\ \A w \in Workers : WF_vars(Handle(w)) /\ WF_vars(Exit(w))

Spec == Init /\ [][Next]_vars /\ Fairness

-----------------------------------------------------------------------------
TypeOK ==
    /\ home \in [Clients -> Workers]
    /\ life \in [Workers -> {"up", "exiting", "down"}]
    /\ pc \in [Workers -> Handlers] /\ cur \in [Workers -> Clients]
    /\ request \in [Clients -> {"none", "open", "finalized", "freed"}]
    /\ closed \in [Clients -> BOOLEAN] /\ timer \in [Clients -> BOOLEAN]
    /\ sequence \in [Clients -> 0 .. MaxEvents] /\ slot \in [Clients -> {0, 1}]
    /\ held \in [Clients -> SUBSET {0, 1}]
    /\ peer \in [Clients -> {"fine", "gone", "error"}] /\ spoiled \in BOOLEAN
    /\ sseClients \in Nat /\ sseEvents \in Nat
    /\ leaked \in 0 .. Cardinality(Clients) /\ crashes \in 0 .. MaxCrashes

(* An event is never written into a buffer that the connection has not     *)
(* sent yet, however slowly the client reads: two buffers are enough       *)
(* because a tick with pending output is skipped.                          *)
BuffersIntact == ~spoiled

(* Registered clients: counted by send_sse and not yet by the cleanup.     *)
Registered == {c \in Clients : request[c] \in {"open", "finalized"}}

(* The gauge is the number of registered clients plus those lost with a    *)
(* worker that died, or that exited before nginx freed a finalized         *)
(* request: no other path leaks one, none is subtracted twice, and the     *)
(* unlocked test before the decrement never lets it underflow.             *)
GaugeExact ==
    /\ TypeOK
    /\ sseClients = Cardinality(Registered) + leaked

(* A timer outlives neither its request nor its worker: it would fire on   *)
(* freed memory.                                                           *)
NoTimerAfterFree ==
    \A c \in Clients : request[c] = "freed" \/ life[home[c]] = "down" => ~timer[c]

Attended == \A c \in Clients :
    request[c] = "open" /\ life[home[c]] # "down" =>
        timer[c] \/ (pc[home[c]] # "idle" /\ cur[home[c]] = c)

(* An open stream is either inside a handler or has its timer armed, and   *)
(* a handler that writes does so for a client that was not given up.       *)
StreamAlive ==
    /\ Attended
    /\ \A w \in Workers :
          pc[w] \in {"first", "tick", "events"} => request[cur[w]] = "open"

(* A stream that holds its worker back: the peer takes what is written, or *)
(* it is gone, output is pending and nginx has not noticed.                *)
Lingers(w) == \E c \in Clients :
    /\ home[c] = w /\ request[c] = "open"
    /\ peer[c] = "fine" \/ (peer[c] = "gone" /\ held[c] # {})

(* A worker told to quit exits unless one of its streams holds it back: a  *)
(* failed connection, also one with output pending, and a peer that went   *)
(* with nothing pending are found by the next tick, which gives the timer  *)
(* up for good.                                                            *)
QuitCompletes == \A w \in Workers :
    life[w] = "exiting" ~> life[w] = "down" \/ Lingers(w)
=============================================================================

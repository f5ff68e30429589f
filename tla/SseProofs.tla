------------------------------ MODULE SseProofs ------------------------------
(* What a stream keeps of its request, its timer and its buffers, and what *)
(* the shared gauge counts, for every number of workers and clients and    *)
(* every order of ticks, failures, cleanups, exits and crashes.            *)
EXTENDS SseStream, FiniteSetTheorems, TLAPS

(* A handler serves a client of its own living worker.  While it writes,   *)
(* the request is open and its timer is off; while it cleans up, the       *)
(* client is finalized and closed.                                         *)
Handling(w) ==
    /\ home[cur[w]] = w /\ life[w] # "down"
    /\ ~timer[cur[w]]
    /\ pc[w] \in {"first", "tick", "events"} => request[cur[w]] = "open"
    /\ pc[w] \in {"first", "tick"} =>
          /\ held[cur[w]] = {}
          /\ peer[cur[w]] = "fine" => sequence[cur[w]] < MaxEvents
    /\ pc[w] = "events" => sequence[cur[w]] < MaxEvents
    /\ pc[w] \in {"cleanup", "decrement"} =>
          request[cur[w]] = "finalized" /\ closed[cur[w]]

HandlerInv == \A w \in Workers : pc[w] # "idle" => Handling(w)

(* A client not yet opened is untouched; an armed timer belongs to a       *)
(* request that is not freed, on a living worker, and if that request was  *)
(* finalized the tick will find the connection in error.                   *)
ClientInv == \A c \in Clients :
    /\ request[c] = "none" =>
          ~timer[c] /\ ~closed[c] /\ held[c] = {} /\ sequence[c] = 0
    /\ timer[c] => request[c] \in {"open", "finalized"} /\ life[home[c]] # "down"
    /\ timer[c] /\ request[c] = "finalized" => peer[c] = "error"
    /\ request[c] \in {"open", "finalized"} => life[home[c]] # "down"

Shape ==
    /\ home \in [Clients -> Workers]
    /\ life \in [Workers -> {"up", "exiting", "down"}]
    /\ pc \in [Workers -> Handlers] /\ cur \in [Workers -> Clients]
    /\ request \in [Clients -> {"none", "open", "finalized", "freed"}]
    /\ closed \in [Clients -> BOOLEAN] /\ timer \in [Clients -> BOOLEAN]
    /\ sequence \in [Clients -> 0 .. MaxEvents] /\ slot \in [Clients -> {0, 1}]
    /\ held \in [Clients -> SUBSET {0, 1}]
    /\ peer \in [Clients -> {"fine", "gone", "error"}] /\ spoiled \in BOOLEAN
    /\ sseEvents \in Nat /\ crashes \in 0 .. MaxCrashes

StreamInv == Shape /\ HandlerInv /\ ClientInv /\ Attended /\ BuffersIntact

-----------------------------------------------------------------------------
LEMMA InitStream == Init => StreamInv
<1>1. (CHOOSE c \in Clients : TRUE) \in Clients
  BY SseAssumption
<1> SUFFICES ASSUME Init PROVE StreamInv
  OBVIOUS
<1>2. cur \in [Workers -> Clients]
  <2> DEFINE first == CHOOSE c \in Clients : TRUE
  <2>1. cur \in [Workers -> {first}] /\ first \in Clients
    BY <1>1 DEF Init
  <2> HIDE DEF first
  <2> QED BY <2>1
<1>3. held \in [Clients -> SUBSET {0, 1}]
  BY DEF Init
<1>4. /\ pc \in [Workers -> Handlers] /\ life \in [Workers -> {"up", "exiting", "down"}]
      /\ request \in [Clients -> {"none", "open", "finalized", "freed"}]
      /\ peer \in [Clients -> {"fine", "gone", "error"}]
  BY DEF Init, Handlers
<1>5. /\ home \in [Clients -> Workers]
      /\ closed \in [Clients -> BOOLEAN] /\ timer \in [Clients -> BOOLEAN]
      /\ spoiled \in BOOLEAN
  BY DEF Init
<1>6. /\ sequence \in [Clients -> 0 .. MaxEvents] /\ slot \in [Clients -> {0, 1}]
      /\ sseEvents \in Nat /\ crashes \in 0 .. MaxCrashes
  BY SseAssumption DEF Init
<1>7. Shape
  BY <1>2, <1>3, <1>4, <1>5, <1>6 DEF Shape
<1> QED
  BY <1>7 DEF Init, Shape, StreamInv, HandlerInv, ClientInv, Attended, BuffersIntact

(* The end of a process: none of its requests, timers or handlers stays.   *)
LEMMA VanishStream ==
    ASSUME StreamInv, NEW w \in Workers, Vanish(w),
           timer' \in [Clients -> BOOLEAN], crashes' \in 0 .. MaxCrashes,
           \A c \in Clients : home[c] = w => ~timer'[c],
           \A c \in Clients : home[c] # w => timer'[c] = timer[c]
    PROVE  StreamInv'
<1> USE DEF StreamInv, Vanish, Served, conn, gauges
<1>1. Shape'
  BY DEF Shape, Handlers
<1>2. HandlerInv'
  BY DEF Shape, HandlerInv, Handling
<1>3. ClientInv'
  BY DEF Shape, ClientInv
<1>4. Attended'
  BY DEF Shape, Attended, ClientInv, HandlerInv, Handling
<1> QED BY <1>1, <1>2, <1>3, <1>4 DEF BuffersIntact

LEMMA StepStream == StreamInv /\ [Next]_vars => StreamInv'
<1> SUFFICES ASSUME StreamInv, [Next]_vars PROVE StreamInv'
  OBVIOUS
<1> USE SseAssumption DEF StreamInv, BuffersIntact, client, conn, gauges
<1>1. ASSUME NEW c \in Clients, Open(c) PROVE StreamInv'
  <2> USE <1>1 DEF Open, Enter, Free
  <2>1. Shape' BY DEF Shape, Handlers
  <2>2. HandlerInv' BY DEF Shape, HandlerInv, Handling, ClientInv
  <2>3. ClientInv' BY DEF Shape, ClientInv, HandlerInv, Handling
  <2>4. Attended' BY DEF Shape, Attended
  <2> QED BY <2>1, <2>2, <2>3, <2>4
<1>2. ASSUME NEW c \in Clients, Tick(c) PROVE StreamInv'
  <2> USE <1>2 DEF Tick, Enter, Free, Finalize, Blocked
  <2>1. Shape'
    <3>1. pc' \in [Workers -> Handlers] /\ cur' \in [Workers -> Clients]
      BY SMTT(30) DEF Shape, Handlers
    <3>2. /\ request' \in [Clients -> {"none", "open", "finalized", "freed"}]
          /\ timer' \in [Clients -> BOOLEAN]
      BY DEF Shape
    <3> QED BY <3>1, <3>2 DEF Shape
  <2>2. HandlerInv'
    <3> SUFFICES ASSUME NEW w \in Workers, pc'[w] # "idle" PROVE Handling(w)'
      BY DEF HandlerInv
    <3>1. CASE pc'[w] = pc[w] /\ cur'[w] = cur[w]
      BY <3>1 DEF Shape, HandlerInv, Handling
    <3>2. CASE ~(pc'[w] = pc[w] /\ cur'[w] = cur[w])
      <4>1. w = home[c] /\ pc'[w] = "tick" /\ cur'[w] = c /\ held[c] = {} /\ peer[c] # "error"
        BY <3>2 DEF Shape
      <4> QED BY <4>1 DEF Shape, Handling, ClientInv
    <3> QED BY <3>1, <3>2
  <2>3. ClientInv' BY DEF Shape, ClientInv, HandlerInv, Handling
  <2>4. Attended' BY DEF Shape, Attended
  <2> QED BY <2>1, <2>2, <2>3, <2>4
<1>3. ASSUME NEW c \in Clients, Cleanup(c) PROVE StreamInv'
  <2> USE <1>3 DEF Cleanup, Enter, Free
  <2>1. Shape' BY DEF Shape, Handlers
  <2>2. HandlerInv' BY DEF Shape, HandlerInv, Handling, ClientInv
  <2>3. ClientInv' BY DEF Shape, ClientInv, HandlerInv, Handling
  <2>4. Attended' BY DEF Shape, Attended
  <2> QED BY <2>1, <2>2, <2>3, <2>4
<1>4. ASSUME NEW c \in Clients, Drain(c) PROVE StreamInv'
  BY <1>4 DEF Drain, Free, Shape, HandlerInv, Handling, ClientInv, Attended
<1>5. ASSUME NEW c \in Clients, PeerGoes(c) PROVE StreamInv'
  BY <1>5 DEF PeerGoes, Shape, HandlerInv, Handling, ClientInv, Attended
<1>6. ASSUME NEW c \in Clients, Notice(c) PROVE StreamInv'
  <2> USE <1>6 DEF Notice, Free, Finalize
  <2>1. Shape' BY DEF Shape, Handlers
  <2>2. HandlerInv' BY DEF Shape, HandlerInv, Handling
  <2>3. ClientInv' BY DEF Shape, ClientInv, HandlerInv, Handling
  <2>4. Attended' BY DEF Shape, Attended
  <2> QED BY <2>1, <2>2, <2>3, <2>4
<1>7. ASSUME NEW w \in Workers, Write(w) PROVE StreamInv'
  <2> USE <1>7 DEF Write, Fill, Sent, Kept, NextSlot
  <2>1. cur[w] \in Clients /\ Handling(w) BY DEF Shape, HandlerInv
  <2>2. Shape' BY <2>1 DEF Shape, Handlers
  <2>3. HandlerInv' BY <2>1 DEF Shape, HandlerInv, Handling
  <2>4. ClientInv' BY <2>1 DEF Shape, ClientInv, Handling
  <2>5. Attended' BY <2>1 DEF Shape, Attended, Handling
  <2>6. ~spoiled' BY <2>1 DEF Handling
  <2> QED BY <2>2, <2>3, <2>4, <2>5, <2>6
<1>8. ASSUME NEW w \in Workers, WriteFails(w) PROVE StreamInv'
  <2> USE <1>8 DEF WriteFails, Fill, NextSlot, Finalize, Leave
  <2>1. cur[w] \in Clients /\ Handling(w) BY DEF Shape, HandlerInv
  <2>2. Shape' BY <2>1 DEF Shape, Handlers
  <2>3. HandlerInv' BY <2>1 DEF Shape, HandlerInv, Handling
  <2>4. ClientInv' BY <2>1 DEF Shape, ClientInv, Handling
  <2>5. Attended' BY <2>1 DEF Shape, Attended, Handling
  <2>6. ~spoiled' BY <2>1 DEF Handling
  <2> QED BY <2>2, <2>3, <2>4, <2>5, <2>6
<1>9. ASSUME NEW w \in Workers, CountEvent(w) PROVE StreamInv'
  <2> USE <1>9 DEF CountEvent, Leave
  <2>1. cur[w] \in Clients /\ Handling(w) BY DEF Shape, HandlerInv
  <2>2. Shape' BY <2>1 DEF Shape, Handlers, Handling
  <2>3. HandlerInv' BY <2>1 DEF Shape, HandlerInv, Handling
  <2>4. ClientInv' BY <2>1 DEF Shape, ClientInv, Handling
  <2>5. Attended' BY <2>1 DEF Shape, Attended, Handling
  <2> QED BY <2>2, <2>3, <2>4, <2>5
<1>10. ASSUME NEW w \in Workers, TestGauge(w) PROVE StreamInv'
  <2> USE <1>10 DEF TestGauge, Leave, Released
  <2>1. cur[w] \in Clients /\ Handling(w) BY DEF Shape, HandlerInv
  <2>2. Shape' BY <2>1 DEF Shape, Handlers
  <2>3. HandlerInv' BY <2>1 DEF Shape, HandlerInv, Handling
  <2>4. ClientInv' BY <2>1 DEF Shape, ClientInv, Handling
  <2>5. Attended' BY <2>1 DEF Shape, Attended, Handling
  <2> QED BY <2>2, <2>3, <2>4, <2>5
<1>11. ASSUME NEW w \in Workers, Decrement(w) PROVE StreamInv'
  <2> USE <1>11 DEF Decrement, Leave, Released
  <2>1. cur[w] \in Clients /\ Handling(w) BY DEF Shape, HandlerInv
  <2>2. Shape' BY <2>1 DEF Shape, Handlers
  <2>3. HandlerInv' BY <2>1 DEF Shape, HandlerInv, Handling
  <2>4. ClientInv' BY <2>1 DEF Shape, ClientInv, Handling
  <2>5. Attended' BY <2>1 DEF Shape, Attended, Handling
  <2> QED BY <2>2, <2>3, <2>4, <2>5
<1>12. ASSUME NEW w \in Workers, Quit(w) PROVE StreamInv'
  BY <1>12 DEF Quit, Free, Shape, HandlerInv, Handling, ClientInv, Attended
<1>13. ASSUME NEW w \in Workers, Exit(w) PROVE StreamInv'
  BY <1>13, VanishStream DEF Exit, Shape
<1>14. ASSUME NEW w \in Workers, Crash(w) PROVE StreamInv'
  <2>1. crashes' \in 0 .. MaxCrashes /\ timer' \in [Clients -> BOOLEAN]
    BY <1>14 DEF Crash, Shape
  <2> QED BY <1>14, <2>1, VanishStream DEF Crash, Shape
<1>15. CASE UNCHANGED vars
  BY <1>15 DEF vars, Shape, HandlerInv, Handling, ClientInv, Attended
<1> QED
  BY <1>1, <1>2, <1>3, <1>4, <1>5, <1>6, <1>7, <1>8, <1>9, <1>10, <1>11, <1>12, <1>13,
     <1>14, <1>15
  DEF Next, Handle

LEMMA StreamInvariant == Spec => []StreamInv
<1>1. Init => StreamInv BY InitStream
<1>2. StreamInv /\ [Next]_vars => StreamInv' BY StepStream
<1> QED BY <1>1, <1>2, PTL DEF Spec

(* No event is written over one that the connection still holds, whatever  *)
(* the connections keep and for however long (sse_write, sse_timer).       *)
THEOREM IntactBuffers == Spec => []BuffersIntact
<1>1. StreamInv => BuffersIntact BY DEF StreamInv
<1> QED BY <1>1, StreamInvariant, PTL

(* No stream timer is armed for a freed request or a dead worker.          *)
THEOREM TimersFreed == Spec => []NoTimerAfterFree
<1>1. StreamInv => NoTimerAfterFree
  BY DEF StreamInv, ClientInv, NoTimerAfterFree
<1> QED BY <1>1, StreamInvariant, PTL

(* Every open stream of a living worker is being served or has its timer,  *)
(* and what is written to is open.                                         *)
THEOREM AliveStreams == Spec => []StreamAlive
<1>1. StreamInv => StreamAlive
  BY DEF StreamInv, HandlerInv, Handling, StreamAlive
<1> QED BY <1>1, StreamInvariant, PTL

-----------------------------------------------------------------------------
Freed == {c \in Clients : request[c] = "freed"}

(* Every client lost with a worker is one of those freed: the losses are   *)
(* bounded, which TypeOK says of leaked.                                   *)
GaugeInv ==
    /\ leaked \in Nat /\ leaked <= Cardinality(Freed)
    /\ sseClients = Cardinality(Registered) + leaked

LEMMA FiniteClients ==
    /\ IsFiniteSet(Registered) /\ Cardinality(Registered) \in Nat
    /\ IsFiniteSet(Freed) /\ Cardinality(Freed) \in Nat
    /\ Cardinality(Clients) \in Nat /\ Cardinality(Freed) <= Cardinality(Clients)
<1>1. Registered \subseteq Clients /\ Freed \subseteq Clients
  BY DEF Registered, Freed
<1> QED BY <1>1, SseAssumption, FS_Subset, FS_CardinalityType

LEMMA InitGauge == Init => GaugeInv
<1> SUFFICES ASSUME Init PROVE GaugeInv
  OBVIOUS
<1>1. Registered = {} /\ Freed = {}
  BY DEF Init, Registered, Freed
<1>2. Cardinality(Registered) = 0 /\ Cardinality(Freed) = 0
  BY <1>1, FS_EmptySet
<1> QED BY <1>2 DEF Init, GaugeInv

(* A step that moves no client in or out of the registered ones.           *)
LEMMA SameGauge ==
    ASSUME GaugeInv, Registered' = Registered, Freed \subseteq Freed',
           IsFiniteSet(Freed'), leaked' = leaked, sseClients' = sseClients
    PROVE  GaugeInv'
<1>1. Cardinality(Freed) <= Cardinality(Freed')
  BY FS_Subset
<1>2. Cardinality(Freed') \in Nat /\ Cardinality(Freed) \in Nat
  BY FS_CardinalityType, FiniteClients
<1> QED BY <1>1, <1>2 DEF GaugeInv

(* The end of a process moves its clients from the gauge to the losses.    *)
LEMMA VanishGauge ==
    ASSUME Shape, GaugeInv, NEW w \in Workers, Vanish(w)
    PROVE  GaugeInv'
<1>1. /\ Served(w) \subseteq Registered
      /\ Registered' = Registered \ Served(w)
      /\ Freed' = Freed \cup Served(w) /\ Freed \cap Served(w) = {}
  BY DEF Shape, Vanish, Served, Registered, Freed
<1>2. /\ IsFiniteSet(Served(w)) /\ Cardinality(Served(w)) \in Nat
  BY <1>1, FiniteClients, FS_Subset, FS_CardinalityType
<1>3. Cardinality(Registered') = Cardinality(Registered) - Cardinality(Served(w))
  <2>1. Registered \cap Served(w) = Served(w)
    BY <1>1
  <2> QED BY <1>1, <2>1, FiniteClients, FS_Difference
<1>4. Cardinality(Freed') = Cardinality(Freed) + Cardinality(Served(w))
  <2>1. Cardinality(Freed \cap Served(w)) = 0
    BY <1>1, FS_EmptySet
  <2>2. Cardinality(Freed \cup Served(w))
          = Cardinality(Freed) + Cardinality(Served(w)) - Cardinality(Freed \cap Served(w))
    BY <1>2, FiniteClients, FS_Union
  <2> QED BY <1>1, <1>2, <2>1, <2>2, FiniteClients
<1>5. leaked' = leaked + Cardinality(Served(w)) /\ sseClients' = sseClients
  BY DEF Vanish, gauges
<1> QED BY <1>2, <1>3, <1>4, <1>5, FiniteClients DEF GaugeInv

LEMMA StepGauge == StreamInv /\ GaugeInv /\ [Next]_vars => GaugeInv'
<1> SUFFICES ASSUME StreamInv, GaugeInv, [Next]_vars PROVE GaugeInv'
  OBVIOUS
<1>a. Shape /\ HandlerInv
  BY DEF StreamInv
<1>b. IsFiniteSet(Freed') /\ IsFiniteSet(Registered')
  <2>1. Freed' \subseteq Clients /\ Registered' \subseteq Clients
    BY DEF Freed, Registered
  <2> QED BY <2>1, SseAssumption, FS_Subset
<1> USE DEF client, conn, gauges
<1>1. ASSUME NEW c \in Clients, Open(c) PROVE GaugeInv'
  <2>1. /\ Registered' = Registered \cup {c} /\ c \notin Registered
        /\ Freed' = Freed
    BY <1>1, <1>a DEF Open, Shape, Registered, Freed
  <2>2. Cardinality(Registered') = Cardinality(Registered) + 1
    BY <2>1, FiniteClients, FS_AddElement
  <2>3. sseClients' = sseClients + 1 /\ leaked' = leaked
    BY <1>1 DEF Open
  <2> QED BY <2>1, <2>2, <2>3, FiniteClients DEF GaugeInv
<1>2. ASSUME NEW c \in Clients, Tick(c) PROVE GaugeInv'
  <2>1. timer[c] /\ request[c] \in {"open", "finalized"}
    BY <1>2 DEF Tick, StreamInv, ClientInv
  <2>2. Registered' = Registered /\ Freed' = Freed
    BY <1>2, <1>a, <2>1 DEF Tick, Finalize, Shape, Registered, Freed
  <2>3. leaked' = leaked /\ sseClients' = sseClients
    BY <1>2 DEF Tick
  <2> QED BY <2>2, <2>3, <1>b, SameGauge
<1>3. ASSUME NEW c \in Clients, Cleanup(c) \/ Drain(c) \/ PeerGoes(c) PROVE GaugeInv'
  <2>1. Registered' = Registered /\ Freed' = Freed /\ leaked' = leaked /\ sseClients' = sseClients
    BY <1>3 DEF Cleanup, Drain, PeerGoes, Registered, Freed
  <2> QED BY <2>1, <1>b, SameGauge
<1>4. ASSUME NEW c \in Clients, Notice(c) PROVE GaugeInv'
  <2>1. Registered' = Registered /\ Freed' = Freed /\ leaked' = leaked /\ sseClients' = sseClients
    BY <1>4, <1>a DEF Notice, Finalize, Shape, Registered, Freed
  <2> QED BY <2>1, <1>b, SameGauge
<1>5. ASSUME NEW w \in Workers, Write(w) \/ CountEvent(w) \/ Quit(w) PROVE GaugeInv'
  <2>1. Registered' = Registered /\ Freed' = Freed /\ leaked' = leaked /\ sseClients' = sseClients
    BY <1>5 DEF Write, CountEvent, Quit, Registered, Freed
  <2> QED BY <2>1, <1>b, SameGauge
<1>6. ASSUME NEW w \in Workers, WriteFails(w) PROVE GaugeInv'
  <2>1. cur[w] \in Clients /\ request[cur[w]] = "open"
    BY <1>6, <1>a DEF WriteFails, Shape, HandlerInv, Handling
  <2>2. Registered' = Registered /\ Freed' = Freed /\ leaked' = leaked /\ sseClients' = sseClients
    BY <1>6, <1>a, <2>1 DEF WriteFails, Finalize, Shape, Registered, Freed
  <2> QED BY <2>2, <1>b, SameGauge
<1>7. ASSUME NEW w \in Workers, TestGauge(w) PROVE GaugeInv'
  (* A registered client is being cleaned up: the gauge is not zero.       *)
  <2>1. cur[w] \in Registered
    BY <1>7, <1>a DEF TestGauge, Shape, HandlerInv, Handling, Registered
  <2>2. sseClients > 0
    <3>1. Cardinality(Registered) # 0
      BY <2>1, FiniteClients, FS_EmptySet
    <3> QED BY <3>1, FiniteClients DEF GaugeInv
  <2>3. Registered' = Registered /\ Freed' = Freed /\ leaked' = leaked /\ sseClients' = sseClients
    BY <1>7, <2>2 DEF TestGauge, Registered, Freed
  <2> QED BY <2>3, <1>b, SameGauge
<1>8. ASSUME NEW w \in Workers, Decrement(w) PROVE GaugeInv'
  <2>1. cur[w] \in Clients /\ request[cur[w]] = "finalized"
    BY <1>8, <1>a DEF Decrement, Shape, HandlerInv, Handling
  <2>2. /\ Registered' = Registered \ {cur[w]} /\ cur[w] \in Registered
        /\ Freed \subseteq Freed'
    BY <1>8, <1>a, <2>1 DEF Decrement, Released, Shape, Registered, Freed
  <2>3. Cardinality(Registered') = Cardinality(Registered) - 1
    BY <2>2, FiniteClients, FS_RemoveElement
  <2>4. Cardinality(Freed) <= Cardinality(Freed') /\ Cardinality(Freed') \in Nat
    BY <2>2, <1>b, FS_Subset, FS_CardinalityType
  <2>5. sseClients' = sseClients - 1 /\ leaked' = leaked
    BY <1>8 DEF Decrement
  <2> QED BY <2>3, <2>4, <2>5, FiniteClients DEF GaugeInv
<1>9. ASSUME NEW w \in Workers, Exit(w) \/ Crash(w) PROVE GaugeInv'
  BY <1>9, <1>a, VanishGauge DEF Exit, Crash
<1>10. CASE UNCHANGED vars
  <2>1. Registered' = Registered /\ Freed' = Freed /\ leaked' = leaked /\ sseClients' = sseClients
    BY <1>10 DEF vars, Registered, Freed
  <2> QED BY <2>1, <1>b, SameGauge
<1> QED
  BY <1>1, <1>2, <1>3, <1>4, <1>5, <1>6, <1>7, <1>8, <1>9, <1>10 DEF Next, Handle

(* The shared gauge is the registered clients plus those lost with a       *)
(* worker, and the unlocked decrement never takes it below zero            *)
(* (send_sse, sse_cleanup).                                                *)
THEOREM ExactGauge == Spec => []GaugeExact
<1>1. Init => GaugeInv BY InitGauge
<1>2. StreamInv /\ GaugeInv /\ [Next]_vars => GaugeInv' BY StepGauge
<1>3. StreamInv /\ GaugeInv => GaugeExact
  <2> SUFFICES ASSUME StreamInv, GaugeInv PROVE GaugeExact
    OBVIOUS
  <2>1. leaked \in 0 .. Cardinality(Clients) /\ sseClients \in Nat
    BY FiniteClients DEF GaugeInv
  <2> QED BY <2>1 DEF GaugeInv, GaugeExact, TypeOK, StreamInv, Shape
<1> QED BY <1>1, <1>2, <1>3, StreamInvariant, PTL DEF Spec
=============================================================================

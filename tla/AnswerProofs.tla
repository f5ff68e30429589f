---------------------------- MODULE AnswerProofs ----------------------------
(* What the limiter and a whole request guarantee.  First the window and   *)
(* its count, in spite of the unlocked test and of the store that comes    *)
(* before the reset, for every number of workers, every limit, every lag   *)
(* and every crash.  Then the answer: its status and its header for any    *)
(* rules, credentials and blocks, and its body for any pieces and buffer.  *)
EXTENDS RateLimit, Response, Sums, SequenceTheorems

(* A second for which the window was stored, or is being checked, is one   *)
(* in which a request arrived.                                             *)
ArrivedInv ==
    /\ window # 0 => arrived[window] > 0
    /\ \A w \in Workers : ~Idle(w) => arrived[now[w]] > 0

(* A request that is alone finds the window of an earlier second, and the  *)
(* count is zero from its reset on.                                        *)
AloneInv == \A w \in Workers : alone[w] =>
    /\ ~Idle(w) /\ \A v \in Workers \ {w} : Idle(v)
    /\ pc[w] \in {"test", "lock", "retest", "window"} => window # now[w]
    /\ pc[w] \in {"unlock", "add"} => count = 0

Inv == TypeOK /\ ArrivedInv /\ AloneInv

LEMMA InitInv == Init => Inv
<1> SUFFICES ASSUME Init PROVE Inv
  OBVIOUS
<1>1. TypeOK
  BY RateAssumption DEF Init, TypeOK, Seconds
<1>2. ArrivedInv /\ AloneInv
  BY DEF Init, ArrivedInv, AloneInv, Idle
<1> QED BY <1>1, <1>2 DEF Inv

(* A counter of a function goes up by one.                                 *)
LEMMA Bump ==
    ASSUME NEW D, NEW f \in [D -> Nat], NEW x
    PROVE  [f EXCEPT ![x] = f[x] + 1] \in [D -> Nat]
<1>1. CASE x \in D
  <2>1. f[x] + 1 \in Nat
    BY <1>1
  <2> QED BY <2>1
<1>2. CASE x \notin D
  BY <1>2
<1> QED BY <1>1, <1>2

Steps == {"idle", "test", "lock", "retest", "window", "zero", "unlock", "add", "limited"}

LEMMA StepTyped == TypeOK /\ [Next]_vars => TypeOK'
<1> SUFFICES ASSUME TypeOK, [Next]_vars PROVE TypeOK'
  OBVIOUS
<1>t. pc \in [Workers -> Steps]
  BY DEF TypeOK, Steps
<1> USE RateAssumption DEF Seconds, shared, local, tally, Goto, Unchanged
<1>1. ASSUME Tick PROVE TypeOK'
  <2>1. time < MaxTime /\ time' = time + 1
    BY <1>1 DEF Tick
  <2>2. UNCHANGED <<lag, clock, shared, local, tally, requests, crashes>>
    BY <1>1 DEF Tick
  <2> QED BY <2>1, <2>2 DEF TypeOK
<1>2. ASSUME NEW w \in Workers, UpdateTime(w) PROVE TypeOK'
  <2>1. clock' \in [Workers -> Seconds]
    BY <1>2 DEF UpdateTime, TypeOK
  <2>2. UNCHANGED <<lag, time, shared, local, tally, requests, crashes>>
    BY <1>2 DEF UpdateTime
  <2> QED BY <2>1, <2>2 DEF TypeOK
<1>3. ASSUME NEW w \in Workers, Request(w) PROVE TypeOK'
  <2>1. PICK l \in Limits :
          /\ limit' = [limit EXCEPT ![w] = l]
          /\ \/ /\ admitted' = [admitted EXCEPT ![clock[w]][l] = @ + 1]
                /\ UNCHANGED <<pc, arrived, alone>>
             \/ /\ pc' = [pc EXCEPT ![w] = "test"]
                /\ arrived' = [arrived EXCEPT ![clock[w]] = @ + 1]
                /\ alone' \in [Workers -> BOOLEAN]
                /\ UNCHANGED admitted
    BY <1>3 DEF Request
  <2>2. clock[w] \in Seconds
    BY DEF TypeOK
  <2>3. limit' \in [Workers -> Limits \cup {0}] /\ pc' \in [Workers -> Steps]
    BY <1>t, <2>1 DEF TypeOK, Steps
  <2>4. arrived' \in [Seconds -> Nat] /\ alone' \in [Workers -> BOOLEAN]
    <3>1. arrived' = arrived \/ arrived' = [arrived EXCEPT ![clock[w]] = arrived[clock[w]] + 1]
      BY <2>1
    <3>2. alone' \in [Workers -> BOOLEAN]
      BY <2>1 DEF TypeOK
    <3>3. arrived \in [Seconds -> Nat]
      BY DEF TypeOK
    <3> HIDE DEF Seconds
    <3> QED BY <3>1, <3>2, <3>3, Bump
  <2>5. admitted' \in [Seconds -> [Limits -> Nat]]
    <3>1. admitted[clock[w]] \in [Limits -> Nat]
      BY <2>2 DEF TypeOK
    <3>2. [admitted[clock[w]] EXCEPT ![l] = @ + 1] \in [Limits -> Nat]
      BY <3>1, Bump
    <3> QED BY <2>1, <2>2, <3>2 DEF TypeOK
  <2>6. now' \in [Workers -> Seconds] /\ requests' \in 0 .. MaxRequests
    BY <1>3, <2>2 DEF Request, TypeOK
  <2>7. UNCHANGED <<lag, time, clock, shared, crashes>>
    BY <1>3 DEF Request
  <2> QED BY <2>3, <2>4, <2>5, <2>6, <2>7 DEF TypeOK, Steps
<1>4. ASSUME NEW w \in Workers, TestWindow(w) \/ Retest(w) PROVE TypeOK'
  <2>1. pc' \in [Workers -> Steps]
    BY <1>4, <1>t DEF TestWindow, Retest, Steps
  <2>2. UNCHANGED shared /\ Unchanged(w)
    BY <1>4 DEF TestWindow, Retest
  <2> QED BY <2>1, <2>2 DEF TypeOK, Steps
<1>5. ASSUME NEW w \in Workers, Lock(w) \/ Unlock(w) PROVE TypeOK'
  <2>1. pc' \in [Workers -> Steps] /\ mutex' \in {{}, {w}}
    BY <1>5, <1>t DEF Lock, Unlock, Steps
  <2>2. UNCHANGED <<window, count, limited>> /\ Unchanged(w)
    BY <1>5 DEF Lock, Unlock
  <2> QED BY <2>1, <2>2 DEF TypeOK, Steps
<1>6. ASSUME NEW w \in Workers, StoreWindow(w) \/ ZeroCount(w) PROVE TypeOK'
  <2>1. pc' \in [Workers -> Steps]
    BY <1>6, <1>t DEF StoreWindow, ZeroCount, Steps
  <2>2. window' \in Seconds \cup {0} /\ count' \in Nat
    <3>1. CASE StoreWindow(w)
      <4>1. window' = now[w] /\ count' = count
        BY <3>1 DEF StoreWindow
      <4> QED BY <4>1 DEF TypeOK
    <3>2. CASE ZeroCount(w)
      <4>1. window' = window /\ count' = 0
        BY <3>2 DEF ZeroCount
      <4> QED BY <4>1 DEF TypeOK
    <3> QED BY <1>6, <3>1, <3>2
  <2>3. UNCHANGED <<limited, mutex>> /\ Unchanged(w)
    BY <1>6 DEF StoreWindow, ZeroCount
  <2> QED BY <2>1, <2>2, <2>3 DEF TypeOK, Steps
<1>7. ASSUME NEW w \in Workers, Add(w) PROVE TypeOK'
  <2>1. pc' \in [Workers -> Steps]
    BY <1>7, <1>t DEF Add, Steps
  <2>2. alone' \in [Workers -> BOOLEAN] /\ count' \in Nat
    <3>1. count' = count + 1 /\ count \in Nat /\ alone \in [Workers -> BOOLEAN]
      BY <1>7 DEF Add, TypeOK
    <3>2. alone' = alone \/ alone' = [alone EXCEPT ![w] = FALSE]
      BY <1>7 DEF Add
    <3>3. alone' \in [Workers -> BOOLEAN]
      BY <3>1, <3>2
    <3>4. count' \in Nat
      BY <3>1
    <3> QED BY <3>3, <3>4
  <2>3. admitted' \in [Seconds -> [Limits -> Nat]]
    <3>1. admitted[now[w]] \in [Limits -> Nat] /\ now[w] \in Seconds
      BY DEF TypeOK
    <3>2. [admitted[now[w]] EXCEPT ![limit[w]] = @ + 1] \in [Limits -> Nat]
      BY <3>1, Bump
    <3>3. \/ admitted' = admitted
          \/ admitted' = [admitted EXCEPT ![now[w]] = [admitted[now[w]] EXCEPT ![limit[w]] = @ + 1]]
      BY <1>7 DEF Add, TypeOK
    <3> QED BY <3>1, <3>2, <3>3 DEF TypeOK
  <2>4. UNCHANGED <<lag, time, clock, window, limited, mutex, now, limit, arrived,
                    requests, crashes>>
    BY <1>7 DEF Add
  <2> QED BY <2>1, <2>2, <2>3, <2>4 DEF TypeOK, Steps
<1>8. ASSUME NEW w \in Workers, Decline(w) PROVE TypeOK'
  <2>1. pc' \in [Workers -> Steps]
    BY <1>8, <1>t DEF Decline, Steps
  <2>2. limited' \in Nat /\ alone' \in [Workers -> BOOLEAN]
    BY <1>8 DEF Decline, TypeOK
  <2>3. UNCHANGED <<lag, time, clock, window, count, mutex, now, limit, arrived, admitted,
                    requests, crashes>>
    BY <1>8 DEF Decline
  <2> QED BY <2>1, <2>2, <2>3 DEF TypeOK, Steps
<1>9. ASSUME NEW w \in Workers, Crash(w) PROVE TypeOK'
  <2>1. pc' \in [Workers -> Steps]
    BY <1>9, <1>t DEF Crash, Steps
  <2>2. /\ mutex' = {} \/ \E v \in Workers : mutex' = {v}
        /\ alone' \in [Workers -> BOOLEAN] /\ clock' \in [Workers -> Seconds]
        /\ crashes' \in 0 .. MaxCrashes
    <3>1. mutex' = mutex \ {w} /\ (mutex = {} \/ \E v \in Workers : mutex = {v})
      BY <1>9 DEF Crash, TypeOK
    <3>2. alone' \in [Workers -> BOOLEAN] /\ clock' \in [Workers -> Seconds]
      BY <1>9 DEF Crash, TypeOK
    <3>3. crashes' \in 0 .. MaxCrashes
      BY <1>9 DEF Crash, TypeOK
    <3> QED BY <3>1, <3>2, <3>3
  <2>3. UNCHANGED <<lag, time, window, count, limited, now, limit, tally, requests>>
    BY <1>9 DEF Crash
  <2> QED BY <2>1, <2>2, <2>3 DEF TypeOK, Steps
<1>10. CASE UNCHANGED vars
  BY <1>10 DEF vars, TypeOK
<1> QED
  BY <1>1, <1>2, <1>3, <1>4, <1>5, <1>6, <1>7, <1>8, <1>9, <1>10 DEF Next, Check

LEMMA StepInv == Inv /\ [Next]_vars => Inv'
<1> SUFFICES ASSUME Inv, [Next]_vars PROVE ArrivedInv' /\ AloneInv'
  BY StepTyped DEF Inv
<1>t. /\ window \in Seconds \cup {0} /\ count \in Nat
      /\ clock \in [Workers -> Seconds] /\ now \in [Workers -> Seconds]
      /\ arrived \in [Seconds -> Nat] /\ alone \in [Workers -> BOOLEAN]
      /\ DOMAIN pc = Workers /\ Seconds \subseteq Nat \ {0}
  BY RateAssumption DEF Inv, TypeOK, Seconds
<1> USE <1>t DEF Inv, ArrivedInv, AloneInv, Idle, shared, local, tally, Goto, Unchanged
<1>1. ASSUME Tick PROVE ArrivedInv' /\ AloneInv'
  BY <1>1 DEF Tick
<1>2. ASSUME NEW w \in Workers, UpdateTime(w) PROVE ArrivedInv' /\ AloneInv'
  BY <1>2 DEF UpdateTime
<1>3. ASSUME NEW w \in Workers, Request(w) PROVE ArrivedInv' /\ AloneInv'
  <2>i. ArrivedInv
    BY DEF Inv
  <2>0. /\ now' = [now EXCEPT ![w] = clock[w]] /\ window' = window
        /\ \/ UNCHANGED <<pc, arrived, alone>> /\ pc[w] = "idle"
           \/ /\ arrived' = [arrived EXCEPT ![clock[w]] = @ + 1]
              /\ pc' = [pc EXCEPT ![w] = "test"]
    BY <1>3 DEF Request
  <2>1. ArrivedInv'
    <3>1. \A s \in Seconds :
             arrived[s] \in Nat /\ arrived'[s] \in Nat /\ arrived'[s] >= arrived[s]
      BY <2>0
    <3>2. window' # 0 => arrived'[window'] > 0
      BY <2>0, <3>1
    <3>3. ASSUME NEW v \in Workers, pc'[v] # "idle" PROVE arrived'[now'[v]] > 0
      <4>1. CASE v = w
        <5>1. arrived' = [arrived EXCEPT ![clock[w]] = arrived[clock[w]] + 1]
          BY <2>0, <3>3, <4>1
        <5>2. now'[v] = clock[w] /\ clock[w] \in Seconds /\ arrived[clock[w]] \in Nat
          BY <2>0, <4>1
        <5> QED BY <5>1, <5>2
      <4>2. CASE v # w
        <5>1. pc[v] # "idle" /\ now'[v] = now[v]
          BY <2>0, <3>3, <4>2
        <5>2. arrived[now[v]] > 0 /\ now[v] \in Seconds
          BY <5>1, <2>i, <4>2
        <5>3. /\ arrived[now[v]] \in Nat /\ arrived'[now[v]] \in Nat
              /\ arrived'[now[v]] >= arrived[now[v]]
          BY <3>1, <5>2
        <5>4. arrived'[now[v]] > 0
          BY <5>2, <5>3
        <5> QED BY <5>1, <5>4
      <4> QED BY <4>1, <4>2
    <3> QED BY <3>2, <3>3
  <2>2. AloneInv'
    <3>1. CASE UNCHANGED <<pc, alone>>
      BY <1>3, <3>1 DEF Request
    <3>2. CASE alone' = [q \in Workers |->
                          /\ q = w
                          /\ \A v \in Workers \ {w} : Idle(v)
                          /\ \A s \in Seconds : s >= clock[w] => arrived[s] = 0]
               /\ pc' = [pc EXCEPT ![w] = "test"]
      <4> SUFFICES ASSUME NEW q \in Workers, alone'[q]
                   PROVE  /\ pc'[q] = "test" /\ \A v \in Workers \ {q} : pc'[v] = "idle"
                          /\ window' # now'[q]
        OBVIOUS
      <4>1. /\ q = w /\ \A v \in Workers \ {w} : pc[v] = "idle"
            /\ \A s \in Seconds : s >= clock[w] => arrived[s] = 0
        BY <3>2
      <4>2. window # clock[w]
        <5> SUFFICES ASSUME window = clock[w] PROVE FALSE
          OBVIOUS
        <5>1. clock[w] \in Seconds /\ clock[w] \in Nat /\ clock[w] # 0
          BY <1>t
        <5>2. arrived[clock[w]] = 0
          BY <4>1, <5>1
        <5>3. arrived[window] > 0
          BY <2>i, <5>1 DEF ArrivedInv
        <5> QED BY <5>2, <5>3
      <4> QED BY <2>0, <3>2, <4>1, <4>2
    <3> QED BY <1>3, <3>1, <3>2 DEF Request
  <2> QED BY <2>1, <2>2
<1>4. ASSUME NEW w \in Workers, TestWindow(w) PROVE ArrivedInv' /\ AloneInv'
  BY <1>4 DEF TestWindow
<1>5. ASSUME NEW w \in Workers, Lock(w) PROVE ArrivedInv' /\ AloneInv'
  BY <1>5 DEF Lock
<1>6. ASSUME NEW w \in Workers, Retest(w) PROVE ArrivedInv' /\ AloneInv'
  BY <1>6 DEF Retest
<1>7. ASSUME NEW w \in Workers, StoreWindow(w) PROVE ArrivedInv' /\ AloneInv'
  BY <1>7 DEF StoreWindow
<1>8. ASSUME NEW w \in Workers, ZeroCount(w) PROVE ArrivedInv' /\ AloneInv'
  BY <1>8 DEF ZeroCount
<1>9. ASSUME NEW w \in Workers, Unlock(w) PROVE ArrivedInv' /\ AloneInv'
  BY <1>9 DEF Unlock
<1>10. ASSUME NEW w \in Workers, Add(w) PROVE ArrivedInv' /\ AloneInv'
  BY <1>10 DEF Add
<1>11. ASSUME NEW w \in Workers, Decline(w) PROVE ArrivedInv' /\ AloneInv'
  BY <1>11 DEF Decline
<1>12. ASSUME NEW w \in Workers, Crash(w) PROVE ArrivedInv' /\ AloneInv'
  BY <1>12 DEF Crash
<1>13. CASE UNCHANGED vars
  BY <1>13 DEF vars
<1> QED
  BY <1>1, <1>2, <1>3, <1>4, <1>5, <1>6, <1>7, <1>8, <1>9, <1>10, <1>11, <1>12, <1>13
  DEF Next, Check

LEMMA Invariant == Spec => []Inv
<1>1. Init => Inv BY InitInv
<1>2. Inv /\ [Next]_vars => Inv' BY StepInv
<1> QED BY <1>1, <1>2, PTL DEF Spec

(* The first request of a second, checked by itself, is added to a count   *)
(* of zero, whatever races and crashes came before it (check_rate_limit).  *)
THEOREM FreshSecond == Spec => []FreshSecondAdmits
<1>1. Inv => FreshSecondAdmits
  BY DEF Inv, AloneInv, FreshSecondAdmits
<1> QED BY <1>1, Invariant, PTL

-----------------------------------------------------------------------------
(* Whoever stands between the mutex and its release holds it; the window   *)
(* is the one it stored while the count is still to be zeroed.             *)
MutexInv == \A w \in Workers :
    /\ pc[w] \in {"retest", "window", "zero", "unlock"} => mutex = {w}
    /\ pc[w] = "zero" => window = now[w]

Positive == Limits \ {0}

(* Until the count is zeroed, it is at least what this second admitted.    *)
Before == \A l \in Positive :
    admitted[time][l] <= l /\ admitted[time][l] <= count

(* Once it is zeroed the window is current, and nobody zeroes it again.    *)
After ==
    /\ window = time
    /\ \A w \in Workers : pc[w] \notin {"window", "zero"}
    /\ \A l \in Positive :
          admitted[time][l] <= l + count /\ admitted[time][l] <= 2 * l

InStep ==
    /\ \A w \in Workers : ~Idle(w) => now[w] = time
    /\ \A s \in Seconds : \A l \in Positive :
          /\ s > time => admitted[s][l] = 0
          /\ s < time => admitted[s][l] <= 2 * l
    /\ Before \/ After

PhaseInv ==
    /\ \A w \in Workers : clock[w] <= time
    /\ MutexInv
    /\ lag = 0 => InStep

LEMMA InitPhase == Init => PhaseInv
<1> SUFFICES ASSUME Init PROVE PhaseInv
  OBVIOUS
<1>1. InStep
  BY RateAssumption DEF Init, InStep, Before, Positive, Seconds, Idle
<1> QED BY <1>1 DEF Init, PhaseInv, MutexInv

LEMMA StepMutex == TypeOK /\ PhaseInv /\ [Next]_vars => MutexInv'
<1> SUFFICES ASSUME TypeOK, PhaseInv, [Next]_vars PROVE MutexInv'
  OBVIOUS
<1>t. DOMAIN pc = Workers /\ DOMAIN now = Workers /\ MutexInv
  BY DEF TypeOK, PhaseInv
<1> USE <1>t DEF MutexInv, shared, local, tally, Goto, Unchanged, Idle
<1>1. CASE Tick
  BY <1>1 DEF Tick
<1>2. ASSUME NEW w \in Workers, UpdateTime(w) \/ Request(w) PROVE MutexInv'
  BY <1>2 DEF UpdateTime, Request
<1>3. ASSUME NEW w \in Workers, TestWindow(w) \/ Lock(w) \/ Retest(w) PROVE MutexInv'
  BY <1>3 DEF TestWindow, Lock, Retest
<1>4. ASSUME NEW w \in Workers, StoreWindow(w) \/ ZeroCount(w) \/ Unlock(w) PROVE MutexInv'
  BY <1>4 DEF StoreWindow, ZeroCount, Unlock
<1>5. ASSUME NEW w \in Workers, Add(w) \/ Decline(w) PROVE MutexInv'
  BY <1>5 DEF Add, Decline
<1>6. ASSUME NEW w \in Workers, Crash(w) PROVE MutexInv'
  BY <1>6 DEF Crash
<1>7. CASE UNCHANGED vars
  BY <1>7 DEF vars
<1> QED
  BY <1>1, <1>2, <1>3, <1>4, <1>5, <1>6, <1>7 DEF Next, Check

LEMMA StepClock == TypeOK /\ PhaseInv /\ [Next]_vars => \A w \in Workers : clock'[w] <= time'
<1> SUFFICES ASSUME TypeOK, PhaseInv, [Next]_vars, NEW w \in Workers
             PROVE  clock'[w] <= time'
  OBVIOUS
<1>1. /\ time \in Int /\ clock \in [Workers -> Int] /\ clock[w] <= time
  BY DEF TypeOK, PhaseInv, Seconds
<1>2. \/ time' = time + 1 /\ clock' = clock
      \/ time' = time /\ clock' = clock
      \/ \E v \in Workers : time' = time /\ clock' = [clock EXCEPT ![v] = time]
  BY DEF Next, Check, Tick, UpdateTime, Request, TestWindow, Lock, Retest, StoreWindow,
         ZeroCount, Unlock, Add, Decline, Crash, vars, shared, local, tally, Unchanged
<1> QED BY <1>1, <1>2

(* With the clocks in step a second passes only when nobody is checked.    *)
LEMMA StepInStep ==
    ASSUME TypeOK, PhaseInv, lag = 0, [Next]_vars
    PROVE  InStep'
<1>t. /\ time \in Int /\ time \in Seconds /\ count \in Nat
      /\ pc \in [Workers -> Steps] /\ now \in [Workers -> Seconds]
      /\ clock \in [Workers -> Seconds] /\ \A w \in Workers : clock[w] <= time
      /\ admitted \in [Seconds -> [Limits -> Nat]]
      /\ Positive \subseteq Limits /\ Positive \subseteq Nat \ {0} /\ Seconds \subseteq Int
  BY RateAssumption DEF TypeOK, Steps, PhaseInv, Positive, Seconds
<1>i. InStep /\ MutexInv
  BY DEF PhaseInv
<1>a. \A s \in Seconds : \A l \in Positive : admitted[s][l] \in Nat
  BY <1>t
<1>c. \A w \in Workers : clock[w] \in Int /\ clock[w] <= time
  BY <1>t
<1> USE DEF shared, local, tally, Goto, Unchanged
<1>1. CASE Tick
  <2>1. time' = time + 1 /\ UNCHANGED <<pc, now, window, count, admitted>>
    BY <1>1 DEF Tick
  <2>2. \A w \in Workers : Idle(w)
    <3> SUFFICES ASSUME NEW w \in Workers, ~Idle(w) PROVE FALSE
      OBVIOUS
    <3>1. time + 1 - clock[w] <= 0 + 0
      BY <1>1 DEF Tick
    <3> QED BY <3>1, <1>c, <1>t
  <2>3. time + 1 \in Seconds
    BY <1>1, RateAssumption, <1>t DEF Tick, Seconds
  <2>4. \A l \in Positive : admitted[time + 1][l] = 0
    BY <1>i, <1>t, <2>3 DEF InStep
  <2>5. \A l \in Positive : admitted[time][l] <= 2 * l
    BY <1>i, <1>t, <1>a DEF InStep, Before, After
  <2>6. \A s \in Seconds : \A l \in Positive :
          /\ s > time + 1 => admitted[s][l] = 0
          /\ s < time + 1 => admitted[s][l] <= 2 * l
    BY <1>i, <1>t, <2>5 DEF InStep
  <2>7. Before'
    BY <2>1, <2>4, <1>t DEF Before
  <2> QED BY <2>1, <2>2, <2>6, <2>7 DEF InStep, Idle
<1>2. ASSUME NEW w \in Workers, Request(w) PROVE InStep'
  <2>1. clock[w] = time
    <3>1. time - clock[w] <= 0
      BY <1>2 DEF Request
    <3> QED BY <3>1, <1>c, <1>t
  <2>2. /\ now' = [now EXCEPT ![w] = time] /\ UNCHANGED <<time, window, count>>
        /\ pc' = pc \/ pc' = [pc EXCEPT ![w] = "test"]
    BY <1>2, <2>1 DEF Request
  <2>3. \A s \in Seconds : \A l \in Positive : admitted'[s][l] = admitted[s][l]
    <3>1. \/ admitted' = admitted
          \/ admitted' = [admitted EXCEPT ![clock[w]][0] = @ + 1]
      BY <1>2 DEF Request
    <3> QED BY <3>1, <1>t
  <2>4. \A v \in Workers : ~Idle(v)' => now'[v] = time'
    BY <2>2, <1>i, <1>t DEF InStep, Idle
  <2>5. Before => Before'
    BY <2>2, <2>3, <1>t DEF Before
  <2>6. After => After'
    BY <2>2, <2>3, <1>t DEF After
  <2>7. Before' \/ After'
    BY <1>i, <2>5, <2>6 DEF InStep
  <2>8. \A s \in Seconds : \A l \in Positive :
          /\ s > time' => admitted'[s][l] = 0
          /\ s < time' => admitted'[s][l] <= 2 * l
    BY <1>i, <2>2, <2>3 DEF InStep
  <2> QED BY <2>4, <2>7, <2>8 DEF InStep
<1>3. ASSUME NEW w \in Workers, UpdateTime(w) \/ Decline(w) \/ Crash(w) PROVE InStep'
  <2>1. /\ UNCHANGED <<time, window, count, admitted, now>>
        /\ pc' = pc \/ pc' = [pc EXCEPT ![w] = "idle"]
    BY <1>3 DEF UpdateTime, Decline, Crash
  <2> QED BY <1>i, <1>t, <2>1 DEF InStep, Before, After, Idle
<1>4. ASSUME NEW w \in Workers, TestWindow(w) \/ Lock(w) \/ Unlock(w) PROVE InStep'
  <2>1. /\ UNCHANGED <<time, window, count, admitted, now>> /\ ~Idle(w)
        /\ \E to \in {"lock", "retest", "add"} : pc' = [pc EXCEPT ![w] = to]
    BY <1>4 DEF TestWindow, Lock, Unlock, Idle
  <2> QED BY <1>i, <1>t, <2>1 DEF InStep, Before, After, Idle
<1>5. ASSUME NEW w \in Workers, Retest(w) PROVE InStep'
  <2>1. /\ UNCHANGED <<time, window, count, admitted, now>> /\ ~Idle(w)
        /\ pc' = [pc EXCEPT ![w] = IF window # now[w] THEN "window" ELSE "unlock"]
    BY <1>5 DEF Retest, Idle
  <2>2. After => After'
    BY <1>i, <1>t, <2>1 DEF InStep, After
  <2> QED BY <1>i, <1>t, <2>1, <2>2 DEF InStep, Before, Idle
<1>6. ASSUME NEW w \in Workers, StoreWindow(w) PROVE InStep'
  <2>1. /\ UNCHANGED <<time, count, admitted, now>> /\ ~Idle(w)
        /\ pc[w] = "window" /\ pc' = [pc EXCEPT ![w] = "zero"]
    BY <1>6 DEF StoreWindow, Idle
  <2>2. Before
    BY <1>i, <2>1 DEF InStep, After
  <2> QED BY <1>i, <1>t, <2>1, <2>2 DEF InStep, Before, Idle
<1>7. ASSUME NEW w \in Workers, ZeroCount(w) PROVE InStep'
  <2>1. /\ UNCHANGED <<time, window, admitted, now>> /\ ~Idle(w) /\ count' = 0
        /\ pc[w] = "zero" /\ pc' = [pc EXCEPT ![w] = "unlock"]
    BY <1>7 DEF ZeroCount, Idle
  <2>2. Before
    BY <1>i, <2>1 DEF InStep, After
  <2>3. window = time
    BY <1>i, <2>1 DEF InStep, MutexInv
  <2>4. \A v \in Workers : pc'[v] \notin {"window", "zero"}
    BY <1>i, <1>t, <2>1 DEF MutexInv
  <2>5. \A l \in Positive : admitted[time][l] <= l + 0 /\ admitted[time][l] <= 2 * l
    BY <2>2, <1>t, <1>a DEF Before
  <2>6. After'
    BY <2>1, <2>3, <2>4, <2>5 DEF After
  <2> QED BY <1>i, <1>t, <2>1, <2>6 DEF InStep, Idle
<1>8. ASSUME NEW w \in Workers, Add(w) PROVE InStep'
  <2>1. /\ UNCHANGED <<time, window, now>> /\ count' = count + 1 /\ ~Idle(w)
        /\ \E to \in {"idle", "limited"} : pc' = [pc EXCEPT ![w] = to]
    BY <1>8 DEF Add, Idle
  <2>2. now[w] = time
    BY <1>i, <2>1 DEF InStep
  <2>3. \A s \in Seconds : \A l \in Positive :
          \/ admitted'[s][l] = admitted[s][l]
          \/ s = time /\ count + 1 <= l /\ admitted'[s][l] = admitted[s][l] + 1
    <3>1. \/ admitted' = admitted
          \/ /\ count + 1 <= limit[w]
             /\ admitted' = [admitted EXCEPT ![time][limit[w]] = @ + 1]
      <4>1. limit[w] \in Int
        <5>1. limit[w] \in Limits \cup {0}
          BY DEF TypeOK
        <5>2. \A l \in Limits : l \in Int
          BY RateAssumption
        <5> HIDE DEF shared, local, tally, Goto, Unchanged
        <5>3. \A x : x \in Limits \cup {0} => x \in Int
          BY <5>2
        <5> QED BY <5>1, <5>3
      <4> QED BY <1>8, <1>t, <2>2, <4>1 DEF Add, OverLimit
    <3> QED BY <3>1, <1>t
  <2>4. Before => Before'
    BY <2>1, <2>3, <1>t, <1>a DEF Before
  <2>5. After => After'
    <3> SUFFICES ASSUME After PROVE After'
      OBVIOUS
    <3>1. \A l \in Positive :
             admitted'[time][l] <= l + (count + 1) /\ admitted'[time][l] <= 2 * l
      <4> TAKE l \in Positive
      <4>1. /\ admitted[time][l] \in Nat /\ count \in Nat /\ l \in Int
            /\ admitted[time][l] <= l + count /\ admitted[time][l] <= 2 * l
        BY <1>t, <1>a DEF After
      <4>2. \/ admitted'[time][l] = admitted[time][l]
            \/ count + 1 <= l /\ admitted'[time][l] = admitted[time][l] + 1
        BY <2>3, <1>t
      <4> HIDE DEF Positive, shared, local, tally, Goto, Unchanged
      <4> QED BY <4>1, <4>2
    <3>2. \A v \in Workers : pc'[v] \notin {"window", "zero"}
      BY <2>1, <1>t DEF After
    <3> QED BY <2>1, <3>1, <3>2 DEF After
  <2>6. \A s \in Seconds : \A l \in Positive :
          /\ s > time => admitted'[s][l] = 0
          /\ s < time => admitted'[s][l] <= 2 * l
    BY <1>i, <2>3, <1>t DEF InStep
  <2>7. \A v \in Workers : ~Idle(v)' => now'[v] = time'
    BY <2>1, <1>i, <1>t DEF InStep, Idle
  <2> QED BY <1>i, <2>1, <2>4, <2>5, <2>6, <2>7 DEF InStep
<1>9. CASE UNCHANGED vars
  BY <1>9, <1>i DEF vars, InStep, Before, After, Idle
<1> QED
  BY <1>1, <1>2, <1>3, <1>4, <1>5, <1>6, <1>7, <1>8, <1>9 DEF Next, Check

LEMMA StepPhase == TypeOK /\ PhaseInv /\ [Next]_vars => PhaseInv'
<1> SUFFICES ASSUME TypeOK, PhaseInv, [Next]_vars PROVE PhaseInv'
  OBVIOUS
<1>1. lag' = lag
  BY DEF Next, Check, Tick, UpdateTime, Request, TestWindow, Lock, Retest, StoreWindow,
         ZeroCount, Unlock, Add, Decline, Crash, vars, shared, local, tally, Unchanged
<1> QED BY <1>1, StepMutex, StepClock, StepInStep DEF PhaseInv

(* With the clocks in step no second admits more than twice any limit: the *)
(* count is zeroed once a second, and before and after it bounds what was  *)
(* admitted (check_rate_limit).                                            *)
THEOREM TwiceAtMost == Spec => []AdmittedTwiceAtMost
<1>1. Init => PhaseInv BY InitPhase
<1>2. Inv /\ PhaseInv /\ [Next]_vars => PhaseInv' BY StepPhase DEF Inv
<1>3. Inv /\ PhaseInv => AdmittedTwiceAtMost
  <2> SUFFICES ASSUME Inv, PhaseInv, lag = 0, NEW s \in Seconds, NEW l \in Limits \ {0}
               PROVE  admitted[s][l] <= 2 * l
    BY DEF AdmittedTwiceAtMost
  <2>1. /\ InStep /\ l \in Positive /\ l \in Nat /\ time \in Int /\ s \in Int
        /\ admitted[s][l] \in Nat
    BY RateAssumption DEF Inv, TypeOK, PhaseInv, Positive, Seconds
  <2>2. CASE s = time
    BY <2>1, <2>2 DEF InStep, Before, After
  <2>3. CASE s # time
    BY <2>1, <2>3 DEF InStep
  <2> QED BY <2>2, <2>3
<1> QED BY <1>1, <1>2, <1>3, Invariant, PTL DEF Spec

-----------------------------------------------------------------------------
(* The first test that stops a request decides, as the handler returns     *)
(* from it (content_handler).                                              *)
LEMMA LeastIn ==
    ASSUME NEW S, S \subseteq Nat, S # {}
    PROVE  Min(S) \in S /\ \A y \in S : Min(S) <= y
<1>1. \E x \in S : \A y \in S : x <= y
  BY NatMin
<1> QED BY <1>1 DEF Min

LEMMA LeastIs ==
    ASSUME NEW S, S \subseteq Nat, NEW i \in S, \A j \in S : i <= j
    PROVE  Min(S) = i
<1>1. Min(S) \in S /\ Min(S) <= i /\ i <= Min(S)
  BY LeastIn
<1>2. Min(S) \in Nat /\ i \in Nat
  BY <1>1
<1> QED BY <1>1, <1>2

LEMMA FirstStop ==
    ASSUME NEW e, NEW conf, NEW r, NEW x, NEW i \in 1 .. 8,
           Tests(e, conf, r, x)[i].on, \A j \in 1 .. i - 1 : ~Tests(e, conf, r, x)[j].on
    PROVE  Verdict(e, conf, r, x) = Tests(e, conf, r, x)[i].status
<1> DEFINE tests == Tests(e, conf, r, x)
           stops == {j \in DOMAIN tests : tests[j].on}
<1>1. DOMAIN tests = 1 .. 8
  BY DEF Tests
<1> HIDE DEF tests
<1>2. stops \subseteq Nat /\ i \in stops
  BY <1>1 DEF tests
<1>3. \A j \in stops : i <= j
  <2> SUFFICES ASSUME NEW j \in stops, j < i PROVE FALSE
    BY <1>2
  <2>1. j \in 1 .. i - 1 /\ tests[j].on
    BY <1>1, <1>2
  <2> QED BY <2>1 DEF tests
<1>4. Min(stops) = i
  BY <1>2, <1>3, LeastIs
<1> QED BY <1>2, <1>4 DEF Verdict, tests

(* What the verdict is.                                                    *)
LEMMA VerdictIs ==
    ASSUME NEW e, NEW conf, NEW r, NEW x \in BOOLEAN
    PROVE  Verdict(e, conf, r, x) =
             IF e = "none" \/ ~conf.monitor THEN "declined"
             ELSE IF r.method = "OPTIONS" THEN "204"
             ELSE IF r.method \notin {"GET", "HEAD"} THEN "405"
             ELSE IF SwitchedOff(e, conf) THEN "404"
             ELSE IF ~MatchAccess(conf.rules, r.addr) THEN "403"
             ELSE IF ~BasicAuthOK(conf, r) THEN "401"
             ELSE IF e # "dashboard" /\ ~ApiTokenOK(conf, r) THEN "401"
             ELSE IF conf.rate_limit # 0 /\ x THEN "429" ELSE "serve"
<1> DEFINE tests == Tests(e, conf, r, x)
           v == Verdict(e, conf, r, x)
<1>0. DOMAIN tests = 1 .. 8
  BY DEF Tests
<1>1. /\ tests[1].on = (e = "none" \/ ~conf.monitor) /\ tests[1].status = "declined"
      /\ tests[2].on = (r.method = "OPTIONS") /\ tests[2].status = "204"
      /\ tests[3].on = (r.method \notin {"GET", "HEAD"}) /\ tests[3].status = "405"
      /\ tests[4].on = SwitchedOff(e, conf) /\ tests[4].status = "404"
  BY DEF Tests, Stop
<1>2. /\ tests[5].on = (~MatchAccess(conf.rules, r.addr)) /\ tests[5].status = "403"
      /\ tests[6].on = (~BasicAuthOK(conf, r)) /\ tests[6].status = "401"
      /\ tests[7].on = (e # "dashboard" /\ ~ApiTokenOK(conf, r)) /\ tests[7].status = "401"
      /\ tests[8].on = (conf.rate_limit # 0 /\ x) /\ tests[8].status = "429"
  BY DEF Tests, Stop
<1>3. (\A i \in 1 .. 8 : ~tests[i].on) => v = "serve"
  <2> SUFFICES ASSUME \A i \in 1 .. 8 : ~tests[i].on PROVE v = "serve"
    OBVIOUS
  <2>1. {i \in DOMAIN tests : tests[i].on} = {}
    BY <1>0
  <2> QED BY <2>1 DEF Verdict
<1>4. \A i \in 1 .. 8 : tests[i].on /\ (\A j \in 1 .. i - 1 : ~tests[j].on)
                          => v = tests[i].status
  BY FirstStop
<1> HIDE DEF tests, v
<1>5. /\ tests[1].on => v = "declined"
      /\ ~tests[1].on /\ tests[2].on => v = "204"
      /\ ~tests[1].on /\ ~tests[2].on /\ tests[3].on => v = "405"
      /\ ~tests[1].on /\ ~tests[2].on /\ ~tests[3].on /\ tests[4].on => v = "404"
  <2>1. tests[1].on => v = "declined"
    BY <1>1, <1>4
  <2>2. ~tests[1].on /\ tests[2].on => v = "204"
    BY <1>1, <1>4
  <2>3. ~tests[1].on /\ ~tests[2].on /\ tests[3].on => v = "405"
    BY <1>1, <1>4
  <2>4. ~tests[1].on /\ ~tests[2].on /\ ~tests[3].on /\ tests[4].on => v = "404"
    BY <1>1, <1>4
  <2> QED BY <2>1, <2>2, <2>3, <2>4
<1>6. ~tests[1].on /\ ~tests[2].on /\ ~tests[3].on /\ ~tests[4].on =>
         /\ tests[5].on => v = "403"
         /\ ~tests[5].on /\ tests[6].on => v = "401"
         /\ ~tests[5].on /\ ~tests[6].on /\ tests[7].on => v = "401"
         /\ ~tests[5].on /\ ~tests[6].on /\ ~tests[7].on /\ tests[8].on => v = "429"
         /\ ~tests[5].on /\ ~tests[6].on /\ ~tests[7].on /\ ~tests[8].on => v = "serve"
  <2> SUFFICES ASSUME ~tests[1].on, ~tests[2].on, ~tests[3].on, ~tests[4].on
               PROVE  /\ tests[5].on => v = "403"
                      /\ ~tests[5].on /\ tests[6].on => v = "401"
                      /\ ~tests[5].on /\ ~tests[6].on /\ tests[7].on => v = "401"
                      /\ ~tests[5].on /\ ~tests[6].on /\ ~tests[7].on /\ tests[8].on => v = "429"
                      /\ ~tests[5].on /\ ~tests[6].on /\ ~tests[7].on /\ ~tests[8].on => v = "serve"
    OBVIOUS
  <2>0. \A j \in 1 .. 4 : ~tests[j].on
    OBVIOUS
  <2>1. tests[5].on => v = "403"
    BY <2>0, <1>2, <1>4
  <2>2. ~tests[5].on /\ tests[6].on => v = "401"
    BY <2>0, <1>2, <1>4
  <2>3. ~tests[5].on /\ ~tests[6].on /\ tests[7].on => v = "401"
    BY <2>0, <1>2, <1>4
  <2>4. ~tests[5].on /\ ~tests[6].on /\ ~tests[7].on /\ tests[8].on => v = "429"
    BY <2>0, <1>2, <1>4
  <2>5. ~tests[5].on /\ ~tests[6].on /\ ~tests[7].on /\ ~tests[8].on => v = "serve"
    BY <2>0, <1>3
  <2> QED BY <2>1, <2>2, <2>3, <2>4, <2>5
<1> QED BY <1>1, <1>2, <1>5, <1>6, Zenon DEF v

(* The first rule that matches decides (match_access).                     *)
LEMMA AccessIs ==
    ASSUME NEW D, NEW rules \in Seq(D), NEW addr
    PROVE  MatchAccess(rules, addr) <=>
             ~ \E i \in DOMAIN rules :
                  /\ rules[i].deny /\ RuleMatches(rules[i], addr)
                  /\ \A j \in 1 .. i - 1 : ~RuleMatches(rules[j], addr)
<1> DEFINE hits == {i \in DOMAIN rules : RuleMatches(rules[i], addr)}
<1>1. hits \subseteq Nat /\ DOMAIN rules = 1 .. Len(rules) /\ Len(rules) \in Nat
  BY LenProperties
<1>2. CASE hits = {}
  BY <1>2 DEF MatchAccess
<1>3. CASE hits # {}
  <2>1. Min(hits) \in hits /\ \A i \in hits : Min(hits) <= i
    BY <1>1, <1>3, LeastIn
  <2>2. \A i \in DOMAIN rules :
           RuleMatches(rules[i], addr) /\ (\A j \in 1 .. i - 1 : ~RuleMatches(rules[j], addr))
           <=> i = Min(hits)
    <3> SUFFICES ASSUME NEW i \in DOMAIN rules
                 PROVE  RuleMatches(rules[i], addr)
                           /\ (\A j \in 1 .. i - 1 : ~RuleMatches(rules[j], addr))
                        <=> i = Min(hits)
      OBVIOUS
    <3> DEFINE m == Min(hits)
    <3>0. m \in 1 .. Len(rules) /\ i \in 1 .. Len(rules) /\ RuleMatches(rules[m], addr)
      BY <1>1, <2>1
    <3> HIDE DEF m
    <3>1. ASSUME RuleMatches(rules[i], addr), \A j \in 1 .. i - 1 : ~RuleMatches(rules[j], addr)
          PROVE  i = m
      <4>1. m <= i
        BY <2>1, <3>1 DEF m
      <4>2. ~(m < i)
        BY <3>0, <3>1, <1>1
      <4> QED BY <3>0, <4>1, <4>2
    <3>2. ASSUME i = m
          PROVE  RuleMatches(rules[i], addr)
                 /\ \A j \in 1 .. i - 1 : ~RuleMatches(rules[j], addr)
      <4>1. \A j \in 1 .. m - 1 : j \in DOMAIN rules /\ ~(m <= j)
        BY <3>0, <1>1
      <4>2. \A j \in 1 .. m - 1 : j \notin hits
        BY <2>1, <4>1 DEF m
      <4> QED BY <3>0, <3>2, <4>1, <4>2
    <3> QED BY <3>1, <3>2 DEF m
  <2>3. MatchAccess(rules, addr) <=> ~rules[Min(hits)].deny
    BY <1>3 DEF MatchAccess
  <2> HIDE DEF hits
  <2>4. Min(hits) \in DOMAIN rules
    BY <2>1 DEF hits
  <2> QED BY <2>2, <2>3, <2>4
<1> QED BY <1>2, <1>3

-----------------------------------------------------------------------------
(* What a case is, and the directives that are in force.                   *)
Posed ==
    \E family \in Cases :
        /\ request \in family.requests /\ content \in family.contents
        /\ <<outer, inner>> \in family.blocks

LEMMA Blocks == Posed => Block(outer) /\ Block(inner)
<1> SUFFICES ASSUME NEW family \in Cases, <<outer, inner>> \in family.blocks
             PROVE  Block(outer) /\ Block(inner)
  BY DEF Posed
<1>1. Block(<<outer, inner>>[1]) /\ Block(<<outer, inner>>[2])
  BY ResponseAssumption
<1> QED BY <1>1

LEMMA ConfIs == Posed => Conf.rules = Rules /\ Rules \in Seq(Rule)
<1> SUFFICES ASSUME Posed PROVE Conf.rules = Rules /\ Rules \in Seq(Rule)
  OBVIOUS
<1>1. /\ "rules" \in DOMAIN inner => inner.rules \in Seq(Rule)
      /\ "rules" \in DOMAIN outer => outer.rules \in Seq(Rule)
  BY Blocks DEF Block
<1>2. "rules" \in DOMAIN Defaults /\ Defaults.rules = <<>>
  BY DEF Defaults
<1>3. \A d \in DOMAIN Defaults :
         Conf[d] = IF d \in DOMAIN inner THEN inner[d]
                   ELSE IF d \in DOMAIN outer THEN outer[d] ELSE Defaults[d]
  BY DEF Conf, MergeLocConf
<1>4. Conf.rules = IF "rules" \in DOMAIN inner THEN inner.rules
                   ELSE IF "rules" \in DOMAIN outer THEN outer.rules ELSE <<>>
  BY <1>2, <1>3
<1>5. Conf.rules = Rules
  BY <1>4 DEF Rules
<1>6. <<>> \in Seq(Rule)
  BY EmptySeq
<1>7. Rules \in Seq(Rule)
  BY <1>1, <1>6 DEF Rules
<1> QED BY <1>5, <1>7

(* The rules and the credentials of the documentation are those that the   *)
(* handler tests.                                                          *)
LEMMA BlockedIs == Posed => (MatchAccess(Conf.rules, request.addr) <=> ~Blocked)
<1> SUFFICES ASSUME Posed PROVE MatchAccess(Conf.rules, request.addr) <=> ~Blocked
  OBVIOUS
<1>1. Conf.rules = Rules /\ Rules \in Seq(Rule)
  BY ConfIs
<1>2. MatchAccess(Rules, request.addr) <=>
          ~ \E i \in DOMAIN Rules :
               /\ Rules[i].deny /\ RuleMatches(Rules[i], request.addr)
               /\ \A j \in 1 .. i - 1 : ~RuleMatches(Rules[j], request.addr)
  BY <1>1, AccessIs
<1> QED BY <1>1, <1>2 DEF Blocked

LEMMA CredentialsAre ==
    Credentials <=> /\ BasicAuthOK(Conf, request)
                    /\ Endpoint = "dashboard" \/ ApiTokenOK(Conf, request)
BY DEF Credentials, BasicAuthOK, ApiTokenOK

(* A verdict that the request can get, and what follows from each.         *)
Gets(v) == \E x \in BOOLEAN : v = Verdict(Endpoint, Conf, request, x)

LEMMA GetsWhat ==
    ASSUME Posed, NEW v, Gets(v)
    PROVE  /\ v = "declined" => Endpoint = "none" \/ ~Conf.monitor
           /\ v = "204" => request.method = "OPTIONS"
           /\ v = "405" => request.method \notin {"GET", "HEAD"}
           /\ v = "403" => Blocked
           /\ v = "401" => ~Blocked /\ ~Credentials
           /\ v = "429" => ~Blocked /\ Credentials /\ Conf.rate_limit # 0
           /\ v = "serve" => ~Blocked /\ Credentials
<1>1. PICK x \in BOOLEAN : v = Verdict(Endpoint, Conf, request, x)
  BY DEF Gets
<1>2. /\ MatchAccess(Conf.rules, request.addr) <=> ~Blocked
      /\ Credentials <=> /\ BasicAuthOK(Conf, request)
                         /\ Endpoint = "dashboard" \/ ApiTokenOK(Conf, request)
  BY BlockedIs, CredentialsAre
<1> DEFINE verdict == Verdict(Endpoint, Conf, request, x)
<1>3. verdict =
             IF Endpoint = "none" \/ ~Conf.monitor THEN "declined"
             ELSE IF request.method = "OPTIONS" THEN "204"
             ELSE IF request.method \notin {"GET", "HEAD"} THEN "405"
             ELSE IF SwitchedOff(Endpoint, Conf) THEN "404"
             ELSE IF ~MatchAccess(Conf.rules, request.addr) THEN "403"
             ELSE IF ~BasicAuthOK(Conf, request) THEN "401"
             ELSE IF Endpoint # "dashboard" /\ ~ApiTokenOK(Conf, request) THEN "401"
             ELSE IF Conf.rate_limit # 0 /\ x THEN "429" ELSE "serve"
  BY VerdictIs
<1> HIDE DEF verdict
<1>4. v = verdict
  BY <1>1 DEF verdict
<1> QED BY <1>2, <1>3, <1>4, Zenon

-----------------------------------------------------------------------------
(* What was sent, and what the header carries, agrees with the verdict.    *)
Fields == {"challenge", Conf.cors}

AnswerTyped ==
    /\ header \in Statuses \cup {"none"} /\ bodies \in Seq(Statuses)
    /\ fields \in Seq(Fields) /\ carried \in Seq(Fields)
    /\ stage \in {"gate", "admitted", "serve", "head", "rows", "foot", "send"} \cup Ends

Serving ==
    /\ stage = "admitted" => header = "none" /\ fields = <<>>
    /\ stage \in {"serve", "head", "rows", "foot", "send"} => header = "none" /\ fields = Origins
    /\ stage \in Ends => header \in {"200", "500"} /\ carried = Origins

Answered ==
    \/ Gets("serve") /\ Serving
    \/ \E v \in {"401", "403", "429"} :
          Gets(v) /\ header = v /\ carried \in {<<>>, <<"challenge">>}
    \/ \E v \in {"404", "405"} :
          Gets(v) /\ header = v /\ carried = <<>> /\ stage = "done"
    \/ Gets("204") /\ header = "204" /\ carried = Origins /\ stage = "done"

GateInv ==
    /\ Posed /\ AnswerTyped
    /\ stage = "gate" => header = "none" /\ fields = <<>> /\ carried = <<>>
    /\ stage = "declined" => Gets("declined")
    /\ stage \notin {"gate", "declined"} => Answered

LEMMA InitGate == ResponseInit => GateInv
<1> SUFFICES ASSUME ResponseInit PROVE GateInv
  OBVIOUS
<1>1. Posed
  <2>1. PICK family \in Cases :
           /\ request \in family.requests /\ content \in family.contents
           /\ \E blocks \in family.blocks : outer = blocks[1] /\ inner = blocks[2]
    BY DEF ResponseInit
  <2>2. PICK blocks \in family.blocks : outer = blocks[1] /\ inner = blocks[2]
    BY <2>1
  <2>3. blocks = <<outer, inner>>
    BY <2>2, ResponseAssumption
  <2> QED BY <2>1, <2>2, <2>3 DEF Posed
<1>2. fields = <<>> /\ header = "none" /\ carried = <<>> /\ bodies = <<>> /\ stage = "gate"
  BY DEF ResponseInit
<1>3. <<>> \in Seq(Fields) /\ <<>> \in Seq(Statuses)
  BY EmptySeq
<1>4. AnswerTyped
  BY <1>2, <1>3 DEF AnswerTyped
<1> QED BY <1>1, <1>2, <1>4 DEF GateInv

LEMMA Singleton == \A S : <<>> \in Seq(S) /\ \A x \in S : <<x>> \in Seq(S)
OBVIOUS

(* Nothing that was given changes.                                         *)
LEMMA GivenStays ==
    ASSUME UNCHANGED given
    PROVE  /\ Posed' = Posed /\ Endpoint' = Endpoint /\ Conf' = Conf
           /\ Origins' = Origins /\ Fields' = Fields
           /\ \A v : Gets(v)' = Gets(v)
<1>1. UNCHANGED <<request, outer, inner, content>>
  BY DEF given
<1>2. Posed' = Posed
  BY <1>1 DEF Posed
<1>3. Endpoint' = Endpoint /\ Conf' = Conf
  BY <1>1 DEF Endpoint, Conf
<1>4. Origins' = Origins /\ Fields' = Fields
  BY <1>3 DEF Origins, Fields
<1>5. \A v : Gets(v)' = Gets(v)
  BY <1>1, <1>3 DEF Gets
<1> QED BY <1>2, <1>3, <1>4, <1>5

LEMMA NextGiven == ResponseNext => UNCHANGED given
BY DEF ResponseNext, DeclineRequest, Preflight, Reject, Refuse, Admit, Serve, SendDashboard, SendSse,
       SendJson, WriteHead, WriteRow, RowsDone, WriteFoot, Part, SendBuffer, Handle

LEMMA OriginsTyped == Posed => Origins \in Seq(Fields) /\ AddCors(Conf, <<>>) = Origins
<1> SUFFICES ASSUME Posed PROVE Origins \in Seq(Fields) /\ AddCors(Conf, <<>>) = Origins
  OBVIOUS
<1>1. Conf.cors \in Fields /\ <<>> \in Seq(Fields)
  BY EmptySeq DEF Fields
<1>2. <<Conf.cors>> \in Seq(Fields) /\ Append(<<>>, Conf.cors) = <<Conf.cors>>
  BY <1>1
<1> QED BY <1>1, <1>2 DEF Origins, AddCors

LEMMA SendTyped ==
    ASSUME AnswerTyped, NEW s \in Statuses
    PROVE  /\ SendHeader(s) /\ fields' \in Seq(Fields) =>
                  header' \in Statuses \cup {"none"} /\ carried' \in Seq(Fields)
           /\ SendBody(s) => bodies' \in Seq(Statuses)
           /\ Special(s) => bodies' \in Seq(Statuses)
<1>1. Append(bodies, s) \in Seq(Statuses)
  BY DEF AnswerTyped
<1> QED BY <1>1 DEF AnswerTyped, SendHeader, SendBody, Special

LEMMA StepGate == GateInv /\ ResponseNext => GateInv'
<1> SUFFICES ASSUME GateInv, ResponseNext PROVE GateInv'
  OBVIOUS
<1>g. /\ Posed' /\ Endpoint' = Endpoint /\ Conf' = Conf
      /\ Origins' = Origins /\ Fields' = Fields
      /\ \A v : Gets(v)' = Gets(v)
  BY NextGiven, GivenStays DEF GateInv
<1>f. Fields' = Fields
  BY <1>g
<1>o. Origins \in Seq(Fields) /\ AddCors(Conf, <<>>) = Origins
  BY OriginsTyped DEF GateInv
<1>t. AnswerTyped /\ <<>> \in Seq(Fields) /\ <<"challenge">> \in Seq(Fields)
  <2>1. <<>> \in Seq(Fields) /\ <<"challenge">> \in Seq(Fields)
    BY Singleton DEF Fields
  <2> QED BY <2>1 DEF GateInv
<1>e. {"200", "204", "401", "403", "404", "405", "429", "500"} = Statuses
  BY DEF Statuses
<1>1. CASE DeclineRequest
  <2>1. stage' = "declined" /\ UNCHANGED answer /\ Gets("declined")
    BY <1>1 DEF DeclineRequest, Handle, Gets
  <2>2. AnswerTyped'
    BY <1>t, <1>f, <2>1 DEF AnswerTyped, answer, Ends
  <2> QED BY <1>g, <2>1, <2>2 DEF GateInv
<1>2. CASE Preflight
  <2>1. /\ stage = "gate" /\ Gets("204") /\ fields' = AddCors(Conf, fields) /\ SendHeader("204")
        /\ stage' = "done" /\ UNCHANGED bodies
    BY <1>2 DEF Preflight, Handle, Gets
  <2>2. header' = "204" /\ fields' = Origins /\ carried' = Origins
    BY <2>1, <1>o DEF GateInv, SendHeader
  <2>3. AnswerTyped'
    BY <1>o, <1>t, <1>f, <1>e, <2>1, <2>2 DEF AnswerTyped, Ends
  <2> QED BY <1>g, <2>1, <2>2, <2>3 DEF GateInv, Answered
<1>3. CASE Reject
  <2>1. PICK v \in {"404", "405"} : Gets(v) /\ Special(v)
    BY <1>3 DEF Reject, Handle, Gets
  <2>2. stage = "gate" /\ stage' = "done" /\ UNCHANGED fields
    BY <1>3 DEF Reject, Handle
  <2>3. header' = v /\ carried' = <<>> /\ fields' = <<>>
    BY <2>1, <2>2 DEF GateInv, Special, SendHeader
  <2>4. bodies' \in Seq(Statuses) /\ v \in Statuses
    BY <1>t, <1>f, <1>e, <2>1, SendTyped
  <2>5. AnswerTyped'
    BY <1>t, <1>f, <2>2, <2>3, <2>4 DEF AnswerTyped, Ends
  <2> QED BY <1>g, <2>1, <2>2, <2>3, <2>5 DEF GateInv, Answered
<1>4. CASE Refuse
  <2>1. PICK v \in {"401", "403", "429"} :
           Gets(v) /\ fields' = Challenge(v) /\ SendHeader(v) /\ SendBody(v)
    BY <1>4 DEF Refuse, Handle, Gets
  <2>2. stage = "gate" /\ stage' \in {"admitted", "done"}
    BY <1>4 DEF Refuse, Handle
  <2>3. fields' \in {<<>>, <<"challenge">>}
    BY <2>1 DEF Challenge
  <2>4. header' = v /\ carried' = fields'
    BY <2>1, <2>2 DEF GateInv, SendHeader
  <2>5. bodies' \in Seq(Statuses) /\ v \in Statuses
    BY <1>t, <1>f, <1>e, <2>1, SendTyped
  <2>6. AnswerTyped'
    BY <1>t, <1>f, <2>2, <2>3, <2>4, <2>5 DEF AnswerTyped, Ends
  <2> QED BY <1>g, <2>1, <2>2, <2>3, <2>4, <2>6 DEF GateInv, Answered
<1>5. CASE Admit
  <2>1. stage = "gate" /\ stage' = "admitted" /\ UNCHANGED answer /\ Gets("serve")
    BY <1>5 DEF Admit, Handle, Gets
  <2>2. AnswerTyped'
    BY <1>t, <1>f, <2>1 DEF AnswerTyped, answer, Ends
  <2>3. Serving'
    BY <2>1 DEF GateInv, Serving, answer, Ends
  <2> QED BY <1>g, <2>1, <2>2, <2>3 DEF GateInv, Answered
(* After the gate: a refusal is final, whatever is done afterwards.        *)
<1> DEFINE Inner == {"admitted", "serve", "head", "rows", "foot", "send"}
<1>6. ASSUME stage \in Inner, AnswerTyped', stage' \notin {"gate", "declined"},
             header # "none" => UNCHANGED <<header, carried>>,
             Serving /\ header = "none" => Serving'
      PROVE  GateInv'
  <2>1. Answered
    BY <1>6 DEF GateInv
  <2>2. CASE Gets("serve") /\ Serving
    <3>1. header = "none"
      BY <1>6, <2>2 DEF Serving
    <3>2. Serving' /\ Gets("serve")'
      BY <1>6, <1>g, <2>2, <3>1
    <3> QED BY <1>6, <1>g, <3>2 DEF GateInv, Answered
  <2>3. CASE \E v \in {"401", "403", "429"} :
                Gets(v) /\ header = v /\ carried \in {<<>>, <<"challenge">>}
    <3>1. UNCHANGED <<header, carried>>
      BY <1>6, <2>3
    <3> QED BY <1>6, <1>g, <2>3, <3>1 DEF GateInv, Answered
  <2>4. stage # "done"
    BY <1>6
  <2> QED BY <2>1, <2>2, <2>3, <2>4 DEF Answered
<1>7. CASE Serve
  <2>1. stage = "admitted" /\ stage' = "serve" /\ fields' = AddCors(Conf, fields)
        /\ UNCHANGED <<header, carried, bodies>>
    BY <1>7 DEF Serve
  <2>2. fields' \in Seq(Fields)
    <3>1. Conf.cors \in Fields
      BY DEF Fields
    <3>2. Append(fields, Conf.cors) \in Seq(Fields) /\ fields \in Seq(Fields)
      BY <1>t, <1>f, <3>1 DEF AnswerTyped
    <3> QED BY <2>1, <3>2 DEF AddCors
  <2>3. AnswerTyped'
    BY <1>t, <1>f, <2>1, <2>2 DEF AnswerTyped
  <2>4. Serving /\ header = "none" => Serving'
    BY <1>o, <1>g, <2>1 DEF Serving, Ends
  <2> QED BY <1>6, <2>1, <2>3, <2>4
<1>8. CASE SendDashboard
  <2>1. stage = "serve" /\ stage' = "done" /\ UNCHANGED fields /\ SendHeader("200") /\ SendBody("200")
    BY <1>8 DEF SendDashboard
  <2>2. AnswerTyped'
    BY <1>t, <1>f, <1>e, <2>1, SendTyped DEF AnswerTyped, Ends
  <2>3. Serving /\ header = "none" => Serving'
    BY <1>g, <2>1 DEF Serving, SendHeader, Ends
  <2> QED BY <1>6, <2>1, <2>2, <2>3 DEF SendHeader
<1>9. CASE SendSse
  <2>1. stage = "serve" /\ stage' \in {"stream", "done"} /\ UNCHANGED <<fields, bodies>>
        /\ SendHeader("200")
    BY <1>9 DEF SendSse
  <2>2. AnswerTyped'
    BY <1>t, <1>f, <1>e, <2>1, SendTyped DEF AnswerTyped, Ends
  <2>3. Serving /\ header = "none" => Serving'
    BY <1>g, <2>1 DEF Serving, SendHeader, Ends
  <2> QED BY <1>6, <2>1, <2>2, <2>3 DEF SendHeader
<1>10. CASE SendJson \/ WriteHead \/ WriteRow \/ RowsDone \/ WriteFoot
  <2>1. /\ stage \in {"serve", "head", "rows", "foot"} /\ UNCHANGED answer
        /\ stage' \in {"head", "rows", "foot", "send"}
    BY <1>10 DEF SendJson, WriteHead, WriteRow, RowsDone, WriteFoot, Part
  <2>2. AnswerTyped'
    BY <1>t, <1>f, <2>1 DEF AnswerTyped, answer
  <2>3. Serving /\ header = "none" => Serving'
    BY <1>g, <2>1 DEF Serving, answer, Ends
  <2> QED BY <1>6, <2>1, <2>2, <2>3 DEF answer
<1>11. CASE SendBuffer
  <2>1. stage = "send" /\ stage' \in {"sent", "error"} /\ UNCHANGED fields
    BY <1>11 DEF SendBuffer
  <2>2. Special("500") \/ (SendHeader("200") /\ SendBody("200"))
    BY <1>11 DEF SendBuffer
  <2>3. PICK v \in {"200", "500"} : SendHeader(v) /\ bodies' \in Seq(Statuses)
    <3>1. CASE Special("500")
      BY <1>t, <1>f, <1>e, <3>1, SendTyped DEF Special
    <3>2. CASE SendHeader("200") /\ SendBody("200")
      BY <1>t, <1>f, <1>e, <3>2, SendTyped
    <3> QED BY <2>2, <3>1, <3>2
  <2>4. AnswerTyped'
    BY <1>t, <1>f, <1>e, <2>1, <2>3, SendTyped DEF AnswerTyped, Ends
  <2>5. Serving /\ header = "none" => Serving'
    BY <1>g, <2>1, <2>3 DEF Serving, SendHeader, Ends
  <2> QED BY <1>6, <2>1, <2>3, <2>4, <2>5 DEF SendHeader
<1> QED BY <1>1, <1>2, <1>3, <1>4, <1>5, <1>7, <1>8, <1>9, <1>10, <1>11 DEF ResponseNext

LEMMA GateStays == GateInv /\ UNCHANGED responseVars => GateInv'
<1> SUFFICES ASSUME GateInv, UNCHANGED responseVars PROVE GateInv'
  OBVIOUS
<1>1. UNCHANGED <<header, bodies, fields, carried, stage>> /\ UNCHANGED given
  BY DEF responseVars, answer
<1>2. Posed' = Posed /\ Origins' = Origins /\ Fields' = Fields /\ \A v : Gets(v)' = Gets(v)
  BY <1>1, GivenStays
<1>3. AnswerTyped' /\ (Serving => Serving')
  BY <1>1, <1>2 DEF GateInv, AnswerTyped, Serving
<1> QED BY <1>1, <1>2, <1>3 DEF GateInv, Answered

LEMMA GateAlways == ResponseSpec => []GateInv
<1>1. GateInv /\ [ResponseNext]_responseVars => GateInv'
  BY StepGate, GateStays
<1> QED BY <1>1, InitGate, PTL DEF ResponseSpec

(* The status that a client reads is the one the documentation names, for  *)
(* any rules, credentials and nesting of blocks, and whatever the handler  *)
(* does after a refusal (content_handler, authorize, plain_response); and  *)
(* only what is served may be read by the origin of monitor_cors.          *)
THEOREM AnswersAreDocumented == ResponseSpec => []AnswerAsDocumented
<1>1. GateInv => AnswerAsDocumented
  <2> SUFFICES ASSUME GateInv, stage \in Ends, Conf.monitor, Endpoint # "none"
               PROVE  /\ request.method \in {"GET", "HEAD"} /\ header # "404" => Documented
                      /\ header \in {"200", "204", "500"} => carried = Origins
                      /\ header \in {"401", "403", "404", "405", "429"} =>
                             carried \in {<<>>, <<"challenge">>}
    BY DEF AnswerAsDocumented
  <2>1. Posed /\ Answered
    BY GetsWhat DEF GateInv, Ends
  <2>2. CASE Gets("serve") /\ Serving
    <3>1. ~Blocked /\ Credentials /\ header \in {"200", "500"} /\ carried = Origins
      BY <2>1, <2>2, GetsWhat DEF Serving
    <3> QED BY <3>1 DEF Documented
  <2>3. CASE \E v \in {"401", "403", "429"} :
                Gets(v) /\ header = v /\ carried \in {<<>>, <<"challenge">>}
    <3>1. /\ header \in {"401", "403", "429"} /\ carried \in {<<>>, <<"challenge">>}
          /\ header = "403" => Blocked
          /\ header = "401" => ~Blocked /\ ~Credentials
          /\ header = "429" => ~Blocked /\ Credentials /\ Conf.rate_limit # 0
      BY <2>1, <2>3, GetsWhat
    <3> QED BY <3>1 DEF Documented
  <2>4. CASE \E v \in {"404", "405"} :
                Gets(v) /\ header = v /\ carried = <<>> /\ stage = "done"
    <3>1. header \in {"404", "405"} /\ carried = <<>>
          /\ (header = "405" => request.method \notin {"GET", "HEAD"})
      BY <2>1, <2>4, GetsWhat
    <3> QED BY <3>1 DEF Documented
  <2>5. CASE Gets("204") /\ header = "204" /\ carried = Origins /\ stage = "done"
    <3>1. request.method = "OPTIONS"
      BY <2>1, <2>5, GetsWhat
    <3> QED BY <2>5, <3>1
  <2> QED BY <2>1, <2>2, <2>3, <2>4, <2>5 DEF Answered
<1> QED BY <1>1, GateAlways, PTL

-----------------------------------------------------------------------------
(* The writer: how much of the response stands in the buffer.              *)
LenOf(pieces) == [i \in DOMAIN pieces |-> pieces[i].len]
Upto(pieces, n) == Sum(LenOf(pieces), 1 .. n)
RowsTo(n) == n * RowLength + (IF n = 0 THEN 0 ELSE n - 1)

LEMMA LengthsAre == \A pieces : Lengths(pieces) = Sum(LenOf(pieces), DOMAIN pieces)
BY DEF Lengths, LenOf, SumFunctionOnSet, FoldFunctionOnSet, Sum, MapThenSumSet

(* One piece more.                                                         *)
LEMMA UptoNext ==
    ASSUME NEW pieces \in Seq(Piece), NEW n \in 0 .. Len(pieces)
    PROVE  /\ Upto(pieces, 0) = 0
           /\ Upto(pieces, Len(pieces)) = Lengths(pieces)
           /\ Upto(pieces, n) \in Nat /\ Upto(pieces, n) <= Lengths(pieces)
           /\ n > 0 => /\ pieces[n] \in Piece /\ pieces[n].len \in Nat
                       /\ Upto(pieces, n) = Upto(pieces, n - 1) + pieces[n].len
<1> DEFINE f == LenOf(pieces)
<1>1. DOMAIN pieces = 1 .. Len(pieces) /\ Len(pieces) \in Nat
  BY LenProperties
<1>2. \A i \in 1 .. Len(pieces) :
         pieces[i] \in Piece /\ f[i] = pieces[i].len /\ f[i] \in Nat
  <2> SUFFICES ASSUME NEW i \in 1 .. Len(pieces)
               PROVE  pieces[i] \in Piece /\ f[i] = pieces[i].len /\ f[i] \in Nat
    OBVIOUS
  <2>1. pieces[i] \in Piece
    BY ElementOfSeq
  <2>2. pieces[i].len \in Nat
    BY <2>1 DEF Piece
  <2> QED BY <1>1, <2>1, <2>2 DEF LenOf
<1>3. \A i \in 1 .. n : f[i] \in Nat
  BY <1>1, <1>2
<1>4. IsFiniteSet(1 .. n) /\ IsFiniteSet(1 .. Len(pieces))
  BY <1>1, FS_Interval
<1> HIDE DEF f
<1>5. Upto(pieces, 0) = 0
  <2>1. 1 .. 0 = {}
    OBVIOUS
  <2> QED BY <2>1, SumEmpty DEF Upto
<1>6. Upto(pieces, Len(pieces)) = Lengths(pieces)
  BY <1>1, LengthsAre DEF Upto
<1>7. Upto(pieces, n) \in Nat
  BY <1>3, <1>4, SumType DEF Upto, f
<1>8. Upto(pieces, n) <= Lengths(pieces)
  <2>1. 1 .. n \in SUBSET (1 .. Len(pieces))
    BY <1>1
  <2>2. Sum(f, 1 .. n) <= Sum(f, 1 .. Len(pieces))
    BY <1>2, <1>4, <2>1, SumSubset
  <2> QED BY <1>6, <2>2 DEF Upto, f
<1>9. ASSUME n > 0
      PROVE  /\ pieces[n] \in Piece /\ pieces[n].len \in Nat
             /\ Upto(pieces, n) = Upto(pieces, n - 1) + pieces[n].len
  <2>1. n \in 1 .. n /\ (1 .. n) \ {n} = 1 .. n - 1 /\ n \in 1 .. Len(pieces)
    BY <1>1, <1>9
  <2>2. Sum(f, 1 .. n) = f[n] + Sum(f, 1 .. n - 1)
    BY <1>3, <1>4, <2>1, SumRemove
  <2>3. pieces[n] \in Piece /\ f[n] = pieces[n].len /\ f[n] \in Nat
    BY <1>2, <2>1
  <2>4. Sum(f, 1 .. n - 1) \in Nat
    <3>1. \A i \in 1 .. n - 1 : f[i] \in Nat
      BY <1>3, <2>1
    <3>2. IsFiniteSet(1 .. n - 1)
      BY <1>1, FS_Interval
    <3> QED BY <3>1, <3>2, SumType
  <2> HIDE DEF LenOf
  <2> QED BY <2>2, <2>3, <2>4 DEF Upto, f
<1> QED BY <1>5, <1>6, <1>7, <1>8, <1>9

(* One row more.                                                           *)
LEMMA RowsNext ==
    ASSUME NEW m \in Nat, NEW n \in 0 .. m
    PROVE  /\ RowsTo(0) = 0 /\ RowsTo(n) \in Nat /\ RowsTo(n) <= RowsTo(m)
           /\ n > 0 => RowsTo(n) = RowsTo(n - 1) + RowLength + (IF n = 1 THEN 0 ELSE 1)
<1>1. RowLength \in Nat /\ m \in Nat /\ n \in Nat /\ n <= m
  BY ResponseAssumption
<1>2. \A i \in Nat : i * RowLength \in Nat
  BY <1>1
<1>3. 0 * RowLength = 0
  BY <1>1
<1>4. n * RowLength <= m * RowLength
  <2>1. (m - n) * RowLength \in Nat
    BY <1>1
  <2>2. m * RowLength = n * RowLength + (m - n) * RowLength
    BY <1>1
  <2>3. n * RowLength \in Nat /\ m * RowLength \in Nat
    BY <1>1, <1>2
  <2> QED BY <2>1, <2>2, <2>3
<1>5. n > 0 => n * RowLength = (n - 1) * RowLength + RowLength
  BY <1>1
<1>6. n * RowLength \in Nat /\ m * RowLength \in Nat /\ (n > 0 => (n - 1) * RowLength \in Nat)
  BY <1>1, <1>2
<1>7. RowsTo(0) = 0
  BY <1>3 DEF RowsTo
<1>8. RowsTo(n) \in Nat /\ RowsTo(n) <= RowsTo(m)
  BY <1>1, <1>4, <1>6 DEF RowsTo
<1>9. n > 0 => RowsTo(n) = RowsTo(n - 1) + RowLength + (IF n = 1 THEN 0 ELSE 1)
  BY <1>1, <1>5, <1>6 DEF RowsTo
<1> QED BY <1>7, <1>8, <1>9

(* A piece that fits is written, and one that does not would fill the      *)
(* buffer at least (json_append, json_printf).                             *)
LEMMA PutIs ==
    ASSUME NEW piece \in Piece, NEW p \in 0 .. Size
    PROVE  /\ Fits(piece, p) => EndOf(piece, p) = p + piece.len /\ p + piece.len \in 0 .. Size
           /\ ~Fits(piece, p) => p + piece.len >= Size
<1>1. Size \in Nat /\ piece.len \in Nat /\ piece.by \in {"append", "printf"}
      /\ (piece.by = "printf" => piece.len > 0)
  BY ResponseAssumption DEF Piece
<1>2. CASE piece.by = "append"
  BY <1>1, <1>2 DEF Fits, EndOf, AppendFits
<1>3. CASE piece.by = "printf"
  <2>1. piece.by # "append"
    BY <1>3
  <2>2. Fits(piece, p) <=> Size - p > 1 /\ p + piece.len < Size
    BY <2>1 DEF Fits, PrintfFits
  <2>3. EndOf(piece, p) = Min({p + piece.len, Size})
    BY <2>1 DEF EndOf
  <2>4. ASSUME p + piece.len < Size PROVE Min({p + piece.len, Size}) = p + piece.len
    <3>1. {p + piece.len, Size} \subseteq Nat /\ \A y \in {p + piece.len, Size} : p + piece.len <= y
      BY <1>1, <2>4
    <3> QED BY <3>1, LeastIs
  <2>5. ~Fits(piece, p) => p + piece.len >= Size
    BY <1>1, <1>3, <2>2
  <2> QED BY <1>1, <2>2, <2>3, <2>4, <2>5
<1> QED BY <1>1, <1>2, <1>3

LEMMA ContentTyped ==
    Posed => /\ content.head \in Seq(Piece) /\ content.foot \in Seq(Piece)
             /\ RowCount \in Nat
BY ResponseAssumption DEF Posed, RowCount

(* The bytes of the response before the piece that is next.                *)
Written(s) ==
    CASE s = "head" -> Upto(content.head, k - 1)
      [] s = "rows" -> Lengths(content.head) + RowsTo(k - 1)
      [] s = "foot" -> Lengths(content.head) + RowsTo(RowCount) + Upto(content.foot, k - 1)
      [] OTHER      -> Whole

WriterInv ==
    /\ pos \in 0 .. Size /\ failed \in BOOLEAN /\ k \in Nat \ {0}
    /\ stage \in {"gate", "admitted", "serve"} => pos = 0 /\ ~failed /\ k = 1
    /\ stage = "head" => k <= Len(content.head) + 1
    /\ stage = "rows" => k <= RowCount + 1
    /\ stage = "foot" => k <= Len(content.foot) + 1
    /\ stage \in {"head", "rows", "foot", "send", "sent"} /\ ~failed => pos = Written(stage)
    /\ failed => Whole >= Size
    /\ stage = "sent" => ~failed
    /\ stage = "error" => failed

LEMMA WholeIs ==
    Posed => /\ Whole = Lengths(content.head) + RowsTo(RowCount) + Lengths(content.foot)
             /\ Lengths(content.head) \in Nat /\ Lengths(content.foot) \in Nat
             /\ RowsTo(RowCount) \in Nat
<1> SUFFICES ASSUME Posed
             PROVE  /\ Whole = Lengths(content.head) + RowsTo(RowCount) + Lengths(content.foot)
                    /\ Lengths(content.head) \in Nat /\ Lengths(content.foot) \in Nat
                    /\ RowsTo(RowCount) \in Nat
  OBVIOUS
<1>1. content.head \in Seq(Piece) /\ content.foot \in Seq(Piece) /\ RowCount \in Nat
  BY ContentTyped
<1>2. Len(content.head) \in 0 .. Len(content.head) /\ Len(content.foot) \in 0 .. Len(content.foot)
  BY <1>1, LenProperties
<1>3. Lengths(content.head) \in Nat /\ Lengths(content.foot) \in Nat
  BY <1>1, <1>2, UptoNext
<1>4. RowsTo(RowCount) \in Nat
  BY <1>1, RowsNext
<1>5. RowCount * RowLength \in Nat
  BY <1>1, ResponseAssumption
<1>6. Whole = Lengths(content.head) + RowsTo(RowCount) + Lengths(content.foot)
  BY <1>1, <1>3, <1>5 DEF Whole, RowsTo
<1> QED BY <1>3, <1>4, <1>6

LEMMA InitWriter == ResponseInit => WriterInv
<1> SUFFICES ASSUME ResponseInit PROVE WriterInv
  OBVIOUS
<1>1. pos = 0 /\ failed = FALSE /\ stage = "gate" /\ k = 1 /\ Size \in Nat
  BY ResponseAssumption DEF ResponseInit
<1>2. ~failed /\ failed \in BOOLEAN
  BY <1>1
<1>3. pos \in 0 .. Size /\ k \in Nat \ {0} /\ pos = 0 /\ k = 1 /\ stage = "gate"
  BY <1>1
<1>4. stage \notin {"head", "rows", "foot", "send", "sent", "error"}
  BY <1>3
<1> QED BY <1>2, <1>3, <1>4, Zenon DEF WriterInv

LEMMA WriterSame ==
    ASSUME UNCHANGED given
    PROVE  /\ Whole' = Whole /\ RowCount' = RowCount /\ content' = content
           /\ \A s : k' = k => Written(s)' = Written(s)
<1>1. content' = content /\ RowCount' = RowCount
  BY DEF given, RowCount, Endpoint
<1>2. Whole' = Whole
  BY <1>1 DEF Whole, Lengths
<1>3. \A s : k' = k => Written(s)' = Written(s)
  BY <1>1, <1>2 DEF Written
<1> QED BY <1>1, <1>2, <1>3

(* A piece of the head or of the foot, which ends at what is before the    *)
(* next one.                                                               *)
LEMMA PieceWritten ==
    ASSUME Posed, WriterInv, NEW pieces \in Seq(Piece), NEW start \in Nat, k <= Len(pieces),
           start + Lengths(pieces) <= Whole, Whole \in Nat,
           ~failed => pos = start + Upto(pieces, k - 1), Put(pieces[k])
    PROVE  /\ pos' \in 0 .. Size /\ failed' \in BOOLEAN
           /\ ~failed' => pos' = start + Upto(pieces, k)
           /\ failed' => Whole >= Size
<1>1. /\ pos \in 0 .. Size /\ failed \in BOOLEAN /\ k \in Nat \ {0} /\ Size \in Nat
      /\ failed => Whole >= Size
  BY ResponseAssumption DEF WriterInv
<1>2. k \in 0 .. Len(pieces) /\ k > 0 /\ Len(pieces) \in Nat
  BY <1>1, LenProperties
<1>3. /\ Upto(pieces, k) \in Nat /\ Upto(pieces, k) <= Lengths(pieces)
      /\ pieces[k] \in Piece /\ pieces[k].len \in Nat
      /\ Upto(pieces, k) = Upto(pieces, k - 1) + pieces[k].len
  BY <1>2, UptoNext
<1>4. Lengths(pieces) \in Nat /\ Upto(pieces, k - 1) \in Nat
  <2>1. Len(pieces) \in 0 .. Len(pieces) /\ k - 1 \in 0 .. Len(pieces)
    BY <1>2
  <2> QED BY <2>1, UptoNext
<1>5. CASE failed \/ ~Fits(pieces[k], pos)
  <2>1. failed' = TRUE /\ pos' = pos
    BY <1>5 DEF Put
  <2>2. ASSUME ~failed PROVE Whole >= Size
    <3>1. pos + pieces[k].len >= Size
      BY <1>1, <1>3, <1>5, <2>2, PutIs
    <3>2. pos + pieces[k].len = start + Upto(pieces, k)
      BY <1>3, <1>4, <2>2
    <3> QED BY <1>1, <1>3, <1>4, <3>1, <3>2
  <2> QED BY <1>1, <2>1, <2>2
<1>6. CASE ~failed /\ Fits(pieces[k], pos)
  <2>1. failed' = FALSE /\ pos' = EndOf(pieces[k], pos)
    BY <1>1, <1>6 DEF Put
  <2>2. pos' = pos + pieces[k].len /\ pos' \in 0 .. Size
    BY <1>1, <1>3, <1>6, <2>1, PutIs
  <2>3. pos' = start + Upto(pieces, k)
    BY <1>3, <1>4, <1>6, <2>2
  <2> QED BY <1>6, <2>1, <2>2, <2>3
<1> QED BY <1>5, <1>6

(* A row of the history after its comma.                                   *)
LEMMA RowWritten ==
    ASSUME Posed, WriterInv, NEW start \in Nat, k <= RowCount,
           start + RowsTo(RowCount) <= Whole, Whole \in Nat,
           ~failed => pos = start + RowsTo(k - 1), WriteRow
    PROVE  /\ pos' \in 0 .. Size /\ failed' \in BOOLEAN
           /\ ~failed' => pos' = start + RowsTo(k)
           /\ failed' => Whole >= Size
<1> DEFINE comma == ~failed /\ (k = 1 \/ Fits(Comma, pos))
           at == IF k > 1 /\ comma THEN EndOf(Comma, pos) ELSE pos
           row == comma /\ Fits(Row, at)
<1>1. failed' = ~row /\ pos' = IF row THEN EndOf(Row, at) ELSE at
  BY DEF WriteRow
<1>2. /\ pos \in 0 .. Size /\ failed \in BOOLEAN /\ k \in Nat \ {0} /\ Size \in Nat
      /\ failed => Whole >= Size
      /\ RowLength \in Nat \ {0} /\ RowCount \in Nat
  BY ResponseAssumption, ContentTyped DEF WriterInv
<1>3. Comma \in Piece /\ Comma.len = 1 /\ Row \in Piece /\ Row.len = RowLength
  BY <1>2 DEF Comma, Row, Piece
<1>4. /\ RowsTo(k) \in Nat /\ RowsTo(k) <= RowsTo(RowCount)
      /\ RowsTo(k) = RowsTo(k - 1) + RowLength + (IF k = 1 THEN 0 ELSE 1)
  <2>1. k \in 0 .. RowCount /\ k > 0
    BY <1>2
  <2> QED BY <1>2, <2>1, RowsNext
<1>5. RowsTo(k - 1) \in Nat /\ RowsTo(RowCount) \in Nat
  <2>1. k - 1 \in 0 .. RowCount /\ RowCount \in 0 .. RowCount
    BY <1>2
  <2> QED BY <1>2, <2>1, RowsNext
<1> HIDE DEF comma, at, row
<1>6. CASE failed
  <2>1. ~comma /\ ~row
    BY <1>6 DEF comma, row
  <2>2. at = pos
    BY <2>1 DEF at
  <2>3. failed' = TRUE /\ pos' = pos
    BY <1>1, <2>1, <2>2
  <2> QED BY <1>2, <1>6, <2>3
<1>7. CASE ~failed /\ k > 1 /\ ~Fits(Comma, pos)
  <2>1. ~comma /\ ~row
    BY <1>7 DEF comma, row
  <2>2. at = pos
    BY <2>1 DEF at
  <2>3. failed' = TRUE /\ pos' = pos
    BY <1>1, <2>1, <2>2
  <2>4. pos + 1 >= Size
    BY <1>2, <1>3, <1>7, PutIs
  <2>5. Whole >= Size
    BY <1>2, <1>4, <1>5, <1>7, <2>4
  <2> QED BY <1>2, <2>3, <2>5
<1>8. CASE ~failed /\ (k = 1 \/ Fits(Comma, pos))
  <2>1. comma
    BY <1>8 DEF comma
  <2>2. at = pos + (IF k = 1 THEN 0 ELSE 1) /\ at \in 0 .. Size
    <3>1. CASE k = 1
      BY <1>2, <3>1 DEF at
    <3>2. CASE k > 1
      <4>1. EndOf(Comma, pos) = pos + 1 /\ pos + 1 \in 0 .. Size
        BY <1>2, <1>3, <1>8, <3>2, PutIs
      <4> QED BY <2>1, <3>2, <4>1 DEF at
    <3> QED BY <1>2, <3>1, <3>2
  <2>3. at + RowLength = start + RowsTo(k)
    BY <1>2, <1>4, <1>5, <1>8, <2>2
  <2>4. CASE Fits(Row, at)
    <3>1. row
      BY <2>1, <2>4 DEF row
    <3>2. failed' = FALSE /\ pos' = EndOf(Row, at)
      BY <1>1, <3>1
    <3>3. pos' = at + RowLength /\ pos' \in 0 .. Size
      BY <1>3, <2>2, <2>4, <3>2, PutIs
    <3> QED BY <2>3, <3>2, <3>3
  <2>5. CASE ~Fits(Row, at)
    <3>1. ~row
      BY <2>5 DEF row
    <3>2. failed' = TRUE /\ pos' = at
      BY <1>1, <3>1
    <3>3. at + RowLength >= Size
      BY <1>3, <2>2, <2>5, PutIs
    <3>4. Whole >= Size
      BY <1>2, <1>4, <1>5, <2>3, <3>3
    <3> QED BY <2>2, <3>2, <3>4
  <2> QED BY <2>4, <2>5
<1> QED BY <1>2, <1>6, <1>7, <1>8

LEMMA StepWriter == GateInv /\ WriterInv /\ ResponseNext => WriterInv'
<1> SUFFICES ASSUME GateInv, WriterInv, ResponseNext PROVE WriterInv'
  OBVIOUS
<1>p. Posed
  BY DEF GateInv
<1>g. /\ Whole' = Whole /\ RowCount' = RowCount /\ content' = content
      /\ \A s : k' = k => Written(s)' = Written(s)
  BY NextGiven, WriterSame
<1>w. /\ Whole = Lengths(content.head) + RowsTo(RowCount) + Lengths(content.foot)
      /\ Lengths(content.head) \in Nat /\ Lengths(content.foot) \in Nat
      /\ RowsTo(RowCount) \in Nat /\ RowCount \in Nat /\ Whole \in Nat
      /\ content.head \in Seq(Piece) /\ content.foot \in Seq(Piece)
  BY <1>p, WholeIs, ContentTyped
<1>l. Len(content.head) \in Nat /\ Len(content.foot) \in Nat
  BY <1>w, LenProperties
<1>t. pos \in 0 .. Size /\ failed \in BOOLEAN /\ k \in Nat \ {0} /\ Size \in Nat
      /\ (failed => Whole >= Size)
  BY ResponseAssumption DEF WriterInv
(* The steps that do not write.                                            *)
<1>1. ASSUME stage \in {"gate", "admitted", "serve"}, UNCHANGED <<pos, failed, k>>,
             stage' \in {"declined", "done", "stream", "admitted", "serve", "head"}
      PROVE  WriterInv'
  <2>1. pos' = 0 /\ ~failed' /\ failed' \in BOOLEAN /\ k' = 1 /\ pos' \in 0 .. Size
    BY <1>1, <1>t DEF WriterInv
  <2>2. stage' = "head" => k' <= Len(content'.head) + 1
    BY <1>g, <1>l, <2>1
  <2>3. stage' = "head" => pos' = Written(stage)'
    <3>1. Upto(content.head, 0) = 0
      BY <1>w, <1>l, UptoNext
    <3>2. stage' = "head" => Written(stage)' = Upto(content.head, 0)
      BY <1>g, <2>1 DEF Written
    <3> QED BY <2>1, <3>1, <3>2
  <2> QED BY <1>1, <2>1, <2>2, <2>3 DEF WriterInv
<1>2. CASE DeclineRequest \/ Preflight \/ Reject \/ Refuse \/ Admit \/ Serve
           \/ SendDashboard \/ SendSse \/ SendJson
  <2>1. stage \in {"gate", "admitted", "serve"} /\ UNCHANGED <<pos, failed, k>>
        /\ stage' \in {"declined", "done", "stream", "admitted", "serve", "head"}
    BY <1>2 DEF DeclineRequest, Preflight, Reject, Refuse, Admit, Serve, SendDashboard,
                SendSse, SendJson, Handle
  <2> QED BY <1>1, <2>1
(* The start of each part is the end of the one before it.                 *)
<1>3. ASSUME UNCHANGED <<pos, failed>>, k' = 1, ~failed => pos = Written(stage)',
             stage' \in {"rows", "foot", "send"}
      PROVE  WriterInv'
  <2>1. pos' \in 0 .. Size /\ failed' \in BOOLEAN /\ k' \in Nat \ {0}
        /\ (failed' => Whole' >= Size)
    BY <1>3, <1>g, <1>t
  <2>2. /\ stage' = "rows" => k' <= RowCount' + 1
        /\ stage' = "foot" => k' <= Len(content'.foot) + 1
    BY <1>3, <1>g, <1>w, <1>l
  <2> QED BY <1>3, <2>1, <2>2 DEF WriterInv
<1>4. CASE WriteHead
  <2>0. stage = "head" /\ k <= Len(content.head) + 1
        /\ (~failed => pos = Upto(content.head, k - 1))
    BY <1>4 DEF WriteHead, Part, WriterInv, Written
  <2>1. CASE k <= Len(content.head)
    <3>1. Put(content.head[k]) /\ k' = k + 1 /\ stage' = "head"
      BY <1>4, <2>0, <2>1 DEF WriteHead, Part
    <3>2. 0 + Upto(content.head, k - 1) = Upto(content.head, k - 1)
          /\ 0 + Upto(content.head, k) = Upto(content.head, k)
      <4>1. k - 1 \in 0 .. Len(content.head) /\ k \in 0 .. Len(content.head)
        BY <1>t, <1>l, <2>1
      <4>2. Upto(content.head, k - 1) \in Nat /\ Upto(content.head, k) \in Nat
        BY <1>w, <4>1, UptoNext
      <4> QED BY <4>2
    <3>3. /\ pos' \in 0 .. Size /\ failed' \in BOOLEAN
          /\ ~failed' => pos' = Upto(content.head, k)
          /\ failed' => Whole >= Size
      <4>1. 0 + Lengths(content.head) <= Whole /\ 0 \in Nat
        BY <1>w
      <4>2. /\ pos' \in 0 .. Size /\ failed' \in BOOLEAN
            /\ ~failed' => pos' = 0 + Upto(content.head, k)
            /\ failed' => Whole >= Size
        BY <1>p, <1>w, <2>0, <2>1, <3>1, <3>2, <4>1, PieceWritten
      <4> QED BY <3>2, <4>2
    <3>4. Written(stage)' = Upto(content.head, k) /\ k' \in Nat \ {0}
          /\ k' <= Len(content'.head) + 1
      <4>1. k' - 1 = k /\ k' \in Nat \ {0} /\ k' <= Len(content'.head) + 1
        BY <1>t, <1>g, <1>l, <2>1, <3>1
      <4> QED BY <1>g, <3>1, <4>1 DEF Written
    <3> QED BY <1>g, <3>1, <3>3, <3>4 DEF WriterInv
  <2>2. CASE k > Len(content.head)
    <3>1. stage' = "rows" /\ k' = 1 /\ UNCHANGED <<pos, failed>>
      BY <1>4, <1>t, <1>l, <2>2 DEF WriteHead, Part
    <3>2. k - 1 = Len(content.head)
      BY <1>t, <1>l, <2>0, <2>2
    <3>3. Upto(content.head, k - 1) = Lengths(content.head)
      BY <1>w, <1>l, <3>2, UptoNext
    <3>4. Written(stage)' = Lengths(content.head) + RowsTo(0)
      BY <1>g, <3>1 DEF Written, Lengths, RowsTo
    <3>5. RowsTo(0) = 0
      <4>1. 0 \in 0 .. RowCount
        BY <1>w
      <4> QED BY <1>w, <4>1, RowsNext
    <3> QED BY <1>3, <1>w, <2>0, <3>1, <3>3, <3>4, <3>5
  <2> QED BY <1>t, <1>l, <2>1, <2>2
<1>5. CASE WriteRow
  <2>1. /\ stage = "rows" /\ k <= RowCount /\ k' = k + 1 /\ stage' = "rows"
        /\ (~failed => pos = Lengths(content.head) + RowsTo(k - 1))
    BY <1>5 DEF WriteRow, WriterInv, Written
  <2>2. Lengths(content.head) + RowsTo(RowCount) <= Whole
    BY <1>w
  <2>3. /\ pos' \in 0 .. Size /\ failed' \in BOOLEAN
        /\ ~failed' => pos' = Lengths(content.head) + RowsTo(k)
        /\ failed' => Whole >= Size
    BY <1>p, <1>w, <1>5, <2>1, <2>2, RowWritten
  <2>4. k' - 1 = k /\ k' \in Nat \ {0} /\ k' <= RowCount' + 1
    BY <1>t, <1>g, <1>w, <2>1
  <2>5. Written(stage)' = Lengths(content.head) + RowsTo(k)
    BY <1>g, <2>1, <2>4 DEF Written, Lengths, RowsTo
  <2> QED BY <1>g, <2>1, <2>3, <2>4, <2>5 DEF WriterInv
<1>6. CASE RowsDone
  <2>1. /\ stage = "rows" /\ k > RowCount /\ stage' = "foot" /\ k' = 1 /\ UNCHANGED <<pos, failed>>
        /\ k <= RowCount + 1
        /\ (~failed => pos = Lengths(content.head) + RowsTo(k - 1))
    BY <1>6 DEF RowsDone, WriterInv, Written
  <2>2. k - 1 = RowCount
    BY <1>t, <1>w, <2>1
  <2>3. Upto(content.foot, 0) = 0
    BY <1>w, <1>l, UptoNext
  <2>4. Written(stage)' = Lengths(content.head) + RowsTo(RowCount) + Upto(content.foot, 0)
    BY <1>g, <2>1 DEF Written, Lengths, RowsTo
  <2> QED BY <1>3, <1>w, <2>1, <2>2, <2>3, <2>4
<1>7. CASE WriteFoot
  <2> DEFINE start == Lengths(content.head) + RowsTo(RowCount)
  <2>s. start \in Nat /\ start + Lengths(content.foot) <= Whole
    BY <1>w
  <2>0. stage = "foot" /\ k <= Len(content.foot) + 1
        /\ (~failed => pos = start + Upto(content.foot, k - 1))
    BY <1>7 DEF WriteFoot, Part, WriterInv, Written
  <2>1. CASE k <= Len(content.foot)
    <3>1. Put(content.foot[k]) /\ k' = k + 1 /\ stage' = "foot"
      BY <1>7, <2>0, <2>1 DEF WriteFoot, Part
    <3>2. /\ pos' \in 0 .. Size /\ failed' \in BOOLEAN
          /\ ~failed' => pos' = start + Upto(content.foot, k)
          /\ failed' => Whole >= Size
      <4> HIDE DEF start
      <4> QED BY <1>p, <1>w, <2>s, <2>0, <2>1, <3>1, PieceWritten
    <3>3. k' - 1 = k /\ k' \in Nat \ {0} /\ k' <= Len(content'.foot) + 1
      BY <1>t, <1>g, <1>l, <2>1, <3>1
    <3>4. Written(stage)' = start + Upto(content.foot, k)
      BY <1>g, <3>1, <3>3 DEF Written, Lengths, RowsTo
    <3> QED BY <1>g, <3>1, <3>2, <3>3, <3>4 DEF WriterInv
  <2>2. CASE k > Len(content.foot)
    <3>1. stage' = "send" /\ k' = 1 /\ UNCHANGED <<pos, failed>>
      BY <1>7, <1>t, <1>l, <2>2 DEF WriteFoot, Part
    <3>2. k - 1 = Len(content.foot)
      BY <1>t, <1>l, <2>0, <2>2
    <3>3. Upto(content.foot, k - 1) = Lengths(content.foot)
      BY <1>w, <1>l, <3>2, UptoNext
    <3>4. Written(stage)' = Whole
      BY <1>g, <3>1 DEF Written
    <3> QED BY <1>3, <1>w, <2>0, <3>1, <3>3, <3>4
  <2> QED BY <1>t, <1>l, <2>1, <2>2
<1>8. CASE SendBuffer
  <2>1. /\ stage = "send" /\ UNCHANGED <<pos, failed, k>>
        /\ stage' = IF failed THEN "error" ELSE "sent"
    BY <1>8 DEF SendBuffer
  <2>2. ~failed => pos = Whole
    BY <2>1 DEF WriterInv, Written
  <2>3. stage' = "sent" => Written(stage)' = Whole
    BY <1>g, <2>1 DEF Written
  <2>4. (stage' = "sent" => ~failed') /\ (stage' = "error" => failed') /\ stage' \in {"sent", "error"}
    BY <2>1
  <2>5. pos' \in 0 .. Size /\ failed' \in BOOLEAN /\ k' \in Nat \ {0} /\ (failed' => Whole' >= Size)
    BY <1>t, <1>g, <2>1
  <2>6. stage' = "sent" => pos' = Written(stage)'
    BY <2>1, <2>2, <2>3, <2>4
  <2> QED BY <2>4, <2>5, <2>6 DEF WriterInv
<1> QED BY <1>2, <1>4, <1>5, <1>6, <1>7, <1>8 DEF ResponseNext

LEMMA WriterStays == WriterInv /\ UNCHANGED responseVars => WriterInv'
<1> SUFFICES ASSUME WriterInv, UNCHANGED responseVars PROVE WriterInv'
  OBVIOUS
<1>1. UNCHANGED given /\ UNCHANGED <<pos, failed, stage, k>>
  BY DEF responseVars
<1>2. /\ Whole' = Whole /\ RowCount' = RowCount /\ content' = content
      /\ Written(stage)' = Written(stage)
  BY <1>1, WriterSame
<1> QED BY <1>1, <1>2 DEF WriterInv

LEMMA WriterTypeOK == GateInv /\ WriterInv => ResponseTypeOK
BY DEF GateInv, WriterInv, AnswerTyped, Posed, Fields, ResponseTypeOK

(* A response that is sent is whole, and only one that does not fit        *)
(* becomes an error: for any pieces and any buffer (json_append,           *)
(* json_printf, json_history, send_buffer).                                *)
THEOREM ResponseIsWhole == ResponseSpec => []WholeOrError
<1>1. WriterInv /\ GateInv /\ [ResponseNext]_responseVars => WriterInv'
  BY StepWriter, WriterStays
<1>2. WriterInv /\ GateInv => WholeOrError
  BY WriterTypeOK DEF WholeOrError, WriterInv, Written
<1> QED BY <1>1, <1>2, InitWriter, GateAlways, PTL DEF ResponseSpec
=============================================================================

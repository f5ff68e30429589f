--------------------------- MODULE CollectorProofs ---------------------------
(* Type correctness, mutual exclusion, the wholeness of the snapshot, the  *)
(* truth of the worker rows and the timers, for every number of workers    *)
(* and rows, every pid allocation and every sequence of stops and crashes. *)
EXTENDS Collector, TLAPS

USE DEF Alive, InPass, PassSteps, Steps

(* A dead process has no pid and stands nowhere; live pids are distinct.   *)
PidInv ==
    /\ \A p \in Procs : Alive(p) <=> pid[p] # 0
    /\ \A p \in Procs : ~Alive(p) => pc[p] = "idle"
    /\ \A p, q \in Procs : Alive(p) /\ pid[p] = pid[q] => p = q

(* Whoever is inside the pass has its own pid in the lock.                 *)
LockInv == \A p \in Procs : InPass(p) => collectorLock = pid[p]

(* The sections a pass that stands at a step has already been through.     *)
Done(step) ==
    {s \in Sections :
        \/ step \in {"system", "network", "history", "load", "store"} /\ s = "nginx"
        \/ step \in {"network", "history", "load", "store"} /\ s = "system"
        \/ step \in {"history", "load", "store"} /\ s = "network"}

StampInv ==
    /\ \A p \in Procs : \A s \in Done(pc[p]) \ missed : tables[s] = generation
    /\ \A p \in Procs : pc[p] = "unlock" =>
          \A s \in Sections \ missed : (tables[s] + 1) % GenSize = generation

Inv == TypeOK /\ PidInv /\ LockInv /\ NoLostGeneration /\ StampInv /\ SnapshotWhole

-----------------------------------------------------------------------------
(* The wrapping increment stays in the range of the counter.               *)
LEMMA IncrementRange ==
    ASSUME NEW g \in 0 .. GenSize - 1
    PROVE  (g + 1) % GenSize \in 0 .. GenSize - 1
BY CollectorAssumption

(* A slot index is a row of the table.                                     *)
LEMMA SlotRange == TypeOK => \A p \in Procs : Slot(p) \in Slots
BY CollectorAssumption DEF TypeOK, Slot, Slots

LEMMA InitTyped == Init => TypeOK
BY CollectorAssumption DEF Init, TypeOK

(* A store of one field of a row leaves a table of rows.                   *)
LEMMA RowTyped ==
    ASSUME TypeOK, NEW p \in Procs,
           SetActive(p) \/ \E n \in Pids \cup {0} : StorePid(p, n)
    PROVE  rows' \in [Slots -> [pid : Pids \cup {0}, active : BOOLEAN]]
<1>1. /\ rows \in [Slots -> [pid : Pids \cup {0}, active : BOOLEAN]]
      /\ Slot(p) \in Slots
      /\ rows[Slot(p)] \in [pid : Pids \cup {0}, active : BOOLEAN]
  BY SlotRange DEF TypeOK
<1>2. CASE SetActive(p)
  BY <1>1, <1>2 DEF SetActive
<1>3. CASE \E n \in Pids \cup {0} : StorePid(p, n)
  BY <1>1, <1>3 DEF StorePid
<1> QED BY <1>2, <1>3

(* exit_process keeps every type; its callers account for the signal.      *)
LEMMA ExitTyped ==
    ASSUME TypeOK, NEW p \in Procs, ExitProcess(p), stops' \in 0 .. MaxStops
    PROVE  TypeOK'
<1> USE DEF TypeOK, ExitProcess
<1>1. rows' \in [Slots -> [pid : Pids \cup {0}, active : BOOLEAN]]
  <2>1. rows[Slot(p)] \in [pid : Pids \cup {0}, active : BOOLEAN]
    BY SlotRange
  <2> QED BY <2>1
<1>2. /\ life' \in [Procs -> {"down", "up", "exiting"}]
      /\ pid' \in [Procs -> Pids \cup {0}]
      /\ collectorActive' \in [Procs -> BOOLEAN]
      /\ timer' \in [Procs -> BOOLEAN]
  OBVIOUS
<1> QED BY <1>1, <1>2

(* A group of collectors writes its section, or leaves it and is noted.    *)
LEMMA CollectTyped ==
    ASSUME TypeOK, NEW p \in Procs, NEW s \in Sections, NEW next \in Steps,
           Collect(p, s, next)
    PROVE  TypeOK'
<1> USE DEF TypeOK, Collect, Goto, budget
<1>1. tables' \in [Sections -> 0 .. GenSize - 1] /\ missed' \in SUBSET Sections
  <2>1. CASE tables' = [tables EXCEPT ![s] = generation] /\ UNCHANGED missed
    BY <2>1
  <2>2. CASE missed' = missed \cup {s} /\ UNCHANGED tables
    BY <2>2
  <2> QED BY <2>1, <2>2
<1>2. pc' \in [Procs -> Steps]
  OBVIOUS
<1> QED BY <1>1, <1>2

LEMMA StepTyped == TypeOK /\ [Next]_vars => TypeOK'
<1> SUFFICES ASSUME TypeOK, [Next]_vars PROVE TypeOK'
  OBVIOUS
<1> USE CollectorAssumption, SlotRange DEF TypeOK, shared, budget, procVars, Goto
<1>1. ASSUME NEW p \in Procs, InitProcess(p) PROVE TypeOK'
  <2>1. rows' \in [Slots -> [pid : Pids \cup {0}, active : BOOLEAN]]
    BY <1>1, RowTyped DEF InitProcess
  <2> QED BY <1>1, <2>1 DEF InitProcess
<1>18. ASSUME NEW p \in Procs, InitActive(p) PROVE TypeOK'
  <2>1. rows' \in [Slots -> [pid : Pids \cup {0}, active : BOOLEAN]]
    BY <1>18, RowTyped DEF InitActive
  <2> QED BY <1>18, <2>1 DEF InitActive
<1>2. ASSUME NEW p \in Procs, Fire(p) \/ StoreActive(p) \/ LogPhase(p) PROVE TypeOK'
  BY <1>2, RowTyped DEF Fire, StoreActive, LogPhase
<1>3. ASSUME NEW p \in Procs, Acquire(p) PROVE TypeOK'
  BY <1>3 DEF Acquire
<1>4. ASSUME NEW p \in Procs, LockBusy(p) PROVE TypeOK'
  BY <1>4 DEF LockBusy
<1>5. ASSUME NEW p \in Procs, CollectNginx(p) PROVE TypeOK'
  BY <1>5, CollectTyped DEF CollectNginx, Sections
<1>6. ASSUME NEW p \in Procs, CollectSystem(p) PROVE TypeOK'
  BY <1>6, CollectTyped DEF CollectSystem, Sections
<1>7. ASSUME NEW p \in Procs, CollectNetwork(p) PROVE TypeOK'
  BY <1>7, CollectTyped DEF CollectNetwork, Sections
<1>8. ASSUME NEW p \in Procs, CollectHistory(p) PROVE TypeOK'
  BY <1>8 DEF CollectHistory
<1>9. ASSUME NEW p \in Procs, LoadGeneration(p) PROVE TypeOK'
  BY <1>9 DEF LoadGeneration
<1>10. ASSUME NEW p \in Procs, StoreGeneration(p) PROVE TypeOK'
  <2>1. (genRead[p] + 1) % GenSize \in 0 .. GenSize - 1
    BY IncrementRange
  <2> QED BY <1>10, <2>1 DEF StoreGeneration
<1>11. ASSUME NEW p \in Procs, Unlock(p) PROVE TypeOK'
  BY <1>11 DEF Unlock
<1>12. ASSUME NEW p \in Procs, Rearm(p) PROVE TypeOK'
  BY <1>12 DEF Rearm
<1>13. ASSUME NEW p \in Procs, Quit(p) PROVE TypeOK'
  BY <1>13 DEF Quit
<1>14. ASSUME NEW p \in Procs, Terminate(p) PROVE TypeOK'
  BY <1>14, ExitTyped DEF Terminate
<1>15. ASSUME NEW p \in Procs, Drained(p) PROVE TypeOK'
  BY <1>15, ExitTyped DEF Drained
<1>16. ASSUME NEW p \in Procs, Crash(p) PROVE TypeOK'
  BY <1>16 DEF Crash
<1>17. CASE UNCHANGED vars
  BY <1>17 DEF vars
<1> QED
  BY <1>1, <1>2, <1>3, <1>4, <1>5, <1>6, <1>7, <1>8, <1>9, <1>10, <1>11, <1>12,
     <1>13, <1>14, <1>15, <1>16, <1>17, <1>18 DEF Next, Pass

(* Every variable keeps its type.                                          *)
THEOREM Typing == Spec => []TypeOK
<1>1. Init => TypeOK
  BY InitTyped
<1>2. TypeOK /\ [Next]_vars => TypeOK'
  BY StepTyped
<1> QED BY <1>1, <1>2, PTL DEF Spec

-----------------------------------------------------------------------------
LEMMA InitInv == Init => Inv
<1> SUFFICES ASSUME Init PROVE Inv
  OBVIOUS
<1>1. TypeOK
  BY InitTyped
<1>2. SnapshotWhole
  <2>1. (0 + 1) % GenSize = 1
    BY CollectorAssumption
  <2> QED BY <2>1, CollectorAssumption DEF Init, SnapshotWhole
<1>3. PidInv /\ LockInv /\ NoLostGeneration /\ StampInv
  BY DEF Init, PidInv, LockInv, NoLostGeneration, StampInv, Done
<1> QED BY <1>1, <1>2, <1>3 DEF Inv

(* Only forking and dying touch pids, and a fork takes a fresh one.        *)
LEMMA PidStep == Inv /\ [Next]_vars => PidInv'
<1> SUFFICES ASSUME Inv, [Next]_vars PROVE PidInv'
  OBVIOUS
<1> USE CollectorAssumption DEF Inv, TypeOK, PidInv, shared, budget, procVars, Goto
<1>1. ASSUME NEW p \in Procs, InitProcess(p) PROVE PidInv'
  BY <1>1 DEF InitProcess
<1>2. ASSUME NEW p \in Procs, InitActive(p) \/ Fire(p) \/ LogPhase(p) \/ Pass(p)
      PROVE PidInv'
  BY <1>2 DEF InitActive, Fire, LogPhase, StoreActive, Pass, Acquire, LockBusy, CollectNginx, CollectSystem,
     CollectNetwork, Collect, CollectHistory, LoadGeneration, StoreGeneration, Unlock, Rearm
<1>3. ASSUME NEW p \in Procs, Quit(p) PROVE PidInv'
  BY <1>3 DEF Quit
<1>4. ASSUME NEW p \in Procs, Terminate(p) \/ Drained(p) PROVE PidInv'
  BY <1>4 DEF Terminate, Drained, ExitProcess
<1>5. ASSUME NEW p \in Procs, Crash(p) PROVE PidInv'
  BY <1>5 DEF Crash
<1>6. CASE UNCHANGED vars
  BY <1>6 DEF vars
<1> QED BY <1>1, <1>2, <1>3, <1>4, <1>5, <1>6 DEF Next

(* The pid of an arrival differs from the holder's, a loser never enters,  *)
(* and the lock is cleared by its holder only.                             *)
LEMMA LockStep == Inv /\ [Next]_vars => LockInv'
<1> SUFFICES ASSUME Inv, [Next]_vars PROVE LockInv'
  OBVIOUS
<1> USE CollectorAssumption
    DEF Inv, TypeOK, PidInv, LockInv, shared, budget, procVars, Goto
<1>1. ASSUME NEW p \in Procs, InitProcess(p) PROVE LockInv'
  BY <1>1 DEF InitProcess
<1>2. ASSUME NEW p \in Procs,
             InitActive(p) \/ Fire(p) \/ StoreActive(p) \/ LogPhase(p)
      PROVE LockInv'
  BY <1>2 DEF InitActive, Fire, StoreActive, LogPhase
<1>3. ASSUME NEW p \in Procs, Acquire(p) PROVE LockInv'
  BY <1>3 DEF Acquire
<1>4. ASSUME NEW p \in Procs,
             \/ LockBusy(p) \/ CollectNginx(p) \/ CollectSystem(p)
             \/ CollectNetwork(p) \/ CollectHistory(p)
             \/ LoadGeneration(p) \/ StoreGeneration(p) \/ Rearm(p)
      PROVE LockInv'
  BY <1>4 DEF LockBusy, CollectNginx, CollectSystem, CollectNetwork, Collect,
     CollectHistory, LoadGeneration, StoreGeneration, Rearm
<1>5. ASSUME NEW p \in Procs, Unlock(p) PROVE LockInv'
  BY <1>5 DEF Unlock
<1>6. ASSUME NEW p \in Procs, Quit(p) PROVE LockInv'
  BY <1>6 DEF Quit
<1>7. ASSUME NEW p \in Procs, Terminate(p) \/ Drained(p) PROVE LockInv'
  BY <1>7 DEF Terminate, Drained, ExitProcess
<1>8. ASSUME NEW p \in Procs, Crash(p) PROVE LockInv'
  BY <1>8 DEF Crash
<1>9. CASE UNCHANGED vars
  BY <1>9 DEF vars
<1> QED BY <1>1, <1>2, <1>3, <1>4, <1>5, <1>6, <1>7, <1>8, <1>9 DEF Next, Pass

(* Two workers inside the pass would both have their pid in the lock.      *)
LEMMA Exclusive == Inv => MutualExclusion
BY DEF Inv, LockInv, PidInv, MutualExclusion
(* Who stands inside the pass is alone there and its lock is taken.        *)
LEMMA HolderAlone ==
    ASSUME Inv, NEW p \in Procs, InPass(p)
    PROVE  collectorLock # 0 /\ \A q \in Procs : InPass(q) => q = p
BY Exclusive DEF Inv, TypeOK, LockInv, PidInv, MutualExclusion

(* The steps that touch neither the stamps, the generation nor the         *)
(* position of a worker inside the pass.                                   *)
LEMMA OutsideStep ==
    ASSUME Inv, NEW p \in Procs,
           \/ InitProcess(p) \/ InitActive(p) \/ Fire(p) \/ StoreActive(p)
           \/ LogPhase(p) \/ LockBusy(p) \/ Rearm(p)
           \/ Quit(p) \/ Terminate(p) \/ Drained(p) \/ Crash(p)
    PROVE  NoLostGeneration' /\ StampInv' /\ SnapshotWhole'
<1> USE DEF Inv, TypeOK, shared, budget, procVars, Goto
<1>1. UNCHANGED <<collectorLock, generation, tables, missed>>
  BY DEF InitProcess, InitActive, Fire, StoreActive, LogPhase, LockBusy, Rearm, Quit,
     Terminate, Drained, ExitProcess, Crash
<1>2. \A q \in Procs :
         pc'[q] \in PassSteps => pc'[q] = pc[q] /\ genRead'[q] = genRead[q]
  BY DEF InitProcess, InitActive, Fire, StoreActive, LogPhase, LockBusy, Rearm, Quit,
     Terminate, Drained, ExitProcess, Crash
<1>3. NoLostGeneration'
  BY <1>1, <1>2 DEF NoLostGeneration
<1>4. StampInv'
  BY <1>1, <1>2 DEF StampInv, Done
<1>5. SnapshotWhole'
  BY <1>1 DEF SnapshotWhole
<1> QED BY <1>3, <1>4, <1>5

LEMMA StampStep == Inv /\ [Next]_vars => NoLostGeneration' /\ StampInv' /\ SnapshotWhole'
<1> DEFINE Goal == NoLostGeneration' /\ StampInv' /\ SnapshotWhole'
<1> SUFFICES ASSUME Inv, [Next]_vars PROVE Goal
  OBVIOUS
<1> USE DEF Inv, TypeOK, shared, budget, procVars, Goto
<1>1. ASSUME NEW p \in Procs, Acquire(p) PROVE Goal
  <2>1. collectorLock' # 0
    BY <1>1, CollectorAssumption DEF Acquire, PidInv
  <2>2. UNCHANGED <<generation, tables, genRead>> /\ pc' = [pc EXCEPT ![p] = "nginx"]
    BY <1>1 DEF Acquire
  <2>3. \A q \in Procs : ~InPass(q)
    BY <1>1 DEF Acquire, LockInv, PidInv
  <2>4. \A q \in Procs : Done(pc'[q]) = {} /\ pc'[q] \notin {"store", "unlock"}
    BY <2>2, <2>3 DEF Done
  <2> QED BY <2>1, <2>4 DEF NoLostGeneration, StampInv, SnapshotWhole
<1>2. ASSUME NEW p \in Procs, CollectNginx(p) \/ CollectSystem(p) \/ CollectNetwork(p)
      PROVE Goal
  <2>1. InPass(p)
    BY <1>2 DEF CollectNginx, CollectSystem, CollectNetwork, Collect
  <2>2. collectorLock # 0 /\ \A q \in Procs : InPass(q) => q = p
    BY <2>1, HolderAlone
  <2>3. UNCHANGED <<collectorLock, generation, genRead>>
    BY <1>2 DEF CollectNginx, CollectSystem, CollectNetwork, Collect
  <2>4. SnapshotWhole' /\ NoLostGeneration'
    BY <1>2, <2>2, <2>3 DEF SnapshotWhole, NoLostGeneration, CollectNginx, CollectSystem,
       CollectNetwork, Collect
  <2>5. \A q \in Procs : q # p => pc'[q] = pc[q] /\ ~InPass(q)
    BY <1>2, <2>2 DEF CollectNginx, CollectSystem, CollectNetwork, Collect
  <2>6. \A s \in Done(pc'[p]) \ missed' : tables'[s] = generation'
    BY <1>2, <2>3, CollectorAssumption DEF StampInv, Done, CollectNginx, CollectSystem,
       CollectNetwork, Collect
  <2>7. pc'[p] # "unlock"
    BY <1>2 DEF CollectNginx, CollectSystem, CollectNetwork, Collect
  <2> QED BY <2>4, <2>5, <2>6, <2>7 DEF StampInv, Done
<1>3. ASSUME NEW p \in Procs, CollectHistory(p) \/ LoadGeneration(p) PROVE Goal
  <2>1. UNCHANGED <<collectorLock, generation, tables, missed>>
    BY <1>3 DEF CollectHistory, LoadGeneration
  <2>2. NoLostGeneration'
    BY <1>3 DEF CollectHistory, LoadGeneration, NoLostGeneration
  <2>3. StampInv'
    BY <1>3, <2>1 DEF CollectHistory, LoadGeneration, StampInv, Done
  <2> QED BY <2>1, <2>2, <2>3 DEF SnapshotWhole
<1>4. ASSUME NEW p \in Procs, StoreGeneration(p) PROVE Goal
  <2>1. InPass(p)
    BY <1>4 DEF StoreGeneration
  <2>2. collectorLock # 0 /\ \A q \in Procs : InPass(q) => q = p
    BY <2>1, HolderAlone
  <2>3. genRead[p] = generation
    BY <1>4 DEF StoreGeneration, NoLostGeneration
  <2>4. \A s \in Sections \ missed : tables[s] = generation
    BY <1>4, CollectorAssumption DEF StoreGeneration, StampInv, Done, Sections
  <2>5. \A q \in Procs : q # p => pc'[q] = pc[q] /\ ~InPass(q)
    BY <1>4, <2>2 DEF StoreGeneration
  <2> QED BY <1>4, <2>2, <2>3, <2>4, <2>5
          DEF StoreGeneration, StampInv, NoLostGeneration, SnapshotWhole, Done
<1>5. ASSUME NEW p \in Procs, Unlock(p) PROVE Goal
  <2>1. \A q \in Procs : pc'[q] \in PassSteps => pc'[q] = pc[q]
    BY <1>5 DEF Unlock
  <2>2. \A s \in Sections \ missed : (tables[s] + 1) % GenSize = generation
    BY <1>5 DEF Unlock, StampInv
  <2> QED BY <1>5, <2>1, <2>2 DEF Unlock, StampInv, NoLostGeneration, SnapshotWhole, Done
<1>6. CASE UNCHANGED vars
  BY <1>6 DEF vars, NoLostGeneration, StampInv, SnapshotWhole
<1> QED BY <1>1, <1>2, <1>3, <1>4, <1>5, <1>6, OutsideStep DEF Next, Pass

LEMMA InvStep == Inv /\ [Next]_vars => Inv'
BY StepTyped, PidStep, LockStep, StampStep DEF Inv

LEMMA Invariance == Spec => []Inv
BY InitInv, InvStep, PTL DEF Spec

(* Only one worker performs a collection pass at a time.                   *)
THEOREM Exclusion == Spec => []MutualExclusion
BY Invariance, Exclusive, PTL

(* No increment of the generation is lost.                                 *)
THEOREM GenerationKept == Spec => []NoLostGeneration
<1>1. Inv => NoLostGeneration
  BY DEF Inv
<1> QED BY <1>1, Invariance, PTL

(* With the lock free, the sections the last pass did not leave alone are  *)
(* those of that pass: nothing in them is older and nothing is written     *)
(* after the lock was given up.                                            *)
THEOREM WholeSnapshot == Spec => []SnapshotWhole
<1>1. Inv => SnapshotWhole
  BY DEF Inv
<1> QED BY <1>1, Invariance, PTL

-----------------------------------------------------------------------------
(* A process slot is for the life of the process table.                    *)
LEMMA SlotsKept ==
    ASSUME [Next]_vars
    PROVE  processSlot' = processSlot
BY DEF Next, Pass, InitProcess, InitActive, Fire, StoreActive, LogPhase, Acquire, LockBusy,
   CollectNginx, CollectSystem, CollectNetwork, Collect, CollectHistory, LoadGeneration,
   StoreGeneration, Unlock, Rearm, Quit, Terminate, Drained, ExitProcess, Crash, vars, budget

(* What RowsTruthful says of the row of one process.                       *)
RowTrue(p) ==
    /\ Alive(p) /\ Sharers(p) = {p} =>
           /\ rows[Slot(p)].pid = pid[p]
           /\ pc[p] # "init" => rows[Slot(p)].active
    /\ rows[Slot(p)].active =>
           \E q \in Sharers(p) : Alive(q) \/ q \in crashed

LEMMA EveryRow == RowsTruthful <=> \A p \in Procs : RowTrue(p)
BY DEF RowsTruthful, RowTrue

(* A step of a worker that stays alive writes its pid or active to its own *)
(* row, or nothing: what makes any other row true is a worker of that row. *)
LEMMA OwnRow ==
    ASSUME Inv, RowsTruthful, NEW p \in Procs, Alive(p)',
           processSlot' = processSlot,
           \/ rows' = rows /\ pid' = pid /\ Alive(p) /\ (pc[p] = "init" <=> pc'[p] = "init")
           \/ StorePid(p, pid'[p]) /\ (pc'[p] = "init" \/ pc[p] # "init")
                 /\ (pc'[p] # "init" => Alive(p))
           \/ SetActive(p) /\ pid' = pid /\ Alive(p),
           \A q \in Procs : q # p =>
               /\ life'[q] = life[q] /\ pid'[q] = pid[q] /\ pc'[q] = pc[q]
               /\ q \in crashed => q \in crashed'
    PROVE  RowsTruthful'
<1> SUFFICES ASSUME NEW q \in Procs PROVE RowTrue(q)'
  BY EveryRow DEF RowsTruthful, RowTrue, Sharers, Slot
<1> USE DEF Inv
<1>1. Slot(p) \in Slots /\ Slot(q) \in Slots
  BY SlotRange
<1>2. rows \in [Slots -> [pid : Pids \cup {0}, active : BOOLEAN]]
  BY DEF TypeOK
<1>3. Slot(q)' = Slot(q) /\ Sharers(q)' = Sharers(q)
  BY DEF Slot, Sharers
<1>4. RowTrue(q)
  BY EveryRow
<1>5. CASE Slot(q) = Slot(p)
  <2>1. p \in Sharers(q) /\ (Sharers(q) = {q} => q = p)
    BY <1>5 DEF Sharers
  <2>2. Sharers(q) = {q} =>
            rows'[Slot(q)].pid = pid'[q] /\ (pc'[q] # "init" => rows'[Slot(q)].active)
    BY <1>1, <1>2, <1>4, <1>5, <2>1 DEF RowTrue, StorePid, SetActive
  <2> QED BY <1>3, <2>1, <2>2 DEF RowTrue
<1>6. CASE Slot(q) # Slot(p)
  <2>1. rows'[Slot(q)] = rows[Slot(q)] /\ q # p
    BY <1>1, <1>2, <1>6 DEF StorePid, SetActive
  <2>2. \A r \in Sharers(q) : r # p
    BY <1>6 DEF Sharers
  <2> QED BY <1>3, <1>4, <2>1, <2>2 DEF RowTrue, Sharers
<1> QED BY <1>5, <1>6

(* exit_process leaves no row that says active to the worker that ends.    *)
LEMMA ExitRow ==
    ASSUME Inv, RowsTruthful, NEW p \in Procs, ExitProcess(p)
    PROVE  RowsTruthful'
<1> SUFFICES ASSUME NEW q \in Procs PROVE RowTrue(q)'
  BY EveryRow DEF RowsTruthful, RowTrue, Sharers, Slot
<1> USE DEF Inv
<1>1. Slot(p) \in Slots /\ Slot(q) \in Slots
  BY SlotRange
<1>2. Slot(q)' = Slot(q) /\ Sharers(q)' = Sharers(q)
  BY DEF Slot, Sharers, ExitProcess
<1>3. RowTrue(q)
  BY EveryRow
<1>4. CASE Slot(q) = Slot(p)
  <2>1. ~rows'[Slot(q)].active /\ ~Alive(p)'
    BY <1>1, <1>4 DEF TypeOK, ExitProcess
  <2>2. Sharers(q) = {q} => q = p
    BY <1>4 DEF Sharers
  <2> QED BY <1>2, <2>1, <2>2 DEF RowTrue
<1>5. CASE Slot(q) # Slot(p)
  <2>1. rows'[Slot(q)] = rows[Slot(q)] /\ q # p
    BY <1>1, <1>5 DEF TypeOK, ExitProcess
  <2>2. \A r \in Sharers(q) : r # p
    BY <1>5 DEF Sharers
  <2>3. \A r \in Procs : r # p => life'[r] = life[r] /\ pid'[r] = pid[r]
    BY DEF TypeOK, ExitProcess
  <2> QED BY <1>2, <1>3, <2>1, <2>2, <2>3 DEF RowTrue, Sharers, ExitProcess
<1> QED BY <1>4, <1>5

LEMMA RowsStep == Inv /\ RowsTruthful /\ [Next]_vars => RowsTruthful'
<1> SUFFICES ASSUME Inv, RowsTruthful, [Next]_vars PROVE RowsTruthful'
  OBVIOUS
<1>a. processSlot' = processSlot
  BY SlotsKept
<1> USE DEF Inv, TypeOK, PidInv, shared, budget, procVars, Goto
<1>1. ASSUME NEW p \in Procs, InitProcess(p) PROVE RowsTruthful'
  <2>1. StorePid(p, pid'[p]) /\ pc'[p] = "init" /\ Alive(p)'
    BY <1>1 DEF InitProcess
  <2>2. \A q \in Procs : q # p =>
            /\ life'[q] = life[q] /\ pid'[q] = pid[q] /\ pc'[q] = pc[q]
            /\ q \in crashed => q \in crashed'
    BY <1>1 DEF InitProcess
  <2> QED BY <1>a, <2>1, <2>2, OwnRow
<1>2. ASSUME NEW p \in Procs, InitActive(p) \/ StoreActive(p) PROVE RowsTruthful'
  <2>1. SetActive(p) /\ Alive(p) /\ UNCHANGED <<life, pid, crashed>>
    BY <1>2 DEF InitActive, StoreActive
  <2>2. \A q \in Procs : q # p => pc'[q] = pc[q]
    BY <1>2 DEF InitActive, StoreActive
  <2> QED BY <1>a, <2>1, <2>2, OwnRow
<1>3. ASSUME NEW p \in Procs, Fire(p) \/ LogPhase(p) PROVE RowsTruthful'
  <2>1. StorePid(p, pid'[p]) /\ Alive(p) /\ pc[p] # "init" /\ UNCHANGED <<life, pid, crashed>>
    BY <1>3 DEF Fire, LogPhase
  <2>2. \A q \in Procs : q # p => pc'[q] = pc[q]
    BY <1>3 DEF Fire, LogPhase
  <2> QED BY <1>a, <2>1, <2>2, OwnRow
<1>4. ASSUME NEW p \in Procs,
             \/ Acquire(p) \/ LockBusy(p) \/ CollectNginx(p) \/ CollectSystem(p)
             \/ CollectNetwork(p) \/ CollectHistory(p)
             \/ LoadGeneration(p) \/ StoreGeneration(p) \/ Unlock(p) \/ Rearm(p)
             \/ Quit(p)
      PROVE RowsTruthful'
  <2> USE <1>4 DEF Acquire, LockBusy, CollectNginx, CollectSystem, CollectNetwork, Collect,
          CollectHistory, LoadGeneration, StoreGeneration, Unlock, Rearm, Quit
  <2>1. UNCHANGED <<pid, rows, crashed>> /\ Alive(p)'
    OBVIOUS
  <2>2. \A q \in Procs : q # p => pc'[q] = pc[q] /\ life'[q] = life[q]
    OBVIOUS
  <2>3. pc[p] # "init" /\ pc'[p] # "init"
    OBVIOUS
  <2> QED BY <1>a, <2>1, <2>2, <2>3, OwnRow
<1>5. ASSUME NEW p \in Procs, Terminate(p) \/ Drained(p) PROVE RowsTruthful'
  BY <1>5, ExitRow DEF Terminate, Drained
<1>6. ASSUME NEW p \in Procs, Crash(p) PROVE RowsTruthful'
  <2>1. /\ rows' = rows /\ crashed' = crashed \cup {p}
        /\ ~Alive(p)'
        /\ \A q \in Procs : q # p => life'[q] = life[q] /\ pid'[q] = pid[q] /\ pc'[q] = pc[q]
    BY <1>6 DEF Crash
  <2> QED BY <1>a, <2>1 DEF RowsTruthful, Sharers, Slot
<1>7. CASE UNCHANGED vars
  BY <1>7 DEF vars, RowsTruthful, Sharers, Slot
<1> QED BY <1>1, <1>2, <1>3, <1>4, <1>5, <1>6, <1>7 DEF Next, Pass

(* A worker with a row of its own is there under its pid and active, and   *)
(* no row, shared or not, says active with all its workers gone properly:  *)
(* whatever requests, starts, exits and crashes come between two stores.   *)
THEOREM TruthfulRows == Spec => []RowsTruthful
<1>1. Init => RowsTruthful
  BY InitTyped, SlotRange DEF Init, RowsTruthful
<1> QED BY <1>1, Invariance, RowsStep, PTL DEF Spec

-----------------------------------------------------------------------------
(* collector_active is only cleared on the way out.                        *)
ActiveInv == \A p \in Procs : Alive(p) /\ pc[p] # "init" => collectorActive[p]

LEMMA TimerStep == Inv /\ ActiveInv /\ TimerKept /\ [Next]_vars => ActiveInv' /\ TimerKept'
<1> DEFINE Goal == ActiveInv' /\ TimerKept'
<1> SUFFICES ASSUME Inv, ActiveInv, TimerKept, [Next]_vars PROVE Goal
  OBVIOUS
<1> USE DEF Inv, TypeOK, ActiveInv, TimerKept, shared, budget, procVars, Goto
<1>1. ASSUME NEW p \in Procs, InitProcess(p) \/ InitActive(p) PROVE Goal
  BY <1>1 DEF InitProcess, InitActive
<1>2. ASSUME NEW p \in Procs, Fire(p) \/ StoreActive(p) \/ LogPhase(p) PROVE Goal
  BY <1>2 DEF Fire, StoreActive, LogPhase
<1>3. ASSUME NEW p \in Procs,
             \/ Acquire(p) \/ LockBusy(p) \/ CollectNginx(p) \/ CollectSystem(p)
             \/ CollectNetwork(p) \/ CollectHistory(p)
             \/ LoadGeneration(p) \/ StoreGeneration(p) \/ Unlock(p)
      PROVE Goal
  <2>1. UNCHANGED <<life, timer, collectorActive>>
    BY <1>3 DEF Acquire, LockBusy, CollectNginx, CollectSystem, CollectNetwork,
       Collect, CollectHistory, LoadGeneration, StoreGeneration, Unlock
  <2>2. \A q \in Procs : pc'[q] \in {"idle", "init"} => pc'[q] = pc[q]
    BY <1>3 DEF Acquire, LockBusy, CollectNginx, CollectSystem, CollectNetwork,
       Collect, CollectHistory, LoadGeneration, StoreGeneration, Unlock
  <2>3. \A q \in Procs : pc'[q] # "init" => pc[q] # "init"
    BY <1>3 DEF Acquire, LockBusy, CollectNginx, CollectSystem, CollectNetwork,
       Collect, CollectHistory, LoadGeneration, StoreGeneration, Unlock
  <2> QED BY <2>1, <2>2, <2>3
<1>4. ASSUME NEW p \in Procs, Rearm(p) PROVE Goal
  BY <1>4 DEF Rearm
<1>5. ASSUME NEW p \in Procs, Quit(p) PROVE Goal
  BY <1>5 DEF Quit
<1>6. ASSUME NEW p \in Procs, Terminate(p) \/ Drained(p) \/ Crash(p) PROVE Goal
  BY <1>6 DEF Terminate, Drained, ExitProcess, Crash
<1>7. CASE UNCHANGED vars
  BY <1>7 DEF vars
<1> QED BY <1>1, <1>2, <1>3, <1>4, <1>5, <1>6, <1>7 DEF Next, Pass

(* No path through the handler loses the timer of a worker that stays.     *)
THEOREM KeptTimer == Spec => []TimerKept
<1>1. Init => ActiveInv /\ TimerKept
  BY DEF Init, ActiveInv, TimerKept
<1> QED BY <1>1, Invariance, TimerStep, PTL DEF Spec
=============================================================================

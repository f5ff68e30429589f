------------------------------ MODULE Collector ------------------------------
(***************************************************************************)
(* The collection pass of ngx_http_monitoring_module: every worker process *)
(* owns a timer; a timer that fires refreshes the worker's slot row, tries *)
(* the shared collector_lock with a compare-and-set and, if it gets it,    *)
(* rewrites the shared tables section by section, increments generation    *)
(* and clears the lock.  A worker is single-threaded, so its steps are     *)
(* sequential; the steps of different workers interleave at every access   *)
(* to shared memory.                                                       *)
(*                                                                         *)
(* The contents of a section are abstracted to the generation during which *)
(* it was last collected in full: one stamp per section.  missed is no     *)
(* variable of the program: it records what the last pass left alone.      *)
(***************************************************************************)
EXTENDS Integers, FiniteSets

CONSTANTS
    Procs,        \* the worker processes the master keeps running
    Layouts,      \* the slots of nginx's process table they may have been given
    Pids,         \* process identifiers the system hands out and recycles
    WorkersMax,   \* NGX_HTTP_MONITORING_WORKERS_MAX
    GenSize,      \* the generation counter counts modulo 2^64
    MaxMissed,    \* bound on the sections one pass leaves alone
    MaxStops,     \* bound on the QUIT and TERM signals sent to workers
    MaxCrashes    \* bound on the workers that die without exit_process

Sections == {"nginx", "system", "network"}

ASSUME CollectorAssumption ==
    /\ Layouts \subseteq [Procs -> Nat]
    /\ Pids \subseteq Nat \ {0}
    /\ WorkersMax \in Nat \ {0}
    /\ GenSize \in Nat \ {0, 1}
    /\ MaxMissed \in Nat
    /\ MaxStops \in Nat
    /\ MaxCrashes \in Nat

VARIABLES
    processSlot,      \* ngx_process_slot of each process
    life,             \* "down", "up" or "exiting" (ngx_exiting is set)
    pid,              \* ngx_pid of each process; 0 when it is down
    pc,               \* where the process stands inside its timer handler
    timer,            \* collector_event.timer_set
    collectorActive,  \* mmcf->collector_active, in the process's own memory
    genRead,          \* the value loaded by sh->generation++; 0 when dead
    collectorLock,    \* sh->collector_lock
    generation,       \* sh->generation
    tables,           \* generation at which each section was last collected
    missed,           \* the sections the last pass left alone
    rows,             \* sh->workers[]: pid and active
    crashed,          \* processes that died and have not been respawned
    stops, crashes

procVars == <<life, pid, pc, timer, collectorActive, genRead>>
shared   == <<collectorLock, generation, tables, missed, rows>>
budget   == <<processSlot, crashed, stops, crashes>>
vars     == <<procVars, shared, budget>>

Steps     == {"init", "idle", "row", "try", "nginx", "system", "network",
              "history", "load", "store", "unlock", "rearm"}
PassSteps == {"nginx", "system", "network", "history", "load", "store", "unlock"}

Alive(p)  == life[p] # "down"
InPass(p) == pc[p] \in PassSteps
Slot(p)   == processSlot[p] % WorkersMax
Slots     == 0 .. WorkersMax - 1

-----------------------------------------------------------------------------
(* The zone is fresh: zeroed, then initialized = 1 and generation = 1.     *)
Init ==
    /\ processSlot \in Layouts
    /\ life = [p \in Procs |-> "down"]
    /\ pid = [p \in Procs |-> 0]
    /\ pc = [p \in Procs |-> "idle"]
    /\ timer = [p \in Procs |-> FALSE]
    /\ collectorActive = [p \in Procs |-> FALSE]
    /\ genRead = [p \in Procs |-> 0]
    /\ collectorLock = 0
    /\ generation = 1
    /\ tables = [s \in Sections |-> 0]
    /\ missed = {}
    /\ rows = [s \in Slots |-> [pid |-> 0, active |-> FALSE]]
    /\ crashed = {}
    /\ stops = 0
    /\ crashes = 0

Goto(p, from, to) == pc[p] = from /\ pc' = [pc EXCEPT ![p] = to]

StorePid(p, n) == rows' = [rows EXCEPT ![Slot(p)].pid = n]
SetActive(p)   == rows' = [rows EXCEPT ![Slot(p)].active = TRUE]

(* init_process: the master forks a worker into a free process slot; the   *)
(* system gives it a pid no live process has, which goes to its row.       *)
InitProcess(p) ==
    /\ ~Alive(p)
    /\ Goto(p, "idle", "init")
    /\ \E n \in Pids :
          /\ \A q \in Procs : pid[q] # n
          /\ pid' = [pid EXCEPT ![p] = n]
          /\ StorePid(p, n)
    /\ life' = [life EXCEPT ![p] = "up"]
    /\ crashed' = crashed \ {p}
    /\ UNCHANGED <<timer, collectorActive, genRead, collectorLock, generation,
                   tables, missed, processSlot, stops, crashes>>

(* The row says active, and the timer of the worker is armed.              *)
InitActive(p) ==
    /\ Goto(p, "init", "idle")
    /\ SetActive(p)
    /\ timer' = [timer EXCEPT ![p] = TRUE]
    /\ collectorActive' = [collectorActive EXCEPT ![p] = TRUE]
    /\ UNCHANGED <<life, pid, genRead, collectorLock, generation, tables, missed,
                   budget>>

(* Mutation: the row is written only when the worker starts.               *)
Fire_NoRow(p) ==
    /\ Alive(p) /\ timer[p]
    /\ Goto(p, "idle", "try")
    /\ timer' = [timer EXCEPT ![p] = FALSE]
    /\ UNCHANGED <<life, pid, collectorActive, genRead, shared, budget>>

(* The timer fires: the handler first stores the worker's pid in its row,  *)
(* and then says that the row is active.                                   *)
Fire(p) ==
    /\ Alive(p) /\ timer[p]
    /\ Goto(p, "idle", "row")
    /\ timer' = [timer EXCEPT ![p] = FALSE]
    /\ StorePid(p, pid[p])
    /\ UNCHANGED <<life, pid, collectorActive, genRead, collectorLock, generation,
                   tables, missed, budget>>

StoreActive(p) ==
    /\ Goto(p, "row", "try")
    /\ SetActive(p)
    /\ UNCHANGED <<life, pid, timer, collectorActive, genRead, collectorLock,
                   generation, tables, missed, budget>>

(* A request ends in the worker: its log phase stores the pid in the row.  *)
LogPhase(p) ==
    /\ Alive(p) /\ pc[p] = "idle"
    /\ StorePid(p, pid[p])
    /\ UNCHANGED <<procVars, collectorLock, generation, tables, missed, budget>>

(* Mutation: the lock holds the process slot, and slot 0 leaves it free.   *)
Acquire_Slot(p) ==
    /\ collectorLock = 0
    /\ Goto(p, "try", "nginx")
    /\ collectorLock' = processSlot[p]
    /\ missed' = {}
    /\ UNCHANGED <<life, pid, timer, collectorActive, genRead, generation, tables,
                   rows, budget>>

Acquire(p) ==
    /\ collectorLock = 0
    /\ Goto(p, "try", "nginx")
    /\ collectorLock' = pid[p]
    /\ missed' = {}
    /\ UNCHANGED <<life, pid, timer, collectorActive, genRead, generation, tables,
                   rows, budget>>

(* Mutation: the losers of the lock return without arming the timer.       *)
LockBusy_Return(p) ==
    /\ collectorLock # 0
    /\ Goto(p, "try", "idle")
    /\ UNCHANGED <<life, pid, timer, collectorActive, genRead, shared, budget>>

LockBusy(p) ==
    /\ collectorLock # 0
    /\ Goto(p, "try", "rearm")
    /\ UNCHANGED <<life, pid, timer, collectorActive, genRead, shared, budget>>

(* One group of collectors.  It is skipped where the configuration of this *)
(* worker's cycle turns it off, and a collector whose file cannot be read  *)
(* or parsed returns early: all or part of the section is left alone, with *)
(* what an earlier pass wrote.                                             *)
Collect(p, s, next) ==
    /\ Goto(p, s, next)
    /\ \/ tables' = [tables EXCEPT ![s] = generation] /\ UNCHANGED missed
       \/ /\ Cardinality(missed) < MaxMissed
          /\ missed' = missed \cup {s}
          /\ UNCHANGED tables
    /\ UNCHANGED <<life, pid, timer, collectorActive, genRead, collectorLock,
                   generation, rows, budget>>

CollectNginx(p)   == Collect(p, "nginx", "system")
CollectSystem(p)  == Collect(p, "system", "network")
CollectNetwork(p) == Collect(p, "network", "history")

(* Mutation: the lock is cleared before the generation is incremented.     *)
CollectHistory_Unlock(p) ==
    /\ Goto(p, "history", "load")
    /\ collectorLock' = 0
    /\ UNCHANGED <<life, pid, timer, collectorActive, genRead, generation, tables,
                   missed, rows, budget>>

(* collect_history works on the ring, the subject of module HistoryRing.   *)
CollectHistory(p) ==
    /\ Goto(p, "history", "load")
    /\ UNCHANGED <<life, pid, timer, collectorActive, genRead, shared, budget>>

(* sh->generation++ is a plain load and a plain store.                     *)
LoadGeneration(p) ==
    /\ Goto(p, "load", "store")
    /\ genRead' = [genRead EXCEPT ![p] = generation]
    /\ UNCHANGED <<life, pid, timer, collectorActive, shared, budget>>

StoreGeneration(p) ==
    /\ Goto(p, "store", "unlock")
    /\ generation' = (genRead[p] + 1) % GenSize
    /\ genRead' = [genRead EXCEPT ![p] = 0]
    /\ UNCHANGED <<life, pid, timer, collectorActive, collectorLock, tables, missed,
                   rows, budget>>

(* Mutation: the lock is never cleared.                                    *)
Unlock_Kept(p) ==
    /\ Goto(p, "unlock", "rearm")
    /\ UNCHANGED <<life, pid, timer, collectorActive, genRead, shared, budget>>

Unlock(p) ==
    /\ Goto(p, "unlock", "rearm")
    /\ collectorLock' = 0
    /\ UNCHANGED <<life, pid, timer, collectorActive, genRead, generation, tables,
                   missed, rows, budget>>

(* Mutation: the timer is armed again in a worker that is exiting.         *)
Rearm_Exiting(p) ==
    /\ Goto(p, "rearm", "idle")
    /\ timer' = IF collectorActive[p] THEN [timer EXCEPT ![p] = TRUE] ELSE timer
    /\ UNCHANGED <<life, pid, collectorActive, genRead, shared, budget>>

Rearm(p) ==
    /\ Goto(p, "rearm", "idle")
    /\ timer' = IF life[p] # "exiting" /\ collectorActive[p]
                  THEN [timer EXCEPT ![p] = TRUE] ELSE timer
    /\ UNCHANGED <<life, pid, collectorActive, genRead, shared, budget>>

(* The event loop, between two events, sees a QUIT signal.                 *)
Quit(p) ==
    /\ life[p] = "up" /\ pc[p] = "idle" /\ stops < MaxStops
    /\ life' = [life EXCEPT ![p] = "exiting"]
    /\ stops' = stops + 1
    /\ UNCHANGED <<pid, pc, timer, collectorActive, genRead, shared, processSlot,
                   crashed, crashes>>

(* Mutation: exit_process leaves the row active.                           *)
ExitProcess_Row(p) ==
    /\ pc[p] = "idle"
    /\ life' = [life EXCEPT ![p] = "down"]
    /\ pid' = [pid EXCEPT ![p] = 0]
    /\ collectorActive' = [collectorActive EXCEPT ![p] = FALSE]
    /\ timer' = [timer EXCEPT ![p] = FALSE]
    /\ UNCHANGED <<pc, genRead, shared, processSlot,
                   crashed, crashes>>

ExitProcess(p) ==
    /\ pc[p] = "idle"
    /\ life' = [life EXCEPT ![p] = "down"]
    /\ pid' = [pid EXCEPT ![p] = 0]
    /\ collectorActive' = [collectorActive EXCEPT ![p] = FALSE]
    /\ timer' = [timer EXCEPT ![p] = FALSE]
    /\ rows' = [rows EXCEPT ![Slot(p)].active = FALSE]
    /\ UNCHANGED <<pc, genRead, collectorLock, generation, tables, missed,
                   processSlot, crashed, crashes>>

(* TERM ends the event loop at once; QUIT once no timer is left.           *)
Terminate(p) ==
    /\ Alive(p) /\ stops < MaxStops
    /\ stops' = stops + 1
    /\ ExitProcess(p)

Drained(p) ==
    /\ life[p] = "exiting" /\ ~timer[p]
    /\ ExitProcess(p)
    /\ UNCHANGED stops

(* A worker that is killed or faults runs no exit_process.                 *)
Crash(p) ==
    /\ Alive(p) /\ crashes < MaxCrashes
    /\ crashes' = crashes + 1
    /\ crashed' = crashed \cup {p}
    /\ life' = [life EXCEPT ![p] = "down"]
    /\ pid' = [pid EXCEPT ![p] = 0]
    /\ pc' = [pc EXCEPT ![p] = "idle"]
    /\ timer' = [timer EXCEPT ![p] = FALSE]
    /\ collectorActive' = [collectorActive EXCEPT ![p] = FALSE]
    /\ genRead' = [genRead EXCEPT ![p] = 0]
    /\ UNCHANGED <<shared, processSlot, stops>>

Pass(p) ==
    \/ StoreActive(p) \/ Acquire(p) \/ LockBusy(p)
    \/ CollectNginx(p) \/ CollectSystem(p) \/ CollectNetwork(p) \/ CollectHistory(p)
    \/ LoadGeneration(p) \/ StoreGeneration(p) \/ Unlock(p)
    \/ Rearm(p)

Next == \E p \in Procs :
    \/ InitProcess(p) \/ InitActive(p) \/ Fire(p) \/ Pass(p) \/ LogPhase(p)
    \/ Quit(p) \/ Terminate(p) \/ Drained(p) \/ Crash(p)

(* A running process goes on, an expired timer is served, the master       *)
(* respawns, and a worker with nothing left to wait for exits.  Nothing    *)
(* obliges anyone to stop or to crash, and no request need ever come.      *)
Fairness == \A p \in Procs :
    /\ WF_vars(InitProcess(p)) /\ WF_vars(InitActive(p)) /\ WF_vars(Drained(p))
    /\ WF_vars(Fire(p)) /\ WF_vars(Pass(p))

Spec == Init /\ [][Next]_vars /\ Fairness

-----------------------------------------------------------------------------
TypeOK ==
    /\ processSlot \in Layouts
    /\ life \in [Procs -> {"down", "up", "exiting"}]
    /\ pid \in [Procs -> Pids \cup {0}]
    /\ pc \in [Procs -> Steps]
    /\ timer \in [Procs -> BOOLEAN]
    /\ collectorActive \in [Procs -> BOOLEAN]
    /\ genRead \in [Procs -> 0 .. GenSize - 1]
    /\ collectorLock \in Pids \cup {0}
    /\ generation \in 0 .. GenSize - 1
    /\ tables \in [Sections -> 0 .. GenSize - 1]
    /\ missed \in SUBSET Sections
    /\ rows \in [Slots -> [pid : Pids \cup {0}, active : BOOLEAN]]
    /\ crashed \in SUBSET Procs
    /\ stops \in 0 .. MaxStops
    /\ crashes \in 0 .. MaxCrashes

(* "Only one worker performs a collection pass at a time": no two workers  *)
(* are between the compare-and-set and the store that clears the lock,     *)
(* whatever crashes, respawns and recycled pids there have been.           *)
MutualExclusion == \A p, q \in Procs : InPass(p) /\ InPass(q) => p = q

(* The non-atomic generation++ never writes back a stale value: what the   *)
(* holder loaded is still the generation when it stores.                   *)
NoLostGeneration == \A p \in Procs : pc[p] = "store" => genRead[p] = generation

(* A reader that finds the lock free finds, in every section but those the *)
(* last pass left alone, what that one pass collected, the pass generation *)
(* counts: whoever wrote before, nothing of it is of an earlier pass, and  *)
(* nothing is written after the lock is given up.  A section left alone is *)
(* older, though generation went on.                                       *)
SnapshotWhole ==
    collectorLock = 0 =>
        \A s \in Sections \ missed : (tables[s] + 1) % GenSize = generation

Sharers(p) == {q \in Procs : Slot(q) = Slot(p)}

(* While a live worker shares its row with no other slot, the row has its  *)
(* pid and, once it has started, says active; and a row says active only   *)
(* while a worker of that row lives, or has crashed and was not respawned  *)
(* yet.  The pid of a shared row may be that of a worker that has exited:  *)
(* one worker's pid can come between the two stores of another.            *)
RowsTruthful == \A p \in Procs :
    /\ Alive(p) /\ Sharers(p) = {p} =>
           /\ rows[Slot(p)].pid = pid[p]
           /\ pc[p] # "init" => rows[Slot(p)].active
    /\ rows[Slot(p)].active =>
           \E q \in Sharers(p) : Alive(q) \/ q \in crashed

(* Slots above the table share its rows, and a worker that exits, starts   *)
(* or serves a request hides one that lives.  This does not last: a worker *)
(* that goes on comes back to its row, under its pid and active, however   *)
(* many share it, unless others go on exiting between its two stores.      *)
RowsHeal == \A p \in Procs :
    life[p] = "up" ~>
        life[p] # "up" \/ rows[Slot(p)] = [pid |-> pid[p], active |-> TRUE]

(* A worker that waits in its event loop and is not exiting has its timer  *)
(* armed: no path through the handler loses the timer.                     *)
TimerKept == \A p \in Procs :
    life[p] = "up" /\ pc[p] = "idle" => timer[p]

(* A worker died, and the lock is taken with nobody inside the pass.       *)
Orphaned == crashes > 0 /\ collectorLock # 0 /\ \A p \in Procs : ~InPass(p)

(* Short of a death inside the pass, collection goes on: generation keeps  *)
(* changing, through stops, respawns and deaths outside the pass.          *)
CollectsOrOrphaned ==
    \A g \in 0 .. GenSize - 1 : generation = g ~> generation # g \/ Orphaned

(* Collection goes on, whatever happens to a single worker.                *)
CollectionGoesOn == \A g \in 0 .. GenSize - 1 : generation = g ~> generation # g

(* A worker that is told to quit leaves: its collector timer does not keep *)
(* it alive for ever.                                                      *)
QuitCompletes == \A p \in Procs : life[p] = "exiting" ~> life[p] # "exiting"
=============================================================================

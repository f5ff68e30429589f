---------------------------- MODULE SystemGauges -----------------------------
(***************************************************************************)
(* The gauges of sh->system that are computed from two numbers: the usage  *)
(* of the CPUs, a quotient of two deltas of /proc/stat, and the used share *)
(* of memory and swap, a quotient of two words that a pass stores one      *)
(* after the other.  The pass samples them for the history; a worker that  *)
(* answers /monitor/api/system or /monitor/metrics computes them from the  *)
(* words it loads, one by one and without a lock.  Everything is unsigned  *)
(* and wraps at Word, 2^64 in the code.                                    *)
(***************************************************************************)
EXTENDS Integers

CONSTANTS
    Word,         \* arithmetic is modulo this, not zero
    Full,         \* 100 percent; usage_milli has 100000
    MaxSize,      \* of memory and of swap
    MaxChanges,   \* bound on the changes in the kernel
    MaxPasses, MaxReads

Gauges == {"mem", "swap"}

VARIABLES
    moves,          \* which of the two moves: they share no word
    cpu, size, rest, changes,      \* the kernel: jiffies, sizes, what is left of them
    usage, prev, total, left,      \* shared memory: sh->system and prev_cpu_*
    cpc, file, passes,
    sample,         \* the last row of the history; was: the shares in the file
    rpc, gauge, loaded, shown, reads,   \* a response
    last, span,     \* the jiffies last read, and what they grew by when they did
    truth, source,  \* share and size in the file that left[g] is from
    fresh, resized  \* shares in the table during a response; sizes that changed

kernel    == <<moves, cpu, size, rest, changes>>
shared    == <<usage, prev, total, left>>
collector == <<cpc, file, passes, sample>>
response  == <<rpc, gauge, loaded, shown, reads>>
cpuGhosts == <<last, span>>
memGhosts == <<truth, source, fresh, resized>>
vars      == <<kernel, shared, collector, response, cpuGhosts, memGhosts>>

Diff(a, b) == (a - b) % Word

(* The used share in percent.  No size is no share; a divisor that became  *)
(* zero after the test makes an infinite one, here the value Word.         *)
Share(of, free, by) == IF by = 0 THEN Word ELSE (Diff(of, free) * Full) \div by

ShareOf(of, free) == IF of = 0 THEN 0 ELSE Share(of, free, of)

Nothing == [g \in Gauges |-> 0]

With(f, x, y) == [z \in DOMAIN f \cup {x} |-> IF z = x THEN y ELSE f[z]]

Init ==
    /\ cpu = [busy |-> 1, idle |-> 1]
    /\ moves \in {"cpu", "memory"}
    /\ \E swap \in 0 .. MaxSize :
          /\ moves = "cpu" => swap = 0
          /\ size = [mem |-> MaxSize, swap |-> swap]
    /\ rest = size
    /\ changes = 0
    /\ usage = 0 /\ prev = [total |-> 0, idle |-> 0]
    /\ total = Nothing /\ left = Nothing
    /\ cpc = "idle" /\ file = [size |-> Nothing, rest |-> Nothing] /\ passes = 0
    /\ sample = [usage |-> 0, share |-> Nothing, was |-> Nothing]
    /\ rpc = "idle" /\ gauge = "mem" /\ loaded = <<>> /\ shown = <<>> /\ reads = 0
    /\ last = [busy |-> 0, idle |-> 0] /\ span = [busy |-> 0, idle |-> 0]
    /\ truth = Nothing /\ source = Nothing
    /\ fresh = [g \in Gauges |-> {}] /\ resized = {}

-----------------------------------------------------------------------------
(* The kernel.  Jiffies are counted; those of iowait may be taken back,    *)
(* and those of a CPU that goes offline disappear.                         *)
Change(what) ==
    /\ moves = what /\ UNCHANGED moves
    /\ changes < MaxChanges /\ changes' = changes + 1

Jiffies ==
    /\ Change("cpu")
    /\ \E busy, idle \in -1 .. 1 :
          /\ cpu.busy + busy >= 0 /\ cpu.idle + idle >= 0
          /\ cpu' = [busy |-> cpu.busy + busy, idle |-> cpu.idle + idle]
    /\ UNCHANGED <<size, rest, shared, collector, response, cpuGhosts, memGhosts>>

Use ==
    /\ Change("memory")
    /\ \E g \in Gauges, n \in 0 .. MaxSize :
          n <= size[g] /\ rest' = [rest EXCEPT ![g] = n]
    /\ UNCHANGED <<cpu, size, shared, collector, response, cpuGhosts, memGhosts>>

(* swapon and swapoff.                                                     *)
Resize ==
    /\ Change("memory")
    /\ \E n, free \in 0 .. MaxSize :
          /\ free <= n
          /\ size' = [size EXCEPT !["swap"] = n]
          /\ rest' = [rest EXCEPT !["swap"] = free]
    /\ UNCHANGED <<cpu, shared, collector, response, cpuGhosts, memGhosts>>

-----------------------------------------------------------------------------
(* The pass, which is alone in writing.                                    *)
Goto(from, to) == cpc = from /\ cpc' = to

Begin ==
    /\ passes < MaxPasses /\ passes' = passes + 1
    /\ Goto("idle", "cpu")
    /\ UNCHANGED <<kernel, shared, file, sample, response, cpuGhosts, memGhosts>>

(* collect_cpu: the first time there is no delta, and none if the total    *)
(* did not grow; usage_milli is then left as it was.                       *)
Total == cpu.busy + cpu.idle
Grew  == prev.total > 0 /\ Total > prev.total

Usage ==
    LET all == Diff(Total, prev.total)
    IN  ((Diff(all, Diff(cpu.idle, prev.idle)) * Full) % Word) \div all

(* Mutation: the idle time of the last pass is not remembered.             *)
StorePrev_Idle == prev' = [total |-> Total, idle |-> IF prev.total = 0 THEN cpu.idle ELSE prev.idle]

StorePrev == prev' = [total |-> Total, idle |-> cpu.idle]

CollectCpu ==
    /\ Goto("cpu", "meminfo")
    /\ usage' = IF Grew THEN Usage ELSE usage
    /\ StorePrev
    /\ last' = cpu
    /\ span' = IF last.busy + last.idle > 0 /\ Total > last.busy + last.idle
                 THEN [busy |-> cpu.busy - last.busy, idle |-> cpu.idle - last.idle]
                 ELSE span
    /\ UNCHANGED <<kernel, total, left, file, passes, sample, response, memGhosts>>

(* What cannot be read is left as it was.                                  *)
CpuFails ==
    /\ Goto("cpu", "meminfo")
    /\ UNCHANGED <<kernel, shared, file, passes, sample, response, cpuGhosts, memGhosts>>

(* collect_meminfo reads the file at once and stores it line by line.      *)
ReadMeminfo ==
    /\ Goto("meminfo", "mem total")
    /\ file' = [size |-> size, rest |-> rest]
    /\ UNCHANGED <<kernel, shared, passes, sample, response, cpuGhosts, memGhosts>>

MeminfoFails ==
    /\ Goto("meminfo", "sample")
    /\ UNCHANGED <<kernel, shared, file, passes, sample, response, cpuGhosts, memGhosts>>

StoreTotal(g, from, to) ==
    /\ Goto(from, to)
    /\ total' = [total EXCEPT ![g] = file.size[g]]
    /\ resized' = IF total'[g] # total[g] THEN resized \cup {g} ELSE resized
    /\ UNCHANGED <<kernel, usage, prev, left, file, passes, sample, response,
                   cpuGhosts, truth, source, fresh>>

(* Mutation: the lines of memory and swap are mixed up.                    *)
LeftOf_Mixed(g) == file.rest["mem"]

LeftOf(g) == file.rest[g]

StoreLeft(g, from, to) ==
    /\ Goto(from, to)
    /\ left' = [left EXCEPT ![g] = LeftOf(g)]
    /\ truth' = [truth EXCEPT ![g] = ShareOf(file.size[g], file.rest[g])]
    /\ source' = [source EXCEPT ![g] = file.size[g]]
    /\ fresh' = [fresh EXCEPT ![g] = @ \cup {truth'[g]}]
    /\ UNCHANGED <<kernel, usage, prev, total, file, passes, sample, response,
                   cpuGhosts, resized>>

MemTotal     == StoreTotal("mem", "mem total", "mem available")
MemAvailable == StoreLeft("mem", "mem available", "swap total")
SwapTotal    == StoreTotal("swap", "swap total", "swap free")
SwapFree     == StoreLeft("swap", "swap free", "sample")

SampledShare(g) == ShareOf(total[g], left[g])

(* collect_history, when a sample is due.                                  *)
Sample ==
    /\ Goto("sample", "idle")
    /\ \/ sample' = [usage |-> usage, share |-> [g \in Gauges |-> SampledShare(g)], was |-> truth]
       \/ UNCHANGED sample
    /\ UNCHANGED <<kernel, shared, file, passes, response, cpuGhosts, memGhosts>>

(* The worker dies in the pass; the lock is never given back.              *)
Die ==
    /\ cpc \notin {"idle", "dead"} /\ cpc' = "dead"
    /\ UNCHANGED <<kernel, shared, file, passes, sample, response, cpuGhosts, memGhosts>>

-----------------------------------------------------------------------------
(* json_system, and send_prometheus for memory only: a test, the two       *)
(* operands of a difference in either order, and the divisor.              *)
Pending(g) == total[g] # source[g]

StartRead ==
    /\ rpc = "idle" /\ reads < MaxReads /\ moves = "memory"
    /\ reads' = reads + 1
    /\ rpc' = "test" /\ gauge' = "mem" /\ loaded' = <<>> /\ shown' = <<>>
    /\ fresh' = [g \in Gauges |-> {truth[g]}]
    /\ resized' = {g \in Gauges : Pending(g)}
    /\ UNCHANGED <<kernel, shared, collector, cpuGhosts, truth, source>>

Show(n) == shown' = With(shown, gauge, n) /\ rpc' = "next" /\ loaded' = <<>>

TestTotal ==
    /\ rpc = "test"
    /\ IF total[gauge] > 0 THEN rpc' = "operands" /\ UNCHANGED <<loaded, shown>> ELSE Show(0)
    /\ UNCHANGED <<kernel, shared, collector, gauge, reads, cpuGhosts, memGhosts>>

LoadOperand ==
    /\ rpc = "operands"
    /\ \E op \in {"total", "left"} \ DOMAIN loaded :
          loaded' = With(loaded, op, IF op = "total" THEN total[gauge] ELSE left[gauge])
    /\ rpc' = IF DOMAIN loaded' = {"total", "left"} THEN "divide" ELSE rpc
    /\ UNCHANGED <<kernel, shared, collector, gauge, shown, reads, cpuGhosts, memGhosts>>

Divide ==
    /\ rpc = "divide"
    /\ Show(Share(loaded["total"], loaded["left"], total[gauge]))
    /\ UNCHANGED <<kernel, shared, collector, gauge, reads, cpuGhosts, memGhosts>>

NextGauge ==
    /\ rpc = "next" /\ gauge = "mem"
    /\ gauge' = "swap" /\ rpc' = "test"
    /\ UNCHANGED <<kernel, shared, collector, loaded, shown, reads, cpuGhosts, memGhosts>>

EndRead ==
    /\ rpc = "next"
    /\ rpc' = "idle"
    /\ UNCHANGED <<kernel, shared, collector, gauge, loaded, shown, reads, cpuGhosts,
                   memGhosts>>

Kernel   == Jiffies \/ Use \/ Resize
Pass     == Begin \/ CollectCpu \/ CpuFails \/ ReadMeminfo \/ MeminfoFails
            \/ MemTotal \/ MemAvailable \/ SwapTotal \/ SwapFree \/ Sample \/ Die
Response == StartRead \/ TestTotal \/ LoadOperand \/ Divide \/ NextGauge \/ EndRead

Next == Kernel \/ Pass \/ Response

Spec == Init /\ [][Next]_vars

-----------------------------------------------------------------------------
TypeOK ==
    /\ moves \in {"cpu", "memory"}
    /\ cpu \in [busy : Nat, idle : Nat]
    /\ size \in [Gauges -> 0 .. MaxSize] /\ rest \in [Gauges -> 0 .. MaxSize]
    /\ changes \in 0 .. MaxChanges
    /\ usage \in Nat /\ prev \in [total : Nat, idle : Nat]
    /\ total \in [Gauges -> 0 .. MaxSize] /\ left \in [Gauges -> 0 .. MaxSize]
    /\ cpc \in {"idle", "cpu", "meminfo", "mem total", "mem available", "swap total",
                "swap free", "sample", "dead"}
    /\ file \in [size : [Gauges -> 0 .. MaxSize], rest : [Gauges -> 0 .. MaxSize]]
    /\ passes \in 0 .. MaxPasses /\ reads \in 0 .. MaxReads
    /\ sample \in [usage : Nat, share : [Gauges -> Nat], was : [Gauges -> Nat]]
    /\ rpc \in {"idle", "test", "operands", "divide", "next"}
    /\ gauge \in Gauges /\ DOMAIN loaded \subseteq {"total", "left"}
    /\ DOMAIN shown \subseteq Gauges /\ resized \subseteq Gauges

(* The usage is the busy share of the time between two passes, whichever   *)
(* of them could not read /proc/stat and although the counters may shrink  *)
(* when a CPU goes: only if idle or busy time was taken back in between    *)
(* while the total grew is it anything else, and then it can exceed 100 %. *)
UsageHonest ==
    /\ TypeOK
    /\ span.busy >= 0 /\ span.idle >= 0 =>
          usage = IF span.busy + span.idle = 0 THEN 0
                  ELSE (span.busy * Full) \div (span.busy + span.idle)

(* "JSON and Prometheus responses are generated from shared-memory         *)
(* snapshots": a share in a response was in the table at one moment of the *)
(* response, unless a pass has put a new size there meanwhile or had not   *)
(* stored the free space that goes with it.  The history is never exposed  *)
(* to that: size and free space in a sample are of one reading of the      *)
(* file, although sizes change and readings fail.                          *)
SharesHonest ==
    /\ sample.share = sample.was
    /\ \A g \in DOMAIN shown \ resized : shown[g] \in fresh[g] /\ shown[g] <= Full
=============================================================================

--------------------------- MODULE CollectedProofs ---------------------------
(***************************************************************************)
(* That the usage of the CPUs and the shares of memory and swap are honest *)
(* (SystemGauges), that a response that no change of the devices disturbs  *)
(* is complete, and that the samples of a table invent no traffic          *)
(* (KernelTables), for the composition that is checked, MCCollected.       *)
(***************************************************************************)
EXTENDS MCCollected, Sums, SequenceTheorems

-----------------------------------------------------------------------------
(* What the CPUs count, and the usage.                                     *)
Pair == [busy : 0 .. 1 + MaxShifts, idle : 0 .. 1 + MaxShifts]

(* What the counters of the CPUs can be, and what a pass remembers of them.*)
CpuInv ==
    /\ cpu \in [busy : 0 .. 1 + shifts, idle : 0 .. 1 + shifts]
    /\ shifts \in 0 .. MaxShifts
    /\ last \in Pair
    /\ span \in [busy : Int, idle : Int]
    /\ prevCpu = [total |-> last.busy + last.idle, idle |-> last.idle]
    /\ usage \in Nat
    /\ span.busy >= 0 /\ span.idle >= 0 =>
          usage = IF span.busy + span.idle = 0 THEN 0
                  ELSE (span.busy * Full) \div (span.busy + span.idle)

LEMMA InitCpu == G!Init => CpuInv
<1> SUFFICES ASSUME G!Init PROVE CpuInv
  OBVIOUS
<1>1. /\ cpu = [busy |-> 1, idle |-> 1] /\ shifts = 0 /\ usage = 0
      /\ prevCpu = [total |-> 0, idle |-> 0]
      /\ last = [busy |-> 0, idle |-> 0] /\ span = [busy |-> 0, idle |-> 0]
  BY DEF G!Init
<1>2. MaxShifts \in Nat
  BY GaugesAssumption
<1>3. last \in Pair /\ span \in [busy : Int, idle : Int]
  BY <1>1, <1>2 DEF Pair
<1>4. cpu \in [busy : 0 .. 1 + shifts, idle : 0 .. 1 + shifts] /\ shifts \in 0 .. MaxShifts
  BY <1>1, <1>2
<1> QED BY <1>1, <1>3, <1>4 DEF CpuInv

LEMMA Small == \A a \in 0 .. Word - 1 : a % Word = a
BY GaugesAssumption

LEMMA StepCpu == CpuInv /\ G!Next => CpuInv'
<1> SUFFICES ASSUME CpuInv, G!Next PROVE CpuInv'
  OBVIOUS
<1>t. /\ cpu \in [busy : 0 .. 1 + shifts, idle : 0 .. 1 + shifts]
      /\ shifts \in 0 .. MaxShifts /\ last \in Pair /\ span \in [busy : Int, idle : Int]
      /\ prevCpu = [total |-> last.busy + last.idle, idle |-> last.idle]
      /\ usage \in Nat
  BY DEF CpuInv
<1>c. MaxShifts \in Nat /\ Full \in Nat \ {0} /\ Word \in Nat \ {0}
      /\ 2 * (1 + MaxShifts) * Full < Word
  BY GaugesAssumption
<1>1. CASE G!Jiffies
  <2>1. /\ shifts < MaxShifts /\ shifts' = shifts + 1
        /\ UNCHANGED <<last, span, prevCpu, usage>>
    BY <1>1 DEF G!Jiffies, G!Change, G!shared, G!cpuGhosts
  <2>2. PICK busy \in -1 .. 1, idle \in -1 .. 1 :
           /\ cpu.busy + busy >= 0 /\ cpu.idle + idle >= 0
           /\ cpu' = [busy |-> cpu.busy + busy, idle |-> cpu.idle + idle]
    BY <1>1 DEF G!Jiffies
  <2>3. cpu' \in [busy : 0 .. 1 + shifts', idle : 0 .. 1 + shifts'] /\ shifts' \in 0 .. MaxShifts
    BY <1>t, <1>c, <2>1, <2>2
  <2> QED BY <2>1, <2>3 DEF CpuInv
<1>2. CASE G!CollectCpu
  <2> DEFINE now == cpu.busy + cpu.idle
             old == last.busy + last.idle
             b == cpu.busy - last.busy
             j == cpu.idle - last.idle
  <2>1. /\ cpu' = cpu /\ shifts' = shifts /\ last' = cpu
        /\ usage' = IF G!Grew THEN G!Usage ELSE usage
        /\ prevCpu' = [total |-> now, idle |-> cpu.idle]
        /\ span' = IF old > 0 /\ now > old THEN [busy |-> b, idle |-> j] ELSE span
    BY <1>2 DEF G!CollectCpu, G!StorePrev, G!Total, G!kernel
  <2>2. /\ cpu.busy \in 0 .. 1 + MaxShifts /\ cpu.idle \in 0 .. 1 + MaxShifts
        /\ last.busy \in 0 .. 1 + MaxShifts /\ last.idle \in 0 .. 1 + MaxShifts
        /\ cpu \in Pair
    BY <1>t, <1>c DEF Pair
  <2>3. /\ now \in Nat /\ old \in Nat /\ b \in Int /\ j \in Int /\ b + j = now - old
        /\ now <= 2 * (1 + MaxShifts)
    BY <2>2, <1>c
  <2>4. G!Grew <=> old > 0 /\ now > old
    BY <1>t DEF G!Grew, G!Total
  <2>5. CASE ~G!Grew
    <3>1. usage' = usage /\ span' = span
      BY <2>1, <2>4, <2>5
    <3> QED BY <1>t, <2>1, <2>2, <3>1 DEF CpuInv
  <2>6. CASE G!Grew
    <3>1. now > old /\ span' = [busy |-> b, idle |-> j] /\ usage' = G!Usage
      BY <2>1, <2>4, <2>6
    <3>2. 2 * (1 + MaxShifts) <= 2 * (1 + MaxShifts) * Full
      BY <1>c
    <3>3. now - old \in 1 .. Word - 1
      BY <1>c, <2>3, <3>1, <3>2
    <3>4. (now - old) % Word = now - old
      BY <3>3, Small
    <3>5. G!Diff(G!Total, prevCpu.total) = now - old
      BY <1>t, <3>4 DEF G!Diff, G!Total
    <3> DEFINE d == G!Diff(now - old, G!Diff(cpu.idle, prevCpu.idle))
    <3>6. G!Usage = ((d * Full) % Word) \div (now - old)
      BY <3>5 DEF G!Usage
    <3>7. d \in Nat
      BY <1>c, <2>3, <1>t, <2>2 DEF G!Diff
    <3>8. G!Usage \in Nat
      <4>1. (d * Full) % Word \in Nat
        BY <1>c, <3>7
      <4> HIDE DEF now, old, d
      <4> QED BY <3>3, <3>6, <4>1
    <3>9. ASSUME b >= 0, j >= 0
          PROVE  usage' = IF b + j = 0 THEN 0 ELSE (b * Full) \div (b + j)
      <4>1. b + j = now - old /\ b + j # 0 /\ b \in 0 .. Word - 1 /\ j \in 0 .. Word - 1
        BY <1>c, <2>2, <2>3, <3>3, <3>9
      <4>2. G!Diff(cpu.idle, prevCpu.idle) = j
        BY <1>t, <4>1, Small DEF G!Diff
      <4>3. d = b
        <5>1. (now - old) - j = b
          BY <2>3
        <5> QED BY <4>1, <4>2, <5>1, Small DEF G!Diff
      <4>4. b * Full \in 0 .. Word - 1
        <5>1. b <= 2 * (1 + MaxShifts) /\ b \in Nat
          BY <1>c, <2>2, <3>9
        <5>2. b * Full <= 2 * (1 + MaxShifts) * Full
          <6> DEFINE m == 2 * (1 + MaxShifts)
          <6>1. m \in Nat /\ m - b \in Nat
            BY <1>c, <5>1
          <6>2. (m - b) * Full \in Nat
            BY <1>c, <6>1
          <6> HIDE DEF m, b
          <6>3. m * Full = b * Full + (m - b) * Full
            BY <1>c, <5>1, <6>1
          <6>4. b * Full \in Nat /\ m * Full \in Nat
            BY <1>c, <5>1, <6>1
          <6>5. b * Full <= m * Full
            BY <6>2, <6>3, <6>4
          <6> QED BY <6>5 DEF m
        <5>3. b * Full \in Nat
          BY <1>c, <5>1
        <5> QED BY <1>c, <5>2, <5>3
      <4>5. (b * Full) % Word = b * Full
        BY <4>4, Small
      <4> QED BY <3>1, <3>6, <4>1, <4>3, <4>5
    <3>10. span' \in [busy : Int, idle : Int] /\ span'.busy = b /\ span'.idle = j
      BY <2>3, <3>1
    <3>11. usage' \in Nat
      BY <3>1, <3>8
    <3> HIDE DEF b, j, now, old
    <3>12. last' \in Pair
      BY <2>1, <2>2
    <3>13. prevCpu' = [total |-> last'.busy + last'.idle, idle |-> last'.idle]
      BY <2>1 DEF now
    <3> QED BY <1>t, <2>1, <3>9, <3>10, <3>11, <3>12, <3>13 DEF CpuInv
  <2> QED BY <2>5, <2>6
<1>3. CASE ~G!Jiffies /\ ~G!CollectCpu
  <2>1. /\ UNCHANGED <<cpu, last, span, prevCpu, usage>>
        /\ shifts' = shifts \/ (shifts < MaxShifts /\ shifts' = shifts + 1)
    BY <1>3 DEF G!Next, G!Kernel, G!Use, G!Resize, G!Change, G!Pass, G!Begin, G!CpuFails,
       G!ReadMeminfo, G!MeminfoFails, G!MemTotal, G!MemAvailable, G!SwapTotal, G!SwapFree,
       G!StoreTotal, G!StoreLeft, G!Sample, G!Die, G!Response, G!StartRead, G!TestTotal,
       G!LoadOperand, G!Divide, G!NextGauge, G!EndRead, G!kernel, G!shared, G!cpuGhosts
  <2>2. cpu' \in [busy : 0 .. 1 + shifts', idle : 0 .. 1 + shifts'] /\ shifts' \in 0 .. MaxShifts
    BY <1>t, <1>c, <2>1
  <2> QED BY <2>1, <2>2 DEF CpuInv
<1> QED BY <1>1, <1>2, <1>3

-----------------------------------------------------------------------------
Sizes == [G!Gauges -> 0 .. MaxSize]

MemTyped ==
    /\ moves \in {"cpu", "memory"} /\ shifts \in 0 .. MaxShifts
    /\ size \in Sizes /\ rest \in Sizes /\ \A g \in G!Gauges : rest[g] <= size[g]
    /\ total \in Sizes /\ left \in Sizes /\ source \in Sizes
    /\ meminfo \in [size : Sizes, rest : Sizes]
    /\ \A g \in G!Gauges : meminfo.rest[g] <= meminfo.size[g]
    /\ gpc \in {"idle", "cpu", "meminfo", "mem total", "mem available", "swap total",
                "swap free", "sample", "dead"}
    /\ rounds \in 0 .. MaxPasses /\ answers \in 0 .. MaxReads
    /\ sample \in [usage : Nat, share : [G!Gauges -> Nat], was : [G!Gauges -> Nat]]
    /\ apc \in {"idle", "test", "operands", "divide", "next"} /\ gauge \in G!Gauges
    /\ DOMAIN loaded \subseteq {"total", "left"} /\ DOMAIN shown \subseteq G!Gauges
    /\ resized \subseteq G!Gauges
    /\ truth \in [G!Gauges -> Nat] /\ fresh \in [G!Gauges -> SUBSET Nat]

(* The two words of a gauge belong together, but between the two stores.   *)
MemInv ==
    /\ \A g \in G!Gauges : /\ left[g] <= source[g]
                           /\ truth[g] = G!ShareOf(source[g], left[g])
    /\ gpc \notin {"mem available", "dead"} => total["mem"] = source["mem"]
    /\ gpc \notin {"swap free", "dead"} => total["swap"] = source["swap"]
    /\ gpc = "mem available" => total["mem"] = meminfo.size["mem"]
    /\ gpc = "swap free" => total["swap"] = meminfo.size["swap"]
    /\ sample.share = sample.was

(* A response, and the operands it has loaded of a gauge whose size has    *)
(* not changed since it began.                                             *)
Operands ==
    /\ total[gauge] > 0
    /\ "total" \in DOMAIN loaded => loaded["total"] = total[gauge]
    /\ "left" \in DOMAIN loaded =>
          /\ loaded["left"] \in 0 .. total[gauge]
          /\ G!ShareOf(total[gauge], loaded["left"]) \in fresh[gauge]

ReadInv ==
    /\ apc # "idle" => \A g \in G!Gauges : /\ truth[g] \in fresh[g]
                                           /\ g \notin resized => total[g] = source[g]
    /\ apc \in {"operands", "divide"} /\ gauge \notin resized => Operands
    /\ apc = "divide" => DOMAIN loaded = {"total", "left"}
    /\ apc \notin {"operands", "divide"} => DOMAIN loaded = {}
    /\ \A g \in DOMAIN shown \ resized : shown[g] \in fresh[g] /\ shown[g] <= Full

LEMMA ShareSmall ==
    ASSUME NEW n \in 0 .. MaxSize, NEW free \in 0 .. n
    PROVE  /\ G!ShareOf(n, free) \in 0 .. Full
           /\ n # 0 => G!Share(n, free, n) = G!ShareOf(n, free)
<1>c. MaxSize \in Nat /\ Full \in Nat \ {0} /\ Word \in Nat \ {0} /\ MaxSize < Word
  BY GaugesAssumption
<1>1. CASE n = 0
  BY <1>1, <1>c DEF G!ShareOf
<1>2. CASE n # 0
  <2>1. G!Share(n, free, n) = (G!Diff(n, free) * Full) \div n
    BY <1>2 DEF G!Share
  <2>2. G!Diff(n, free) = n - free
    <3>1. n - free \in 0 .. Word - 1
      BY <1>c
    <3> QED BY <3>1, Small DEF G!Diff
  <2> DEFINE a == n - free
             q == (a * Full) \div n
  <2>3. a \in 0 .. n /\ n \in Nat \ {0} /\ a * Full \in Nat
    BY <1>c, <1>2
  <2>4. q \in Nat /\ n * q <= a * Full
    <3> DEFINE x == a * Full
    <3>1. x \in Nat
      BY <2>3
    <3> HIDE DEF x, a
    <3>2. x \div n \in Nat /\ n * (x \div n) <= x
      BY <2>3, <3>1
    <3> QED BY <3>2 DEF x
  <2>5. a * Full <= n * Full
    <3>1. (n - a) * Full \in Nat /\ n * Full = a * Full + (n - a) * Full /\ n * Full \in Nat
      BY <1>c, <2>3
    <3> HIDE DEF a
    <3> QED BY <2>3, <3>1
  <2>6. q <= Full
    <3> SUFFICES ASSUME q > Full PROVE FALSE
      BY <1>c, <2>4
    <3> HIDE DEF q, a
    <3>1. PICK m \in Nat : q = Full + 1 + m
      BY <1>c, <2>4
    <3>2. n * q = n * Full + n + n * m /\ n * m \in Nat /\ n * Full \in Nat
      BY <1>c, <2>3, <3>1
    <3>3. a * Full \in Nat
      BY <2>3
    <3> QED BY <2>3, <2>4, <2>5, <3>2, <3>3
  <2> QED BY <1>2, <1>c, <2>1, <2>2, <2>4, <2>6 DEF G!ShareOf
<1> QED BY <1>1, <1>2

LEMMA InitMem == G!Init => MemTyped /\ MemInv /\ ReadInv
<1> SUFFICES ASSUME G!Init PROVE MemTyped /\ MemInv /\ ReadInv
  OBVIOUS
<1>c. {MaxSize, MaxShifts, MaxPasses, MaxReads} \subseteq Nat
  BY GaugesAssumption, TablesAssumption
<1>1. PICK swap \in 0 .. MaxSize : size = [mem |-> MaxSize, swap |-> swap]
  BY DEF G!Init
<1>2. size \in Sizes /\ rest = size /\ G!Nothing \in Sizes /\ \A g \in G!Gauges : G!Nothing[g] = 0
  BY <1>c, <1>1 DEF Sizes, G!Gauges, G!Nothing, G!Init
<1>3. \A g \in G!Gauges : rest[g] <= size[g]
  BY <1>c, <1>2 DEF Sizes
<1>4. /\ total = G!Nothing /\ left = G!Nothing /\ source = G!Nothing /\ truth = G!Nothing
      /\ meminfo = [size |-> G!Nothing, rest |-> G!Nothing]
      /\ sample = [usage |-> 0, share |-> G!Nothing, was |-> G!Nothing]
      /\ gpc = "idle" /\ apc = "idle" /\ gauge = "mem" /\ loaded = <<>> /\ shown = <<>>
      /\ fresh = [g \in G!Gauges |-> {}] /\ resized = {} /\ rounds = 0 /\ answers = 0
      /\ shifts = 0 /\ moves \in {"cpu", "memory"}
  BY DEF G!Init
<1>5. DOMAIN <<>> = {}
  OBVIOUS
<1>6. G!Nothing \in [G!Gauges -> Nat]
  BY DEF G!Nothing
<1>7. MemTyped
  <2>1. meminfo \in [size : Sizes, rest : Sizes]
    BY <1>2, <1>4
  <2>2. sample \in [usage : Nat, share : [G!Gauges -> Nat], was : [G!Gauges -> Nat]]
    BY <1>4, <1>6
  <2>3. 0 \in 0 .. MaxShifts /\ 0 \in 0 .. MaxPasses /\ 0 \in 0 .. MaxReads /\ "mem" \in G!Gauges
    BY <1>c DEF G!Gauges
  <2>4. \A g \in G!Gauges : meminfo.rest[g] <= meminfo.size[g]
    BY <1>2, <1>4
  <2> QED BY <1>2, <1>3, <1>4, <1>5, <1>6, <2>1, <2>2, <2>3, <2>4 DEF MemTyped
<1>8. MemInv
  BY <1>2, <1>4 DEF MemInv, G!ShareOf, G!Gauges
<1>9. ReadInv
  BY <1>4, <1>5 DEF ReadInv
<1> QED BY <1>7, <1>8, <1>9
(* The locals of a pass, where it changes neither words nor shares.        *)
LEMMA StepMem == MemTyped /\ MemInv /\ ReadInv /\ CpuInv /\ G!Next => MemTyped' /\ MemInv' /\ ReadInv'
<1> SUFFICES ASSUME MemTyped, MemInv, ReadInv, CpuInv, G!Next
             PROVE  MemTyped' /\ MemInv' /\ ReadInv'
  OBVIOUS
<1>c. {MaxSize, MaxShifts, MaxPasses, MaxReads} \subseteq Nat
  BY GaugesAssumption, TablesAssumption
<1>g. G!Gauges = {"mem", "swap"}
  BY DEF G!Gauges
<1>n. \A g \in G!Gauges : total[g] \in Nat /\ left[g] \in Nat
  <2>1. \A g \in G!Gauges : total[g] \in 0 .. MaxSize /\ left[g] \in 0 .. MaxSize
    BY DEF MemTyped, Sizes
  <2> QED BY <1>c, <2>1
<1>k. ASSUME UNCHANGED <<total, left, source, truth, fresh, resized>>,
             UNCHANGED <<apc, gauge, loaded, shown>>
      PROVE  ReadInv'
  BY <1>k DEF ReadInv, Operands, G!ShareOf, G!Share, G!Diff
<1>1. CASE G!Kernel
  <2>1. UNCHANGED <<total, left, meminfo, gpc, rounds, sample, apc, gauge, loaded, shown, answers,
                    truth, source, fresh, resized>>
    BY <1>1 DEF G!Kernel, G!Jiffies, G!Use, G!Resize, G!Change, G!shared, G!collector, G!response,
       G!memGhosts
  <2>2. MemInv' /\ ReadInv'
    BY <2>1, <1>k DEF MemInv, G!ShareOf, G!Share, G!Diff
  <2>3. shifts' \in 0 .. MaxShifts /\ moves' = moves
    <3>1. shifts < MaxShifts /\ shifts' = shifts + 1 /\ moves' = moves
      BY <1>1 DEF G!Kernel, G!Jiffies, G!Use, G!Resize, G!Change
    <3>2. shifts \in 0 .. MaxShifts
      BY DEF MemTyped
    <3> QED BY <1>c, <3>1, <3>2
  <2>4. size' \in Sizes /\ rest' \in Sizes /\ \A g \in G!Gauges : rest'[g] <= size'[g]
    <3>1. CASE G!Jiffies
      BY <3>1 DEF G!Jiffies, MemTyped
    <3>2. CASE G!Use
      <4>1. PICK g \in G!Gauges, n \in 0 .. MaxSize : n <= size[g] /\ rest' = [rest EXCEPT ![g] = n]
        BY <3>2 DEF G!Use
      <4>2. size' = size
        BY <3>2 DEF G!Use
      <4> QED BY <4>1, <4>2 DEF MemTyped, Sizes
    <3>3. CASE G!Resize
      <4>1. PICK n \in 0 .. MaxSize, free \in 0 .. MaxSize :
               /\ free <= n
               /\ size' = [size EXCEPT !["swap"] = n]
               /\ rest' = [rest EXCEPT !["swap"] = free]
        BY <3>3 DEF G!Resize
      <4> QED BY <4>1, <1>g DEF MemTyped, Sizes
    <3> QED BY <1>1, <3>1, <3>2, <3>3 DEF G!Kernel
  <2> QED BY <2>1, <2>2, <2>3, <2>4 DEF MemTyped
<1>2. CASE G!Begin \/ G!CollectCpu \/ G!CpuFails \/ G!ReadMeminfo \/ G!MeminfoFails \/ G!Die
  <2>1. UNCHANGED <<moves, shifts, size, rest, total, left, sample, apc, gauge, loaded, shown,
                    answers, truth, source, fresh, resized>>
    BY <1>2 DEF G!Begin, G!CollectCpu, G!CpuFails, G!ReadMeminfo, G!MeminfoFails, G!Die,
       G!kernel, G!shared, G!response, G!memGhosts, G!StorePrev
  <2>2. /\ gpc \notin {"mem available", "swap free", "dead"} \/ gpc' = "dead"
        /\ gpc' \in {"cpu", "meminfo", "mem total", "sample", "dead"}
        /\ rounds' \in 0 .. MaxPasses
    <3>1. rounds' = rounds \/ (rounds < MaxPasses /\ rounds' = rounds + 1)
      BY <1>2 DEF G!Begin, G!CollectCpu, G!CpuFails, G!ReadMeminfo, G!MeminfoFails, G!Die
    <3>2. rounds \in 0 .. MaxPasses
      BY DEF MemTyped
    <3>3. rounds' \in 0 .. MaxPasses
      BY <1>c, <3>1, <3>2
    <3> QED BY <1>2, <3>3 DEF G!Begin, G!CollectCpu, G!CpuFails, G!ReadMeminfo, G!MeminfoFails,
       G!Die, G!Goto
  <2>3. meminfo' = meminfo \/ meminfo' = [size |-> size, rest |-> rest]
    BY <1>2 DEF G!Begin, G!CollectCpu, G!CpuFails, G!ReadMeminfo, G!MeminfoFails, G!Die, G!collector
  <2>4. /\ meminfo' \in [size : Sizes, rest : Sizes]
        /\ \A g \in G!Gauges : meminfo'.rest[g] <= meminfo'.size[g]
    <3>1. CASE meminfo' = meminfo
      BY <3>1 DEF MemTyped
    <3>2. CASE meminfo' = [size |-> size, rest |-> rest]
      <4>1. meminfo'.size = size /\ meminfo'.rest = rest
        BY <3>2
      <4> QED BY <3>2, <4>1 DEF MemTyped
    <3> QED BY <2>3, <3>1, <3>2
  <2>5. MemTyped'
    BY <2>1, <2>2, <2>4 DEF MemTyped
  <2>6. MemInv'
    <3>1. gpc = "mem available" \/ gpc = "swap free" \/ gpc = "dead" => gpc' = "dead"
      BY <2>2
    <3>2. \A g \in G!Gauges : G!ShareOf(source[g], left[g])' = G!ShareOf(source[g], left[g])
      BY <2>1 DEF G!ShareOf, G!Share, G!Diff
    <3> QED BY <2>1, <2>2, <3>1, <3>2 DEF MemInv
  <2> QED BY <2>1, <2>5, <2>6, <1>k
<1>3. ASSUME NEW g \in G!Gauges, NEW from, NEW to, G!StoreTotal(g, from, to),
             \/ g = "mem" /\ from = "mem total" /\ to = "mem available"
             \/ g = "swap" /\ from = "swap total" /\ to = "swap free"
      PROVE  MemTyped' /\ MemInv' /\ ReadInv'
  <2>1. /\ gpc = from /\ gpc' = to
        /\ total' = [total EXCEPT ![g] = meminfo.size[g]]
        /\ resized' = IF total'[g] # total[g] THEN resized \cup {g} ELSE resized
        /\ UNCHANGED <<moves, shifts, size, rest, left, meminfo, rounds, sample, apc, gauge, loaded,
                       shown, answers, truth, source, fresh>>
    BY <1>3 DEF G!StoreTotal, G!Goto, G!kernel, G!response
  <2>2. meminfo.size[g] \in 0 .. MaxSize
    BY DEF MemTyped, Sizes
  <2>3. total' \in Sizes /\ total'[g] = meminfo.size[g] /\ \A h \in G!Gauges \ {g} : total'[h] = total[h]
    BY <2>1, <2>2 DEF MemTyped, Sizes
  <2>4. MemTyped'
    BY <1>3, <2>1, <2>3 DEF MemTyped
  <2>5. MemInv'
    <3>1. \A h \in G!Gauges : G!ShareOf(source[h], left[h])' = G!ShareOf(source[h], left[h])
      BY <2>1 DEF G!ShareOf, G!Share, G!Diff
    <3> QED BY <1>3, <1>g, <2>1, <2>3, <3>1 DEF MemInv
  <2>6. ReadInv'
    <3>1. \A h \in G!Gauges : h \notin resized' => h \notin resized /\ total'[h] = total[h]
      BY <2>1, <2>3
    <3>2. gauge \in G!Gauges /\ DOMAIN shown \subseteq G!Gauges
      BY DEF MemTyped
    <3>3. gauge \notin resized' /\ Operands => Operands'
      BY <2>1, <3>1, <3>2 DEF Operands, G!ShareOf, G!Share, G!Diff
    <3> QED BY <2>1, <3>1, <3>2, <3>3 DEF ReadInv
  <2> QED BY <2>4, <2>5, <2>6
<1>4. ASSUME NEW g \in G!Gauges, NEW from, NEW to, G!StoreLeft(g, from, to),
             \/ g = "mem" /\ from = "mem available" /\ to = "swap total"
             \/ g = "swap" /\ from = "swap free" /\ to = "sample"
      PROVE  MemTyped' /\ MemInv' /\ ReadInv'
  <2> DEFINE n == meminfo.size[g]
             f == meminfo.rest[g]
  <2>1. /\ gpc = from /\ gpc' = to
        /\ left' = [left EXCEPT ![g] = f]
        /\ truth' = [truth EXCEPT ![g] = G!ShareOf(n, f)]
        /\ source' = [source EXCEPT ![g] = n]
        /\ fresh' = [fresh EXCEPT ![g] = @ \cup {truth'[g]}]
        /\ UNCHANGED <<moves, shifts, size, rest, total, meminfo, rounds, sample, apc, gauge,
                       loaded, shown, answers, resized>>
    BY <1>4 DEF G!StoreLeft, G!LeftOf, G!Goto, G!kernel, G!response
  <2>2. n \in 0 .. MaxSize /\ f \in 0 .. MaxSize /\ f <= n /\ f \in 0 .. n
    <3>1. n \in 0 .. MaxSize /\ f \in 0 .. MaxSize /\ f <= n
      BY DEF MemTyped, Sizes
    <3> HIDE DEF n, f
    <3> QED BY <1>c, <3>1
  <2>3. G!ShareOf(n, f) \in Nat
    <3>1. Full \in Nat
      BY GaugesAssumption
    <3> HIDE DEF n, f
    <3> QED BY <2>2, <3>1, ShareSmall
  <2>4. total[g] = n
    BY <1>4, <1>g, <2>1 DEF MemInv
  <2> HIDE DEF n, f
  <2>5. /\ left' \in Sizes /\ source' \in Sizes /\ truth' \in [G!Gauges -> Nat]
        /\ left'[g] = f /\ source'[g] = n /\ truth'[g] = G!ShareOf(n, f)
        /\ fresh'[g] = fresh[g] \cup {truth'[g]}
        /\ \A h \in G!Gauges \ {g} : /\ left'[h] = left[h] /\ source'[h] = source[h]
                                     /\ truth'[h] = truth[h] /\ fresh'[h] = fresh[h]
    BY <2>1, <2>2, <2>3 DEF MemTyped, Sizes
  <2>6. fresh' \in [G!Gauges -> SUBSET Nat]
    BY <2>1, <2>3, <2>5 DEF MemTyped
  <2>7. MemTyped'
    BY <1>4, <2>1, <2>5, <2>6 DEF MemTyped
  <2>8. MemInv'
    <3>1. ASSUME NEW h \in G!Gauges
          PROVE  left'[h] <= source'[h] /\ truth'[h] = G!ShareOf(source[h], left[h])'
      <4>1. CASE h = g
        <5>1. G!ShareOf(source[h], left[h])' = G!ShareOf(n, f)
          BY <2>5, <4>1 DEF G!ShareOf, G!Share, G!Diff
        <5> QED BY <2>2, <2>5, <4>1, <5>1
      <4>2. CASE h # g
        <5>1. G!ShareOf(source[h], left[h])' = G!ShareOf(source[h], left[h])
          BY <2>5, <4>2 DEF G!ShareOf, G!Share, G!Diff
        <5> QED BY <2>5, <4>2, <5>1 DEF MemInv
      <4> QED BY <4>1, <4>2
    <3>2. /\ gpc' \notin {"mem available", "dead"} => total'["mem"] = source'["mem"]
          /\ gpc' \notin {"swap free", "dead"} => total'["swap"] = source'["swap"]
      BY <1>4, <1>g, <2>1, <2>4, <2>5 DEF MemInv
    <3>3. gpc' # "mem available" /\ gpc' # "swap free" /\ sample'.share = sample'.was
      BY <1>4, <2>1 DEF MemInv
    <3> QED BY <3>1, <3>2, <3>3 DEF MemInv
  <2>9. ReadInv'
    <3>1. \A h \in G!Gauges : fresh[h] \subseteq fresh'[h]
      BY <2>5
    <3>2. gauge \in G!Gauges /\ DOMAIN shown \subseteq G!Gauges
      BY DEF MemTyped
    <3>3. Operands => Operands'
      BY <2>1, <3>1, <3>2 DEF Operands, G!ShareOf, G!Share, G!Diff
    <3>4. apc' # "idle" => \A h \in G!Gauges : /\ truth'[h] \in fresh'[h]
                                               /\ h \notin resized' => total'[h] = source'[h]
      <4> SUFFICES ASSUME apc' # "idle", NEW h \in G!Gauges
                   PROVE  truth'[h] \in fresh'[h] /\ (h \notin resized' => total'[h] = source'[h])
        OBVIOUS
      <4>1. CASE h = g
        BY <2>1, <2>4, <2>5, <4>1
      <4>2. CASE h # g
        BY <2>1, <2>5, <4>2 DEF ReadInv
      <4> QED BY <4>1, <4>2
    <3>5. \A h \in DOMAIN shown' \ resized' : shown'[h] \in fresh'[h] /\ shown'[h] <= Full
      BY <2>1, <3>1, <3>2 DEF ReadInv
    <3> QED BY <2>1, <3>3, <3>4, <3>5 DEF ReadInv
  <2> QED BY <2>7, <2>8, <2>9
<1>5. CASE G!Sample
  <2>1. /\ gpc = "sample" /\ gpc' = "idle"
        /\ \/ sample' = [usage |-> usage,
                         share |-> [g \in G!Gauges |-> G!SampledShare(g)], was |-> truth]
           \/ UNCHANGED sample
        /\ UNCHANGED <<moves, shifts, size, rest, total, left, meminfo, rounds, apc, gauge, loaded,
                       shown, answers, truth, source, fresh, resized>>
    BY <1>5 DEF G!Sample, G!Goto, G!kernel, G!shared, G!response, G!memGhosts
  <2>2. [g \in G!Gauges |-> G!SampledShare(g)] = truth
    <3>1. \A g \in G!Gauges : G!SampledShare(g) = truth[g]
      BY <1>g, <2>1 DEF MemInv, G!SampledShare
    <3> QED BY <3>1 DEF MemTyped
  <2>3. /\ sample' \in [usage : Nat, share : [G!Gauges -> Nat], was : [G!Gauges -> Nat]]
        /\ sample'.share = sample'.was
    BY <2>1, <2>2 DEF MemTyped, CpuInv, MemInv
  <2>4. MemTyped'
    BY <2>1, <2>3 DEF MemTyped
  <2>5. MemInv'
    <3>1. \A h \in G!Gauges : G!ShareOf(source[h], left[h])' = G!ShareOf(source[h], left[h])
      BY <2>1 DEF G!ShareOf, G!Share, G!Diff
    <3> QED BY <2>1, <2>3, <3>1 DEF MemInv
  <2> QED BY <2>1, <2>4, <2>5, <1>k
<1>6. CASE G!Response
  <2>1. UNCHANGED <<moves, shifts, size, rest, total, left, meminfo, gpc, rounds, sample, truth, source>>
    BY <1>6 DEF G!Response, G!StartRead, G!TestTotal, G!LoadOperand, G!Divide, G!NextGauge,
       G!EndRead, G!kernel, G!shared, G!collector, G!memGhosts
  <2>2. MemInv'
    BY <2>1 DEF MemInv, G!ShareOf, G!Share, G!Diff
  <2>3. /\ gauge \in G!Gauges /\ DOMAIN shown \subseteq G!Gauges /\ resized \subseteq G!Gauges
        /\ DOMAIN loaded \subseteq {"total", "left"} /\ total \in Sizes /\ answers \in 0 .. MaxReads
        /\ \A g \in G!Gauges : total[g] \in Nat
    BY <1>n DEF MemTyped
  <2>4. ASSUME apc' \in {"idle", "test", "operands", "divide", "next"}, gauge' \in G!Gauges,
               DOMAIN loaded' \subseteq {"total", "left"}, DOMAIN shown' \subseteq G!Gauges,
               resized' \subseteq G!Gauges, fresh' \in [G!Gauges -> SUBSET Nat],
               answers' \in 0 .. MaxReads
        PROVE  MemTyped'
    BY <2>1, <2>4 DEF MemTyped
  <2>5. CASE G!StartRead
    <3>1. /\ apc' = "test" /\ gauge' = "mem" /\ loaded' = <<>> /\ shown' = <<>>
          /\ fresh' = [g \in G!Gauges |-> {truth[g]}]
          /\ resized' = {g \in G!Gauges : total[g] # source[g]}
          /\ answers < MaxReads /\ answers' = answers + 1
      BY <2>5 DEF G!StartRead, G!Pending
    <3>2. DOMAIN loaded' = {} /\ DOMAIN shown' = {}
      BY <3>1
    <3>3. answers' \in 0 .. MaxReads
      BY <1>c, <2>3, <3>1
    <3>4. fresh' \in [G!Gauges -> SUBSET Nat]
      BY <3>1 DEF MemTyped
    <3>5. MemTyped'
      BY <1>g, <2>4, <3>1, <3>2, <3>3, <3>4
    <3>6. ReadInv'
      BY <2>1, <3>1, <3>2 DEF ReadInv
    <3> QED BY <2>2, <3>5, <3>6
  <2>6. ASSUME UNCHANGED <<answers, fresh, resized>>,
               apc # "idle", apc' \in {"idle", "test", "operands", "divide", "next"}
        PROVE  /\ fresh' \in [G!Gauges -> SUBSET Nat] /\ answers' \in 0 .. MaxReads
               /\ resized' \subseteq G!Gauges
               /\ apc' # "idle" => \A g \in G!Gauges : /\ truth'[g] \in fresh'[g]
                                                       /\ g \notin resized' => total'[g] = source'[g]
    BY <2>1, <2>6 DEF MemTyped, ReadInv
  <2>7. ASSUME NEW n, G!Show(n), UNCHANGED <<gauge, answers, fresh, resized>>, apc # "idle",
               gauge \notin resized => n \in fresh[gauge] /\ n <= Full
        PROVE  MemTyped' /\ ReadInv'
    <3>1. apc' = "next" /\ loaded' = <<>> /\ shown' = G!With(shown, gauge, n) /\ DOMAIN loaded' = {}
      BY <2>7 DEF G!Show
    <3>2. /\ DOMAIN shown' = DOMAIN shown \cup {gauge}
          /\ \A g \in DOMAIN shown \ {gauge} : shown'[g] = shown[g]
          /\ shown'[gauge] = n
      BY <3>1 DEF G!With
    <3>3. MemTyped'
      BY <2>3, <2>4, <2>6, <2>7, <3>1, <3>2
    <3>4. \A g \in DOMAIN shown' \ resized' : shown'[g] \in fresh'[g] /\ shown'[g] <= Full
      BY <2>7, <3>2 DEF ReadInv
    <3>5. ReadInv'
      BY <2>6, <2>7, <3>1, <3>4 DEF ReadInv
    <3> QED BY <3>3, <3>5
  <2>8. CASE G!TestTotal
    <3>1. apc = "test" /\ UNCHANGED <<gauge, answers, fresh, resized>>
      BY <2>8 DEF G!TestTotal, G!memGhosts
    <3>2. CASE total[gauge] > 0
      <4>1. apc' = "operands" /\ UNCHANGED <<loaded, shown>> /\ DOMAIN loaded = {}
        BY <2>8, <3>1, <3>2 DEF G!TestTotal, ReadInv
      <4>2. MemTyped'
        BY <2>3, <2>4, <2>6, <3>1, <4>1
      <4>3. Operands'
        BY <2>1, <3>1, <3>2, <4>1 DEF Operands
      <4>4. ReadInv'
        BY <2>6, <3>1, <4>1, <4>3 DEF ReadInv
      <4> QED BY <2>2, <4>2, <4>4
    <3>3. CASE ~(total[gauge] > 0)
      <4>1. G!Show(0) /\ total[gauge] = 0
        BY <2>3, <2>8, <3>3 DEF G!TestTotal
      <4>2. ASSUME gauge \notin resized PROVE 0 \in fresh[gauge]
        <5>1. truth[gauge] \in fresh[gauge] /\ total[gauge] = source[gauge]
          BY <2>3, <3>1, <4>2 DEF ReadInv
        <5>2. truth[gauge] = 0
          BY <2>3, <4>1, <5>1 DEF MemInv, G!ShareOf
        <5> QED BY <5>1, <5>2
      <4>3. 0 <= Full
        BY GaugesAssumption
      <4>4. MemTyped' /\ ReadInv'
        BY <2>7, <3>1, <4>1, <4>2, <4>3
      <4> QED BY <2>2, <4>4
    <3> QED BY <3>2, <3>3
  <2>9. CASE G!LoadOperand
    <3>1. apc = "operands" /\ UNCHANGED <<gauge, shown, answers, fresh, resized>>
      BY <2>9 DEF G!LoadOperand, G!memGhosts
    <3>2. PICK op \in {"total", "left"} \ DOMAIN loaded :
             loaded' = G!With(loaded, op, IF op = "total" THEN total[gauge] ELSE left[gauge])
      BY <2>9 DEF G!LoadOperand
    <3>3. /\ DOMAIN loaded' = DOMAIN loaded \cup {op}
          /\ \A o \in DOMAIN loaded : loaded'[o] = loaded[o]
          /\ loaded'[op] = IF op = "total" THEN total[gauge] ELSE left[gauge]
      BY <3>2 DEF G!With
    <3>4. apc' = IF DOMAIN loaded' = {"total", "left"} THEN "divide" ELSE apc
      BY <2>9 DEF G!LoadOperand
    <3>5. MemTyped'
      BY <2>3, <2>4, <2>6, <3>1, <3>2, <3>3, <3>4
    <3>6. ASSUME gauge \notin resized PROVE Operands'
      <4>1. Operands /\ truth[gauge] \in fresh[gauge] /\ total[gauge] = source[gauge]
        BY <2>3, <3>1, <3>6 DEF ReadInv
      <4>2. /\ left[gauge] <= source[gauge] /\ left[gauge] \in Nat
            /\ truth[gauge] = G!ShareOf(source[gauge], left[gauge])
        BY <1>n, <2>3 DEF MemInv
      <4>3. "total" \in DOMAIN loaded' => loaded'["total"] = total[gauge]
        BY <3>2, <3>3, <4>1 DEF Operands
      <4>4. "left" \in DOMAIN loaded' => /\ loaded'["left"] \in 0 .. total[gauge]
                                         /\ G!ShareOf(total[gauge], loaded'["left"]) \in fresh[gauge]
        <5> SUFFICES ASSUME "left" \in DOMAIN loaded'
                     PROVE  /\ loaded'["left"] \in 0 .. total[gauge]
                            /\ G!ShareOf(total[gauge], loaded'["left"]) \in fresh[gauge]
          OBVIOUS
        <5>1. CASE op = "left"
          <6>1. loaded'["left"] = left[gauge]
            BY <3>3, <5>1
          <6>2. left[gauge] \in 0 .. total[gauge]
            BY <2>3, <4>1, <4>2
          <6> QED BY <4>1, <4>2, <6>1, <6>2
        <5>2. CASE op # "left"
          <6>1. "left" \in DOMAIN loaded /\ loaded'["left"] = loaded["left"]
            BY <3>3, <5>2
          <6> QED BY <4>1, <6>1 DEF Operands
        <5> QED BY <5>1, <5>2
      <4> QED BY <2>1, <3>1, <4>1, <4>3, <4>4 DEF Operands, G!ShareOf, G!Share, G!Diff
    <3>7. ReadInv'
      BY <2>6, <3>1, <3>4, <3>6 DEF ReadInv
    <3> QED BY <2>2, <3>5, <3>7
  <2>10. CASE G!Divide
    <3>1. /\ apc = "divide" /\ G!Show(G!Share(loaded["total"], loaded["left"], total[gauge]))
          /\ UNCHANGED <<gauge, answers, fresh, resized>>
      BY <2>10 DEF G!Divide, G!memGhosts
    <3> DEFINE n == G!Share(loaded["total"], loaded["left"], total[gauge])
    <3>2. ASSUME gauge \notin resized PROVE n \in fresh[gauge] /\ n <= Full
      <4>1. Operands /\ DOMAIN loaded = {"total", "left"}
        BY <3>1, <3>2 DEF ReadInv
      <4>2. /\ loaded["total"] = total[gauge] /\ total[gauge] # 0
            /\ loaded["left"] \in 0 .. total[gauge]
            /\ G!ShareOf(total[gauge], loaded["left"]) \in fresh[gauge]
        BY <4>1 DEF Operands
      <4>3. total[gauge] \in 0 .. MaxSize
        BY <2>3 DEF Sizes
      <4>4. /\ G!ShareOf(total[gauge], loaded["left"]) \in 0 .. Full
            /\ G!Share(total[gauge], loaded["left"], total[gauge])
                  = G!ShareOf(total[gauge], loaded["left"])
        BY <4>2, <4>3, ShareSmall
      <4> QED BY <4>2, <4>4
    <3> HIDE DEF n
    <3>3. MemTyped' /\ ReadInv'
      BY <2>7, <3>1, <3>2 DEF n
    <3> QED BY <2>2, <3>3
  <2>11. CASE G!NextGauge \/ G!EndRead
    <3>1. /\ apc = "next" /\ apc' \in {"test", "idle"} /\ gauge' \in G!Gauges
          /\ UNCHANGED <<loaded, shown, answers, fresh, resized>>
      BY <1>g, <2>3, <2>11 DEF G!NextGauge, G!EndRead, G!memGhosts
    <3>2. MemTyped'
      BY <2>3, <2>4, <2>6, <3>1
    <3>3. ReadInv'
      BY <2>6, <3>1 DEF ReadInv
    <3> QED BY <2>2, <3>2, <3>3
  <2> QED BY <1>6, <2>5, <2>8, <2>9, <2>10, <2>11 DEF G!Response
<1>7. CASE G!Pass
  <2>1. CASE G!MemTotal
    <3>1. G!StoreTotal("mem", "mem total", "mem available")
      BY <2>1 DEF G!MemTotal
    <3> QED BY <1>3, <1>g, <3>1
  <2>2. CASE G!SwapTotal
    <3>1. G!StoreTotal("swap", "swap total", "swap free")
      BY <2>2 DEF G!SwapTotal
    <3> QED BY <1>3, <1>g, <3>1
  <2>3. CASE G!MemAvailable
    <3>1. G!StoreLeft("mem", "mem available", "swap total")
      BY <2>3 DEF G!MemAvailable
    <3> QED BY <1>4, <1>g, <3>1
  <2>4. CASE G!SwapFree
    <3>1. G!StoreLeft("swap", "swap free", "sample")
      BY <2>4 DEF G!SwapFree
    <3> QED BY <1>4, <1>g, <3>1
  <2> QED BY <1>2, <1>5, <1>7, <2>1, <2>2, <2>3, <2>4 DEF G!Pass
<1> QED BY <1>1, <1>6, <1>7 DEF G!Next
-----------------------------------------------------------------------------
GaugesInv == CpuInv /\ MemTyped /\ MemInv /\ ReadInv

LEMMA GaugesType == GaugesInv => G!TypeOK
<1> SUFFICES ASSUME GaugesInv PROVE G!TypeOK
  OBVIOUS
<1>1. cpu \in [busy : Nat, idle : Nat]
  <2>1. cpu \in [busy : 0 .. 1 + shifts, idle : 0 .. 1 + shifts] /\ shifts \in Nat
    BY GaugesAssumption DEF GaugesInv, CpuInv
  <2> QED BY <2>1
<1>2. prevCpu \in [total : Nat, idle : Nat] /\ usage \in Nat
  <2>1. last \in Pair /\ prevCpu = [total |-> last.busy + last.idle, idle |-> last.idle] /\ usage \in Nat
    BY DEF GaugesInv, CpuInv
  <2>2. last.busy \in Nat /\ last.idle \in Nat
    BY <2>1, GaugesAssumption DEF Pair
  <2> QED BY <2>1, <2>2
<1> QED BY <1>1, <1>2 DEF GaugesInv, MemTyped, Sizes, G!TypeOK

LEMMA GaugesStay == GaugesInv /\ UNCHANGED gaugeVars => GaugesInv'
<1> SUFFICES ASSUME GaugesInv, UNCHANGED gaugeVars PROVE GaugesInv'
  OBVIOUS
<1>1. UNCHANGED <<moves, cpu, size, rest, shifts, usage, prevCpu, total, left, gpc, meminfo, rounds>>
  BY DEF gaugeVars
<1>2. UNCHANGED <<sample, apc, gauge, loaded, shown, answers, last, span, truth, source, fresh, resized>>
  BY DEF gaugeVars
<1>3. CpuInv'
  BY <1>1, <1>2 DEF GaugesInv, CpuInv
<1>4. MemTyped'
  BY <1>1, <1>2 DEF GaugesInv, MemTyped
<1>5. MemInv'
  <2>1. \A h \in G!Gauges : G!ShareOf(source[h], left[h])' = G!ShareOf(source[h], left[h])
    BY <1>1, <1>2 DEF G!ShareOf, G!Share, G!Diff
  <2> QED BY <1>1, <1>2, <2>1 DEF GaugesInv, MemInv
<1>6. ReadInv'
  BY <1>1, <1>2 DEF GaugesInv, ReadInv, Operands, G!ShareOf, G!Share, G!Diff
<1> QED BY <1>3, <1>4, <1>5, <1>6 DEF GaugesInv

LEMMA GaugesAlways == MCSpec => []GaugesInv
<1>1. MCInit => GaugesInv
  BY InitCpu, InitMem DEF MCInit, GaugesInv
<1>2. GaugesInv /\ [MCNext]_<<subject, vars, gaugeVars>> => GaugesInv'
  <2> SUFFICES ASSUME GaugesInv, [MCNext]_<<subject, vars, gaugeVars>> PROVE GaugesInv'
    OBVIOUS
  <2>1. CASE G!Next
    BY <2>1, StepCpu, StepMem DEF GaugesInv
  <2>2. CASE UNCHANGED gaugeVars
    BY <2>2, GaugesStay
  <2> QED BY <2>1, <2>2 DEF MCNext
<1> QED BY <1>1, <1>2, PTL DEF MCSpec

(* The usage of the CPUs is the busy share of the time between two         *)
(* readings of /proc/stat, for any number of passes and changes of the     *)
(* counters, as long as neither busy nor idle time is taken back.          *)
THEOREM UsageIsHonest == MCSpec => []UsageHonest
<1>1. GaugesInv => UsageHonest
  BY GaugesType DEF GaugesInv, CpuInv, UsageHonest, G!UsageHonest
<1> QED BY <1>1, GaugesAlways, PTL

(* The shares of memory and swap in a sample are those of one reading, and *)
(* a share in a response was in the table at one moment of it, unless the  *)
(* size changed meanwhile or its free space was still to be stored: for    *)
(* all sizes and any number of passes, changes and responses.              *)
THEOREM SharesAreHonest == MCSpec => []SharesHonest
<1>1. GaugesInv => SharesHonest
  BY DEF GaugesInv, MemInv, ReadInv, SharesHonest, G!SharesHonest
<1> QED BY <1>1, GaugesAlways, PTL

-----------------------------------------------------------------------------
(* The elements of a finite set of numbers in their order.                 *)
LEMMA RankType ==
    ASSUME NEW S, S \subseteq Nat, IsFiniteSet(S), NEW k \in S
    PROVE  Rank(k, S) \in 1 .. Cardinality(S)
<1> DEFINE T == {m \in S : m <= k}
<1>1. IsFiniteSet(T) /\ Cardinality(T) \in Nat /\ Cardinality(T) <= Cardinality(S)
  BY FS_Subset, FS_CardinalityType
<1>2. k \in T /\ Cardinality(T) # 0
  <2>1. k <= k
    OBVIOUS
  <2> QED BY <1>1, <2>1, FS_EmptySet
<1>3. Cardinality(S) \in Nat
  BY FS_CardinalityType
<1> QED BY <1>1, <1>2, <1>3 DEF Rank

LEMMA RankGrows ==
    ASSUME NEW S, S \subseteq Nat, IsFiniteSet(S), NEW k \in S, NEW m \in S, m < k
    PROVE  Rank(m, S) < Rank(k, S)
<1> DEFINE T == {x \in S : x <= m}
           U == {x \in S : x <= k}
<1>0. k \in Nat /\ m \in Nat /\ \A x \in S : x \in Nat
  OBVIOUS
<1>1. T \subseteq U /\ k \in U /\ k \notin T
  <2>1. ASSUME NEW x \in T PROVE x \in U
    <3>1. x \in Nat /\ x <= m
      BY <1>0
    <3>2. x <= k
      BY <1>0, <3>1
    <3> QED BY <3>2
  <2>2. k <= k /\ ~(k <= m)
    BY <1>0
  <2> QED BY <2>1, <2>2
<1>2. IsFiniteSet(U) /\ Cardinality(T) <= Cardinality(U) /\ (Cardinality(U) = Cardinality(T) => U = T)
  BY <1>1, FS_Subset
<1>3. IsFiniteSet(T) /\ Cardinality(T) \in Nat /\ Cardinality(U) \in Nat
  BY <1>2, <1>1, FS_Subset, FS_CardinalityType
<1> QED BY <1>1, <1>2, <1>3 DEF Rank

LEMMA RankAll ==
    ASSUME NEW S, S \subseteq Nat, IsFiniteSet(S), NEW n \in 1 .. Cardinality(S)
    PROVE  \E k \in S : Rank(k, S) = n
<1> DEFINE N == 1 .. Cardinality(S)
           f == [k \in S |-> Rank(k, S)]
<1>1. Cardinality(S) \in Nat
  BY FS_CardinalityType
<1>2. IsFiniteSet(N) /\ Cardinality(N) = Cardinality(S)
  <2> DEFINE c == Cardinality(S)
  <2> HIDE DEF c
  <2>1. c \in Nat
    BY <1>1 DEF c
  <2>2. IsFiniteSet(1 .. c) /\ Cardinality(1 .. c) = IF 1 > c THEN 0 ELSE c - 1 + 1
    BY <2>1, FS_Interval
  <2>3. Cardinality(1 .. c) = c
    BY <2>1, <2>2
  <2> QED BY <2>2, <2>3 DEF c
<1>3. f \in [S -> N]
  BY RankType
<1>4. ASSUME NEW k \in S, NEW m \in S, f[k] = f[m] PROVE k = m
  <2>1. k \in Nat /\ m \in Nat /\ Rank(k, S) = Rank(m, S)
    BY <1>4
  <2>2. Rank(k, S) \in Nat /\ Rank(m, S) \in Nat
    <3>1. Rank(k, S) \in 1 .. Cardinality(S) /\ Rank(m, S) \in 1 .. Cardinality(S)
      BY RankType
    <3> QED BY <1>1, <3>1
  <2>3. CASE k < m
    <3>1. Rank(k, S) < Rank(m, S)
      BY <2>3, RankGrows
    <3> QED BY <2>1, <2>2, <3>1
  <2>4. CASE m < k
    <3>1. Rank(m, S) < Rank(k, S)
      BY <2>4, RankGrows
    <3> QED BY <2>1, <2>2, <3>1
  <2> QED BY <2>1, <2>3, <2>4
<1>5. f \in Injection(S, N)
  BY <1>3, <1>4 DEF Injection, IsInjective
<1>6. f \in Surjection(S, N)
  BY <1>2, <1>5, FS_Injection
<1>7. PICK k \in S : f[k] = n
  BY <1>6 DEF Surjection
<1> QED BY <1>7

-----------------------------------------------------------------------------
Shown(d)   == kind = "interfaces" \/ d.name \notin Hidden
Kept(s)    == {k \in DOMAIN s : Shown(s[k])}
Nth(n, S)  == CHOOSE k \in S : Rank(k, S) = n

LEMMA KeptFinite ==
    ASSUME NEW D, NEW s \in Seq(D)
    PROVE  Kept(s) \subseteq Nat /\ IsFiniteSet(Kept(s)) /\ Cardinality(Kept(s)) \in Nat
<1>1. DOMAIN s = 1 .. Len(s) /\ Len(s) \in Nat
  BY LenProperties
<1>2. IsFiniteSet(1 .. Len(s)) /\ Kept(s) \subseteq 1 .. Len(s)
  BY <1>1, FS_Interval DEF Kept
<1>3. IsFiniteSet(Kept(s)) /\ Cardinality(Kept(s)) \in Nat
  BY <1>2, FS_Subset, FS_CardinalityType
<1> QED BY <1>2, <1>3

LEMMA NthIn ==
    ASSUME NEW S, S \subseteq Nat, IsFiniteSet(S), NEW n \in 1 .. Cardinality(S)
    PROVE  Nth(n, S) \in S /\ Rank(Nth(n, S), S) = n
BY RankAll DEF Nth

(* The list of the devices that are rows: the n-th of those that are kept. *)
LEMMA ListedIs ==
    ASSUME NEW D, NEW s \in Seq(D)
    PROVE  /\ Listed(s) \in Seq(D) /\ Len(Listed(s)) = Cardinality(Kept(s))
           /\ \A n \in 1 .. Len(Listed(s)) : /\ Nth(n, Kept(s)) \in DOMAIN s
                                             /\ Nth(n, Kept(s)) \in Kept(s)
                                             /\ Rank(Nth(n, Kept(s)), Kept(s)) = n
                                             /\ Listed(s)[n] = s[Nth(n, Kept(s))]
                                             /\ Listed(s)[n] \in D
<1>1. /\ Kept(s) \subseteq Nat /\ IsFiniteSet(Kept(s)) /\ Cardinality(Kept(s)) \in Nat
      /\ Kept(s) \subseteq DOMAIN s
  BY KeptFinite DEF Kept
<1>2. Listed(s) = [n \in 1 .. Cardinality(Kept(s)) |-> s[Nth(n, Kept(s))]]
  BY DEF Listed, Kept, Shown, Nth
<1>3. ASSUME NEW n \in 1 .. Cardinality(Kept(s))
      PROVE  /\ Nth(n, Kept(s)) \in Kept(s) /\ Nth(n, Kept(s)) \in DOMAIN s
             /\ Rank(Nth(n, Kept(s)), Kept(s)) = n /\ s[Nth(n, Kept(s))] \in D
  <2>1. Nth(n, Kept(s)) \in Kept(s) /\ Rank(Nth(n, Kept(s)), Kept(s)) = n
    BY <1>1, NthIn
  <2>2. \A k \in DOMAIN s : s[k] \in D
    BY LenProperties
  <2> QED BY <1>1, <2>1, <2>2
<1>4. Listed(s) \in Seq(D) /\ Len(Listed(s)) = Cardinality(Kept(s))
  <2> DEFINE c == Cardinality(Kept(s))
             g(n) == s[Nth(n, Kept(s))]
  <2>1. c \in Nat /\ \A n \in 1 .. c : g(n) \in D
    BY <1>1, <1>3
  <2>2. Listed(s) = [n \in 1 .. c |-> g(n)]
    BY <1>2
  <2> HIDE DEF c, g
  <2>3. Listed(s) \in Seq(D)
    BY <2>1, <2>2
  <2>4. Len(Listed(s)) = c
    BY <2>1, <2>2
  <2> QED BY <2>3, <2>4 DEF c
<1>5. \A n \in 1 .. Len(Listed(s)) : Listed(s)[n] = s[Nth(n, Kept(s))]
  BY <1>2, <1>4
<1> QED BY <1>3, <1>4, <1>5

LEMMA SumBytesIs ==
    ASSUME NEW table, NEW n
    PROVE  SumBytes(table, n) = Sum([i \in DOMAIN table |-> table[i].bytes], 0 .. n - 1)
BY DEF SumBytes, SumFunctionOnSet, FoldFunctionOnSet, Sum, MapThenSumSet

-----------------------------------------------------------------------------
(* What the tables, the file of a pass and a response can hold.            *)
Devices  == [name : Names, bytes : 0 .. Boot + moved]
Cells    == [name : Names \cup {""}, bytes : 0 .. Boot + moved, up : BOOLEAN]
Distinct(s) == \A j, k \in DOMAIN s : s[j].name = s[k].name => j = k

WorldTyped ==
    /\ kind \in Kinds
    /\ kernel \in Seq(Devices) /\ Distinct(kernel)
    /\ changes \in 0 .. MaxTurns
    /\ moved \in 0 .. MaxTraffic

PassTyped ==
    /\ rows \in [0 .. TableMax - 1 -> Cells] /\ count \in 0 .. TableMax
    /\ cpc \in {"idle", "row", "counters", "unflag", "flags", "sample"}
    /\ file \in Seq(Devices) /\ ci \in 0 .. TableMax
    /\ addrs \in Seq(Names) /\ passes \in 0 .. MaxTurns
    /\ began \in 0 .. MaxTurns \cup {None} /\ filled \in 0 .. MaxTurns \cup {None}

(* A pass that fills has read the file after the one that filled before,   *)
(* and the devices may have changed since.                                 *)
PassOrder ==
    /\ cpc \in {"counters", "unflag"} => ci < TableMax /\ file # <<>>
    /\ cpc \in {"unflag", "flags"} => kind = "interfaces"
    /\ cpc = "flags" => file = <<>> \/ ci = TableMax
    /\ cpc = "sample" => kind # "filesystems"
    /\ began # None <=> cpc \in {"row", "counters", "unflag", "flags"}
    /\ began <= changes /\ filled <= changes
    /\ began # None => filled <= began
    /\ filled = None => count = 0

ResponseTyped ==
    /\ rpc \in {"idle", "sum", "name", "row"}
    /\ rcount \in 0 .. TableMax /\ ri \in 0 .. rcount /\ rsum \in Nat
    /\ out \in Seq(Cells) /\ reads \in 0 .. MaxReads
    /\ rname \in Names \cup {""}
    /\ floor \in [0 .. TableMax - 1 -> Cells]
    /\ full \in 0 .. MaxTurns \cup {None} /\ full <= filled
    /\ rpc = "row" => ri < rcount
    /\ rpc = "sum" => kind # "filesystems"

SampleTyped ==
    /\ prev \in Nat /\ reported \in Nat /\ first \in Nat \cup {None}

Typed == WorldTyped /\ PassTyped /\ PassOrder /\ ResponseTyped /\ SampleTyped

-----------------------------------------------------------------------------
(* The devices that a pass that began now would list, and the rows.        *)
Now  == Listed(kernel)
Room == Least(Len(Now), TableMax)
Fit(r, d) == r.name = d.name /\ r.bytes <= d.bytes

(* If no device has come or gone since the pass read the file, the rows    *)
(* that it has filled and those that it still has to are the devices there *)
(* are, in their order.                                                    *)
PassComplete ==
    began = changes =>
        /\ Len(file) + ci = Len(Now)
        /\ \A j \in 1 .. Len(file) : Fit(file[j], Now[ci + j])
        /\ \A i \in 0 .. ci - 1 : Fit(rows[i], Now[i + 1])
        /\ cpc \in {"counters", "unflag"} => rows[ci].name = Now[ci + 1].name
        /\ cpc = "unflag" => rows[ci].bytes <= Now[ci + 1].bytes

TableComplete ==
    filled = changes =>
        /\ count = Room
        /\ \A i \in 0 .. Room - 1 : Fit(rows[i], Now[i + 1])

(* No pass then takes a counter back.                                      *)
PassNewer ==
    began = changes /\ filled = changes =>
        \A j \in 1 .. Len(file) :
            ci + j <= TableMax => rows[ci + j - 1].bytes <= file[j].bytes

ResponseSoFar ==
    full = changes =>
        /\ rcount = Room
        /\ \A i \in 0 .. Room - 1 : floor[i].bytes <= rows[i].bytes
        /\ kind # "filesystems" =>
               rsum >= SumBytes(floor, IF rpc = "sum" THEN ri ELSE rcount)
        /\ Len(out) = CASE rpc = "idle" -> rcount [] rpc = "sum" -> 0 [] OTHER -> ri
        /\ \A k \in 1 .. Len(out) : /\ out[k].name = Now[k].name
                                    /\ out[k].bytes >= floor[k - 1].bytes
        /\ rpc = "row" => rname = Now[ri + 1].name

TablesInv == Typed /\ PassComplete /\ TableComplete /\ PassNewer /\ ResponseSoFar

-----------------------------------------------------------------------------
LEMMA Consts ==
    /\ TableMax \in Nat /\ TableMax # 0 /\ Boot \in Nat /\ MaxTraffic \in Nat
    /\ MaxTurns \in Nat /\ MaxReads \in Nat
    /\ FirstNames \in Seq(Names)
    /\ \A j, k \in DOMAIN FirstNames : FirstNames[j] = FirstNames[k] => j = k
BY TablesAssumption

LEMMA BytesNat ==
    ASSUME WorldTyped
    PROVE  /\ moved \in Nat /\ Boot \in Nat
           /\ \A r \in Cells : r.bytes \in Nat
           /\ \A d \in Devices : d.bytes \in Nat
<1>1. moved \in Nat /\ Boot \in Nat
  <2>1. MaxTraffic \in Nat /\ Boot \in Nat
    BY Consts
  <2> QED BY <2>1 DEF WorldTyped
<1>2. \A b \in 0 .. Boot + moved : b \in Nat
  BY <1>1
<1> QED BY <1>1, <1>2 DEF Cells, Devices

(* Devices whose counters grew are listed as they were.                    *)
LEMMA ListedGrows ==
    ASSUME NEW D, NEW s \in Seq(D), NEW t \in Seq(D), Len(s) = Len(t),
           \A k \in 1 .. Len(s) : Fit(s[k], t[k])
    PROVE  /\ Kept(s) = Kept(t)
           /\ Len(Listed(s)) = Len(Listed(t))
           /\ \A n \in 1 .. Len(Listed(s)) : Fit(Listed(s)[n], Listed(t)[n])
<1>1. DOMAIN s = 1 .. Len(s) /\ DOMAIN t = 1 .. Len(s)
  BY LenProperties
<1>2. Kept(s) = Kept(t)
  BY <1>1 DEF Kept, Shown, Fit
<1>3. /\ Len(Listed(s)) = Cardinality(Kept(s)) /\ Len(Listed(t)) = Cardinality(Kept(t))
      /\ \A n \in 1 .. Len(Listed(s)) : Nth(n, Kept(s)) \in DOMAIN s /\ Listed(s)[n] = s[Nth(n, Kept(s))]
      /\ \A n \in 1 .. Len(Listed(t)) : Listed(t)[n] = t[Nth(n, Kept(t))]
  BY ListedIs
<1> QED BY <1>1, <1>2, <1>3

LEMMA NowType ==
    ASSUME WorldTyped
    PROVE  /\ Now \in Seq(Devices) /\ Len(Now) \in Nat
           /\ \A n \in 1 .. Len(Now) : Now[n] \in Devices
           /\ Room \in 0 .. TableMax /\ Room <= Len(Now)
           /\ Room = Len(Now) \/ Room = TableMax
<1>1. kernel \in Seq(Devices)
  BY DEF WorldTyped
<1>2. Now \in Seq(Devices) /\ \A n \in 1 .. Len(Now) : Now[n] \in Devices
  BY <1>1, ListedIs DEF Now
<1>3. Len(Now) \in Nat
  BY <1>2, LenProperties
<1>4. /\ Room \in 0 .. TableMax /\ Room <= Len(Now)
      /\ Room = Len(Now) \/ Room = TableMax
  BY <1>3, Consts DEF Room, Least
<1> QED BY <1>2, <1>3, <1>4

(* A listed device is the one of that name, and has its counter.           *)
LEMMA NowByName ==
    ASSUME WorldTyped, NEW n \in 1 .. Len(Now), NEW k \in DOMAIN kernel,
           kernel[k].name = Now[n].name
    PROVE  kernel[k] = Now[n]
<1>1. kernel \in Seq(Devices) /\ Distinct(kernel)
  BY DEF WorldTyped
<1>2. Nth(n, Kept(kernel)) \in DOMAIN kernel /\ Now[n] = kernel[Nth(n, Kept(kernel))]
  BY <1>1, ListedIs DEF Now
<1>3. k = Nth(n, Kept(kernel))
  BY <1>1, <1>2 DEF Distinct
<1> QED BY <1>2, <1>3

LEMMA NowHas ==
    ASSUME WorldTyped, NEW n \in 1 .. Len(Now)
    PROVE  \E k \in DOMAIN kernel : kernel[k].name = Now[n].name
<1>1. kernel \in Seq(Devices)
  BY DEF WorldTyped
<1> QED BY <1>1, ListedIs DEF Now

LEMMA SameWorld ==
    ASSUME WorldTyped, UNCHANGED <<world, moved>>
    PROVE  WorldTyped' /\ Now' = Now /\ Room' = Room /\ Devices' = Devices /\ Cells' = Cells
BY DEF world, WorldTyped, Now, Room, Listed, Distinct, Devices, Cells

LEMMA InitTables == Init => TablesInv
<1> SUFFICES ASSUME Init PROVE TablesInv
  OBVIOUS
<1>1. /\ kind \in Kinds /\ changes = 0 /\ moved = 0
      /\ kernel = [k \in DOMAIN FirstNames |-> [name |-> FirstNames[k], bytes |-> Boot]]
      /\ rows = [i \in 0 .. TableMax - 1 |-> Blank] /\ count = 0 /\ prev = 0
      /\ cpc = "idle" /\ file = <<>> /\ addrs = <<>> /\ ci = 0 /\ passes = 0
      /\ began = None /\ filled = None
  BY DEF Init
<1>2. /\ rpc = "idle" /\ rcount = 0 /\ ri = 0 /\ rsum = 0 /\ rname = ""
      /\ out = <<>> /\ floor = rows /\ full = None /\ reads = 0
      /\ reported = 0 /\ first = None
  BY DEF Init
<1>3. WorldTyped
  <2>1. DOMAIN FirstNames = 1 .. Len(FirstNames) /\ Len(FirstNames) \in Nat
        /\ \A k \in 1 .. Len(FirstNames) : FirstNames[k] \in Names
    BY Consts, LenProperties
  <2>2. kernel \in Seq(Devices)
    BY <1>1, <2>1, Consts DEF Devices
  <2>3. Distinct(kernel)
    BY <1>1, Consts DEF Distinct
  <2> QED BY <1>1, <2>2, <2>3, Consts DEF WorldTyped
<1>4. PassTyped
  <2>1. Blank \in Cells
    <3>1. "" \in Names \cup {""} /\ 0 \in 0 .. Boot + moved /\ FALSE \in BOOLEAN
      BY <1>1, Consts
    <3> QED BY <3>1 DEF Blank, Cells
  <2>2. rows \in [0 .. TableMax - 1 -> Cells]
    BY <1>1, <2>1
  <2>3. file \in Seq(Devices) /\ addrs \in Seq(Names)
    BY <1>1, EmptySeq
  <2>4. began \in 0 .. MaxTurns \cup {None} /\ filled \in 0 .. MaxTurns \cup {None}
    BY <1>1
  <2>5. ci \in 0 .. TableMax /\ passes \in 0 .. MaxTurns /\ count \in 0 .. TableMax
    BY <1>1, Consts
  <2> QED BY <1>1, <2>2, <2>3, <2>4, <2>5 DEF PassTyped
<1>5. PassOrder
  BY <1>1, Consts DEF PassOrder, None
<1>6. ResponseTyped
  <2>1. out \in Seq(Cells)
    BY <1>2, EmptySeq
  <2>2. floor \in [0 .. TableMax - 1 -> Cells]
    BY <1>2, <1>4 DEF PassTyped
  <2>3. rcount \in 0 .. TableMax /\ ri \in 0 .. rcount /\ rsum \in Nat /\ reads \in 0 .. MaxReads
    <3>1. rcount = 0 /\ ri = 0 /\ rsum = 0 /\ reads = 0
      BY <1>2
    <3> QED BY <3>1, Consts
  <2>4. full \in 0 .. MaxTurns \cup {None} /\ full <= filled
    <3>1. full = None /\ filled = None
      BY <1>1, <1>2
    <3> QED BY <3>1 DEF None
  <2> QED BY <1>2, <2>1, <2>2, <2>3, <2>4 DEF ResponseTyped
<1>7. SampleTyped
  BY <1>1, <1>2 DEF SampleTyped
<1>8. PassComplete /\ TableComplete /\ PassNewer /\ ResponseSoFar
  <2>1. began # changes /\ filled # changes /\ full # changes
    <3>1. changes = 0 /\ full = None /\ filled = None /\ began = None
      BY <1>1, <1>2
    <3> QED BY <3>1 DEF None
  <2> QED BY <2>1 DEF PassComplete, TableComplete, PassNewer, ResponseSoFar
<1> QED BY <1>3, <1>4, <1>5, <1>6, <1>7, <1>8 DEF TablesInv, Typed

-----------------------------------------------------------------------------
LEMMA RangeGrows ==
    ASSUME NEW a \in Nat, NEW m \in Nat, NEW n \in Nat, m <= n
    PROVE  0 .. a + m \subseteq 0 .. a + n
OBVIOUS

(* The types that depend on the bytes moved grow with them.                *)
LEMMA TypesGrow ==
    ASSUME WorldTyped, moved' = moved \/ moved' = moved + 1, kind' = kind
    PROVE  /\ Devices \subseteq Devices' /\ Cells \subseteq Cells'
<1>1. moved \in Nat /\ Boot \in Nat
  BY BytesNat
<1>2. 0 .. Boot + moved \subseteq 0 .. Boot + moved'
  <2>1. moved' \in Nat /\ moved <= moved'
    BY <1>1
  <2> QED BY <1>1, <2>1, RangeGrows
<1> QED BY <1>2 DEF Devices, Cells

LEMMA TrafficWorld ==
    ASSUME WorldTyped, Traffic
    PROVE  /\ WorldTyped' /\ Len(kernel') = Len(kernel)
           /\ \A k \in 1 .. Len(kernel) : Fit(kernel[k], kernel'[k])
           /\ Len(Now') = Len(Now) /\ Room' = Room
           /\ \A n \in 1 .. Len(Now) : Fit(Now[n], Now'[n])
           /\ \A n \in 1 .. Len(Now) : Now'[n] \in Devices'
<1>1. PICK k \in DOMAIN kernel : kernel' = [kernel EXCEPT ![k].bytes = @ + 1]
  BY DEF Traffic
<1>2. moved < MaxTraffic /\ moved' = moved + 1 /\ kind' = kind /\ changes' = changes
  BY DEF Traffic
<1>3. kernel \in Seq(Devices) /\ moved \in Nat /\ Distinct(kernel)
  BY Consts DEF WorldTyped
<1>4. DOMAIN kernel = 1 .. Len(kernel) /\ Len(kernel) \in Nat /\ \A j \in 1 .. Len(kernel) : kernel[j] \in Devices
  BY <1>3, LenProperties
<1> DEFINE new == [kernel[k] EXCEPT !.bytes = @ + 1]
<1>5. new \in Devices' /\ Fit(kernel[k], new)
  <2>1. kernel[k] \in Devices
    BY <1>4
  <2>2. kernel[k].name \in Names /\ kernel[k].bytes \in 0 .. Boot + moved
    BY <2>1 DEF Devices
  <2>3. kernel[k].bytes + 1 \in 0 .. Boot + moved' /\ kernel[k].bytes <= kernel[k].bytes + 1
    BY <1>2, <1>3, <2>2, Consts
  <2>4. new.name = kernel[k].name /\ new.bytes = kernel[k].bytes + 1
    BY <2>1 DEF Devices
  <2>5. new \in Devices'
    BY <2>1, <2>3 DEF Devices
  <2> QED BY <2>3, <2>4, <2>5 DEF Fit
<1>6. kernel \in Seq(Devices')
  BY <1>2, <1>3, TypesGrow, SeqMonotonic
<1>7. /\ kernel' \in Seq(Devices') /\ Len(kernel') = Len(kernel)
      /\ \A j \in 1 .. Len(kernel) : kernel'[j] = IF j = k THEN new ELSE kernel[j]
  <2>1. kernel' = [kernel EXCEPT ![k] = new]
    BY <1>1
  <2> HIDE DEF new
  <2> QED BY <1>4, <1>5, <1>6, <2>1, ExceptSeq
<1>8. \A j \in 1 .. Len(kernel) : Fit(kernel[j], kernel'[j])
  <2> SUFFICES ASSUME NEW j \in 1 .. Len(kernel) PROVE Fit(kernel[j], kernel'[j])
    OBVIOUS
  <2>1. CASE j = k
    BY <1>5, <1>7, <2>1
  <2>2. CASE j # k
    <3>1. kernel'[j] = kernel[j] /\ kernel[j] \in Devices
      BY <1>4, <1>7, <2>2
    <3> QED BY <1>3, <3>1, Consts DEF Fit, Devices
  <2> QED BY <2>1, <2>2
<1>9. Distinct(kernel')
  <2>1. DOMAIN kernel' = DOMAIN kernel
    BY <1>1
  <2> HIDE DEF new
  <2> QED BY <1>3, <1>4, <1>8, <2>1 DEF Distinct, Fit
<1>10. WorldTyped'
  <2>1. moved' \in 0 .. MaxTraffic
    BY <1>2, <1>3, Consts
  <2> HIDE DEF new
  <2> QED BY <1>2, <1>7, <1>9, <2>1 DEF WorldTyped
<1>11. Now' = Listed(kernel')
  BY <1>2 DEF Now, Listed
<1>12. Len(Now') = Len(Now) /\ \A n \in 1 .. Len(Now) : Fit(Now[n], Now'[n])
  BY <1>6, <1>7, <1>8, <1>11, ListedGrows DEF Now
<1>13. Room' = Room
  BY <1>12 DEF Room
<1>14. \A n \in 1 .. Len(Now') : Now'[n] \in Devices'
  BY <1>7, <1>11, ListedIs
<1> QED BY <1>7, <1>8, <1>10, <1>12, <1>13, <1>14

LEMMA TrafficTables == TablesInv /\ Traffic => TablesInv'
<1> SUFFICES ASSUME TablesInv, Traffic PROVE TablesInv'
  OBVIOUS
<1>1. WorldTyped /\ PassTyped /\ PassOrder /\ ResponseTyped /\ SampleTyped
  BY DEF TablesInv, Typed
<1>2. /\ WorldTyped' /\ Len(Now') = Len(Now) /\ Room' = Room
      /\ \A n \in 1 .. Len(Now) : Fit(Now[n], Now'[n])
  BY <1>1, TrafficWorld
<1>3. UNCHANGED <<kind, changes, rows, count, prev, cpc, file, addrs, ci, passes, began, filled>>
  BY DEF Traffic, shared, collector
<1>4. UNCHANGED <<rpc, rcount, ri, rsum, rname, out, reads, floor, full, reported, first>>
  BY DEF Traffic, reader
<1>5. Devices \subseteq Devices' /\ Cells \subseteq Cells'
  BY <1>1, TypesGrow DEF Traffic
<1>6. PassTyped'
  <2>1. file \in Seq(Devices')
    BY <1>1, <1>5, SeqMonotonic DEF PassTyped
  <2>2. rows \in [0 .. TableMax - 1 -> Cells']
    BY <1>1, <1>5 DEF PassTyped
  <2> QED BY <1>1, <1>3, <2>1, <2>2 DEF PassTyped
<1>7. PassOrder'
  BY <1>1, <1>3 DEF PassOrder
<1>8. ResponseTyped'
  <2>1. out \in Seq(Cells')
    BY <1>1, <1>5, SeqMonotonic DEF ResponseTyped
  <2>2. floor \in [0 .. TableMax - 1 -> Cells']
    BY <1>1, <1>5 DEF ResponseTyped
  <2> QED BY <1>1, <1>3, <1>4, <2>1, <2>2 DEF ResponseTyped
<1>9. SampleTyped'
  BY <1>1, <1>3, <1>4 DEF SampleTyped
<1>n. /\ Len(Now) \in Nat /\ Room \in Nat /\ Room <= Len(Now)
      /\ \A n \in 1 .. Len(Now) : Now[n].bytes \in Nat /\ Now'[n].bytes \in Nat
  <2>1. /\ Len(Now) \in Nat /\ Room \in 0 .. TableMax /\ Room <= Len(Now)
        /\ \A n \in 1 .. Len(Now) : Now[n] \in Devices
    BY <1>1, NowType
  <2>2. \A n \in 1 .. Len(Now) : Now'[n] \in Devices'
    BY <1>1, TrafficWorld
  <2>3. moved \in Nat /\ moved' \in Nat
    BY <1>1, <1>2, Consts DEF WorldTyped
  <2> QED BY <2>1, <2>2, <2>3, Consts DEF Devices
<1>10. PassComplete'
  <2> SUFFICES ASSUME began = changes
               PROVE  PassComplete'
    BY <1>3 DEF PassComplete
  <2>1. /\ Len(file) + ci = Len(Now)
        /\ \A j \in 1 .. Len(file) : Fit(file[j], Now[ci + j])
        /\ \A i \in 0 .. ci - 1 : Fit(rows[i], Now[i + 1])
        /\ cpc \in {"counters", "unflag"} => rows[ci].name = Now[ci + 1].name
        /\ cpc = "unflag" => rows[ci].bytes <= Now[ci + 1].bytes
    BY DEF TablesInv, PassComplete
  <2>2. /\ ci \in Nat /\ Len(file) \in Nat
        /\ \A j \in 1 .. Len(file) : file[j].bytes \in Nat
        /\ \A i \in 0 .. TableMax - 1 : rows[i].bytes \in Nat
        /\ cpc \in {"counters", "unflag"} => Len(file) >= 1 /\ ci < TableMax
        /\ ci <= TableMax
    <3>1. file \in Seq(Devices) /\ rows \in [0 .. TableMax - 1 -> Cells] /\ ci \in 0 .. TableMax
      BY <1>1 DEF PassTyped
    <3>2. Len(file) \in Nat /\ \A j \in 1 .. Len(file) : file[j] \in Devices
      BY <3>1, LenProperties
    <3>3. file # <<>> => Len(file) >= 1
      BY <3>1, EmptySeq
    <3>5. \A i \in 0 .. TableMax - 1 : rows[i].bytes \in Nat
      BY <1>1, <3>1, BytesNat
    <3>6. \A j \in 1 .. Len(file) : file[j].bytes \in Nat
      BY <1>1, <3>2, BytesNat
    <3> QED BY <1>1, <3>1, <3>2, <3>3, <3>5, <3>6, Consts DEF PassOrder
  <2>3. \A j \in 1 .. Len(file) : Fit(file[j], Now'[ci + j])
    <3> SUFFICES ASSUME NEW j \in 1 .. Len(file) PROVE Fit(file[j], Now'[ci + j])
      OBVIOUS
    <3>1. ci + j \in 1 .. Len(Now)
      BY <2>1, <2>2
    <3> QED BY <1>2, <1>n, <2>1, <2>2, <3>1 DEF Fit
  <2>4. \A i \in 0 .. ci - 1 : Fit(rows[i], Now'[i + 1])
    <3> SUFFICES ASSUME NEW i \in 0 .. ci - 1 PROVE Fit(rows[i], Now'[i + 1])
      OBVIOUS
    <3>0. i \in 0 .. TableMax - 1
      BY <2>2, Consts
    <3>1. i + 1 \in 1 .. Len(Now) /\ rows[i].bytes \in Nat
      BY <2>1, <2>2, <3>0
    <3> QED BY <1>2, <1>n, <2>1, <3>1 DEF Fit
  <2>5. cpc \in {"counters", "unflag"} =>
           Fit(Now[ci + 1], Now'[ci + 1]) /\ ci + 1 \in 1 .. Len(Now) /\ rows[ci].bytes \in Nat
    <3> SUFFICES ASSUME cpc \in {"counters", "unflag"}
                 PROVE  Fit(Now[ci + 1], Now'[ci + 1]) /\ ci + 1 \in 1 .. Len(Now) /\ rows[ci].bytes \in Nat
      OBVIOUS
    <3>1. ci \in 0 .. TableMax - 1 /\ ci + 1 \in 1 .. Len(Now)
      BY <2>1, <2>2, Consts
    <3> QED BY <1>2, <2>2, <3>1
  <2>6. cpc \in {"counters", "unflag"} => rows[ci].name = Now'[ci + 1].name
    BY <2>1, <2>5 DEF Fit
  <2>7. cpc = "unflag" => rows[ci].bytes <= Now'[ci + 1].bytes
    <3> SUFFICES ASSUME cpc = "unflag" PROVE rows[ci].bytes <= Now'[ci + 1].bytes
      OBVIOUS
    <3>1. /\ rows[ci].bytes <= Now[ci + 1].bytes /\ Now[ci + 1].bytes <= Now'[ci + 1].bytes
          /\ rows[ci].bytes \in Nat /\ Now[ci + 1].bytes \in Nat /\ Now'[ci + 1].bytes \in Nat
      BY <2>1, <2>5, <1>n DEF Fit
    <3> QED BY <3>1
  <2> QED BY <1>2, <1>3, <2>1, <2>3, <2>4, <2>6, <2>7 DEF PassComplete
<1>11. TableComplete'
  <2> SUFFICES ASSUME filled = changes PROVE TableComplete'
    BY <1>3 DEF TableComplete
  <2>1. count = Room /\ \A i \in 0 .. Room - 1 : Fit(rows[i], Now[i + 1])
    BY DEF TablesInv, TableComplete
  <2>2. \A i \in 0 .. Room - 1 : Fit(rows[i], Now'[i + 1])
    <3> SUFFICES ASSUME NEW i \in 0 .. Room - 1 PROVE Fit(rows[i], Now'[i + 1])
      OBVIOUS
    <3>1. i + 1 \in 1 .. Len(Now) /\ i \in 0 .. TableMax - 1
      BY <1>1, <1>n, NowType, Consts
    <3>2. rows[i].bytes \in Nat
      <4>1. rows[i] \in Cells
        BY <1>1, <3>1 DEF PassTyped
      <4> QED BY <1>1, <4>1, BytesNat
    <3> QED BY <1>2, <1>n, <2>1, <3>1, <3>2 DEF Fit
  <2> QED BY <1>2, <1>3, <2>1, <2>2 DEF TableComplete
<1>12. PassNewer'
  BY <1>3 DEF TablesInv, PassNewer
<1>13. ResponseSoFar'
  <2> SUFFICES ASSUME full = changes PROVE ResponseSoFar'
    BY <1>3, <1>4 DEF ResponseSoFar
  <2>1. /\ rcount = Room
        /\ \A i \in 0 .. Room - 1 : floor[i].bytes <= rows[i].bytes
        /\ kind # "filesystems" =>
               rsum >= SumBytes(floor, IF rpc = "sum" THEN ri ELSE rcount)
        /\ Len(out) = CASE rpc = "idle" -> rcount [] rpc = "sum" -> 0 [] OTHER -> ri
        /\ \A k \in 1 .. Len(out) : /\ out[k].name = Now[k].name
                                    /\ out[k].bytes >= floor[k - 1].bytes
        /\ rpc = "row" => rname = Now[ri + 1].name
    BY DEF TablesInv, ResponseSoFar
  <2>2. Len(out) <= rcount /\ Len(out) \in Nat /\ ri \in 0 .. rcount /\ (rpc = "row" => ri < rcount) /\ rcount \in Nat
    <3>1. /\ rcount \in 0 .. TableMax /\ ri \in 0 .. rcount /\ (rpc = "row" => ri < rcount)
          /\ rpc \in {"idle", "sum", "name", "row"}
      BY <1>1 DEF ResponseTyped
    <3> QED BY <2>1, <3>1, Consts
  <2>3. \A k \in 1 .. Len(out) : Now'[k].name = Now[k].name
    <3> SUFFICES ASSUME NEW k \in 1 .. Len(out) PROVE Now'[k].name = Now[k].name
      OBVIOUS
    <3>1. k \in 1 .. Len(Now)
      BY <1>n, <2>1, <2>2
    <3> QED BY <1>2, <3>1 DEF Fit
  <2>4. rpc = "row" => Now'[ri + 1].name = Now[ri + 1].name
    <3> SUFFICES ASSUME rpc = "row" PROVE Now'[ri + 1].name = Now[ri + 1].name
      OBVIOUS
    <3>1. ri + 1 \in 1 .. Len(Now)
      BY <1>n, <2>1, <2>2
    <3> QED BY <1>2, <3>1 DEF Fit
  <2>5. SumBytes(floor, IF rpc = "sum" THEN ri ELSE rcount)' = SumBytes(floor, IF rpc = "sum" THEN ri ELSE rcount)
    BY <1>4 DEF SumBytes
  <2> QED BY <1>2, <1>3, <1>4, <2>1, <2>3, <2>4, <2>5 DEF ResponseSoFar
<1> QED BY <1>2, <1>6, <1>7, <1>8, <1>9, <1>10, <1>11, <1>12, <1>13 DEF TablesInv, Typed

(* A sequence without its k-th element.                                    *)
LEMMA RemoveAtIs ==
    ASSUME NEW D, NEW s \in Seq(D), NEW k \in 1 .. Len(s)
    PROVE  /\ RemoveAt(s, k) \in Seq(D) /\ Len(RemoveAt(s, k)) = Len(s) - 1
           /\ \A j \in 1 .. Len(s) - 1 : RemoveAt(s, k)[j] = s[IF j < k THEN j ELSE j + 1]
<1> DEFINE n == Len(s)
           a == SubSeq(s, 1, k - 1)
           b == SubSeq(s, k + 1, n)
<1>1. n \in Nat /\ k \in 1 .. n /\ \A i \in 1 .. n : s[i] \in D
  BY LenProperties
<1>2. a \in Seq(D) /\ Len(a) = k - 1 /\ \A i \in 1 .. k - 1 : a[i] = s[i]
  BY <1>1, SubSeqProperties
<1>3. b \in Seq(D) /\ Len(b) = n - k /\ \A i \in 1 .. n - k : b[i] = s[k + i]
  <2>1. \A i \in k + 1 .. n : s[i] \in D
    BY <1>1
  <2>2. k + 1 \in Int /\ n \in Int
    BY <1>1
  <2>3. b \in Seq(D) /\ Len(b) = IF k + 1 <= n THEN n - (k + 1) + 1 ELSE 0
    BY <2>1, <2>2, SubSeqProperties
  <2>4. \A i \in 1 .. n - (k + 1) + 1 : b[i] = s[(k + 1) + i - 1]
    BY <2>1, <2>2, SubSeqProperties
  <2>5. n - (k + 1) + 1 = n - k /\ (~(k + 1 <= n) => n - k = 0)
    BY <1>1
  <2>6. \A i \in 1 .. n - k : (k + 1) + i - 1 = k + i
    BY <1>1
  <2> HIDE DEF b
  <2> QED BY <2>3, <2>4, <2>5, <2>6
<1> HIDE DEF a, b
<1>4. a \o b \in Seq(D) /\ Len(a \o b) = Len(a) + Len(b)
      /\ \A i \in 1 .. Len(a) + Len(b) : (a \o b)[i] = IF i <= Len(a) THEN a[i] ELSE b[i - Len(a)]
  BY <1>2, <1>3, ConcatProperties
<1>5. RemoveAt(s, k) = a \o b
  BY DEF RemoveAt, a, b
<1>6. Len(a) + Len(b) = n - 1
  BY <1>1, <1>2, <1>3
<1>7. \A j \in 1 .. n - 1 : (a \o b)[j] = s[IF j < k THEN j ELSE j + 1]
  <2> SUFFICES ASSUME NEW j \in 1 .. n - 1 PROVE (a \o b)[j] = s[IF j < k THEN j ELSE j + 1]
    OBVIOUS
  <2>1. (a \o b)[j] = IF j <= k - 1 THEN a[j] ELSE b[j - (k - 1)]
    BY <1>2, <1>4, <1>6
  <2>2. CASE j < k
    <3>1. j <= k - 1 /\ j \in 1 .. k - 1
      BY <1>1, <2>2
    <3> QED BY <1>2, <2>1, <2>2, <3>1
  <2>3. CASE ~(j < k)
    <3>1. ~(j <= k - 1) /\ j - (k - 1) \in 1 .. n - k /\ k + (j - (k - 1)) = j + 1
      BY <1>1, <2>3
    <3> QED BY <1>3, <2>1, <2>3, <3>1
  <2> QED BY <2>2, <2>3
<1> QED BY <1>4, <1>5, <1>6, <1>7 DEF n

LEMMA ChangeWorld ==
    ASSUME WorldTyped, PassTyped, Plug \/ Unplug
    PROVE  WorldTyped'
<1>1. passes + changes < MaxTurns /\ changes' = changes + 1 /\ kind' = kind /\ moved' = moved
  BY DEF Plug, Unplug, Change, tally
<1>2. kernel \in Seq(Devices) /\ Distinct(kernel) /\ changes \in 0 .. MaxTurns /\ passes \in 0 .. MaxTurns
  BY DEF WorldTyped, PassTyped
<1>3. changes' \in 0 .. MaxTurns
  BY <1>1, <1>2, Consts
<1>4. Devices' = Devices
  BY <1>1 DEF Devices
<1>5. DOMAIN kernel = 1 .. Len(kernel) /\ Len(kernel) \in Nat
  BY <1>2, LenProperties
<1>6. CASE Plug
  <2>1. PICK n \in Names \ {kernel[k].name : k \in DOMAIN kernel} :
           kernel' = Append(kernel, [name |-> n, bytes |-> 0])
    BY <1>6 DEF Plug
  <2> DEFINE d == [name |-> n, bytes |-> 0]
  <2>2. d \in Devices
    <3>1. 0 \in 0 .. Boot + moved
      BY BytesNat
    <3> QED BY <2>1, <3>1 DEF Devices
  <2>3. d.name = n
    OBVIOUS
  <2> HIDE DEF d
  <2>4. /\ kernel' \in Seq(Devices) /\ Len(kernel') = Len(kernel) + 1
        /\ \A j \in 1 .. Len(kernel) : kernel'[j] = kernel[j]
        /\ kernel'[Len(kernel) + 1] = d
    BY <1>2, <2>1, <2>2, AppendProperties DEF d
  <2>5. Distinct(kernel')
    <3> SUFFICES ASSUME NEW j \in DOMAIN kernel', NEW k \in DOMAIN kernel', kernel'[j].name = kernel'[k].name
                 PROVE  j = k
      BY DEF Distinct
    <3>1. DOMAIN kernel' = 1 .. Len(kernel) + 1
      BY <2>4, LenProperties
    <3>2. j \in 1 .. Len(kernel) \/ j = Len(kernel) + 1
      BY <1>5, <3>1
    <3>3. k \in 1 .. Len(kernel) \/ k = Len(kernel) + 1
      BY <1>5, <3>1
    <3>4. \A i \in 1 .. Len(kernel) : kernel'[i].name # n
      BY <1>5, <2>1, <2>4
    <3> QED BY <1>2, <1>5, <2>3, <2>4, <3>2, <3>3, <3>4 DEF Distinct
  <2> QED BY <1>1, <1>3, <1>4, <2>4, <2>5 DEF WorldTyped
<1>7. CASE Unplug
  <2>1. PICK n \in DOMAIN kernel : kernel' = RemoveAt(kernel, n)
    BY <1>7 DEF Unplug
  <2>2. /\ kernel' \in Seq(Devices) /\ Len(kernel') = Len(kernel) - 1
        /\ \A j \in 1 .. Len(kernel) - 1 : kernel'[j] = kernel[IF j < n THEN j ELSE j + 1]
    BY <1>2, <1>5, <2>1, RemoveAtIs
  <2>3. Distinct(kernel')
    <3> SUFFICES ASSUME NEW j \in DOMAIN kernel', NEW k \in DOMAIN kernel', kernel'[j].name = kernel'[k].name
                 PROVE  j = k
      BY DEF Distinct
    <3>1. DOMAIN kernel' = 1 .. Len(kernel) - 1
      BY <2>2, LenProperties
    <3> DEFINE x == IF j < n THEN j ELSE j + 1
               y == IF k < n THEN k ELSE k + 1
    <3>2. x \in DOMAIN kernel /\ y \in DOMAIN kernel
      BY <1>5, <3>1
    <3>3. kernel[x].name = kernel[y].name
      BY <2>2, <3>1
    <3>4. x = y
      <4> HIDE DEF x, y
      <4> QED BY <1>2, <3>2, <3>3 DEF Distinct
    <3> QED BY <1>5, <3>1, <3>4
  <2> QED BY <1>1, <1>2, <1>3, <1>4, <2>2, <2>3 DEF WorldTyped
<1> QED BY <1>6, <1>7

LEMMA ChangeTables == TablesInv /\ (Plug \/ Unplug) => TablesInv'
<1> SUFFICES ASSUME TablesInv, Plug \/ Unplug PROVE TablesInv'
  OBVIOUS
<1>1. WorldTyped /\ PassTyped /\ PassOrder /\ ResponseTyped /\ SampleTyped
  BY DEF TablesInv, Typed
<1>2. WorldTyped'
  BY <1>1, ChangeWorld
<1>3. UNCHANGED <<kind, moved, rows, count, prev, cpc, file, addrs, ci, passes, began, filled>>
      /\ changes' = changes + 1
  BY DEF Plug, Unplug, Change, shared, collector, tally
<1>4. UNCHANGED <<rpc, rcount, ri, rsum, rname, out, reads, floor, full, reported, first>>
  BY DEF Plug, Unplug, Change, reader, tally
<1>5. Devices' = Devices /\ Cells' = Cells
  BY <1>3 DEF Devices, Cells
<1>6. PassTyped'
  BY <1>1, <1>3, <1>5 DEF PassTyped
<1>7. changes \in Nat /\ began \in Int /\ filled \in Int /\ full \in Int
      /\ began <= changes /\ filled <= changes /\ full <= filled
  <2>1. changes \in 0 .. MaxTurns /\ {began, filled, full} \subseteq 0 .. MaxTurns \cup {None}
    BY <1>1 DEF WorldTyped, PassTyped, ResponseTyped
  <2>2. began <= changes /\ filled <= changes /\ full <= filled
    BY <1>1 DEF PassOrder, ResponseTyped
  <2> QED BY <2>1, <2>2, Consts DEF None
<1>8. PassOrder'
  <2>1. began <= changes + 1 /\ filled <= changes + 1
    BY <1>7
  <2> QED BY <1>1, <1>3, <2>1 DEF PassOrder
<1>9. ResponseTyped' /\ SampleTyped'
  BY <1>1, <1>3, <1>4, <1>5 DEF ResponseTyped, SampleTyped
<1>10. began' # changes' /\ filled' # changes' /\ full' # changes'
  BY <1>3, <1>4, <1>7
<1>11. PassComplete' /\ TableComplete' /\ PassNewer' /\ ResponseSoFar'
  BY <1>10 DEF PassComplete, TableComplete, PassNewer, ResponseSoFar
<1> QED BY <1>2, <1>6, <1>8, <1>9, <1>11 DEF TablesInv, Typed

LEMMA Facts ==
    ASSUME Typed
    PROVE  /\ ci \in Nat /\ ci <= TableMax /\ TableMax \in Nat /\ TableMax # 0 /\ count \in 0 .. TableMax
           /\ file \in Seq(Devices) /\ Len(file) \in Nat
           /\ \A j \in 1 .. Len(file) : file[j] \in Devices /\ file[j].bytes \in Nat /\ file[j].name \in Names
           /\ \A i \in 0 .. TableMax - 1 : rows[i] \in Cells /\ rows[i].bytes \in Nat
           /\ \A i \in 0 .. TableMax - 1 : floor[i] \in Cells /\ floor[i].bytes \in Nat
           /\ rows \in [0 .. TableMax - 1 -> Cells]
           /\ changes \in Nat /\ began \in Int /\ filled \in Int /\ full \in Int
           /\ began <= changes /\ filled <= changes /\ full <= filled
           /\ None < 0
<1>1. WorldTyped /\ PassTyped /\ PassOrder /\ ResponseTyped
  BY DEF Typed
<1>2. ci \in 0 .. TableMax /\ file \in Seq(Devices) /\ rows \in [0 .. TableMax - 1 -> Cells]
      /\ floor \in [0 .. TableMax - 1 -> Cells] /\ count \in 0 .. TableMax
  BY <1>1 DEF PassTyped, ResponseTyped
<1>3. TableMax \in Nat /\ TableMax # 0 /\ MaxTurns \in Nat
  BY Consts
<1>4. Len(file) \in Nat /\ \A j \in 1 .. Len(file) : file[j] \in Devices
  BY <1>2, LenProperties
<1>5. \A j \in 1 .. Len(file) : file[j].bytes \in Nat /\ file[j].name \in Names
  <2>1. \A d \in Devices : d.bytes \in Nat
    BY <1>1, BytesNat
  <2>2. \A d \in Devices : d.name \in Names
    BY DEF Devices
  <2> QED BY <1>4, <2>1, <2>2
<1>6. \A i \in 0 .. TableMax - 1 : rows[i] \in Cells /\ rows[i].bytes \in Nat /\ floor[i] \in Cells /\ floor[i].bytes \in Nat
  BY <1>1, <1>2, BytesNat
<1>7. changes \in 0 .. MaxTurns /\ {began, filled, full} \subseteq 0 .. MaxTurns \cup {None}
      /\ began <= changes /\ filled <= changes /\ full <= filled
  BY <1>1 DEF WorldTyped, PassTyped, PassOrder, ResponseTyped
<1>8. changes \in Nat /\ began \in Int /\ filled \in Int /\ full \in Int /\ None < 0
  BY <1>3, <1>7 DEF None
<1> QED BY <1>2, <1>3, <1>4, <1>5, <1>6, <1>7, <1>8

LEMMA FileFacts ==
    ASSUME Typed, file # <<>>
    PROVE  /\ 1 \in 1 .. Len(file) /\ Len(file) >= 1 /\ Head(file) = file[1] /\ file[1] \in Devices
           /\ Tail(file) \in Seq(Devices) /\ Len(Tail(file)) = Len(file) - 1
           /\ \A j \in 1 .. Len(file) - 1 : Tail(file)[j] = file[j + 1] /\ j + 1 \in 1 .. Len(file)
<1>1. file \in Seq(Devices) /\ Len(file) \in Nat /\ \A j \in 1 .. Len(file) : file[j] \in Devices
  BY Facts
<1>2. Len(file) >= 1 /\ 1 \in 1 .. Len(file)
  BY <1>1, EmptySeq
<1>3. Tail(file) \in Seq(Devices) /\ Len(Tail(file)) = Len(file) - 1
      /\ \A i \in 1 .. Len(Tail(file)) : Tail(file)[i] = file[i + 1]
  BY <1>1, HeadTailProperties
<1>4. Head(file) = file[1]
  BY <1>1
<1>5. \A j \in 1 .. Len(file) - 1 : j + 1 \in 1 .. Len(file)
  BY <1>1
<1> QED BY <1>1, <1>2, <1>3, <1>4, <1>5

(* A step of a pass leaves a response as it was, if it takes no counter of *)
(* a row back that the response relies on.                                 *)
LEMMA PassResponse ==
    ASSUME TablesInv, UNCHANGED <<world, moved, reader>>,
           full <= filled', full = changes => \A i \in 0 .. Room - 1 : rows[i].bytes <= rows'[i].bytes,
           rows' \in [0 .. TableMax - 1 -> Cells]
    PROVE  ResponseTyped' /\ ResponseSoFar'
<1>1. Typed /\ WorldTyped /\ ResponseTyped /\ ResponseSoFar
  BY DEF TablesInv, Typed
<1>2. Now' = Now /\ Room' = Room /\ Cells' = Cells /\ kind' = kind /\ changes' = changes
  BY <1>1, SameWorld DEF world
<1>3. UNCHANGED <<rpc, rcount, ri, rsum, rname, out, reads, floor, full>>
  BY DEF reader
<1>4. ResponseTyped'
  BY <1>1, <1>2, <1>3 DEF ResponseTyped
<1>5. ResponseSoFar'
  <2> SUFFICES ASSUME full = changes PROVE ResponseSoFar'
    BY <1>2, <1>3 DEF ResponseSoFar
  <2>1. Room \in 0 .. TableMax
    BY <1>1, NowType
  <2>2. \A i \in 0 .. Room - 1 : floor[i].bytes <= rows'[i].bytes
    <3> SUFFICES ASSUME NEW i \in 0 .. Room - 1 PROVE floor[i].bytes <= rows'[i].bytes
      OBVIOUS
    <3>1. i \in 0 .. TableMax - 1
      BY <2>1, Consts
    <3>2. floor[i].bytes \in Nat /\ rows[i].bytes \in Nat /\ rows'[i].bytes \in Nat
      BY <1>1, <3>1, Facts, BytesNat
    <3>3. floor[i].bytes <= rows[i].bytes /\ rows[i].bytes <= rows'[i].bytes
      BY <1>1 DEF ResponseSoFar
    <3> QED BY <3>2, <3>3
  <2>3. SumBytes(floor, IF rpc = "sum" THEN ri ELSE rcount)' = SumBytes(floor, IF rpc = "sum" THEN ri ELSE rcount)
    BY <1>3 DEF SumBytes
  <2> QED BY <1>1, <1>2, <1>3, <2>2, <2>3 DEF ResponseSoFar
<1> QED BY <1>4, <1>5

-----------------------------------------------------------------------------
LEMMA ReadFileTables == TablesInv /\ ReadFile => TablesInv'
<1> SUFFICES ASSUME TablesInv, ReadFile PROVE TablesInv'
  OBVIOUS
<1>1. Typed /\ WorldTyped /\ PassTyped /\ PassOrder /\ SampleTyped
  BY DEF TablesInv, Typed
<1>2. /\ cpc = "idle" /\ passes + changes < MaxTurns
      /\ cpc' = "row" /\ passes' = passes + 1 /\ ci' = 0 /\ file' = Now /\ began' = changes
      /\ UNCHANGED <<world, shared, addrs, filled, reader, tally>>
  BY DEF ReadFile, Begin, Now
<1>3. UNCHANGED <<kind, changes, moved, rows, count, prev, addrs, filled, reported, first>>
  BY <1>2 DEF world, shared, tally
<1>4. WorldTyped' /\ Now' = Now /\ Room' = Room /\ Devices' = Devices /\ Cells' = Cells
  BY <1>1, <1>2, <1>3, SameWorld
<1>5. Now \in Seq(Devices) /\ Len(Now) \in Nat /\ Room \in 0 .. TableMax /\ Room <= Len(Now)
      /\ (Room = Len(Now) \/ Room = TableMax) /\ \A n \in 1 .. Len(Now) : Now[n] \in Devices
  BY <1>1, NowType
<1>f. changes \in Nat /\ filled \in Int /\ filled <= changes /\ None < 0 /\ TableMax \in Nat
  BY <1>1, Facts
<1>6. PassTyped'
  <2>1. passes' \in 0 .. MaxTurns /\ began' \in 0 .. MaxTurns
    BY <1>1, <1>2, Consts DEF PassTyped, WorldTyped
  <2> QED BY <1>1, <1>2, <1>3, <1>4, <1>5, <2>1, Consts DEF PassTyped
<1>7. PassOrder'
  <2>1. began' # None /\ began' <= changes /\ filled <= began'
    BY <1>2, <1>f
  <2> QED BY <1>1, <1>2, <1>3, <2>1 DEF PassOrder
<1>8. SampleTyped'
  BY <1>1, <1>3 DEF SampleTyped
<1>9. ResponseTyped' /\ ResponseSoFar'
  <2>1. rows \in [0 .. TableMax - 1 -> Cells] /\ \A i \in 0 .. TableMax - 1 : rows[i].bytes <= rows[i].bytes
    BY <1>1, Facts
  <2>2. full <= filled'
    BY <1>1, <1>3, Facts
  <2>3. \A i \in 0 .. Room - 1 : i \in 0 .. TableMax - 1
    BY <1>5, <1>f
  <2> QED BY <1>2, <1>3, <2>1, <2>2, <2>3, PassResponse
<1>10. PassComplete'
  <2>1. \A j \in 1 .. Len(Now) : 0 + j = j /\ Fit(Now[j], Now[j])
    <3>1. \A j \in 1 .. Len(Now) : Now[j].bytes \in Nat
      BY <1>1, <1>5, BytesNat
    <3> QED BY <1>5, <3>1 DEF Fit
  <2> QED BY <1>2, <1>4, <1>5, <2>1 DEF PassComplete
<1>11. TableComplete'
  BY <1>3, <1>4 DEF TablesInv, TableComplete
<1>12. PassNewer'
  <2> SUFFICES ASSUME filled = changes, NEW j \in 1 .. Len(Now), j <= TableMax
               PROVE  rows[j - 1].bytes <= Now[j].bytes
    BY <1>2, <1>3 DEF PassNewer
  <2>1. j - 1 \in 0 .. Room - 1 /\ (j - 1) + 1 = j
    BY <1>5, <1>f
  <2> QED BY <2>1 DEF TablesInv, TableComplete, Fit
<1> QED BY <1>4, <1>6, <1>7, <1>8, <1>9, <1>10, <1>11, <1>12 DEF TablesInv, Typed

(* A pass that cannot read, and the sample, leave the table as it is.      *)
LEMMA IdleTables ==
    ASSUME TablesInv, ReadFails \/ Sample
    PROVE  TablesInv'
<1>1. Typed /\ WorldTyped /\ PassTyped /\ PassOrder /\ SampleTyped
  BY DEF TablesInv, Typed
<1>2. /\ cpc \in {"idle", "sample"} /\ cpc' \in {"idle", "sample"}
      /\ (cpc' = "sample" => kind # "filesystems") /\ passes' \in 0 .. MaxTurns /\ ci' \in 0 .. TableMax
      /\ UNCHANGED <<world, rows, count, file, addrs, began, filled, reader, moved>>
      /\ prev' \in Nat /\ reported' \in Nat /\ first' \in Nat \cup {None}
  <2>1. CASE ReadFails
    <3>1. /\ cpc = "idle" /\ passes + changes < MaxTurns /\ cpc' = AfterTable
          /\ passes' = passes + 1 /\ ci' = 0
          /\ UNCHANGED <<world, shared, file, addrs, began, filled, reader, tally>>
      BY <2>1 DEF ReadFails, Begin
    <3>2. passes' \in 0 .. MaxTurns /\ ci' \in 0 .. TableMax
      BY <1>1, <3>1, Consts DEF PassTyped, WorldTyped
    <3> QED BY <1>1, <3>1, <3>2 DEF AfterTable, shared, tally, SampleTyped
  <2>2. CASE Sample
    <3>1. /\ cpc = "sample" /\ cpc' = "idle"
          /\ \/ /\ reported' = reported + Delta(SumTable, prev) /\ prev' = SumTable
                /\ first' = IF first = None /\ filled # None THEN reported' ELSE first
             \/ UNCHANGED <<reported, prev, first>>
          /\ UNCHANGED <<world, rows, count, file, addrs, ci, passes, began, filled, reader, moved>>
      BY <2>2 DEF Sample
    <3>2. SumTable \in Nat
      <4>1. Least(count, TableMax) \in 0 .. TableMax
        BY <1>1, Facts DEF Least
      <4> DEFINE n == Least(count, TableMax)
                 f == [i \in DOMAIN rows |-> rows[i].bytes]
      <4>2. n \in Nat /\ \A i \in 0 .. n - 1 : i \in 0 .. TableMax - 1
        BY <4>1, Consts
      <4>3. \A i \in 0 .. n - 1 : f[i] \in Nat
        <5>1. DOMAIN rows = 0 .. TableMax - 1
          BY <1>1, Facts
        <5> HIDE DEF n
        <5> QED BY <1>1, <4>2, <5>1, Facts
      <4>4. IsFiniteSet(0 .. n - 1)
        <5> HIDE DEF n
        <5> QED BY <4>2, FS_Interval
      <4> HIDE DEF f
      <4>5. Sum(f, 0 .. n - 1) \in Nat
        BY <4>3, <4>4, SumType
      <4> QED BY <4>5, SumBytesIs DEF SumTable, f
    <3>3. Delta(SumTable, prev) \in Nat
      BY <1>1, <3>2 DEF Delta, SampleTyped
    <3>4. reported + Delta(SumTable, prev) \in Nat
      BY <1>1, <3>3 DEF SampleTyped
    <3> QED BY <1>1, <3>1, <3>2, <3>4 DEF PassTyped, SampleTyped
  <2> QED BY <2>1, <2>2
<1>3. WorldTyped' /\ Now' = Now /\ Room' = Room /\ Devices' = Devices /\ Cells' = Cells
      /\ kind' = kind /\ changes' = changes
  BY <1>1, <1>2, SameWorld DEF world
<1>4. PassTyped'
  BY <1>1, <1>2, <1>3 DEF PassTyped
<1>5. PassOrder'
  BY <1>1, <1>2, <1>3 DEF PassOrder
<1>6. SampleTyped'
  BY <1>2 DEF SampleTyped
<1>7. ResponseTyped' /\ ResponseSoFar'
  <2>1. rows \in [0 .. TableMax - 1 -> Cells] /\ \A i \in 0 .. TableMax - 1 : rows[i].bytes <= rows[i].bytes
    BY <1>1, Facts
  <2>2. full <= filled' /\ TableMax \in Nat
    BY <1>1, <1>2, Facts
  <2>3. \A i \in 0 .. Room - 1 : i \in 0 .. TableMax - 1
    <3>1. Room \in 0 .. TableMax
      BY <1>1, NowType
    <3> QED BY <2>2, <3>1
  <2> QED BY <1>2, <2>1, <2>2, <2>3, PassResponse
<1>8. PassComplete' /\ PassNewer'
  <2>1. began' = None /\ changes' \in Nat /\ None < 0
    BY <1>1, <1>2, <1>3, Facts DEF PassOrder
  <2> QED BY <2>1 DEF PassComplete, PassNewer
<1>9. TableComplete'
  BY <1>2, <1>3 DEF TablesInv, TableComplete
<1> QED BY <1>3, <1>4, <1>5, <1>6, <1>7, <1>8, <1>9 DEF TablesInv, Typed

(* One cell of a row is stored.                                            *)
StoredName(v)  == rows' = [rows EXCEPT ![ci]["name"] = v]
StoredBytes(v) == rows' = [rows EXCEPT ![ci]["bytes"] = v]
StoredUp(v)    == rows' = [rows EXCEPT ![ci]["up"] = v]
Others         == \A i \in 0 .. TableMax - 1 : i # ci => rows'[i] = rows[i]

LEMMA NameStored ==
    ASSUME Typed, ci < TableMax, NEW v \in Names, StoredName(v)
    PROVE  /\ rows' \in [0 .. TableMax - 1 -> Cells] /\ Others /\ ci \in 0 .. TableMax - 1
           /\ rows'[ci].name = v /\ rows'[ci].bytes = rows[ci].bytes
<1>1. ci \in 0 .. TableMax - 1 /\ rows \in [0 .. TableMax - 1 -> Cells]
  BY Facts
<1>2. [rows[ci] EXCEPT !["name"] = v] \in Cells
  BY <1>1 DEF Cells
<1>3. \A i \in 0 .. TableMax - 1 : rows'[i] = IF i = ci THEN [rows[ci] EXCEPT !["name"] = v] ELSE rows[i]
  BY <1>1 DEF StoredName
<1>4. rows' \in [0 .. TableMax - 1 -> Cells]
  <2>1. rows' = [rows EXCEPT ![ci] = [rows[ci] EXCEPT !["name"] = v]]
    BY <1>1 DEF StoredName
  <2> QED BY <1>1, <1>2, <2>1
<1>5. rows'[ci].name = v /\ rows'[ci].bytes = rows[ci].bytes
  BY <1>1, <1>3 DEF Cells
<1> QED BY <1>1, <1>3, <1>4, <1>5 DEF Others

LEMMA BytesStored ==
    ASSUME Typed, ci < TableMax, NEW v \in 0 .. Boot + moved, StoredBytes(v)
    PROVE  /\ rows' \in [0 .. TableMax - 1 -> Cells] /\ Others /\ ci \in 0 .. TableMax - 1
           /\ rows'[ci].name = rows[ci].name /\ rows'[ci].bytes = v
<1>1. ci \in 0 .. TableMax - 1 /\ rows \in [0 .. TableMax - 1 -> Cells]
  BY Facts
<1>2. [rows[ci] EXCEPT !["bytes"] = v] \in Cells
  BY <1>1 DEF Cells
<1>3. \A i \in 0 .. TableMax - 1 : rows'[i] = IF i = ci THEN [rows[ci] EXCEPT !["bytes"] = v] ELSE rows[i]
  BY <1>1 DEF StoredBytes
<1>4. rows' \in [0 .. TableMax - 1 -> Cells]
  <2>1. rows' = [rows EXCEPT ![ci] = [rows[ci] EXCEPT !["bytes"] = v]]
    BY <1>1 DEF StoredBytes
  <2> QED BY <1>1, <1>2, <2>1
<1>5. rows'[ci].name = rows[ci].name /\ rows'[ci].bytes = v
  BY <1>1, <1>3 DEF Cells
<1> QED BY <1>1, <1>3, <1>4, <1>5 DEF Others

LEMMA UpStored ==
    ASSUME NEW i \in 0 .. TableMax - 1, NEW v \in BOOLEAN, Typed, rows' = [rows EXCEPT ![i]["up"] = v]
    PROVE  /\ rows' \in [0 .. TableMax - 1 -> Cells]
           /\ \A j \in 0 .. TableMax - 1 : rows'[j].name = rows[j].name /\ rows'[j].bytes = rows[j].bytes
<1>1. rows \in [0 .. TableMax - 1 -> Cells]
  BY Facts
<1>2. [rows[i] EXCEPT !["up"] = v] \in Cells
  BY <1>1 DEF Cells
<1>3. \A j \in 0 .. TableMax - 1 : rows'[j] = IF j = i THEN [rows[i] EXCEPT !["up"] = v] ELSE rows[j]
  BY <1>1
<1>4. rows' \in [0 .. TableMax - 1 -> Cells]
  <2>1. rows' = [rows EXCEPT ![i] = [rows[i] EXCEPT !["up"] = v]]
    BY <1>1
  <2> QED BY <1>1, <1>2, <2>1
<1>5. [rows[i] EXCEPT !["up"] = v].name = rows[i].name /\ [rows[i] EXCEPT !["up"] = v].bytes = rows[i].bytes
  BY <1>1 DEF Cells
<1> QED BY <1>3, <1>4, <1>5

(* What is left to show of a step of a pass that fills.                    *)
PassFrame == UNCHANGED <<world, moved, reader, count, prev, passes, began, filled, reported, first>>

LEMMA FillStep ==
    ASSUME TablesInv, PassFrame,
           rows' \in [0 .. TableMax - 1 -> Cells],
           file' \in Seq(Devices), ci' \in 0 .. TableMax, addrs' \in Seq(Names),
           cpc' \in {"row", "counters", "unflag", "flags"}, began # None,
           cpc' \in {"counters", "unflag"} => ci' < TableMax /\ file' # <<>>,
           cpc' \in {"unflag", "flags"} => kind = "interfaces",
           cpc' = "flags" => file' = <<>> \/ ci' = TableMax,
           PassComplete', TableComplete', PassNewer',
           full = changes => \A i \in 0 .. Room - 1 : rows[i].bytes <= rows'[i].bytes
    PROVE  TablesInv'
<1>1. Typed /\ WorldTyped /\ PassTyped /\ PassOrder /\ SampleTyped
  BY DEF TablesInv, Typed
<1>2. UNCHANGED <<kind, changes, moved, world, reader, count, prev, passes, began, filled, reported, first>>
  BY DEF PassFrame, world
<1>3. WorldTyped' /\ Now' = Now /\ Room' = Room /\ Devices' = Devices /\ Cells' = Cells
  BY <1>1, <1>2, SameWorld
<1>4. PassTyped'
  BY <1>1, <1>2, <1>3 DEF PassTyped
<1>5. PassOrder'
  BY <1>1, <1>2 DEF PassOrder
<1>6. SampleTyped'
  BY <1>1, <1>2 DEF SampleTyped
<1>7. ResponseTyped' /\ ResponseSoFar'
  <2>1. full <= filled'
    BY <1>1, <1>2, Facts
  <2> QED BY <1>2, <2>1, PassResponse
<1> QED BY <1>3, <1>4, <1>5, <1>6, <1>7 DEF TablesInv, Typed

(* What the rows and the file of a pass are while no device comes or goes. *)
LEMMA PassFacts ==
    ASSUME TablesInv, cpc \in {"row", "counters", "unflag", "flags"}
    PROVE  /\ began # None
           /\ filled = changes => began = changes
           /\ full = changes => filled = changes
           /\ began = changes =>
                 /\ Len(file) + ci = Len(Now)
                 /\ \A j \in 1 .. Len(file) : Fit(file[j], Now[ci + j])
                 /\ \A i \in 0 .. ci - 1 : Fit(rows[i], Now[i + 1])
                 /\ cpc \in {"counters", "unflag"} => rows[ci].name = Now[ci + 1].name
                 /\ cpc = "unflag" => rows[ci].bytes <= Now[ci + 1].bytes
           /\ filled = changes =>
                 /\ count = Room
                 /\ \A i \in 0 .. Room - 1 : Fit(rows[i], Now[i + 1])
                 /\ \A j \in 1 .. Len(file) : ci + j <= TableMax => rows[ci + j - 1].bytes <= file[j].bytes
<1>1. Typed /\ PassOrder
  BY DEF TablesInv, Typed
<1>2. began # None /\ filled <= began
  BY <1>1 DEF PassOrder
<1>3. changes \in Nat /\ began \in Int /\ filled \in Int /\ full \in Int
      /\ began <= changes /\ filled <= changes /\ full <= filled
  BY <1>1, Facts
<1>4. (filled = changes => began = changes) /\ (full = changes => filled = changes)
  BY <1>2, <1>3
<1> QED BY <1>2, <1>4 DEF TablesInv, PassComplete, TableComplete, PassNewer

LEMMA NowNat ==
    ASSUME Typed
    PROVE  /\ Len(Now) \in Nat /\ Room \in Nat /\ Room <= TableMax /\ Room <= Len(Now)
           /\ Room = Len(Now) \/ Room = TableMax
           /\ \A n \in 1 .. Len(Now) : Now[n].bytes \in Nat
<1>1. WorldTyped
  BY DEF Typed
<1>2. /\ Len(Now) \in Nat /\ \A n \in 1 .. Len(Now) : Now[n] \in Devices
      /\ Room \in 0 .. TableMax /\ Room <= Len(Now) /\ (Room = Len(Now) \/ Room = TableMax)
  BY <1>1, NowType
<1>3. \A n \in 1 .. Len(Now) : Now[n].bytes \in Nat
  BY <1>1, <1>2, BytesNat
<1> QED BY <1>2, <1>3, Consts

-----------------------------------------------------------------------------
(* The name of a row, and with it the size of a filesystem.                *)
LEMMA NameTables ==
    ASSUME TablesInv, PassFrame, UNCHANGED <<ci, addrs>>, cpc = "row", file # <<>>, ci < TableMax,
           cpc' = "counters", StoredName(file[1].name),
           file' \in Seq(Devices), Len(file') = Len(file), file'[1].name = file[1].name,
           \A j \in 2 .. Len(file) : file'[j] = file[j],
           began = changes => Fit(file'[1], Now[ci + 1]),
           filled = changes => rows[ci].bytes <= file'[1].bytes
    PROVE  TablesInv'
<1>1. Typed /\ PassTyped /\ WorldTyped
  BY DEF TablesInv, Typed
<1>2. UNCHANGED <<kind, changes, moved, world, reader, count, prev, passes, began, filled, reported, first>>
  BY DEF PassFrame, world
<1>3. Now' = Now /\ Room' = Room
  BY <1>1, <1>2, SameWorld
<1>4. /\ ci \in Nat /\ Len(file) \in Nat /\ Len(file) >= 1 /\ TableMax \in Nat /\ ci < TableMax
      /\ \A i \in 0 .. TableMax - 1 : rows[i].bytes \in Nat
  BY <1>1, Facts, FileFacts
<1>5. file[1].name \in Names
  BY <1>1, <1>4, Facts
<1>6. /\ rows' \in [0 .. TableMax - 1 -> Cells] /\ Others /\ ci \in 0 .. TableMax - 1
      /\ rows'[ci].name = file[1].name /\ rows'[ci].bytes = rows[ci].bytes
  BY <1>1, <1>5, NameStored
<1>7. \A i \in 0 .. TableMax - 1 : rows'[i].bytes = rows[i].bytes
  BY <1>6 DEF Others
<1>n. /\ Len(Now) \in Nat /\ Room \in Nat /\ Room <= TableMax /\ Room <= Len(Now)
  BY <1>1, NowNat
<1>p. /\ began # None
      /\ filled = changes => began = changes
      /\ full = changes => filled = changes
      /\ began = changes =>
            /\ Len(file) + ci = Len(Now)
            /\ \A j \in 1 .. Len(file) : Fit(file[j], Now[ci + j])
            /\ \A i \in 0 .. ci - 1 : Fit(rows[i], Now[i + 1])
      /\ filled = changes =>
            /\ count = Room
            /\ \A i \in 0 .. Room - 1 : Fit(rows[i], Now[i + 1])
            /\ \A j \in 1 .. Len(file) : ci + j <= TableMax => rows[ci + j - 1].bytes <= file[j].bytes
  BY PassFacts
<1>8. PassComplete'
  <2> SUFFICES ASSUME began = changes PROVE PassComplete'
    BY <1>2 DEF PassComplete
  <2>1. \A j \in 1 .. Len(file) : Fit(file'[j], Now[ci + j])
    <3> SUFFICES ASSUME NEW j \in 1 .. Len(file) PROVE Fit(file'[j], Now[ci + j])
      OBVIOUS
    <3>1. j = 1 \/ j \in 2 .. Len(file)
      BY <1>4
    <3> QED BY <1>p, <3>1
  <2>2. \A i \in 0 .. ci - 1 : Fit(rows'[i], Now[i + 1])
    <3> SUFFICES ASSUME NEW i \in 0 .. ci - 1 PROVE Fit(rows'[i], Now[i + 1])
      OBVIOUS
    <3>1. i \in 0 .. TableMax - 1 /\ i # ci
      BY <1>4
    <3> QED BY <1>6, <1>p, <3>1 DEF Others
  <2>3. rows'[ci].name = Now[ci + 1].name
    BY <1>6 DEF Fit
  <2>4. Len(file') + ci = Len(Now)
    BY <1>p
  <2> QED BY <1>2, <1>3, <2>1, <2>2, <2>3, <2>4 DEF PassComplete
<1>9. TableComplete'
  <2> SUFFICES ASSUME filled = changes PROVE TableComplete'
    BY <1>2 DEF TableComplete
  <2>1. \A i \in 0 .. Room - 1 : Fit(rows'[i], Now[i + 1])
    <3> SUFFICES ASSUME NEW i \in 0 .. Room - 1 PROVE Fit(rows'[i], Now[i + 1])
      OBVIOUS
    <3>1. i \in 0 .. TableMax - 1
      BY <1>4, <1>n
    <3>2. CASE i = ci
      <4>1. rows'[ci].name = Now[ci + 1].name
        BY <1>6, <1>p DEF Fit
      <4> QED BY <1>7, <1>p, <3>1, <3>2, <4>1 DEF Fit
    <3>3. CASE i # ci
      BY <1>6, <1>p, <3>1, <3>3 DEF Others
    <3> QED BY <3>2, <3>3
  <2> QED BY <1>2, <1>3, <1>p, <2>1 DEF TableComplete
<1>10. PassNewer'
  <2> SUFFICES ASSUME filled = changes, NEW j \in 1 .. Len(file), ci + j <= TableMax
               PROVE  rows'[ci + j - 1].bytes <= file'[j].bytes
    BY <1>2 DEF PassNewer
  <2>1. j = 1 \/ j \in 2 .. Len(file)
    BY <1>4
  <2>2. ci + j - 1 \in 0 .. TableMax - 1
    BY <1>4
  <2>3. CASE j = 1
    <3>1. ci + j - 1 = ci
      BY <1>4, <2>3
    <3> QED BY <1>6, <2>3, <3>1
  <2>4. CASE j \in 2 .. Len(file)
    BY <1>7, <1>p, <2>2, <2>4
  <2> QED BY <2>1, <2>3, <2>4
<1>11. \A i \in 0 .. Room - 1 : rows[i].bytes <= rows'[i].bytes
  <2> SUFFICES ASSUME NEW i \in 0 .. Room - 1 PROVE rows[i].bytes <= rows'[i].bytes
    OBVIOUS
  <2>1. i \in 0 .. TableMax - 1
    BY <1>4, <1>n
  <2> QED BY <1>4, <1>7, <2>1
<1>12. file' # <<>> /\ ci' \in 0 .. TableMax /\ addrs' \in Seq(Names)
  <2>1. file' # <<>>
    BY <1>4, EmptySeq
  <2> QED BY <1>1, <1>4, <2>1 DEF PassTyped
<1> QED BY <1>4, <1>6, <1>8, <1>9, <1>10, <1>11, <1>12, <1>p, FillStep

LEMMA StoreNameTables == TablesInv /\ StoreName => TablesInv'
<1> SUFFICES ASSUME TablesInv, StoreName PROVE TablesInv'
  OBVIOUS
<1>1. Typed
  BY DEF TablesInv
<1>2. /\ cpc = "row" /\ file # <<>> /\ ci < TableMax /\ cpc' = "counters"
      /\ rows' = [rows EXCEPT ![ci]["name"] = Head(file).name]
      /\ UNCHANGED <<world, count, prev, addrs, passes, began, filled, reader, tally, file, ci>>
  BY DEF StoreName, MoreRows, Store
<1>3. 1 \in 1 .. Len(file) /\ Head(file) = file[1] /\ Len(file) >= 1 /\ Len(file) \in Nat
  BY <1>1, <1>2, Facts, FileFacts
<1>4. StoredName(file[1].name)
  BY <1>2, <1>3 DEF StoredName
<1>5. PassFrame
  BY <1>2 DEF PassFrame, tally
<1>6. began = changes => Fit(file[1], Now[ci + 1])
  BY <1>2, <1>3, PassFacts
<1>7. filled = changes => rows[ci].bytes <= file[1].bytes
  <2> SUFFICES ASSUME filled = changes PROVE rows[ci].bytes <= file[1].bytes
    OBVIOUS
  <2>1. ci + 1 <= TableMax /\ ci + 1 - 1 = ci
    BY <1>1, <1>2, Facts
  <2>2. rows[ci + 1 - 1].bytes <= file[1].bytes
    BY <1>2, <1>3, <2>1, PassFacts
  <2> QED BY <2>1, <2>2
<1>8. file \in Seq(Devices)
  BY <1>1, Facts
<1> QED BY <1>2, <1>4, <1>5, <1>6, <1>7, <1>8, NameTables

LEMMA StatvfsTables == TablesInv /\ Statvfs => TablesInv'
<1> SUFFICES ASSUME TablesInv, Statvfs PROVE TablesInv'
  OBVIOUS
<1>1. Typed /\ WorldTyped
  BY DEF TablesInv, Typed
<1>2. /\ cpc = "row" /\ file # <<>> /\ ci < TableMax /\ cpc' = "counters"
      /\ rows' = [rows EXCEPT ![ci]["name"] = Head(file).name]
      /\ UNCHANGED <<world, count, prev, addrs, passes, began, filled, reader, tally, ci>>
  BY DEF Statvfs, MoreRows, Store
<1>3. 1 \in 1 .. Len(file) /\ Head(file) = file[1] /\ Len(file) >= 1 /\ Len(file) \in Nat /\ ci \in Nat /\ TableMax \in Nat
  BY <1>1, <1>2, Facts, FileFacts
<1>4. PICK k \in DOMAIN kernel : kernel[k].name = file[1].name /\ file' = [file EXCEPT ![1] = kernel[k]]
  BY <1>3 DEF Statvfs
<1>5. StoredName(file[1].name)
  BY <1>2, <1>3 DEF StoredName
<1>6. PassFrame
  BY <1>2 DEF PassFrame, tally
<1>7. kernel[k] \in Devices /\ file \in Seq(Devices)
  BY <1>1, <1>4, Facts, LenProperties DEF WorldTyped
<1>8. /\ file' \in Seq(Devices) /\ Len(file') = Len(file)
      /\ \A j \in 1 .. Len(file) : file'[j] = IF j = 1 THEN kernel[k] ELSE file[j]
  BY <1>3, <1>4, <1>7, ExceptSeq
<1>9. began = changes => kernel[k] = Now[ci + 1] /\ ci + 1 \in 1 .. Len(Now)
  <2> SUFFICES ASSUME began = changes PROVE kernel[k] = Now[ci + 1] /\ ci + 1 \in 1 .. Len(Now)
    OBVIOUS
  <2>1. Len(file) + ci = Len(Now) /\ Fit(file[1], Now[ci + 1])
    BY <1>2, <1>3, PassFacts
  <2>2. ci + 1 \in 1 .. Len(Now)
    BY <1>3, <2>1
  <2> QED BY <1>1, <1>4, <2>1, <2>2, NowByName DEF Fit
<1>10. began = changes => Fit(file'[1], Now[ci + 1])
  <2>1. kernel[k].bytes \in Nat
    BY <1>1, <1>7, BytesNat
  <2> QED BY <1>3, <1>8, <1>9, <2>1 DEF Fit
<1>11. filled = changes => rows[ci].bytes <= file'[1].bytes
  <2> SUFFICES ASSUME filled = changes PROVE rows[ci].bytes <= file'[1].bytes
    OBVIOUS
  <2>1. began = changes /\ \A i \in 0 .. Room - 1 : Fit(rows[i], Now[i + 1])
    BY <1>2, PassFacts
  <2>2. ci \in 0 .. Room - 1
    BY <1>1, <1>2, <1>3, <1>9, <2>1, NowNat
  <2> QED BY <1>3, <1>8, <1>9, <2>1, <2>2 DEF Fit
<1>12. file'[1].name = file[1].name /\ \A j \in 2 .. Len(file) : file'[j] = file[j]
  BY <1>3, <1>4, <1>8
<1> QED BY <1>2, <1>5, <1>6, <1>8, <1>10, <1>11, <1>12, NameTables

(* A filesystem whose size cannot be read was unmounted since.             *)
LEMMA StatvfsFailsTables == TablesInv /\ StatvfsFails => TablesInv'
<1> SUFFICES ASSUME TablesInv, StatvfsFails PROVE TablesInv'
  OBVIOUS
<1>1. Typed /\ WorldTyped /\ PassTyped
  BY DEF TablesInv, Typed
<1>2. /\ cpc = "row" /\ file # <<>> /\ ci < TableMax /\ file' = Tail(file)
      /\ \A k \in DOMAIN kernel : kernel[k].name # Head(file).name
      /\ UNCHANGED <<world, shared, cpc, addrs, ci, passes, began, filled, reader, tally>>
  BY DEF StatvfsFails, MoreRows
<1>3. 1 \in 1 .. Len(file) /\ Head(file) = file[1] /\ Len(file) >= 1 /\ Len(file) \in Nat /\ ci \in Nat
      /\ Tail(file) \in Seq(Devices)
  BY <1>1, <1>2, Facts, FileFacts
<1>4. began # changes
  <2> SUFFICES ASSUME began = changes PROVE FALSE
    OBVIOUS
  <2>1. Len(file) + ci = Len(Now) /\ Fit(file[1], Now[ci + 1])
    BY <1>2, <1>3, PassFacts
  <2>2. ci + 1 \in 1 .. Len(Now)
    BY <1>3, <2>1
  <2> QED BY <1>1, <1>2, <1>3, <2>1, <2>2, NowHas DEF Fit
<1>5. filled # changes /\ full # changes /\ began # None
  BY <1>2, <1>4, PassFacts
<1>6. PassFrame /\ began' = began /\ filled' = filled /\ changes' = changes /\ rows' = rows
  BY <1>2 DEF PassFrame, shared, tally, world
<1>7. PassComplete' /\ TableComplete' /\ PassNewer'
  BY <1>4, <1>5, <1>6 DEF PassComplete, TableComplete, PassNewer
<1>8. rows \in [0 .. TableMax - 1 -> Cells] /\ ci \in 0 .. TableMax /\ addrs \in Seq(Names)
  BY <1>1 DEF PassTyped
<1> QED BY <1>2, <1>3, <1>5, <1>6, <1>7, <1>8, FillStep

(* A store that leaves every name, and takes no counter back.              *)
LEMMA KeptRows ==
    ASSUME TablesInv, PassFrame, cpc \in {"row", "counters", "unflag", "flags"},
           \A i \in 0 .. TableMax - 1 : rows'[i].name = rows[i].name,
           \A i \in 0 .. TableMax - 1 :
               filled = changes /\ i < Room => /\ rows[i].bytes <= rows'[i].bytes
                                               /\ rows'[i].bytes <= Now[i + 1].bytes
    PROVE  /\ TableComplete'
           /\ full = changes => \A i \in 0 .. Room - 1 : rows[i].bytes <= rows'[i].bytes
<1>1. Typed /\ WorldTyped
  BY DEF TablesInv, Typed
<1>2. UNCHANGED <<kind, changes, moved, world, count, filled>>
  BY DEF PassFrame, world
<1>3. Now' = Now /\ Room' = Room
  BY <1>1, <1>2, SameWorld
<1>4. Room \in Nat /\ Room <= TableMax /\ TableMax \in Nat
  BY <1>1, NowNat, Facts
<1>5. TableComplete'
  <2> SUFFICES ASSUME filled = changes PROVE TableComplete'
    BY <1>2 DEF TableComplete
  <2>1. count = Room /\ \A i \in 0 .. Room - 1 : Fit(rows[i], Now[i + 1])
    BY PassFacts
  <2>2. \A i \in 0 .. Room - 1 : Fit(rows'[i], Now[i + 1])
    <3> SUFFICES ASSUME NEW i \in 0 .. Room - 1 PROVE Fit(rows'[i], Now[i + 1])
      OBVIOUS
    <3>1. i \in 0 .. TableMax - 1 /\ i < Room
      BY <1>4
    <3> QED BY <2>1, <3>1 DEF Fit
  <2> QED BY <1>2, <1>3, <2>1, <2>2 DEF TableComplete
<1>6. full = changes => filled = changes
  BY PassFacts
<1>7. \A i \in 0 .. Room - 1 : i \in 0 .. TableMax - 1 /\ i < Room
  BY <1>4
<1> QED BY <1>5, <1>6, <1>7

(* The row is complete, and the next one begins.                           *)
LEMMA RowTables ==
    ASSUME TablesInv, PassFrame, UNCHANGED addrs, cpc \in {"counters", "unflag"}, cpc' = "row", NextRow,
           rows' \in [0 .. TableMax - 1 -> Cells],
           \A i \in 0 .. TableMax - 1 : rows'[i].name = rows[i].name,
           \A i \in 0 .. TableMax - 1 : i # ci => rows'[i].bytes = rows[i].bytes,
           began = changes => rows'[ci].bytes <= Now[ci + 1].bytes,
           filled = changes => rows[ci].bytes <= rows'[ci].bytes
    PROVE  TablesInv'
<1>1. Typed /\ WorldTyped /\ PassTyped /\ PassOrder
  BY DEF TablesInv, Typed
<1>2. UNCHANGED <<kind, changes, moved, world, began, filled>>
  BY DEF PassFrame, world
<1>3. Now' = Now /\ Room' = Room
  BY <1>1, <1>2, SameWorld
<1>4. file' = Tail(file) /\ ci' = ci + 1 /\ ci < TableMax /\ file # <<>>
  BY <1>1 DEF NextRow, PassOrder
<1>5. /\ ci \in Nat /\ TableMax \in Nat /\ Len(file) \in Nat /\ Len(file) >= 1
      /\ \A i \in 0 .. TableMax - 1 : rows[i].bytes \in Nat
      /\ Tail(file) \in Seq(Devices) /\ Len(Tail(file)) = Len(file) - 1
      /\ \A j \in 1 .. Len(file) - 1 : Tail(file)[j] = file[j + 1] /\ j + 1 \in 1 .. Len(file)
  BY <1>1, <1>4, Facts, FileFacts
<1>n. Len(Now) \in Nat /\ Room \in Nat /\ Room <= TableMax /\ Room <= Len(Now)
  BY <1>1, NowNat
<1>p. /\ began # None
      /\ filled = changes => began = changes
      /\ began = changes =>
            /\ Len(file) + ci = Len(Now)
            /\ \A j \in 1 .. Len(file) : Fit(file[j], Now[ci + j])
            /\ \A i \in 0 .. ci - 1 : Fit(rows[i], Now[i + 1])
            /\ rows[ci].name = Now[ci + 1].name
      /\ filled = changes =>
            /\ \A i \in 0 .. Room - 1 : Fit(rows[i], Now[i + 1])
            /\ \A j \in 1 .. Len(file) : ci + j <= TableMax => rows[ci + j - 1].bytes <= file[j].bytes
  BY PassFacts
<1>6. PassComplete'
  <2> SUFFICES ASSUME began = changes PROVE PassComplete'
    BY <1>2 DEF PassComplete
  <2>1. \A j \in 1 .. Len(Tail(file)) : Fit(Tail(file)[j], Now[ci + 1 + j])
    <3> SUFFICES ASSUME NEW j \in 1 .. Len(file) - 1 PROVE Fit(Tail(file)[j], Now[ci + 1 + j])
      BY <1>5
    <3>1. j + 1 \in 1 .. Len(file) /\ Tail(file)[j] = file[j + 1]
      BY <1>5
    <3>2. ci + (j + 1) = ci + 1 + j
      BY <1>5
    <3>3. Fit(file[j + 1], Now[ci + (j + 1)])
      BY <1>p, <3>1
    <3> QED BY <3>1, <3>2, <3>3
  <2>2. \A i \in 0 .. ci : Fit(rows'[i], Now[i + 1])
    <3> SUFFICES ASSUME NEW i \in 0 .. ci PROVE Fit(rows'[i], Now[i + 1])
      OBVIOUS
    <3>1. i \in 0 .. TableMax - 1
      BY <1>4, <1>5
    <3>2. CASE i = ci
      BY <1>p, <3>1, <3>2 DEF Fit
    <3>3. CASE i # ci
      <4>1. i \in 0 .. ci - 1
        BY <1>5, <3>3
      <4> QED BY <1>p, <3>1, <3>3, <4>1 DEF Fit
    <3> QED BY <3>2, <3>3
  <2>3. Len(Tail(file)) + (ci + 1) = Len(Now)
    BY <1>5, <1>p
  <2>4. ci + 1 - 1 = ci
    BY <1>5
  <2>5. \A i \in 0 .. ci' - 1 : Fit(rows'[i], Now[i + 1])
    <3>1. ci' = ci + 1 /\ ci \in Nat
      BY <1>4, <1>5
    <3>2. ci' - 1 = ci
      BY <3>1
    <3> QED BY <2>2, <3>2
  <2>6. Len(file') + ci' = Len(Now) /\ \A j \in 1 .. Len(file') : Fit(file'[j], Now[ci' + j])
    BY <1>4, <2>1, <2>3
  <2> QED BY <1>2, <1>3, <2>5, <2>6 DEF PassComplete
<1>7. /\ TableComplete'
      /\ full = changes => \A i \in 0 .. Room - 1 : rows[i].bytes <= rows'[i].bytes
  <2> SUFFICES ASSUME NEW i \in 0 .. TableMax - 1, filled = changes, i < Room
               PROVE  rows[i].bytes <= rows'[i].bytes /\ rows'[i].bytes <= Now[i + 1].bytes
    BY KeptRows
  <2>1. CASE i = ci
    BY <1>p, <2>1
  <2>2. CASE i # ci
    <3>1. i \in 0 .. Room - 1 /\ rows'[i].bytes = rows[i].bytes
      BY <1>n, <2>2
    <3> QED BY <1>5, <1>p, <3>1 DEF Fit
  <2> QED BY <2>1, <2>2
<1>8. PassNewer'
  <2> SUFFICES ASSUME filled = changes, NEW j \in 1 .. Len(file) - 1, ci + 1 + j <= TableMax
               PROVE  rows'[ci + 1 + j - 1].bytes <= Tail(file)[j].bytes
    BY <1>2, <1>4, <1>5 DEF PassNewer
  <2>1. /\ ci + 1 + j - 1 = ci + (j + 1) - 1 /\ ci + (j + 1) <= TableMax /\ j + 1 \in 1 .. Len(file)
        /\ ci + 1 + j - 1 \in 0 .. TableMax - 1 /\ ci + 1 + j - 1 # ci
    BY <1>5
  <2>2. rows[ci + (j + 1) - 1].bytes <= file[j + 1].bytes
    BY <1>p, <2>1
  <2>3. rows'[ci + 1 + j - 1].bytes = rows[ci + (j + 1) - 1].bytes
    BY <2>1
  <2> QED BY <1>5, <2>2, <2>3
<1>9. ci' \in 0 .. TableMax /\ addrs' \in Seq(Names) /\ file' \in Seq(Devices)
  BY <1>1, <1>4, <1>5 DEF PassTyped
<1> QED BY <1>6, <1>7, <1>8, <1>9, <1>p, FillStep

LEMMA CountersTables == TablesInv /\ (StoreSizes \/ StoreCounters) => TablesInv'
<1> SUFFICES ASSUME TablesInv, StoreSizes \/ StoreCounters PROVE TablesInv'
  OBVIOUS
<1>1. Typed /\ WorldTyped /\ PassTyped /\ PassOrder
  BY DEF TablesInv, Typed
<1>2. /\ cpc = "counters"
      /\ rows' = [rows EXCEPT ![ci]["bytes"] = Head(file).bytes]
      /\ UNCHANGED <<world, count, prev, addrs, passes, began, filled, reader, tally>>
      /\ \/ cpc' = "row" /\ NextRow
         \/ cpc' = "unflag" /\ kind = "interfaces" /\ UNCHANGED <<file, ci>>
  BY DEF StoreSizes, StoreCounters, Store
<1>3. /\ ci < TableMax /\ file # <<>>
      /\ 1 \in 1 .. Len(file) /\ Head(file) = file[1] /\ file[1] \in Devices
      /\ Len(file) >= 1 /\ Len(file) \in Nat /\ ci \in Nat /\ TableMax \in Nat
      /\ \A i \in 0 .. TableMax - 1 : rows[i].bytes \in Nat
  BY <1>1, <1>2, Facts, FileFacts DEF PassOrder
<1>4. file[1].bytes \in 0 .. Boot + moved /\ StoredBytes(file[1].bytes)
  BY <1>2, <1>3 DEF Devices, StoredBytes
<1>5. /\ rows' \in [0 .. TableMax - 1 -> Cells] /\ Others /\ ci \in 0 .. TableMax - 1
      /\ rows'[ci].name = rows[ci].name /\ rows'[ci].bytes = file[1].bytes
  BY <1>1, <1>3, <1>4, BytesStored
<1>6. \A i \in 0 .. TableMax - 1 : rows'[i].name = rows[i].name
  BY <1>5 DEF Others
<1>7. \A i \in 0 .. TableMax - 1 : i # ci => rows'[i].bytes = rows[i].bytes
  BY <1>5 DEF Others
<1>8. PassFrame
  BY <1>2 DEF PassFrame, tally
<1>p. /\ began # None
      /\ filled = changes => began = changes
      /\ began = changes =>
            /\ Len(file) + ci = Len(Now)
            /\ \A j \in 1 .. Len(file) : Fit(file[j], Now[ci + j])
            /\ \A i \in 0 .. ci - 1 : Fit(rows[i], Now[i + 1])
            /\ rows[ci].name = Now[ci + 1].name
      /\ filled = changes =>
            /\ \A i \in 0 .. Room - 1 : Fit(rows[i], Now[i + 1])
            /\ \A j \in 1 .. Len(file) : ci + j <= TableMax => rows[ci + j - 1].bytes <= file[j].bytes
  BY <1>2, PassFacts
<1>9. began = changes => rows'[ci].bytes <= Now[ci + 1].bytes
  BY <1>3, <1>5, <1>p DEF Fit
<1>10. filled = changes => rows[ci].bytes <= rows'[ci].bytes
  <2> SUFFICES ASSUME filled = changes PROVE rows[ci].bytes <= rows'[ci].bytes
    OBVIOUS
  <2>1. ci + 1 <= TableMax /\ ci + 1 - 1 = ci
    BY <1>3
  <2>2. rows[ci + 1 - 1].bytes <= file[1].bytes
    BY <1>3, <1>p, <2>1
  <2> QED BY <1>5, <2>1, <2>2
<1>11. CASE cpc' = "row" /\ NextRow
  <2>1. addrs' = addrs /\ cpc \in {"counters", "unflag"} /\ cpc' = "row" /\ NextRow
    BY <1>2, <1>11
  <2> QED BY <1>5, <1>6, <1>7, <1>8, <1>9, <1>10, <2>1, RowTables
<1>12. CASE cpc' = "unflag" /\ kind = "interfaces" /\ UNCHANGED <<file, ci>>
  <2>1. UNCHANGED <<kind, changes, moved, world, began, filled, file, ci, addrs>>
    BY <1>2, <1>12 DEF world, tally
  <2>2. Now' = Now /\ Room' = Room
    BY <1>1, <2>1, SameWorld
  <2>n. Len(Now) \in Nat /\ Room \in Nat /\ Room <= TableMax /\ Room <= Len(Now)
    BY <1>1, NowNat
  <2>3. PassComplete'
    <3> SUFFICES ASSUME began = changes PROVE PassComplete'
      BY <2>1 DEF PassComplete
    <3>1. \A i \in 0 .. ci - 1 : Fit(rows'[i], Now[i + 1])
      <4> SUFFICES ASSUME NEW i \in 0 .. ci - 1 PROVE Fit(rows'[i], Now[i + 1])
        OBVIOUS
      <4>1. i \in 0 .. TableMax - 1 /\ i # ci
        BY <1>3
      <4> QED BY <1>6, <1>7, <1>p, <4>1 DEF Fit
    <3>2. rows'[ci].name = Now[ci + 1].name /\ rows'[ci].bytes <= Now[ci + 1].bytes
      BY <1>5, <1>9, <1>p
    <3> QED BY <1>p, <2>1, <2>2, <3>1, <3>2 DEF PassComplete
  <2>4. /\ TableComplete'
        /\ full = changes => \A i \in 0 .. Room - 1 : rows[i].bytes <= rows'[i].bytes
    <3> SUFFICES ASSUME NEW i \in 0 .. TableMax - 1, filled = changes, i < Room
                 PROVE  rows[i].bytes <= rows'[i].bytes /\ rows'[i].bytes <= Now[i + 1].bytes
      BY <1>2, <1>6, <1>8, KeptRows
    <3>1. CASE i = ci
      BY <1>9, <1>10, <1>p, <3>1
    <3>2. CASE i # ci
      <4>1. i \in 0 .. Room - 1 /\ rows'[i].bytes = rows[i].bytes
        BY <1>7, <2>n, <3>2
      <4> QED BY <1>3, <1>p, <4>1 DEF Fit
    <3> QED BY <3>1, <3>2
  <2>5. PassNewer'
    <3> SUFFICES ASSUME filled = changes, NEW j \in 1 .. Len(file), ci + j <= TableMax
                 PROVE  rows'[ci + j - 1].bytes <= file[j].bytes
      BY <2>1 DEF PassNewer
    <3>1. ci + j - 1 \in 0 .. TableMax - 1
      BY <1>3
    <3>2. CASE j = 1
      <4>1. ci + j - 1 = ci
        BY <1>3, <3>2
      <4>2. file[1].bytes \in Nat
        BY <1>1, <1>3, Facts
      <4> QED BY <1>5, <3>2, <4>1, <4>2
    <3>3. CASE j # 1
      <4>1. ci + j - 1 # ci
        BY <1>3, <3>3
      <4> QED BY <1>7, <1>p, <3>1, <4>1
    <3> QED BY <3>2, <3>3
  <2>6. ci' \in 0 .. TableMax /\ addrs' \in Seq(Names) /\ file' \in Seq(Devices) /\ ci' < TableMax /\ file' # <<>>
    BY <1>1, <1>3, <2>1 DEF PassTyped
  <2> QED BY <1>5, <1>8, <1>12, <1>p, <2>3, <2>4, <2>5, <2>6, FillStep
<1> QED BY <1>2, <1>11, <1>12

LEMMA ClearFlagsTables == TablesInv /\ ClearFlags => TablesInv'
<1> SUFFICES ASSUME TablesInv, ClearFlags PROVE TablesInv'
  OBVIOUS
<1>1. Typed /\ WorldTyped /\ PassTyped /\ PassOrder
  BY DEF TablesInv, Typed
<1>2. /\ cpc = "unflag" /\ cpc' = "row" /\ NextRow
      /\ rows' = [rows EXCEPT ![ci]["up"] = FALSE]
      /\ UNCHANGED <<world, count, prev, addrs, passes, began, filled, reader, tally>>
  BY DEF ClearFlags, Store
<1>3. ci \in 0 .. TableMax - 1 /\ \A i \in 0 .. TableMax - 1 : rows[i].bytes \in Nat
  BY <1>1, <1>2, Facts DEF PassOrder
<1>4. /\ rows' \in [0 .. TableMax - 1 -> Cells]
      /\ \A j \in 0 .. TableMax - 1 : rows'[j].name = rows[j].name /\ rows'[j].bytes = rows[j].bytes
  BY <1>1, <1>2, <1>3, UpStored
<1>5. PassFrame
  BY <1>2 DEF PassFrame, tally
<1>6. began = changes => rows'[ci].bytes <= Now[ci + 1].bytes
  BY <1>2, <1>3, <1>4, PassFacts
<1>7. filled = changes => rows[ci].bytes <= rows'[ci].bytes
  BY <1>3, <1>4
<1> QED BY <1>2, <1>4, <1>5, <1>6, <1>7, RowTables

(* The flags of the interfaces: no name and no counter changes.            *)
LEMMA FlagsTables == TablesInv /\ (GetIfaddrs \/ SetFlags) => TablesInv'
<1> SUFFICES ASSUME TablesInv, GetIfaddrs \/ SetFlags PROVE TablesInv'
  OBVIOUS
<1>1. Typed /\ WorldTyped /\ PassTyped /\ PassOrder
  BY DEF TablesInv, Typed
<1>f. /\ ci \in Nat /\ ci <= TableMax /\ TableMax \in Nat /\ rows \in [0 .. TableMax - 1 -> Cells]
      /\ \A i \in 0 .. TableMax - 1 : rows[i].bytes \in Nat
  BY <1>1, Facts
<1>2. /\ cpc \in {"row", "flags"} /\ cpc' = "flags" /\ kind = "interfaces"
      /\ file = <<>> \/ ci = TableMax
      /\ UNCHANGED <<world, moved, count, prev, file, ci, passes, began, filled, reader, tally>>
      /\ addrs' \in Seq(Names)
      /\ rows' \in [0 .. TableMax - 1 -> Cells]
      /\ \A j \in 0 .. TableMax - 1 : rows'[j].name = rows[j].name /\ rows'[j].bytes = rows[j].bytes
  <2>1. CASE GetIfaddrs
    <3>1. /\ cpc = "row" /\ ~MoreRows /\ kind = "interfaces" /\ cpc' = "flags"
          /\ addrs' \in {[k \in DOMAIN kernel |-> kernel[k].name], <<>>}
          /\ UNCHANGED <<world, shared, file, ci, passes, began, filled, reader, tally>>
      BY <2>1 DEF GetIfaddrs
    <3>2. file = <<>> \/ ci = TableMax
      BY <1>f, <3>1 DEF MoreRows
    <3>3. addrs' \in Seq(Names)
      <4>1. kernel \in Seq(Devices)
        BY <1>1 DEF WorldTyped
      <4>2. DOMAIN kernel = 1 .. Len(kernel) /\ Len(kernel) \in Nat /\ \A k \in 1 .. Len(kernel) : kernel[k] \in Devices
        BY <4>1, LenProperties
      <4>3. \A k \in 1 .. Len(kernel) : kernel[k].name \in Names
        BY <4>2 DEF Devices
      <4>4. [k \in DOMAIN kernel |-> kernel[k].name] \in Seq(Names)
        BY <4>2, <4>3
      <4>5. <<>> \in Seq(Names)
        BY EmptySeq
      <4> QED BY <3>1, <4>4, <4>5
    <3> QED BY <1>f, <3>1, <3>2, <3>3 DEF shared, tally
  <2>2. CASE SetFlags
    <3> DEFINE named == {i \in 0 .. ci - 1 : rows[i].name = Head(addrs)}
    <3>1. /\ cpc = "flags" /\ addrs # <<>> /\ addrs' = Tail(addrs)
          /\ rows' = IF named = {} THEN rows ELSE [rows EXCEPT ![Min(named)]["up"] = TRUE]
          /\ UNCHANGED <<world, count, prev, cpc, file, ci, passes, began, filled, reader, tally>>
      BY <2>2 DEF SetFlags
    <3>2. kind = "interfaces" /\ (file = <<>> \/ ci = TableMax)
      BY <1>1, <3>1 DEF PassOrder
    <3>3. addrs' \in Seq(Names)
      BY <1>1, <3>1, HeadTailProperties DEF PassTyped
    <3>4. /\ rows' \in [0 .. TableMax - 1 -> Cells]
          /\ \A j \in 0 .. TableMax - 1 : rows'[j].name = rows[j].name /\ rows'[j].bytes = rows[j].bytes
      <4>1. CASE named = {}
        BY <1>f, <3>1, <4>1
      <4>2. CASE named # {}
        <5>1. named \subseteq Nat
          BY <1>f
        <5>2. Min(named) \in named
          <6> HIDE DEF named
          <6>1. \E x \in named : \A y \in named : x <= y
            BY <4>2, <5>1, NatMin
          <6> QED BY <6>1 DEF Min
        <5>3. Min(named) \in 0 .. TableMax - 1
          <6>1. Min(named) \in 0 .. ci - 1
            BY <5>2
          <6> HIDE DEF named
          <6> QED BY <1>f, <6>1
        <5>4. rows' = [rows EXCEPT ![Min(named)]["up"] = TRUE]
          BY <3>1, <4>2
        <5> HIDE DEF named
        <5> QED BY <1>1, <5>3, <5>4, UpStored
      <4> QED BY <4>1, <4>2
    <3> QED BY <3>1, <3>2, <3>3, <3>4 DEF tally
  <2> QED BY <2>1, <2>2
<1>3. PassFrame
  BY <1>2 DEF PassFrame, tally
<1>4. UNCHANGED <<kind, changes, moved, world, began, filled, file, ci>>
  BY <1>2 DEF world
<1>5. Now' = Now /\ Room' = Room
  BY <1>1, <1>4, SameWorld
<1>n. Len(Now) \in Nat /\ Room \in Nat /\ Room <= TableMax /\ Room <= Len(Now)
  BY <1>1, NowNat
<1>p. /\ began # None
      /\ filled = changes => began = changes
      /\ began = changes =>
            /\ Len(file) + ci = Len(Now)
            /\ \A j \in 1 .. Len(file) : Fit(file[j], Now[ci + j])
            /\ \A i \in 0 .. ci - 1 : Fit(rows[i], Now[i + 1])
      /\ filled = changes =>
            /\ \A i \in 0 .. Room - 1 : Fit(rows[i], Now[i + 1])
            /\ \A j \in 1 .. Len(file) : ci + j <= TableMax => rows[ci + j - 1].bytes <= file[j].bytes
  BY <1>2, PassFacts
<1>6. PassComplete'
  <2> SUFFICES ASSUME began = changes PROVE PassComplete'
    BY <1>4 DEF PassComplete
  <2>1. \A i \in 0 .. ci - 1 : Fit(rows'[i], Now[i + 1])
    <3> SUFFICES ASSUME NEW i \in 0 .. ci - 1 PROVE Fit(rows'[i], Now[i + 1])
      OBVIOUS
    <3>1. i \in 0 .. TableMax - 1
      BY <1>f
    <3> QED BY <1>2, <1>p, <3>1 DEF Fit
  <2> QED BY <1>2, <1>4, <1>5, <1>p, <2>1 DEF PassComplete
<1>7. /\ TableComplete'
      /\ full = changes => \A i \in 0 .. Room - 1 : rows[i].bytes <= rows'[i].bytes
  <2> SUFFICES ASSUME NEW i \in 0 .. TableMax - 1, filled = changes, i < Room
               PROVE  rows[i].bytes <= rows'[i].bytes /\ rows'[i].bytes <= Now[i + 1].bytes
    BY <1>2, <1>3, KeptRows
  <2>1. i \in 0 .. Room - 1
    BY <1>n
  <2> QED BY <1>2, <1>f, <1>p, <2>1 DEF Fit
<1>8. PassNewer'
  <2> SUFFICES ASSUME filled = changes, NEW j \in 1 .. Len(file), ci + j <= TableMax
               PROVE  rows'[ci + j - 1].bytes <= file[j].bytes
    BY <1>4 DEF PassNewer
  <2>1. ci + j - 1 \in 0 .. TableMax - 1
    <3>1. Len(file) \in Nat
      BY <1>1, Facts
    <3> QED BY <1>f, <3>1
  <2> QED BY <1>2, <1>p, <2>1
<1>9. file' \in Seq(Devices) /\ ci' \in 0 .. TableMax
  BY <1>1, <1>4 DEF PassTyped
<1> QED BY <1>2, <1>3, <1>4, <1>6, <1>7, <1>8, <1>9, <1>p, FillStep

(* The pass publishes how many rows it filled.                             *)
LEMMA EndTables == TablesInv /\ (StoreCount \/ StoreCountAtEnd) => TablesInv'
<1> SUFFICES ASSUME TablesInv, StoreCount \/ StoreCountAtEnd PROVE TablesInv'
  OBVIOUS
<1>1. Typed /\ WorldTyped /\ PassTyped /\ PassOrder /\ SampleTyped
  BY DEF TablesInv, Typed
<1>f. /\ ci \in Nat /\ ci <= TableMax /\ TableMax \in Nat /\ rows \in [0 .. TableMax - 1 -> Cells]
      /\ changes \in Nat /\ began \in Int /\ filled \in Int /\ full \in Int
      /\ began <= changes /\ full <= filled /\ None < 0
      /\ file \in Seq(Devices) /\ Len(file) \in Nat
      /\ \A i \in 0 .. TableMax - 1 : rows[i].bytes \in Nat
  BY <1>1, Facts
<1>2. /\ cpc \in {"row", "flags"} /\ cpc' = AfterTable
      /\ count' = ci /\ filled' = began /\ file' = <<>> /\ ci' = 0 /\ began' = None
      /\ UNCHANGED <<world, moved, rows, prev, addrs, passes, reader, tally>>
      /\ file = <<>> \/ ci = TableMax
  <2>1. /\ cpc \in {"row", "flags"} /\ cpc' = AfterTable
        /\ count' = ci /\ filled' = began /\ file' = <<>> /\ ci' = 0 /\ began' = None
        /\ UNCHANGED <<world, rows, prev, addrs, passes, reader, tally>>
    BY DEF StoreCount, StoreCountAtEnd, EndTable
  <2>2. file = <<>> \/ ci = TableMax
    BY <1>1, <1>f DEF StoreCount, StoreCountAtEnd, MoreRows, PassOrder
  <2> QED BY <2>1, <2>2 DEF tally
<1>3. UNCHANGED <<kind, changes, moved, world, rows, reported, first, prev>>
  BY <1>2 DEF world, tally
<1>4. WorldTyped' /\ Now' = Now /\ Room' = Room /\ Devices' = Devices /\ Cells' = Cells
  BY <1>1, <1>3, SameWorld
<1>p. /\ began # None
      /\ filled = changes => began = changes
      /\ full = changes => filled = changes
      /\ began = changes =>
            /\ Len(file) + ci = Len(Now)
            /\ \A i \in 0 .. ci - 1 : Fit(rows[i], Now[i + 1])
  BY <1>2, PassFacts
<1>5. PassTyped'
  BY <1>1, <1>2, <1>3, <1>4, <1>f, EmptySeq DEF PassTyped, AfterTable
<1>6. PassOrder'
  <2>1. None <= changes
    <3>1. changes \in Nat
      BY <1>f
    <3> QED BY <3>1 DEF None
  <2> QED BY <1>1, <1>2, <1>3, <1>f, <1>p, <2>1 DEF PassOrder, AfterTable
<1>7. SampleTyped'
  BY <1>1, <1>3 DEF SampleTyped
<1>8. ResponseTyped' /\ ResponseSoFar'
  <2>1. full <= filled'
    <3>1. filled <= began
      BY <1>1, <1>p DEF PassOrder
    <3> QED BY <1>2, <1>f, <3>1
  <2>2. \A i \in 0 .. Room - 1 : rows[i].bytes <= rows'[i].bytes
    <3> SUFFICES ASSUME NEW i \in 0 .. Room - 1 PROVE rows[i].bytes <= rows'[i].bytes
      OBVIOUS
    <3>1. i \in 0 .. TableMax - 1
      <4>1. Room \in Nat /\ Room <= TableMax
        BY <1>1, NowNat
      <4> QED BY <1>f, <4>1
    <3> QED BY <1>2, <1>f, <3>1
  <2> QED BY <1>2, <1>f, <2>1, <2>2, PassResponse
<1>9. PassComplete' /\ PassNewer'
  <2>1. began' # changes'
    BY <1>2, <1>3, <1>f
  <2> QED BY <2>1 DEF PassComplete, PassNewer
<1>10. TableComplete'
  <2> SUFFICES ASSUME began = changes PROVE TableComplete'
    BY <1>2, <1>3 DEF TableComplete
  <2>1. ci = Room
    <3>1. Len(Now) \in Nat /\ Room = Least(Len(Now), TableMax)
      BY <1>1, NowNat DEF Room
    <3>2. file = <<>> => Len(file) = 0
      BY EmptySeq
    <3> QED BY <1>2, <1>f, <1>p, <3>1, <3>2 DEF Least
  <2> QED BY <1>2, <1>3, <1>4, <1>p, <2>1 DEF TableComplete
<1> QED BY <1>4, <1>5, <1>6, <1>7, <1>8, <1>9, <1>10 DEF TablesInv, Typed

-----------------------------------------------------------------------------
(* One more row in the sum of the counters.                                *)
LEMMA SumBytesNext ==
    ASSUME WorldTyped, NEW table \in [0 .. TableMax - 1 -> Cells], NEW n \in 0 .. TableMax - 1
    PROVE  /\ SumBytes(table, n + 1) = SumBytes(table, n) + table[n].bytes
           /\ SumBytes(table, n) \in Nat /\ table[n].bytes \in Nat
<1> DEFINE f == [i \in DOMAIN table |-> table[i].bytes]
<1>1. DOMAIN table = 0 .. TableMax - 1 /\ TableMax \in Nat
  BY Consts
<1>2. \A i \in 0 .. TableMax - 1 : f[i] \in Nat /\ f[i] = table[i].bytes
  BY <1>1, BytesNat
<1>3. (n + 1) - 1 = n /\ n \in 0 .. n /\ (0 .. n) \ {n} = 0 .. n - 1
      /\ \A i \in 0 .. n : i \in 0 .. TableMax - 1
  BY <1>1
<1>4. IsFiniteSet(0 .. n) /\ IsFiniteSet(0 .. n - 1)
  BY <1>1, FS_Interval
<1>5. SumBytes(table, n + 1) = Sum(f, 0 .. n) /\ SumBytes(table, n) = Sum(f, 0 .. n - 1)
  BY <1>3, SumBytesIs
<1> HIDE DEF f
<1>6. Sum(f, 0 .. n) = f[n] + Sum(f, (0 .. n) \ {n})
  BY <1>2, <1>3, <1>4, SumRemove
<1>7. Sum(f, 0 .. n - 1) \in Nat
  <2>1. \A i \in 0 .. n - 1 : i \in 0 .. n
    BY <1>1
  <2>2. \A i \in 0 .. n - 1 : f[i] \in Nat
    BY <1>2, <1>3, <2>1
  <2> QED BY <1>4, <2>2, SumType
<1>8. f[n] \in Nat /\ f[n] = table[n].bytes
  BY <1>2
<1>9. Sum(f, 0 .. n) = f[n] + Sum(f, 0 .. n - 1)
  BY <1>3, <1>6
<1> QED BY <1>5, <1>7, <1>8, <1>9

LEMMA SumBytesNone == \A table : SumBytes(table, 0) = 0
<1> SUFFICES ASSUME NEW table PROVE SumBytes(table, 0) = 0
  OBVIOUS
<1>1. 0 .. 0 - 1 = {}
  OBVIOUS
<1> QED BY <1>1, SumBytesIs, SumEmpty

(* A response changes nothing but itself.                                  *)
LEMMA ResponseStep ==
    ASSUME TablesInv, UNCHANGED <<world, shared, collector, tally>>, ResponseTyped', ResponseSoFar'
    PROVE  TablesInv'
<1>1. Typed /\ WorldTyped /\ PassTyped /\ PassOrder /\ SampleTyped
  BY DEF TablesInv, Typed
<1>2. UNCHANGED <<kind, changes, moved, rows, count, prev, cpc, file, addrs, ci, passes, began, filled, reported, first>>
  BY DEF world, shared, collector, tally
<1>3. WorldTyped' /\ Now' = Now /\ Room' = Room /\ Devices' = Devices /\ Cells' = Cells
  BY <1>1, <1>2, SameWorld
<1>4. PassTyped'
  BY <1>1, <1>2, <1>3 DEF PassTyped
<1>5. PassOrder'
  BY <1>1, <1>2 DEF PassOrder
<1>6. SampleTyped'
  BY <1>1, <1>2 DEF SampleTyped
<1>7. PassComplete' /\ TableComplete'
  BY <1>2, <1>3 DEF TablesInv, PassComplete, TableComplete
<1>8. PassNewer'
  BY <1>2 DEF TablesInv, PassNewer
<1> QED BY <1>3, <1>4, <1>5, <1>6, <1>7, <1>8 DEF TablesInv, Typed

LEMMA StartTables == TablesInv /\ (ReadCount \/ ReadFsCount) => TablesInv'
<1> SUFFICES ASSUME TablesInv, ReadCount \/ ReadFsCount PROVE TablesInv'
  OBVIOUS
<1>1. Typed /\ WorldTyped /\ PassTyped /\ PassOrder /\ ResponseTyped
  BY DEF TablesInv, Typed
<1>2. /\ reads < MaxReads /\ rcount' = Least(count, TableMax)
      /\ ri' = 0 /\ rsum' = 0 /\ out' = <<>> /\ floor' = rows /\ full' = filled
      /\ reads' = reads + 1 /\ rname' = rname
      /\ UNCHANGED <<world, shared, collector, tally>>
      /\ \/ kind # "filesystems" /\ rpc' = "sum"
         \/ kind = "filesystems" /\ rpc' = "name"
  BY DEF ReadCount, ReadFsCount, StartRead, Rest
<1>3. UNCHANGED <<kind, changes, moved, rows, count, filled>>
  BY <1>2 DEF world, shared, collector, tally
<1>4. WorldTyped' /\ Now' = Now /\ Room' = Room /\ Devices' = Devices /\ Cells' = Cells
  BY <1>1, <1>2, <1>3, SameWorld
<1>f. count \in 0 .. TableMax /\ TableMax \in Nat /\ filled \in Int
      /\ \A i \in 0 .. TableMax - 1 : rows[i].bytes \in Nat
  BY <1>1, Facts
<1>5. rcount' = count
  BY <1>2, <1>f DEF Least
<1>6. ResponseTyped'
  <2>1. reads' \in 0 .. MaxReads
    <3>1. reads \in 0 .. MaxReads /\ reads < MaxReads /\ reads' = reads + 1 /\ MaxReads \in Nat
      BY <1>1, <1>2, Consts DEF ResponseTyped
    <3> QED BY <3>1
  <2>2. out' \in Seq(Cells)
    BY <1>2, EmptySeq
  <2>3. rcount' \in 0 .. TableMax /\ ri' \in 0 .. rcount' /\ rsum' \in Nat
    BY <1>2, <1>5, <1>f
  <2>4. floor' \in [0 .. TableMax - 1 -> Cells] /\ full' \in 0 .. MaxTurns \cup {None} /\ full' <= filled'
    BY <1>1, <1>2, <1>3, <1>f DEF PassTyped
  <2> QED BY <1>1, <1>2, <1>3, <1>4, <2>1, <2>2, <2>3, <2>4 DEF ResponseTyped
<1>7. ResponseSoFar'
  <2> SUFFICES ASSUME filled = changes PROVE ResponseSoFar'
    BY <1>2, <1>3 DEF ResponseSoFar
  <2>1. count = Room
    BY DEF TablesInv, TableComplete
  <2>2. \A i \in 0 .. Room - 1 : floor'[i].bytes <= rows'[i].bytes
    <3> SUFFICES ASSUME NEW i \in 0 .. Room - 1 PROVE floor'[i].bytes <= rows'[i].bytes
      OBVIOUS
    <3>1. i \in 0 .. TableMax - 1
      BY <1>f, <2>1
    <3> QED BY <1>2, <1>3, <1>f, <3>1
  <2>3. kind' # "filesystems" => rsum' >= SumBytes(floor', IF rpc' = "sum" THEN ri' ELSE rcount')
    <3> SUFFICES ASSUME kind # "filesystems" PROVE rsum' >= SumBytes(floor', IF rpc' = "sum" THEN ri' ELSE rcount')
      BY <1>3
    <3>1. rpc' = "sum" /\ ri' = 0 /\ rsum' = 0
      BY <1>2
    <3>2. SumBytes(floor', 0) = 0
      BY SumBytesNone
    <3> QED BY <3>1, <3>2
  <2>4. Len(out') = 0 /\ ri' = 0
    BY <1>2, EmptySeq
  <2> QED BY <1>2, <1>4, <1>5, <2>1, <2>2, <2>3, <2>4 DEF ResponseSoFar
<1> QED BY <1>2, <1>6, <1>7, ResponseStep

LEMMA SumRowTables == TablesInv /\ SumRow => TablesInv'
<1> SUFFICES ASSUME TablesInv, SumRow PROVE TablesInv'
  OBVIOUS
<1>1. Typed /\ WorldTyped /\ PassTyped /\ ResponseTyped /\ ResponseSoFar
  BY DEF TablesInv, Typed
<1>2. /\ rpc = "sum" /\ UNCHANGED <<rcount, rname, out, floor, full, reads, world, shared, collector, tally>>
      /\ IF ri < rcount
           THEN rsum' = rsum + rows[ri].bytes /\ ri' = ri + 1 /\ rpc' = "sum"
           ELSE rpc' = "name" /\ ri' = 0 /\ rsum' = rsum
  BY DEF SumRow, Rest
<1>3. UNCHANGED <<kind, changes, moved, rows, filled>>
  BY <1>2 DEF world, shared, collector, tally
<1>4. WorldTyped' /\ Now' = Now /\ Room' = Room /\ Devices' = Devices /\ Cells' = Cells
  BY <1>1, <1>2, <1>3, SameWorld
<1>5. rcount \in Nat /\ rcount <= TableMax /\ ri \in 0 .. rcount /\ rsum \in Nat /\ TableMax \in Nat
      /\ kind # "filesystems"
  <2>1. rcount \in 0 .. TableMax /\ ri \in 0 .. rcount /\ rsum \in Nat /\ kind # "filesystems"
    BY <1>1, <1>2 DEF ResponseTyped
  <2>2. TableMax \in Nat
    BY Consts
  <2> QED BY <2>1, <2>2
<1>6. ri < rcount => ri \in 0 .. TableMax - 1 /\ rows[ri].bytes \in Nat /\ floor[ri].bytes \in Nat
  BY <1>1, <1>5, Facts
<1>7. ResponseTyped'
  <2>1. rsum' \in Nat /\ ri' \in 0 .. rcount
    BY <1>2, <1>5, <1>6
  <2> QED BY <1>1, <1>2, <1>3, <1>4, <1>5, <2>1 DEF ResponseTyped
<1>8. ResponseSoFar'
  <2> SUFFICES ASSUME full = changes PROVE ResponseSoFar'
    BY <1>2, <1>3 DEF ResponseSoFar
  <2>1. /\ rcount = Room
        /\ \A i \in 0 .. Room - 1 : floor[i].bytes <= rows[i].bytes
        /\ rsum >= SumBytes(floor, ri) /\ Len(out) = 0
        /\ \A k \in 1 .. Len(out) : /\ out[k].name = Now[k].name
                                    /\ out[k].bytes >= floor[k - 1].bytes
    BY <1>1, <1>2, <1>5 DEF ResponseSoFar
  <2>2. rsum' >= SumBytes(floor, IF rpc' = "sum" THEN ri' ELSE rcount)
    <3>1. CASE ri < rcount
      <4>1. floor[ri].bytes <= rows[ri].bytes
        BY <1>5, <2>1, <3>1
      <4>2. SumBytes(floor, ri + 1) = SumBytes(floor, ri) + floor[ri].bytes /\ SumBytes(floor, ri) \in Nat
        <5>1. floor \in [0 .. TableMax - 1 -> Cells]
          BY <1>1 DEF ResponseTyped
        <5> QED BY <1>1, <1>6, <3>1, <5>1, SumBytesNext
      <4> QED BY <1>2, <1>5, <1>6, <2>1, <3>1, <4>1, <4>2
    <3>2. CASE ~(ri < rcount)
      <4>1. ri = rcount
        BY <1>5, <3>2
      <4> QED BY <1>2, <2>1, <3>2, <4>1
    <3> QED BY <3>1, <3>2
  <2>3. rpc' \in {"sum", "name"} /\ (rpc' = "name" => ri' = 0)
    BY <1>2
  <2> QED BY <1>2, <1>3, <1>4, <2>1, <2>2, <2>3 DEF ResponseSoFar
<1> QED BY <1>2, <1>7, <1>8, ResponseStep

LEMMA EmitTables == TablesInv /\ (EmitName \/ EmitRow \/ EmitEnd) => TablesInv'
<1> SUFFICES ASSUME TablesInv, EmitName \/ EmitRow \/ EmitEnd PROVE TablesInv'
  OBVIOUS
<1>1. Typed /\ WorldTyped /\ PassTyped /\ ResponseTyped /\ ResponseSoFar /\ PassOrder
  BY DEF TablesInv, Typed
<1>2. UNCHANGED <<rcount, rsum, floor, full, reads, world, shared, collector, tally>>
  BY DEF EmitName, EmitRow, EmitEnd, Rest
<1>3. UNCHANGED <<kind, changes, moved, rows, filled>>
  BY <1>2 DEF world, shared, collector, tally
<1>4. WorldTyped' /\ Now' = Now /\ Room' = Room /\ Devices' = Devices /\ Cells' = Cells
  BY <1>1, <1>2, <1>3, SameWorld
<1>5. rcount \in Nat /\ rcount <= TableMax /\ ri \in 0 .. rcount /\ rsum \in Nat /\ TableMax \in Nat
      /\ (rpc = "row" => ri < rcount)
  <2>1. rcount \in 0 .. TableMax /\ ri \in 0 .. rcount /\ rsum \in Nat /\ (rpc = "row" => ri < rcount)
    BY <1>1 DEF ResponseTyped
  <2>2. TableMax \in Nat
    BY Consts
  <2> QED BY <2>1, <2>2
<1>o. out \in Seq(Cells) /\ rname \in Names \cup {""}
  BY <1>1 DEF ResponseTyped
<1>6. ri < rcount => /\ ri \in 0 .. TableMax - 1 /\ rows[ri] \in Cells
                     /\ rows[ri].bytes \in Nat /\ floor[ri].bytes \in Nat
  <2>1. ri < rcount => ri \in 0 .. TableMax - 1
    BY <1>5
  <2> QED BY <1>1, <2>1, Facts
<1>s. SumBytes(floor', rcount') = SumBytes(floor, rcount)
  BY <1>2
<1>r. full = changes =>
        /\ rcount = Room
        /\ \A i \in 0 .. Room - 1 : floor[i].bytes <= rows[i].bytes
        /\ kind # "filesystems" => rsum >= SumBytes(floor, IF rpc = "sum" THEN ri ELSE rcount)
        /\ Len(out) = CASE rpc = "idle" -> rcount [] rpc = "sum" -> 0 [] OTHER -> ri
        /\ \A k \in 1 .. Len(out) : /\ out[k].name = Now[k].name
                                    /\ out[k].bytes >= floor[k - 1].bytes
        /\ rpc = "row" => rname = Now[ri + 1].name
  BY <1>1 DEF ResponseSoFar
<1>7. CASE EmitName
  <2>1. rpc = "name" /\ ri < rcount /\ rname' = rows[ri].name /\ rpc' = "row" /\ UNCHANGED <<ri, out>>
    BY <1>7 DEF EmitName
  <2>2. rname' \in Names \cup {""}
    BY <1>6, <2>1 DEF Cells
  <2>3. ResponseTyped'
    BY <1>1, <1>2, <1>3, <1>4, <2>1, <2>2 DEF ResponseTyped
  <2>4. ResponseSoFar'
    <3> SUFFICES ASSUME full = changes PROVE ResponseSoFar'
      BY <1>2, <1>3 DEF ResponseSoFar
    <3>1. rname' = Now[ri + 1].name
      <4>1. filled = changes
        <5>1. full <= filled /\ filled <= changes /\ full \in Int /\ filled \in Int /\ changes \in Nat
          BY <1>1, Facts
        <5> QED BY <5>1
      <4>2. Fit(rows[ri], Now[ri + 1])
        BY <1>5, <1>r, <2>1, <4>1 DEF TablesInv, TableComplete
      <4> QED BY <2>1, <4>2 DEF Fit
    <3> QED BY <1>2, <1>3, <1>4, <1>r, <1>s, <2>1, <3>1 DEF ResponseSoFar
  <2> QED BY <1>2, <2>3, <2>4, ResponseStep
<1>8. CASE EmitRow
  <2>1. /\ rpc = "row" /\ out' = Append(out, [rows[ri] EXCEPT !.name = rname])
        /\ ri' = ri + 1 /\ rpc' = "name" /\ rname' = ""
    BY <1>8 DEF EmitRow
  <2> DEFINE r == [rows[ri] EXCEPT !.name = rname]
  <2>2. r \in Cells /\ r.name = rname /\ r.bytes = rows[ri].bytes
    BY <1>5, <1>6, <1>o, <2>1 DEF Cells
  <2> HIDE DEF r
  <2>3. /\ out' \in Seq(Cells) /\ Len(out') = Len(out) + 1 /\ Len(out) \in Nat
        /\ \A k \in 1 .. Len(out) : out'[k] = out[k]
        /\ out'[Len(out) + 1] = r
    <3>1. Len(out) \in Nat
      BY <1>o, LenProperties
    <3>2. out' = Append(out, r)
      BY <2>1 DEF r
    <3>3. r \in Cells /\ out \in Seq(Cells)
      BY <1>o, <2>2
    <3>4. /\ Append(out, r) \in Seq(Cells) /\ Len(Append(out, r)) = Len(out) + 1
          /\ \A k \in 1 .. Len(out) : Append(out, r)[k] = out[k]
          /\ Append(out, r)[Len(out) + 1] = r
      BY <3>3, AppendProperties
    <3> QED BY <3>1, <3>2, <3>4
  <2>4. ResponseTyped'
    <3>1. ri' \in 0 .. rcount /\ rname' \in Names \cup {""}
      <4>1. ri' = ri + 1 /\ ri < rcount
        BY <1>5, <2>1
      <4>2. rname' = ""
        BY <2>1
      <4>3. ri' \in 0 .. rcount
        BY <1>5, <4>1
      <4> QED BY <4>2, <4>3
    <3> QED BY <1>1, <1>2, <1>3, <1>4, <2>1, <2>3, <3>1 DEF ResponseTyped
  <2>5. ResponseSoFar'
    <3> SUFFICES ASSUME full = changes PROVE ResponseSoFar'
      BY <1>2, <1>3 DEF ResponseSoFar
    <3>1. Len(out) = ri /\ rname = Now[ri + 1].name
      BY <1>r, <2>1
    <3>2. rows[ri].bytes >= floor[ri].bytes
      <4>1. ri < rcount /\ rcount = Room
        BY <1>5, <1>r, <2>1
      <4>2. ri \in 0 .. Room - 1
        BY <1>5, <4>1
      <4>3. floor[ri].bytes <= rows[ri].bytes
        BY <1>r, <4>2
      <4> QED BY <1>6, <4>1, <4>3
    <3>3. \A k \in 1 .. Len(out') : /\ out'[k].name = Now[k].name
                                    /\ out'[k].bytes >= floor[k - 1].bytes
      <4> SUFFICES ASSUME NEW k \in 1 .. Len(out) + 1
                   PROVE  out'[k].name = Now[k].name /\ out'[k].bytes >= floor[k - 1].bytes
        BY <2>3
      <4>1. CASE k \in 1 .. Len(out)
        BY <1>r, <2>3, <4>1
      <4>2. CASE k = Len(out) + 1
        <5>1. k = ri + 1 /\ k - 1 = ri
          BY <1>5, <3>1, <4>2
        <5> QED BY <2>2, <2>3, <3>1, <3>2, <4>2, <5>1
      <4> QED BY <2>3, <4>1, <4>2
    <3>4. Len(out') = ri'
      BY <2>1, <2>3, <3>1
    <3> QED BY <1>2, <1>3, <1>4, <1>r, <1>s, <2>1, <3>3, <3>4 DEF ResponseSoFar
  <2> QED BY <1>2, <2>4, <2>5, ResponseStep
<1>9. CASE EmitEnd
  <2>1. rpc = "name" /\ ri = rcount /\ rpc' = "idle" /\ UNCHANGED <<ri, rname, out>>
    BY <1>9 DEF EmitEnd
  <2>2. ResponseTyped'
    BY <1>1, <1>2, <1>3, <1>4, <2>1 DEF ResponseTyped
  <2>3. ResponseSoFar'
    BY <1>2, <1>3, <1>4, <1>r, <1>s, <2>1 DEF ResponseSoFar
  <2> QED BY <1>2, <2>2, <2>3, ResponseStep
<1> QED BY <1>7, <1>8, <1>9

LEMMA TablesStay == TablesInv /\ UNCHANGED vars => TablesInv'
<1> SUFFICES ASSUME TablesInv, UNCHANGED vars PROVE TablesInv'
  OBVIOUS
<1>1. UNCHANGED <<world, shared, collector, tally>> /\ UNCHANGED <<rpc, rcount, ri, rsum, rname, out, reads, floor, full>>
  BY DEF vars, reader
<1>2. UNCHANGED <<kind, changes, moved, rows, filled>>
  BY <1>1 DEF world, shared, collector, tally
<1>3. Typed /\ WorldTyped /\ ResponseTyped /\ ResponseSoFar
  BY DEF TablesInv, Typed
<1>4. WorldTyped' /\ Now' = Now /\ Room' = Room /\ Devices' = Devices /\ Cells' = Cells
  BY <1>1, <1>2, <1>3, SameWorld
<1>5. ResponseTyped'
  BY <1>1, <1>2, <1>3, <1>4 DEF ResponseTyped
<1>6. ResponseSoFar'
  <2>1. SumBytes(floor, IF rpc = "sum" THEN ri ELSE rcount)' = SumBytes(floor, IF rpc = "sum" THEN ri ELSE rcount)
    BY <1>1
  <2> QED BY <1>1, <1>2, <1>3, <1>4, <2>1 DEF ResponseSoFar
<1> QED BY <1>1, <1>5, <1>6, ResponseStep

LEMMA StepTables == TablesInv /\ [Next]_vars => TablesInv'
<1> SUFFICES ASSUME TablesInv, [Next]_vars PROVE TablesInv'
  OBVIOUS
<1>1. CASE Kernel
  BY <1>1, TrafficTables, ChangeTables DEF Kernel
<1>2. CASE Collector
  BY <1>2, ReadFileTables, IdleTables, StoreNameTables, StatvfsTables, StatvfsFailsTables,
     CountersTables, ClearFlagsTables, FlagsTables, EndTables DEF Collector
<1>3. CASE Reader
  BY <1>3, StartTables, SumRowTables, EmitTables DEF Reader
<1>4. CASE UNCHANGED vars
  BY <1>4, TablesStay
<1> QED BY <1>1, <1>2, <1>3, <1>4 DEF Next

LEMMA TablesAlways == MCSpec => []TablesInv
<1>1. MCInit => TablesInv
  BY InitTables DEF MCInit
<1>2. TablesInv /\ [MCNext]_<<subject, vars, gaugeVars>> => TablesInv'
  BY StepTables DEF MCNext
<1> QED BY <1>1, <1>2, PTL DEF MCSpec

(* A response that begins when the table was filled from a file as new as  *)
(* the last device that came or went, and during which none does, names    *)
(* each listed device once and in order and takes no counter back, however *)
(* many passes it overlaps (json_network, json_disk, json_filesystems).    *)
THEOREM ResponsesAreComplete == MCSpec => []ResponseComplete
<1>1. TablesInv => ResponseComplete
  <2> SUFFICES ASSUME TablesInv, rpc = "idle", full = changes PROVE ResponseComplete
    BY DEF ResponseComplete
  <2>1. /\ rcount = Room
        /\ kind # "filesystems" => rsum >= SumBytes(floor, rcount)
        /\ Len(out) = rcount
        /\ \A k \in 1 .. Len(out) : /\ out[k].name = Now[k].name
                                    /\ out[k].bytes >= floor[k - 1].bytes
    BY DEF TablesInv, ResponseSoFar
  <2>2. DOMAIN out = 1 .. Len(out)
    BY LenProperties DEF TablesInv, Typed, ResponseTyped
  <2> QED BY <2>1, <2>2 DEF ResponseComplete, Now, Room
<1> QED BY <1>1, TablesAlways, PTL

(* The sum of terms that are all greater by Boot.                          *)
LEMMA SumShift ==
    ASSUME NEW f, NEW g, NEW S, IsFiniteSet(S),
           \A x \in S : g[x] \in Nat /\ f[x] = g[x] + Boot
    PROVE  Sum(f, S) = Sum(g, S) + Boot * Cardinality(S)
<1> DEFINE P == {s \in SUBSET S : Sum(f, s) = Sum(g, s) + Boot * Cardinality(s)}
<1>1. ASSUME NEW s \in SUBSET S, \A x \in s : s \ {x} \in P PROVE s \in P
  <2>0. IsFiniteSet(s) /\ Cardinality(s) \in Nat
    BY FS_Subset, FS_CardinalityType
  <2>1. CASE s = {}
    <3>1. Sum(f, s) = 0 /\ Sum(g, s) = 0 /\ Cardinality(s) = 0
      BY <2>1, SumEmpty, FS_EmptySet
    <3>2. 0 = 0 + Boot * 0
      BY Consts
    <3> QED BY <3>1, <3>2
  <2>2. CASE s # {}
    <3>1. PICK x \in s : TRUE
      BY <2>2
    <3> DEFINE t == s \ {x}
    <3>2. Sum(f, t) = Sum(g, t) + Boot * Cardinality(t)
      BY <1>1, <3>1
    <3>3. Cardinality(t) = Cardinality(s) - 1 /\ IsFiniteSet(t)
      BY <2>0, <3>1, FS_RemoveElement
    <3>4. \A y \in s : f[y] \in Nat /\ g[y] \in Nat
      <4>1. \A y \in s : g[y] \in Nat /\ f[y] = g[y] + Boot
        OBVIOUS
      <4>2. \A j \in Nat : j + Boot \in Nat
        BY Consts
      <4> QED BY <4>1, <4>2
    <3>5. Sum(f, s) = f[x] + Sum(f, t) /\ Sum(g, s) = g[x] + Sum(g, t)
      BY <2>0, <3>1, <3>4, SumRemove
    <3>6. Sum(g, t) \in Nat
      BY <3>3, <3>4, SumType
    <3>7. f[x] = g[x] + Boot /\ g[x] \in Nat
      BY <3>1
    <3> HIDE DEF t
    <3> DEFINE d == Cardinality(s)
               m == Boot * (d - 1)
               q == Boot * d
    <3>8. m \in Int /\ q = m + Boot
      <4>1. d \in Nat /\ d # 0
        BY <2>0, <2>2, FS_EmptySet
      <4> HIDE DEF d
      <4> QED BY <4>1, Consts
    <3>9. Sum(f, t) = Sum(g, t) + m
      BY <3>2, <3>3
    <3> HIDE DEF m, q
    <3>10. Sum(f, s) = Sum(g, s) + q
      BY <3>5, <3>6, <3>7, <3>8, <3>9, Consts
    <3> QED BY <3>10 DEF q
  <2> QED BY <2>1, <2>2
<1> HIDE DEF P
<1>2. SUBSET S \subseteq P
  BY <1>1, SubsetAll
<1>3. S \in P
  BY <1>2
<1> QED BY <1>3 DEF P

-----------------------------------------------------------------------------
Members(s)   == {s[i] : i \in DOMAIN s}
Different(s) == \A i, j \in DOMAIN s : s[i] = s[j] => i = j

(* The n devices there ever were, whatever became of them.  The k-th of    *)
(* those there are now is dev[k].  Device a has counted b[a] bytes since   *)
(* it came, and the samples account for c[a] of them.  P are the devices   *)
(* of the last sample, tid those of the rows and fid those that the pass   *)
(* under way has filled or is going to fill.                               *)
Known(n, dev, b, c, P, tid, fid) ==
    /\ n \in Nat /\ dev \in Seq(1 .. n) /\ Different(dev) /\ Len(dev) = Len(kernel)
    /\ b \in [1 .. n -> Nat] /\ c \in [1 .. n -> Nat] /\ P \subseteq 1 .. n
    /\ tid \in Seq(1 .. n) /\ Different(tid) /\ Len(tid) = count
    /\ fid \in Seq(1 .. n) /\ Different(fid)

(* No device has more in the samples than it moved.                        *)
Counted(n, dev, b, c) ==
    /\ \A k \in 1 .. Len(kernel) : kernel[k].bytes = b[dev[k]]
    /\ \A a \in 1 .. n : c[a] <= b[a]
    /\ Sum(b, 1 .. n) = moved + Boot * Len(FirstNames)
    /\ changes = 0 =>
          n = Len(FirstNames) /\ \A a \in 1 .. n : Boot <= b[a] /\ a \in Members(dev)

Sampled(n, c, P) == reported <= Sum(c, 1 .. n) /\ prev = Sum(c, P)

(* A counter read from the kernel is between what is in the samples and    *)
(* what the device has counted.                                            *)
Fits(v, a, b, c) == c[a] <= v /\ v <= b[a] /\ (changes = 0 => Boot <= v)

Filled(b, c, tid, fid) ==
    /\ began = None =>
          fid = <<>> /\ \A i \in 0 .. count - 1 : Fits(rows[i].bytes, tid[i + 1], b, c)
    /\ began # None =>
          /\ Len(fid) = Least(ci + Len(file), TableMax)
          /\ \A j \in 1 .. Len(file) : ci + j <= TableMax => Fits(file[j].bytes, fid[ci + j], b, c)
          /\ \A i \in 0 .. ci - 1 : Fits(rows[i].bytes, fid[i + 1], b, c)
          /\ cpc = "unflag" => Fits(rows[ci].bytes, fid[ci + 1], b, c)

(* A device that left the samples is gone for good, and one that is in     *)
(* them, or in the table, stays until it goes, because it is listed before *)
(* all those that come later.                                              *)
Ordered(n, dev, c, P, tid, fid) ==
    /\ \A a \in 1 .. n : c[a] > 0 /\ a \notin P =>
          a \notin Members(dev) /\ a \notin Members(tid) /\ a \notin Members(fid)
    /\ \A a \in P : a \in Members(dev) => a \in Members(tid)
    /\ began # None => \A a \in P \cup Members(tid) : a \in Members(dev) => a \in Members(fid)
    /\ \A k \in 1 .. Len(kernel) : dev[k] \in P \cup Members(tid) \cup Members(fid) =>
           k \in Kept(kernel) /\ Rank(k, Kept(kernel)) <= TableMax

Told(n, dev, b, c, P, tid, fid) ==
    /\ Known(n, dev, b, c, P, tid, fid)
    /\ Counted(n, dev, b, c)
    /\ Sampled(n, c, P)
    /\ Filled(b, c, tid, fid)
    /\ Ordered(n, dev, c, P, tid, fid)

Story == \E n, dev, b, c, P, tid, fid : Told(n, dev, b, c, P, tid, fid)

Growth ==
    /\ first # None => filled # None
    /\ changes = 0 /\ first # None =>
           /\ Boot * Room <= prev /\ prev <= moved + Boot * Room
           /\ reported - first <= prev - Boot * Room

TrafficInv ==
    /\ TablesInv
    /\ kind = "filesystems" => reported = 0 /\ prev = 0 /\ first = None
    /\ kind # "filesystems" => Story /\ Growth

LEMMA UptoFinite == \A n \in Nat : IsFiniteSet(1 .. n) /\ Cardinality(1 .. n) = n
<1> SUFFICES ASSUME NEW n \in Nat PROVE IsFiniteSet(1 .. n) /\ Cardinality(1 .. n) = n
  OBVIOUS
<1>1. IsFiniteSet(1 .. n) /\ Cardinality(1 .. n) = IF 1 > n THEN 0 ELSE n - 1 + 1
  BY FS_Interval
<1>2. Cardinality(1 .. n) = n
  BY <1>1
<1> QED BY <1>1, <1>2

LEMMA MembersAre ==
    ASSUME NEW D, NEW s \in Seq(D)
    PROVE  Members(s) = {s[i] : i \in 1 .. Len(s)} /\ Members(s) \subseteq D
<1>1. DOMAIN s = 1 .. Len(s) /\ \A i \in 1 .. Len(s) : s[i] \in D
  BY LenProperties
<1> QED BY <1>1 DEF Members

LEMMA NoMembers == Members(<<>>) = {}
<1>1. <<>> \in Seq({}) /\ Len(<<>>) = 0
  BY EmptySeq
<1>2. DOMAIN <<>> = 1 .. 0
  BY <1>1, LenProperties
<1> QED BY <1>2 DEF Members

LEMMA InitStory == Init => TrafficInv
<1> SUFFICES ASSUME Init PROVE TrafficInv
  OBVIOUS
<1>1. TablesInv
  BY InitTables
<1>2. /\ changes = 0 /\ moved = 0 /\ count = 0 /\ prev = 0 /\ reported = 0 /\ first = None /\ began = None
      /\ kernel = [k \in DOMAIN FirstNames |-> [name |-> FirstNames[k], bytes |-> Boot]]
  BY DEF Init
<1> DEFINE n == Len(FirstNames)
           dev == [k \in 1 .. n |-> k]
           b == [a \in 1 .. n |-> Boot]
           c == [a \in 1 .. n |-> 0]
<1>3. n \in Nat /\ DOMAIN FirstNames = 1 .. n /\ Boot \in Nat
  BY Consts, LenProperties
<1>4. kernel \in Seq(Devices) /\ Len(kernel) = n /\ \A k \in 1 .. Len(kernel) : kernel[k].bytes = Boot
  <2>1. kernel \in Seq(Devices)
    BY <1>1 DEF TablesInv, Typed, WorldTyped
  <2>2. DOMAIN kernel = 1 .. n /\ DOMAIN kernel = 1 .. Len(kernel) /\ Len(kernel) \in Nat
    BY <1>2, <1>3, <2>1, LenProperties
  <2>3. \A k \in 1 .. n : kernel[k].bytes = Boot
    BY <1>2, <1>3
  <2> HIDE DEF n
  <2>4. Len(kernel) = n
    BY <1>3, <2>2
  <2> QED BY <2>1, <2>3, <2>4
<1> HIDE DEF n
<1>5. <<>> \in Seq(1 .. n) /\ Len(<<>>) = 0 /\ Members(<<>>) = {}
  BY EmptySeq, NoMembers
<1>6. dev \in Seq(1 .. n) /\ Len(dev) = n /\ DOMAIN dev = 1 .. n
  BY <1>3
<1>7. Known(n, dev, b, c, {}, <<>>, <<>>)
  <2>1. Different(dev) /\ Different(<<>>)
    BY <1>6 DEF Different
  <2>2. b \in [1 .. n -> Nat] /\ c \in [1 .. n -> Nat]
    BY <1>3
  <2> HIDE DEF dev, b, c
  <2> QED BY <1>2, <1>3, <1>4, <1>5, <1>6, <2>1, <2>2 DEF Known
<1>8. Counted(n, dev, b, c)
  <2>1. \A k \in 1 .. Len(kernel) : kernel[k].bytes = b[dev[k]]
    BY <1>4
  <2>2. \A a \in 1 .. n : c[a] <= b[a] /\ Boot <= b[a] /\ a \in Members(dev)
    BY <1>3, <1>6 DEF Members
  <2>3. Sum(b, 1 .. n) = moved + Boot * n
    <3>1. IsFiniteSet(1 .. n) /\ Cardinality(1 .. n) = n
      BY <1>3, UptoFinite
    <3>2. \A a \in 1 .. n : c[a] \in Nat /\ b[a] = c[a] + Boot /\ c[a] = 0
      BY <1>3
    <3> HIDE DEF b, c
    <3>a. Sum(b, 1 .. n) = Sum(c, 1 .. n) + Boot * Cardinality(1 .. n)
      <4> DEFINE S == 1 .. n
      <4>1. \A a \in S : c[a] \in Nat /\ b[a] = c[a] + Boot
        BY <3>2
      <4>2. IsFiniteSet(S) /\ Boot \in Nat
        BY <1>3, <3>1
      <4> HIDE DEF S
      <4>3. Sum(b, S) = Sum(c, S) + Boot * Cardinality(S)
        BY <4>1, <4>2, SumShift
      <4> QED BY <4>3 DEF S
    <3>b. Sum(c, 1 .. n) = 0
      BY <3>1, <3>2, SumZero
    <3>3. Sum(b, 1 .. n) = Sum(c, 1 .. n) + Boot * n /\ Sum(c, 1 .. n) = 0
      BY <3>1, <3>a, <3>b
    <3> DEFINE q == Boot * n
    <3>4. q \in Nat
      BY <1>3
    <3> HIDE DEF q
    <3>5. Sum(b, 1 .. n) = 0 + q
      BY <3>3 DEF q
    <3> QED BY <1>2, <3>4, <3>5 DEF q
  <2> HIDE DEF dev, b, c
  <2> QED BY <2>1, <2>2, <2>3 DEF Counted, n
<1>9. Sampled(n, c, {})
  <2>1. Sum(c, 1 .. n) = 0
    BY <1>3, UptoFinite, SumZero
  <2> HIDE DEF c
  <2> QED BY <1>2, <2>1, SumEmpty DEF Sampled
<1>10. Filled(b, c, <<>>, <<>>)
  <2>1. \A i \in 0 .. 0 - 1 : FALSE
    OBVIOUS
  <2> HIDE DEF b, c
  <2> QED BY <1>2, <2>1 DEF Filled
<1>11. Ordered(n, dev, c, {}, <<>>, <<>>)
  <2>1. \A a \in 1 .. n : ~(c[a] > 0)
    OBVIOUS
  <2> HIDE DEF dev, c
  <2> QED BY <1>2, <1>5, <2>1 DEF Ordered
<1>12. Told(n, dev, b, c, {}, <<>>, <<>>)
  <2> HIDE DEF dev, b, c
  <2> QED BY <1>7, <1>8, <1>9, <1>10, <1>11 DEF Told
<1>13. Story
  <2> HIDE DEF dev, b, c
  <2> QED BY <1>12 DEF Story
<1>14. Growth
  BY <1>2 DEF Growth
<1> QED BY <1>1, <1>2, <1>13, <1>14 DEF TrafficInv

-----------------------------------------------------------------------------
(* What a pass has filled and is going to fill stays good when devices     *)
(* count more, or come, or go.                                             *)
LEMMA FilledGrows ==
    ASSUME TablesInv, NEW n \in Nat, NEW b, NEW c, NEW d, NEW e,
           NEW tid \in Seq(1 .. n), NEW fid \in Seq(1 .. n),
           Len(tid) = count, Filled(b, c, tid, fid),
           UNCHANGED <<rows, count, cpc, file, ci, began>>, changes' = 0 => changes = 0,
           \A a \in 1 .. n : b[a] \in Nat /\ d[a] \in Nat /\ b[a] <= d[a] /\ e[a] = c[a]
    PROVE  Filled(d, e, tid, fid)'
<1>1. Typed /\ PassOrder
  BY DEF TablesInv, Typed
<1>2. /\ \A i \in 1 .. Len(tid) : tid[i] \in 1 .. n
      /\ \A i \in 1 .. Len(fid) : fid[i] \in 1 .. n
      /\ Len(fid) \in Nat
  BY LenProperties
<1>3. /\ ci \in Nat /\ ci <= TableMax /\ TableMax \in Nat /\ count \in 0 .. TableMax /\ Len(file) \in Nat
      /\ \A j \in 1 .. Len(file) : file[j].bytes \in Nat
      /\ \A i \in 0 .. TableMax - 1 : rows[i].bytes \in Nat
  BY <1>1, Facts
<1>4. \A v \in Nat, a \in 1 .. n : Fits(v, a, b, c) => Fits(v, a, d, e)
  BY DEF Fits
<1>5. began = None => \A i \in 0 .. count - 1 : Fits(rows[i].bytes, tid[i + 1], d, e)
  <2> SUFFICES ASSUME began = None, NEW i \in 0 .. count - 1 PROVE Fits(rows[i].bytes, tid[i + 1], d, e)
    OBVIOUS
  <2>1. i \in 0 .. TableMax - 1 /\ i + 1 \in 1 .. Len(tid)
    BY <1>1, <1>3
  <2>2. Fits(rows[i].bytes, tid[i + 1], b, c)
    BY DEF Filled
  <2> QED BY <1>4, <1>2, <1>3, <2>1, <2>2
<1>6. ASSUME began # None
      PROVE  /\ \A j \in 1 .. Len(file) : ci + j <= TableMax => Fits(file[j].bytes, fid[ci + j], d, e)
             /\ \A i \in 0 .. ci - 1 : Fits(rows[i].bytes, fid[i + 1], d, e)
             /\ cpc = "unflag" => Fits(rows[ci].bytes, fid[ci + 1], d, e)
  <2>1. /\ Len(fid) = Least(ci + Len(file), TableMax)
        /\ \A j \in 1 .. Len(file) : ci + j <= TableMax => Fits(file[j].bytes, fid[ci + j], b, c)
        /\ \A i \in 0 .. ci - 1 : Fits(rows[i].bytes, fid[i + 1], b, c)
        /\ cpc = "unflag" => Fits(rows[ci].bytes, fid[ci + 1], b, c)
    BY <1>6 DEF Filled
  <2>2. \A i \in 1 .. TableMax : i <= ci + Len(file) => fid[i] \in 1 .. n
    <3> SUFFICES ASSUME NEW i \in 1 .. TableMax, i <= ci + Len(file) PROVE fid[i] \in 1 .. n
      OBVIOUS
    <3>1. i \in 1 .. Len(fid)
      BY <1>2, <1>3, <2>1 DEF Least
    <3> QED BY <1>2, <3>1
  <2>3. ASSUME NEW j \in 1 .. Len(file), ci + j <= TableMax PROVE Fits(file[j].bytes, fid[ci + j], d, e)
    <3>1. ci + j \in 1 .. TableMax /\ ci + j <= ci + Len(file)
      BY <1>3, <2>3
    <3> QED BY <1>4, <1>3, <2>1, <2>2, <2>3, <3>1
  <2>4. ASSUME NEW i \in 0 .. ci - 1 PROVE Fits(rows[i].bytes, fid[i + 1], d, e)
    <3>1. i + 1 \in 1 .. TableMax /\ i + 1 <= ci + Len(file) /\ i \in 0 .. TableMax - 1
      BY <1>3
    <3> QED BY <1>4, <1>3, <2>1, <2>2, <3>1
  <2>5. ASSUME cpc = "unflag" PROVE Fits(rows[ci].bytes, fid[ci + 1], d, e)
    <3>1. ci < TableMax /\ file # <<>>
      BY <1>1, <2>5 DEF PassOrder
    <3>2. Len(file) >= 1
      BY <1>1, <3>1, FileFacts
    <3>3. ci + 1 \in 1 .. TableMax /\ ci + 1 <= ci + Len(file) /\ ci \in 0 .. TableMax - 1
      BY <1>3, <3>1, <3>2
    <3> QED BY <1>4, <1>3, <2>1, <2>2, <2>5, <3>3
  <2> QED BY <2>3, <2>4, <2>5
<1>7. (began = None => fid = <<>>) /\ (began # None => Len(fid) = Least(ci + Len(file), TableMax))
  BY DEF Filled
<1>8. \A v, a : Fits(v, a, d, e) => Fits(v, a, d, e)'
  BY DEF Fits
<1> QED BY <1>8, <1>5, <1>6, <1>7 DEF Filled

(* Bytes are moved: one of the devices counts one more.                    *)
LEMMA TrafficTold ==
    ASSUME TablesInv, Traffic, NEW n, NEW dev, NEW b, NEW c, NEW P, NEW tid, NEW fid,
           Told(n, dev, b, c, P, tid, fid)
    PROVE  Story'
<1>1. Known(n, dev, b, c, P, tid, fid) /\ Counted(n, dev, b, c) /\ Sampled(n, c, P)
      /\ Filled(b, c, tid, fid) /\ Ordered(n, dev, c, P, tid, fid)
  BY DEF Told
<1>2. PICK k \in DOMAIN kernel : kernel' = [kernel EXCEPT ![k].bytes = @ + 1]
  BY DEF Traffic
<1>3. UNCHANGED <<kind, changes, rows, count, prev, cpc, file, ci, began, reported>> /\ moved' = moved + 1
  BY DEF Traffic, shared, collector
<1>4. WorldTyped /\ Typed
  BY DEF TablesInv, Typed
<1>5. /\ Len(kernel') = Len(kernel) /\ \A j \in 1 .. Len(kernel) : Fit(kernel[j], kernel'[j])
      /\ kernel \in Seq(Devices) /\ kernel' \in Seq(Devices')
  BY <1>4, TrafficWorld DEF WorldTyped
<1>6. /\ n \in Nat /\ dev \in Seq(1 .. n) /\ Different(dev) /\ Len(dev) = Len(kernel)
      /\ b \in [1 .. n -> Nat] /\ c \in [1 .. n -> Nat]
  BY <1>1 DEF Known
<1>7. DOMAIN kernel = 1 .. Len(kernel) /\ DOMAIN dev = 1 .. Len(kernel) /\ \A j \in 1 .. Len(kernel) : dev[j] \in 1 .. n
  <2>1. DOMAIN kernel = 1 .. Len(kernel)
    BY <1>5, LenProperties
  <2>2. DOMAIN dev = 1 .. Len(dev) /\ dev \in [1 .. Len(dev) -> 1 .. n]
    BY <1>6, LenProperties
  <2> QED BY <1>6, <2>1, <2>2
<1> DEFINE x == dev[k]
           d == [b EXCEPT ![x] = @ + 1]
<1>8. x \in 1 .. n
  BY <1>2, <1>7
<1> HIDE DEF x
<1>9. /\ d \in [1 .. n -> Nat] /\ d[x] = b[x] + 1 /\ \A a \in 1 .. n : a # x => d[a] = b[a]
      /\ \A a \in 1 .. n : b[a] \in Nat /\ d[a] \in Nat /\ b[a] <= d[a] /\ c[a] \in Nat
  <2>1. b[x] + 1 \in Nat /\ \A a \in 1 .. n : b[a] \in Nat /\ c[a] \in Nat /\ b[a] <= b[a]
    BY <1>6, <1>8
  <2>2. \A a \in 1 .. n : d[a] = IF a = x THEN b[x] + 1 ELSE b[a]
    BY <1>6, <1>8
  <2>3. d \in [1 .. n -> Nat]
    BY <1>6, <1>8, <2>1
  <2>4. b[x] <= b[x] + 1
    BY <1>8, <2>1
  <2> HIDE DEF d
  <2> QED BY <1>8, <2>1, <2>2, <2>3, <2>4
<1> HIDE DEF d
<1>10. Known(n, dev, d, c, P, tid, fid)'
  BY <1>1, <1>3, <1>5, <1>9 DEF Known
<1>11. Counted(n, dev, d, c)'
  <2>1. \A j \in 1 .. Len(kernel') : kernel'[j].bytes = d[dev[j]]
    <3> SUFFICES ASSUME NEW j \in 1 .. Len(kernel) PROVE kernel'[j].bytes = d[dev[j]]
      BY <1>5
    <3>1. kernel[j].bytes = b[dev[j]] /\ dev[j] \in 1 .. n
      BY <1>1, <1>7 DEF Counted
    <3>2. kernel[j] \in Devices
      BY <1>5, LenProperties
    <3>3. CASE j = k
      <4>1. kernel'[j].bytes = kernel[j].bytes + 1
        BY <1>2, <3>2, <3>3 DEF Devices
      <4>2. dev[j] = x
        BY <3>3 DEF x
      <4> QED BY <1>9, <3>1, <4>1, <4>2
    <3>4. CASE j # k
      <4>1. kernel'[j] = kernel[j]
        BY <1>2, <1>7, <3>4
      <4>2. dev[j] # x
        BY <1>2, <1>6, <1>7, <3>4 DEF Different, x
      <4> QED BY <1>9, <3>1, <4>1, <4>2
    <3> QED BY <3>3, <3>4
  <2>2. \A a \in 1 .. n : c[a] <= d[a]
    <3>1. \A a \in 1 .. n : c[a] <= b[a]
      BY <1>1 DEF Counted
    <3> QED BY <1>9, <3>1
  <2>3. Sum(d, 1 .. n) = Sum(b, 1 .. n) + 1
    <3>1. IsFiniteSet(1 .. n)
      BY <1>6, UptoFinite
    <3>2. Sum(b, 1 .. n) + d[x] = Sum(d, 1 .. n) + b[x]
      <4> DEFINE S == 1 .. n
      <4>1. \A y \in S : b[y] \in Nat /\ d[y] \in Nat
        BY <1>9
      <4>2. \A y \in S \ {x} : b[y] = d[y]
        BY <1>9
      <4>3. IsFiniteSet(S) /\ x \in S
        BY <1>8, <3>1
      <4> HIDE DEF S
      <4>4. Sum(b, S) + d[x] = Sum(d, S) + b[x]
        BY <4>1, <4>2, <4>3, SumChange
      <4> QED BY <4>4 DEF S
    <3>3. Sum(b, 1 .. n) \in Nat /\ Sum(d, 1 .. n) \in Nat
      BY <1>9, <3>1, SumType
    <3>4. d[x] = b[x] + 1 /\ b[x] \in Nat
      BY <1>8, <1>9
    <3> QED BY <3>2, <3>3, <3>4
  <2>4. Sum(d, 1 .. n) = moved' + Boot * Len(FirstNames)
    <3>1. Sum(b, 1 .. n) = moved + Boot * Len(FirstNames)
      BY <1>1 DEF Counted
    <3>2. moved \in Nat /\ Boot * Len(FirstNames) \in Nat
      <4>1. moved \in Nat
        BY <1>4, BytesNat
      <4>2. Len(FirstNames) \in Nat /\ Boot \in Nat
        BY Consts, LenProperties
      <4> QED BY <4>1, <4>2
    <3> DEFINE q == Boot * Len(FirstNames)
    <3> HIDE DEF q
    <3>3. Sum(d, 1 .. n) = moved + q + 1 /\ q \in Nat
      BY <2>3, <3>1, <3>2 DEF q
    <3>4. Sum(d, 1 .. n) = moved' + q
      BY <1>3, <3>2, <3>3
    <3> QED BY <3>4 DEF q
  <2>5. changes = 0 => n = Len(FirstNames) /\ \A a \in 1 .. n : Boot <= d[a] /\ a \in Members(dev)
    <3> SUFFICES ASSUME changes = 0 PROVE n = Len(FirstNames) /\ \A a \in 1 .. n : Boot <= d[a] /\ a \in Members(dev)
      OBVIOUS
    <3>1. n = Len(FirstNames) /\ \A a \in 1 .. n : Boot <= b[a] /\ a \in Members(dev)
      BY <1>1 DEF Counted
    <3> QED BY <1>9, <3>1, Consts
  <2> QED BY <1>3, <2>1, <2>2, <2>4, <2>5 DEF Counted
<1>12. Sampled(n, c, P)'
  BY <1>1, <1>3 DEF Sampled
<1>14. Filled(d, c, tid, fid)'
  <2>1. tid \in Seq(1 .. n) /\ Len(tid) = count /\ fid \in Seq(1 .. n)
    BY <1>1 DEF Known
  <2>2. \A a \in 1 .. n : b[a] \in Nat /\ d[a] \in Nat /\ b[a] <= d[a] /\ c[a] = c[a]
    BY <1>9
  <2> QED BY <1>1, <1>3, <1>6, <2>1, <2>2, FilledGrows
<1>15. Kept(kernel)' = Kept(kernel)
  <2>1. DOMAIN kernel' = DOMAIN kernel /\ \A j \in DOMAIN kernel : kernel'[j].name = kernel[j].name
    BY <1>2, <1>5, <1>7, LenProperties DEF Fit
  <2> QED BY <1>3, <2>1 DEF Kept, Shown
<1>16. Ordered(n, dev, c, P, tid, fid)'
  BY <1>1, <1>3, <1>5, <1>15 DEF Ordered
<1>17. Told(n, dev, d, c, P, tid, fid)'
  BY <1>10, <1>11, <1>12, <1>14, <1>16 DEF Told
<1> QED BY <1>17 DEF Story

(* A set whose elements up to k are mapped, each to a different one, to    *)
(* those of another set up to m, gives k no greater a rank than m has.     *)
LEMMA RankMaps ==
    ASSUME NEW S, NEW T, S \subseteq Nat, T \subseteq Nat, IsFiniteSet(S), IsFiniteSet(T),
           NEW k \in S, NEW m \in T, NEW h,
           \A x \in S : x <= k => h[x] \in T /\ h[x] <= m,
           \A x, y \in S : h[x] = h[y] => x = y
    PROVE  Rank(k, S) <= Rank(m, T)
<1> DEFINE U == {x \in S : x <= k}
           V == {x \in T : x <= m}
           f == [x \in U |-> h[x]]
<1>1. f \in [U -> V]
  OBVIOUS
<1>2. \A x, y \in U : f[x] = f[y] => x = y
  OBVIOUS
<1>3. f \in Injection(U, V)
  BY <1>1, <1>2 DEF Injection, IsInjective
<1>4. IsFiniteSet(V)
  BY FS_Subset
<1> HIDE DEF f, U, V
<1>5. Cardinality(U) <= Cardinality(V)
  BY <1>3, <1>4, FS_Injection
<1> QED BY <1>5 DEF Rank, U, V

(* A new device is listed last.                                            *)
LEMMA PlugTold ==
    ASSUME TablesInv, Plug, NEW n, NEW dev, NEW b, NEW c, NEW P, NEW tid, NEW fid,
           Told(n, dev, b, c, P, tid, fid)
    PROVE  Story'
<1>1. Known(n, dev, b, c, P, tid, fid) /\ Counted(n, dev, b, c) /\ Sampled(n, c, P)
      /\ Filled(b, c, tid, fid) /\ Ordered(n, dev, c, P, tid, fid)
  BY DEF Told
<1>2. PICK w \in Names : kernel' = Append(kernel, [name |-> w, bytes |-> 0])
  BY DEF Plug
<1>3. UNCHANGED <<kind, moved, rows, count, prev, cpc, file, ci, began, reported>> /\ changes' = changes + 1
  BY DEF Plug, Change, shared, collector, tally
<1>4. WorldTyped /\ Typed
  BY DEF TablesInv, Typed
<1>c. changes' # 0
  <2>1. changes \in Nat
    BY <1>4, Facts
  <2> QED BY <1>3, <2>1
<1> DEFINE l == Len(kernel)
           new == [name |-> w, bytes |-> 0]
<1>5. kernel \in Seq(Devices) /\ l \in Nat /\ new.bytes = 0 /\ new \in Devices
  <2>1. kernel \in Seq(Devices)
    BY <1>4 DEF WorldTyped
  <2>2. 0 \in 0 .. Boot + moved
    BY <1>4, BytesNat
  <2>3. new \in Devices /\ new.bytes = 0
    BY <1>2, <2>2 DEF Devices
  <2> QED BY <2>1, <2>3, LenProperties
<1> HIDE DEF new
<1>6. /\ Len(kernel') = l + 1 /\ \A j \in 1 .. l : kernel'[j] = kernel[j]
      /\ kernel'[l + 1] = new /\ kernel' \in Seq(Devices)
  BY <1>2, <1>5, AppendProperties DEF new
<1> HIDE DEF l
<1>7. /\ n \in Nat /\ dev \in Seq(1 .. n) /\ Different(dev) /\ Len(dev) = l
      /\ b \in [1 .. n -> Nat] /\ c \in [1 .. n -> Nat] /\ P \subseteq 1 .. n
      /\ tid \in Seq(1 .. n) /\ Different(tid) /\ Len(tid) = count
      /\ fid \in Seq(1 .. n) /\ Different(fid)
  BY <1>1 DEF Known, l
<1> DEFINE m == n + 1
           nev == Append(dev, m)
           d == [a \in 1 .. m |-> IF a = m THEN 0 ELSE b[a]]
           e == [a \in 1 .. m |-> IF a = m THEN 0 ELSE c[a]]
<1>8. /\ m \in Nat /\ m \in 1 .. m /\ m \notin 1 .. n /\ 1 .. n \subseteq 1 .. m
      /\ \A a \in 1 .. m : a \in 1 .. n \/ a = m
      /\ (1 .. m) \ {m} = 1 .. n
  <2>1. m \in Nat /\ m \in 1 .. m /\ m \notin 1 .. n /\ 1 .. n \subseteq 1 .. m
    BY <1>7
  <2>2. \A a \in 1 .. m : a \in 1 .. n \/ a = m
    BY <1>7
  <2> HIDE DEF m
  <2> QED BY <2>1, <2>2
<1>9. /\ nev \in Seq(1 .. m) /\ Len(nev) = l + 1 /\ nev[l + 1] = m
      /\ \A j \in 1 .. l : nev[j] = dev[j] /\ dev[j] \in 1 .. n
  <2>1. dev \in Seq(1 .. m) /\ tid \in Seq(1 .. m)
    BY <1>7, <1>8, SeqMonotonic
  <2>2. \A j \in 1 .. l : dev[j] \in 1 .. n
    BY <1>7, LenProperties
  <2> HIDE DEF m
  <2> QED BY <1>7, <1>8, <2>1, <2>2, AppendProperties
<1>10. /\ d \in [1 .. m -> Nat] /\ e \in [1 .. m -> Nat] /\ d[m] = 0 /\ e[m] = 0
       /\ \A a \in 1 .. n : d[a] = b[a] /\ e[a] = c[a] /\ b[a] \in Nat /\ c[a] \in Nat
  BY <1>7, <1>8
<1>11. DOMAIN nev = 1 .. l + 1 /\ DOMAIN dev = 1 .. l /\ l + 1 \in Nat
       /\ \A j \in 1 .. l + 1 : j \in 1 .. l \/ j = l + 1
  <2>1. DOMAIN nev = 1 .. Len(nev) /\ DOMAIN dev = 1 .. Len(dev)
    BY <1>7, <1>9, LenProperties
  <2>2. l + 1 \in Nat /\ \A j \in 1 .. l + 1 : j \in 1 .. l \/ j = l + 1
    BY <1>5 DEF l
  <2> HIDE DEF nev
  <2> QED BY <1>7, <1>9, <2>1, <2>2
<1> HIDE DEF nev, d, e, m
<1>12. Known(m, nev, d, e, P, tid, fid)'
  <2>1. Different(nev)
    <3> SUFFICES ASSUME NEW i \in 1 .. l + 1, NEW j \in 1 .. l + 1, nev[i] = nev[j] PROVE i = j
      BY <1>11 DEF Different
    <3> QED BY <1>7, <1>8, <1>9, <1>11 DEF Different
  <2>2. tid \in Seq(1 .. m) /\ fid \in Seq(1 .. m) /\ P \subseteq 1 .. m
    BY <1>7, <1>8, SeqMonotonic
  <2> QED BY <1>3, <1>6, <1>7, <1>8, <1>9, <1>10, <2>1, <2>2 DEF Known
<1>s. /\ IsFiniteSet(1 .. m) /\ IsFiniteSet(1 .. n)
      /\ Sum(d, 1 .. m) = Sum(b, 1 .. n) /\ Sum(e, 1 .. m) = Sum(c, 1 .. n) /\ Sum(e, P) = Sum(c, P)
  <2>1. IsFiniteSet(1 .. m) /\ IsFiniteSet(1 .. n)
    BY <1>7, <1>8, UptoFinite
  <2>2. Sum(d, 1 .. n) = Sum(b, 1 .. n) /\ Sum(e, 1 .. n) = Sum(c, 1 .. n)
    BY <1>10, <2>1, SumSame
  <2>3. Sum(e, P) = Sum(c, P)
    <3>1. IsFiniteSet(P) /\ \A x \in P : e[x] = c[x]
      BY <1>7, <1>10, <2>1, FS_Subset
    <3> QED BY <3>1, SumSame
  <2> DEFINE M == 1 .. m
             N == 1 .. n
  <2>4. IsFiniteSet(M) /\ m \in M /\ M \ {m} = N /\ IsFiniteSet(N)
    BY <1>8, <2>1
  <2>5. \A x \in M : d[x] \in Nat /\ e[x] \in Nat
    BY <1>10
  <2>6. \A x \in N : d[x] \in Nat /\ e[x] \in Nat
    BY <1>10
  <2> HIDE DEF M, N
  <2>7. Sum(d, M) = d[m] + Sum(d, N) /\ Sum(e, M) = e[m] + Sum(e, N)
    BY <2>4, <2>5, SumRemove
  <2>8. Sum(d, N) \in Nat /\ Sum(e, N) \in Nat
    BY <2>4, <2>6, SumType
  <2>9. Sum(d, M) = Sum(d, N) /\ Sum(e, M) = Sum(e, N)
    BY <1>10, <2>7, <2>8
  <2> QED BY <2>1, <2>2, <2>3, <2>9 DEF M, N
<1>13. Counted(m, nev, d, e)'
  <2>1. \A k \in 1 .. Len(kernel') : kernel'[k].bytes = d[nev[k]]
    <3> SUFFICES ASSUME NEW k \in 1 .. l + 1 PROVE kernel'[k].bytes = d[nev[k]]
      BY <1>6
    <3>1. CASE k \in 1 .. l
      BY <1>1, <1>6, <1>9, <1>10, <3>1 DEF Counted, l
    <3>2. CASE k = l + 1
      BY <1>5, <1>6, <1>9, <1>10, <3>2
    <3> QED BY <1>11, <3>1, <3>2
  <2>2. \A a \in 1 .. m : e[a] <= d[a]
    <3>1. \A a \in 1 .. n : c[a] <= b[a]
      BY <1>1 DEF Counted
    <3> QED BY <1>8, <1>10, <3>1
  <2>3. Sum(d, 1 .. m) = moved' + Boot * Len(FirstNames)
    BY <1>1, <1>3, <1>s DEF Counted
  <2> QED BY <1>c, <2>1, <2>2, <2>3 DEF Counted
<1>14. Sampled(m, e, P)'
  BY <1>1, <1>3, <1>s DEF Sampled
<1>15. Filled(d, e, tid, fid)'
  <2>1. \A a \in 1 .. n : b[a] \in Nat /\ d[a] \in Nat /\ b[a] <= d[a] /\ e[a] = c[a]
    BY <1>10
  <2> QED BY <1>1, <1>3, <1>c, <1>7, <2>1, FilledGrows
<1>16. Ordered(m, nev, e, P, tid, fid)'
  <2>1. Members(tid) \subseteq 1 .. n /\ Members(fid) \subseteq 1 .. n
    BY <1>7, MembersAre
  <2>2. \A a \in Members(nev) : a \in Members(dev) \/ a = m
    BY <1>9, <1>11 DEF Members
  <2>3. /\ \A a \in 1 .. n : c[a] > 0 /\ a \notin P =>
            a \notin Members(dev) /\ a \notin Members(tid) /\ a \notin Members(fid)
        /\ \A a \in P : a \in Members(dev) => a \in Members(tid)
        /\ began # None => \A a \in P \cup Members(tid) : a \in Members(dev) => a \in Members(fid)
        /\ \A k \in 1 .. l : dev[k] \in P \cup Members(tid) \cup Members(fid) =>
               k \in Kept(kernel) /\ Rank(k, Kept(kernel)) <= TableMax
    BY <1>1 DEF Ordered, l
  <2>4. \A a \in 1 .. m : e[a] > 0 /\ a \notin P =>
            a \notin Members(nev) /\ a \notin Members(tid) /\ a \notin Members(fid)
    <3> SUFFICES ASSUME NEW a \in 1 .. m, e[a] > 0, a \notin P
                 PROVE  a \notin Members(nev) /\ a \notin Members(tid) /\ a \notin Members(fid)
      OBVIOUS
    <3>1. a \in 1 .. n /\ a # m
      BY <1>8, <1>10
    <3> QED BY <1>10, <2>2, <2>3, <3>1
  <2>5. \A a \in P : a \in Members(nev) => a \in Members(tid)
    BY <1>7, <1>8, <2>2, <2>3
  <2>6. began # None => \A a \in P \cup Members(tid) : a \in Members(nev) => a \in Members(fid)
    BY <1>7, <1>8, <2>1, <2>2, <2>3
  <2>7. \A k \in 1 .. l + 1 : nev[k] \in P \cup Members(tid) \cup Members(fid) =>
            k \in Kept(kernel') /\ Rank(k, Kept(kernel')) <= TableMax
    <3> SUFFICES ASSUME NEW k \in 1 .. l + 1, nev[k] \in P \cup Members(tid) \cup Members(fid)
                 PROVE  k \in Kept(kernel') /\ Rank(k, Kept(kernel')) <= TableMax
      OBVIOUS
    <3>1. k \in 1 .. l
      BY <1>7, <1>8, <1>9, <1>11, <2>1
    <3>2. k \in Kept(kernel) /\ Rank(k, Kept(kernel)) <= TableMax
      BY <1>9, <2>3, <3>1
    <3> DEFINE S == Kept(kernel)
               T == Kept(kernel')
    <3>3. DOMAIN kernel = 1 .. l /\ DOMAIN kernel' = 1 .. l + 1
      BY <1>5, <1>6, LenProperties DEF l
    <3>4. k \in T /\ \A x \in T : x <= k => x \in S
      <4>1. \A x \in T : x <= k => x \in 1 .. l
        BY <1>11, <3>1, <3>3 DEF Kept
      <4>2. \A x \in 1 .. l : x \in 1 .. l + 1
        <5>1. l \in Nat
          BY <1>5 DEF l
        <5> QED BY <5>1
      <4> QED BY <1>6, <3>1, <3>2, <3>3, <4>1, <4>2 DEF Kept, Shown
    <3>5. /\ S \subseteq Nat /\ IsFiniteSet(S) /\ T \subseteq Nat /\ IsFiniteSet(T)
      BY <1>5, <1>6, KeptFinite
    <3> HIDE DEF S, T
    <3> DEFINE h == [x \in T |-> x]
    <3>6. \A x \in T : h[x] = x
      OBVIOUS
    <3>7. k \in S
      BY <3>2 DEF S
    <3> HIDE DEF h
    <3>8. Rank(k, T) <= Rank(k, S)
      <4>1. \A x \in T : x <= k => h[x] \in S /\ h[x] <= k
        BY <3>4, <3>6
      <4>2. \A x, y \in T : h[x] = h[y] => x = y
        BY <3>6
      <4> QED BY <3>4, <3>5, <3>7, <4>1, <4>2, RankMaps
    <3>9. Rank(k, S) \in Nat /\ Rank(k, T) \in Nat /\ TableMax \in Nat
      <4>1. Rank(k, S) \in 1 .. Cardinality(S) /\ Rank(k, T) \in 1 .. Cardinality(T)
        BY <3>4, <3>5, <3>7, RankType
      <4>2. Cardinality(S) \in Nat /\ Cardinality(T) \in Nat
        BY <3>5, FS_CardinalityType
      <4> QED BY <4>1, <4>2, Consts
    <3>10. Rank(k, S) <= TableMax
      BY <3>2 DEF S
    <3>11. Rank(k, T) <= TableMax
      BY <3>8, <3>9, <3>10
    <3> QED BY <3>4, <3>11 DEF T
  <2>8. Kept(kernel)' = Kept(kernel')
    BY <1>3 DEF Kept, Shown
  <2> QED BY <1>3, <1>6, <2>4, <2>5, <2>6, <2>7, <2>8 DEF Ordered
<1>17. Told(m, nev, d, e, P, tid, fid)'
  BY <1>12, <1>13, <1>14, <1>15, <1>16 DEF Told
<1> QED BY <1>17 DEF Story

(* A device that goes makes those behind it move up.                       *)
LEMMA UnplugTold ==
    ASSUME TablesInv, Unplug, NEW n, NEW dev, NEW b, NEW c, NEW P, NEW tid, NEW fid,
           Told(n, dev, b, c, P, tid, fid)
    PROVE  Story'
<1>1. Known(n, dev, b, c, P, tid, fid) /\ Counted(n, dev, b, c) /\ Sampled(n, c, P)
      /\ Filled(b, c, tid, fid) /\ Ordered(n, dev, c, P, tid, fid)
  BY DEF Told
<1>2. PICK g \in DOMAIN kernel : kernel' = RemoveAt(kernel, g)
  BY DEF Unplug
<1>3. UNCHANGED <<kind, moved, rows, count, prev, cpc, file, ci, began, reported>> /\ changes' = changes + 1
  BY DEF Unplug, Change, shared, collector, tally
<1>4. WorldTyped /\ Typed
  BY DEF TablesInv, Typed
<1>c. changes' # 0
  <2>1. changes \in Nat
    BY <1>4, Facts
  <2> QED BY <1>3, <2>1
<1> DEFINE l == Len(kernel)
           nev == RemoveAt(dev, g)
           up == [j \in 1 .. l - 1 |-> IF j < g THEN j ELSE j + 1]
<1>5. kernel \in Seq(Devices) /\ l \in Nat /\ g \in 1 .. l
  <2>1. kernel \in Seq(Devices)
    BY <1>4 DEF WorldTyped
  <2> QED BY <1>2, <2>1, LenProperties
<1>6. /\ kernel' \in Seq(Devices) /\ Len(kernel') = l - 1
      /\ \A j \in 1 .. l - 1 : kernel'[j] = kernel[up[j]]
  BY <1>2, <1>5, RemoveAtIs
<1>7. /\ n \in Nat /\ dev \in Seq(1 .. n) /\ Different(dev) /\ Len(dev) = l
      /\ b \in [1 .. n -> Nat] /\ c \in [1 .. n -> Nat] /\ P \subseteq 1 .. n
      /\ tid \in Seq(1 .. n) /\ Different(tid) /\ Len(tid) = count
      /\ fid \in Seq(1 .. n) /\ Different(fid)
  BY <1>1 DEF Known
<1>8. /\ nev \in Seq(1 .. n) /\ Len(nev) = l - 1
      /\ \A j \in 1 .. l - 1 : nev[j] = dev[up[j]]
  <2>1. g \in 1 .. Len(dev)
    BY <1>5, <1>7
  <2>2. /\ nev \in Seq(1 .. n) /\ Len(nev) = Len(dev) - 1
        /\ \A j \in 1 .. Len(dev) - 1 : nev[j] = dev[IF j < g THEN j ELSE j + 1]
    BY <1>7, <2>1, RemoveAtIs
  <2> HIDE DEF nev, l
  <2> QED BY <1>7, <2>2
<1>9. /\ \A j \in 1 .. l - 1 : up[j] \in 1 .. l
      /\ \A i, j \in 1 .. l - 1 : up[i] = up[j] => i = j
      /\ \A i, j \in 1 .. l - 1 : i <= j => up[i] <= up[j]
  BY <1>5
<1>10. /\ DOMAIN kernel = 1 .. l /\ DOMAIN kernel' = 1 .. l - 1
       /\ DOMAIN dev = 1 .. l /\ DOMAIN nev = 1 .. l - 1
  BY <1>5, <1>6, <1>7, <1>8, LenProperties
<1> HIDE DEF nev, up, l
<1>11. Known(n, nev, b, c, P, tid, fid)'
  <2>1. Different(nev)
    <3> SUFFICES ASSUME NEW i \in 1 .. l - 1, NEW j \in 1 .. l - 1, nev[i] = nev[j] PROVE i = j
      BY <1>10 DEF Different
    <3>1. dev[up[i]] = dev[up[j]] /\ up[i] \in DOMAIN dev /\ up[j] \in DOMAIN dev
      BY <1>8, <1>9, <1>10
    <3>2. up[i] = up[j]
      BY <1>7, <3>1 DEF Different
    <3> QED BY <1>9, <3>2
  <2> QED BY <1>3, <1>6, <1>7, <1>8, <2>1 DEF Known
<1>12. Counted(n, nev, b, c)'
  <2>1. \A k \in 1 .. Len(kernel') : kernel'[k].bytes = b[nev[k]]
    <3> SUFFICES ASSUME NEW k \in 1 .. l - 1 PROVE kernel'[k].bytes = b[nev[k]]
      BY <1>6
    <3>1. up[k] \in 1 .. l
      BY <1>9
    <3>2. kernel[up[k]].bytes = b[dev[up[k]]]
      BY <1>1, <3>1 DEF Counted, l
    <3> QED BY <1>6, <1>8, <3>2
  <2> QED BY <1>1, <1>3, <1>c, <2>1 DEF Counted
<1>13. Sampled(n, c, P)'
  BY <1>1, <1>3 DEF Sampled
<1>14. Filled(b, c, tid, fid)'
  <2>1. \A a \in 1 .. n : b[a] \in Nat /\ b[a] \in Nat /\ b[a] <= b[a] /\ c[a] = c[a]
    BY <1>7
  <2> QED BY <1>1, <1>3, <1>c, <1>7, <2>1, FilledGrows
<1>15. Ordered(n, nev, c, P, tid, fid)'
  <2>1. Members(nev) \subseteq Members(dev)
    BY <1>8, <1>9, <1>10 DEF Members
  <2>2. \A k \in 1 .. l : dev[k] \in P \cup Members(tid) \cup Members(fid) =>
               k \in Kept(kernel) /\ Rank(k, Kept(kernel)) <= TableMax
    BY <1>1 DEF Ordered, l
  <2>3. \A k \in 1 .. l - 1 : nev[k] \in P \cup Members(tid) \cup Members(fid) =>
            k \in Kept(kernel') /\ Rank(k, Kept(kernel')) <= TableMax
    <3> SUFFICES ASSUME NEW k \in 1 .. l - 1, nev[k] \in P \cup Members(tid) \cup Members(fid)
                 PROVE  k \in Kept(kernel') /\ Rank(k, Kept(kernel')) <= TableMax
      OBVIOUS
    <3> DEFINE S == Kept(kernel)
               T == Kept(kernel')
               m == up[k]
    <3>1. m \in S /\ Rank(m, S) <= TableMax
      BY <1>8, <1>9, <2>2
    <3>2. T \subseteq 1 .. l - 1 /\ \A x \in T : up[x] \in S
      <4>1. T \subseteq 1 .. l - 1
        BY <1>10 DEF Kept
      <4>2. \A x \in T : kernel'[x] = kernel[up[x]] /\ up[x] \in 1 .. l
        BY <1>6, <1>9, <4>1
      <4> QED BY <1>10, <4>1, <4>2 DEF Kept, Shown
    <3>3. k \in T
      BY <1>6, <1>10, <3>1 DEF Kept, Shown
    <3>4. /\ S \subseteq Nat /\ IsFiniteSet(S) /\ T \subseteq Nat /\ IsFiniteSet(T)
      BY <1>5, <1>6, KeptFinite
    <3>5. \A x \in T : x <= k => up[x] \in S /\ up[x] <= m
      BY <1>9, <3>2
    <3>6. \A x, y \in T : up[x] = up[y] => x = y
      BY <1>9, <3>2
    <3> HIDE DEF S, T, m
    <3>7. Rank(k, T) <= Rank(m, S)
      BY <3>1, <3>3, <3>4, <3>5, <3>6, RankMaps
    <3>8. Rank(m, S) \in Nat /\ Rank(k, T) \in Nat /\ TableMax \in Nat
      <4>1. Rank(m, S) \in 1 .. Cardinality(S) /\ Rank(k, T) \in 1 .. Cardinality(T)
        BY <3>1, <3>3, <3>4, RankType
      <4>2. Cardinality(S) \in Nat /\ Cardinality(T) \in Nat
        BY <3>4, FS_CardinalityType
      <4> QED BY <4>1, <4>2, Consts
    <3>9. Rank(k, T) <= TableMax
      BY <3>1, <3>7, <3>8
    <3> QED BY <3>3, <3>9 DEF T
  <2>4. Kept(kernel)' = Kept(kernel')
    BY <1>3 DEF Kept, Shown
  <2>5. Len(kernel') = l - 1
    BY <1>6
  <2> QED BY <1>1, <1>3, <2>1, <2>3, <2>4, <2>5 DEF Ordered
<1>16. Told(n, nev, b, c, P, tid, fid)'
  BY <1>11, <1>12, <1>13, <1>14, <1>15 DEF Told
<1> QED BY <1>16 DEF Story

-----------------------------------------------------------------------------
(* Steps that leave the devices and the samples as they are.               *)
ToldFrame == UNCHANGED <<world, moved, count, prev, reported, began>>

LEMMA ToldSame ==
    ASSUME ToldFrame, NEW n, NEW dev, NEW b, NEW c, NEW P, NEW tid, NEW fid,
           Told(n, dev, b, c, P, tid, fid), Filled(b, c, tid, fid)'
    PROVE  Story'
<1>1. Known(n, dev, b, c, P, tid, fid) /\ Counted(n, dev, b, c) /\ Sampled(n, c, P)
      /\ Ordered(n, dev, c, P, tid, fid)
  BY DEF Told
<1>2. UNCHANGED <<kind, kernel, changes, moved, count, prev, reported, began>>
  BY DEF ToldFrame, world
<1>3. Known(n, dev, b, c, P, tid, fid)'
  BY <1>1, <1>2 DEF Known
<1>4. Counted(n, dev, b, c)'
  BY <1>1, <1>2 DEF Counted
<1>5. Sampled(n, c, P)'
  BY <1>1, <1>2 DEF Sampled
<1>6. Ordered(n, dev, c, P, tid, fid)'
  <2>1. Kept(kernel)' = Kept(kernel)
    BY <1>2 DEF Kept, Shown
  <2> QED BY <1>1, <1>2, <2>1 DEF Ordered
<1>7. Told(n, dev, b, c, P, tid, fid)'
  BY <1>3, <1>4, <1>5, <1>6 DEF Told
<1> QED BY <1>7 DEF Story

(* Steps that touch no counter of a row and no entry of the file.          *)
LEMMA CountersSame ==
    ASSUME TablesInv, Story, ToldFrame,
           \A i \in 0 .. TableMax - 1 : rows'[i].bytes = rows[i].bytes,
           began # None => UNCHANGED <<file, ci>>,
           cpc' = "unflag" => cpc = "unflag"
    PROVE  Story'
<1>1. PICK n, dev, b, c, P, tid, fid : Told(n, dev, b, c, P, tid, fid)
  BY DEF Story
<1>2. Filled(b, c, tid, fid)
  BY <1>1 DEF Told
<1>3. UNCHANGED <<changes, count, began>>
  BY DEF ToldFrame, world
<1>4. /\ ci \in Nat /\ ci <= TableMax /\ TableMax \in Nat /\ count \in 0 .. TableMax
      /\ (cpc = "unflag" => ci < TableMax)
  <2>1. Typed /\ PassOrder
    BY DEF TablesInv, Typed
  <2> QED BY <2>1, Facts DEF PassOrder
<1>5. \A v, a : Fits(v, a, b, c) => Fits(v, a, b, c)'
  BY <1>3 DEF Fits
<1>6. Filled(b, c, tid, fid)'
  <2>1. CASE began = None
    <3>1. fid = <<>> /\ \A i \in 0 .. count - 1 : Fits(rows[i].bytes, tid[i + 1], b, c)
      BY <1>2, <2>1 DEF Filled
    <3>2. \A i \in 0 .. count - 1 : i \in 0 .. TableMax - 1
      BY <1>4
    <3>3. \A i \in 0 .. count - 1 : Fits(rows'[i].bytes, tid[i + 1], b, c)
      BY <3>1, <3>2
    <3> QED BY <1>3, <1>5, <2>1, <3>1, <3>3 DEF Filled
  <2>2. CASE began # None
    <3>1. UNCHANGED <<file, ci>>
      BY <2>2
    <3>2. /\ Len(fid) = Least(ci + Len(file), TableMax)
          /\ \A j \in 1 .. Len(file) : ci + j <= TableMax => Fits(file[j].bytes, fid[ci + j], b, c)
          /\ \A i \in 0 .. ci - 1 : Fits(rows[i].bytes, fid[i + 1], b, c)
          /\ cpc = "unflag" => Fits(rows[ci].bytes, fid[ci + 1], b, c)
      BY <1>2, <2>2 DEF Filled
    <3>3. \A i \in 0 .. ci - 1 : i \in 0 .. TableMax - 1
      BY <1>4
    <3>4. \A i \in 0 .. ci - 1 : Fits(rows'[i].bytes, fid[i + 1], b, c)
      BY <3>2, <3>3
    <3>5. cpc' = "unflag" => Fits(rows'[ci].bytes, fid[ci + 1], b, c)
      <4>1. cpc = "unflag" => ci \in 0 .. TableMax - 1
        BY <1>4
      <4> QED BY <3>2, <4>1
    <3> QED BY <1>3, <1>5, <2>2, <3>1, <3>2, <3>4, <3>5 DEF Filled
  <2> QED BY <2>1, <2>2
<1> QED BY <1>1, <1>6, ToldSame

(* The counters of a row are those of the file.                            *)
LEMMA CountersTold ==
    ASSUME TablesInv, Story, StoreSizes \/ StoreCounters
    PROVE  Story'
<1>1. PICK n, dev, b, c, P, tid, fid : Told(n, dev, b, c, P, tid, fid)
  BY DEF Story
<1>2. Filled(b, c, tid, fid)
  BY <1>1 DEF Told
<1>3. Typed /\ PassOrder
  BY DEF TablesInv, Typed
<1>4. /\ cpc = "counters"
      /\ rows' = [rows EXCEPT ![ci]["bytes"] = Head(file).bytes]
      /\ UNCHANGED <<world, count, prev, addrs, passes, began, filled, reader, tally>>
      /\ \/ cpc' = "row" /\ NextRow
         \/ cpc' = "unflag" /\ kind = "interfaces" /\ UNCHANGED <<file, ci>>
  BY DEF StoreSizes, StoreCounters, Store
<1>5. ToldFrame /\ UNCHANGED <<changes, count, began>>
  BY <1>4 DEF ToldFrame, world, tally
<1>6. ci < TableMax /\ file # <<>> /\ began # None
  BY <1>3, <1>4 DEF PassOrder
<1>7. /\ ci \in Nat /\ ci + 1 <= TableMax /\ TableMax \in Nat /\ Len(file) \in Nat
  BY <1>3, <1>6, Facts
<1>8. /\ Head(file) = file[1] /\ 1 \in 1 .. Len(file) /\ Len(Tail(file)) = Len(file) - 1
      /\ \A j \in 1 .. Len(file) - 1 : Tail(file)[j] = file[j + 1] /\ j + 1 \in 1 .. Len(file)
      /\ Len(file) >= 1
  BY <1>3, <1>6, FileFacts
<1>9. /\ \A i \in 0 .. TableMax - 1 : i # ci => rows'[i] = rows[i]
      /\ rows'[ci].bytes = file[1].bytes
  <2>1. file[1].bytes \in 0 .. Boot + moved
    <3>1. file[1] \in Devices
      BY <1>3, <1>6, FileFacts
    <3> QED BY <3>1 DEF Devices
  <2>2. StoredBytes(file[1].bytes)
    BY <1>4, <1>8 DEF StoredBytes
  <2> QED BY <1>3, <1>6, <2>1, <2>2, BytesStored DEF Others
<1>10. /\ Len(fid) = Least(ci + Len(file), TableMax)
       /\ \A j \in 1 .. Len(file) : ci + j <= TableMax => Fits(file[j].bytes, fid[ci + j], b, c)
       /\ \A i \in 0 .. ci - 1 : Fits(rows[i].bytes, fid[i + 1], b, c)
  BY <1>2, <1>6 DEF Filled
<1>11. \A i \in 0 .. ci - 1 : Fits(rows'[i].bytes, fid[i + 1], b, c)
  <2>1. \A i \in 0 .. ci - 1 : i \in 0 .. TableMax - 1 /\ i # ci
    BY <1>7
  <2> QED BY <1>9, <1>10, <2>1
<1>12. Fits(rows'[ci].bytes, fid[ci + 1], b, c)
  BY <1>7, <1>8, <1>9, <1>10
<1>13. \A v, a : Fits(v, a, b, c) => Fits(v, a, b, c)'
  BY <1>5 DEF Fits
<1>14. Filled(b, c, tid, fid)'
  <2>1. CASE cpc' = "row" /\ NextRow
    <3>1. file' = Tail(file) /\ ci' = ci + 1
      BY <2>1 DEF NextRow
    <3>2. Len(fid) = Least(ci' + Len(file'), TableMax)
      <4>1. ci' + Len(file') = ci + Len(file)
        <5>1. Len(file') = Len(file) - 1 /\ ci' = ci + 1 /\ ci \in Nat /\ Len(file) \in Nat
          BY <1>7, <1>8, <3>1
        <5> QED BY <5>1
      <4> QED BY <1>10, <4>1
    <3>3. \A j \in 1 .. Len(file') : ci' + j <= TableMax => Fits(file'[j].bytes, fid[ci' + j], b, c)
      <4> SUFFICES ASSUME NEW j \in 1 .. Len(file) - 1, ci + 1 + j <= TableMax
                   PROVE  Fits(Tail(file)[j].bytes, fid[ci + 1 + j], b, c)
        BY <1>8, <3>1
      <4>1. ci + (j + 1) = ci + 1 + j
        BY <1>7
      <4> QED BY <1>8, <1>10, <4>1
    <3>4. \A i \in 0 .. ci' - 1 : Fits(rows'[i].bytes, fid[i + 1], b, c)
      <4>1. \A i \in 0 .. ci' - 1 : i \in 0 .. ci - 1 \/ i = ci
        BY <1>7, <3>1
      <4> QED BY <1>11, <1>12, <4>1
    <3> QED BY <1>5, <1>6, <1>13, <2>1, <3>2, <3>3, <3>4 DEF Filled
  <2>2. CASE cpc' = "unflag" /\ UNCHANGED <<file, ci>>
    BY <1>5, <1>6, <1>10, <1>11, <1>12, <1>13, <2>2 DEF Filled
  <2> QED BY <1>4, <2>1, <2>2
<1> QED BY <1>1, <1>5, <1>14, ToldSame

LEMMA ClearFlagsTold ==
    ASSUME TablesInv, Story, ClearFlags
    PROVE  Story'
<1>1. PICK n, dev, b, c, P, tid, fid : Told(n, dev, b, c, P, tid, fid)
  BY DEF Story
<1>2. Filled(b, c, tid, fid)
  BY <1>1 DEF Told
<1>3. Typed /\ PassOrder
  BY DEF TablesInv, Typed
<1>4. /\ cpc = "unflag" /\ cpc' = "row" /\ file' = Tail(file) /\ ci' = ci + 1
      /\ rows' = [rows EXCEPT ![ci]["up"] = FALSE]
      /\ UNCHANGED <<world, count, prev, addrs, passes, began, filled, reader, tally>>
  BY DEF ClearFlags, Store, NextRow
<1>5. ToldFrame /\ UNCHANGED <<changes, count, began>>
  BY <1>4 DEF ToldFrame, world, tally
<1>6. ci < TableMax /\ file # <<>> /\ began # None
  BY <1>3, <1>4 DEF PassOrder
<1>7. ci \in Nat /\ ci + 1 <= TableMax /\ TableMax \in Nat /\ Len(file) \in Nat /\ ci \in 0 .. TableMax - 1
  <2>1. ci \in Nat /\ TableMax \in Nat /\ Len(file) \in Nat
    BY <1>3, Facts
  <2> QED BY <1>6, <2>1
<1>8. /\ Len(Tail(file)) = Len(file) - 1 /\ Len(file) >= 1
      /\ \A j \in 1 .. Len(file) - 1 : Tail(file)[j] = file[j + 1] /\ j + 1 \in 1 .. Len(file)
  BY <1>3, <1>6, FileFacts
<1>9. \A i \in 0 .. TableMax - 1 : rows'[i].bytes = rows[i].bytes
  BY <1>3, <1>4, <1>7, UpStored
<1>10. /\ Len(fid) = Least(ci + Len(file), TableMax)
       /\ \A j \in 1 .. Len(file) : ci + j <= TableMax => Fits(file[j].bytes, fid[ci + j], b, c)
       /\ \A i \in 0 .. ci - 1 : Fits(rows[i].bytes, fid[i + 1], b, c)
       /\ Fits(rows[ci].bytes, fid[ci + 1], b, c)
  BY <1>2, <1>4, <1>6 DEF Filled
<1>11. \A i \in 0 .. ci' - 1 : Fits(rows'[i].bytes, fid[i + 1], b, c)
  <2>1. \A i \in 0 .. ci' - 1 : i \in 0 .. TableMax - 1 /\ (i \in 0 .. ci - 1 \/ i = ci)
    BY <1>4, <1>7
  <2> QED BY <1>9, <1>10, <2>1
<1>12. Len(fid) = Least(ci' + Len(file'), TableMax)
  <2>1. ci' + Len(file') = ci + Len(file)
    <3>1. Len(file') = Len(file) - 1 /\ ci' = ci + 1 /\ ci \in Nat /\ Len(file) \in Nat
      BY <1>4, <1>7, <1>8
    <3> QED BY <3>1
  <2> QED BY <1>10, <2>1
<1>13. \A j \in 1 .. Len(file') : ci' + j <= TableMax => Fits(file'[j].bytes, fid[ci' + j], b, c)
  <2> SUFFICES ASSUME NEW j \in 1 .. Len(file) - 1, ci + 1 + j <= TableMax
               PROVE  Fits(Tail(file)[j].bytes, fid[ci + 1 + j], b, c)
    BY <1>4, <1>8
  <2>1. ci + (j + 1) = ci + 1 + j
    BY <1>7
  <2> QED BY <1>8, <1>10, <2>1
<1>14. \A v, a : Fits(v, a, b, c) => Fits(v, a, b, c)'
  BY <1>5 DEF Fits
<1>15. Filled(b, c, tid, fid)'
  BY <1>4, <1>5, <1>6, <1>11, <1>12, <1>13, <1>14 DEF Filled
<1> QED BY <1>1, <1>5, <1>15, ToldSame

-----------------------------------------------------------------------------
(* A pass fills the table from the devices that are first in the file.     *)
LEMMA ReadFileTold ==
    ASSUME TablesInv, ReadFile, NEW n, NEW dev, NEW b, NEW c, NEW P, NEW tid, NEW fid,
           Told(n, dev, b, c, P, tid, fid)
    PROVE  Story'
<1>1. Known(n, dev, b, c, P, tid, fid) /\ Counted(n, dev, b, c) /\ Sampled(n, c, P)
      /\ Filled(b, c, tid, fid) /\ Ordered(n, dev, c, P, tid, fid)
  BY DEF Told
<1>2. Typed /\ WorldTyped /\ PassOrder
  BY DEF TablesInv, Typed
<1>3. /\ cpc = "idle" /\ cpc' = "row" /\ ci' = 0 /\ file' = Now /\ began' = changes
      /\ UNCHANGED <<world, shared, tally>>
  BY DEF ReadFile, Begin, Now
<1>4. UNCHANGED <<kind, kernel, changes, moved, rows, count, prev, reported>> /\ began = None
  BY <1>2, <1>3 DEF world, shared, tally, PassOrder
<1> DEFINE S == Kept(kernel)
           l == Len(kernel)
           nth == [i \in 1 .. Room |-> Nth(i, S)]
<1>n. PICK new : new = [i \in 1 .. Room |-> dev[Nth(i, S)]]
  OBVIOUS
<1>5. /\ n \in Nat /\ dev \in Seq(1 .. n) /\ Different(dev) /\ Len(dev) = l
      /\ b \in [1 .. n -> Nat] /\ c \in [1 .. n -> Nat] /\ P \subseteq 1 .. n
      /\ tid \in Seq(1 .. n) /\ Different(tid) /\ Len(tid) = count
  BY <1>1 DEF Known
<1>6. kernel \in Seq(Devices) /\ DOMAIN kernel = 1 .. l /\ DOMAIN dev = 1 .. l
      /\ \A k \in 1 .. l : dev[k] \in 1 .. n
  <2>1. kernel \in Seq(Devices)
    BY <1>2 DEF WorldTyped
  <2>2. DOMAIN kernel = 1 .. l
    BY <2>1, LenProperties
  <2>3. DOMAIN dev = 1 .. l /\ \A k \in 1 .. l : dev[k] \in 1 .. n
    BY <1>5, LenProperties
  <2> QED BY <2>1, <2>2, <2>3
<1>7. /\ Len(Now) \in Nat /\ Room \in Nat /\ Room <= TableMax /\ Room <= Len(Now) /\ TableMax \in Nat
      /\ Room = Len(Now) \/ Room = TableMax
  BY <1>2, NowNat, Consts
<1>8. /\ S \subseteq Nat /\ IsFiniteSet(S) /\ Len(Now) = Cardinality(S) /\ S \subseteq 1 .. l
      /\ \A i \in 1 .. Len(Now) : /\ Nth(i, S) \in 1 .. l /\ Nth(i, S) \in S /\ Rank(Nth(i, S), S) = i
                                  /\ Now[i] = kernel[Nth(i, S)]
  <2>1. S \subseteq DOMAIN kernel
    BY DEF Kept
  <2> QED BY <1>6, <2>1, KeptFinite, ListedIs DEF Now
<1>9. \A i \in 1 .. Room : i \in 1 .. Len(Now) /\ nth[i] = Nth(i, S) /\ new[i] = dev[nth[i]]
  BY <1>7, <1>n
<1>10. /\ new \in Seq(1 .. n) /\ Len(new) = Room /\ DOMAIN new = 1 .. Room
  <2>1. \A i \in 1 .. Room : dev[Nth(i, S)] \in 1 .. n
    BY <1>6, <1>8, <1>9
  <2> HIDE DEF S
  <2> QED BY <1>7, <1>n, <2>1
<1> HIDE DEF S, l, nth
<1>11. \A i \in 1 .. Room : nth[i] \in 1 .. l /\ nth[i] \in S /\ Rank(nth[i], S) = i /\ Now[i] = kernel[nth[i]]
  BY <1>8, <1>9
<1>12. \A k \in S : Rank(k, S) <= TableMax => Rank(k, S) \in 1 .. Room /\ nth[Rank(k, S)] = k
  <2> SUFFICES ASSUME NEW k \in S, Rank(k, S) <= TableMax
               PROVE  Rank(k, S) \in 1 .. Room /\ nth[Rank(k, S)] = k
    OBVIOUS
  <2> DEFINE r == Rank(k, S)
             m == nth[r]
  <2>1. r \in 1 .. Len(Now)
    BY <1>8, RankType
  <2>2. r \in 1 .. Room
    <3> HIDE DEF r
    <3>1. r <= TableMax
      BY DEF r
    <3> QED BY <1>7, <2>1, <3>1
  <2>3. m \in S /\ Rank(m, S) = r
    BY <1>11, <2>2
  <2>4. m \in Nat /\ k \in Nat /\ r \in Nat
    <3>1. m \in Nat /\ k \in Nat
      BY <1>8, <2>3
    <3> HIDE DEF m, r
    <3>2. r \in Nat
      BY <1>7, <2>1
    <3> QED BY <3>1, <3>2
  <2> HIDE DEF m
  <2>5. ~(m < k)
    <3>1. m < k => Rank(m, S) < Rank(k, S)
      BY <1>8, <2>3, RankGrows
    <3> QED BY <2>3, <2>4, <3>1
  <2>6. ~(k < m)
    <3>1. k < m => Rank(k, S) < Rank(m, S)
      BY <1>8, <2>3, RankGrows
    <3> QED BY <2>3, <2>4, <3>1
  <2>7. m = k
    BY <2>4, <2>5, <2>6
  <2> QED BY <2>2, <2>7 DEF m
<1>13. Known(n, dev, b, c, P, tid, new)'
  <2>1. Different(new)
    <3> SUFFICES ASSUME NEW i \in 1 .. Room, NEW j \in 1 .. Room, new[i] = new[j] PROVE i = j
      BY <1>10 DEF Different
    <3>1. dev[nth[i]] = dev[nth[j]]
      BY <1>9
    <3>2. nth[i] = nth[j]
      BY <1>5, <1>6, <1>11, <3>1 DEF Different
    <3> QED BY <1>11, <3>2
  <2>2. Len(dev) = Len(kernel')
    BY <1>4, <1>5 DEF l
  <2>3. new \in Seq(1 .. n)
    BY <1>10
  <2> QED BY <1>4, <1>5, <2>1, <2>2, <2>3 DEF Known
<1>14. Counted(n, dev, b, c)'
  BY <1>1, <1>4 DEF Counted
<1>15. Sampled(n, c, P)'
  BY <1>1, <1>4 DEF Sampled
<1>16. Filled(b, c, tid, new)'
  <2>1. Len(new) = Least(0 + Len(Now), TableMax)
    BY <1>7, <1>10 DEF Room
  <2>2. \A j \in 1 .. Len(Now) : 0 + j <= TableMax => Fits(Now[j].bytes, new[0 + j], b, c)
    <3> SUFFICES ASSUME NEW j \in 1 .. Len(Now), j <= TableMax PROVE Fits(Now[j].bytes, new[j], b, c)
      OBVIOUS
    <3>1. j \in 1 .. Room
      BY <1>7
    <3>2. Now[j].bytes = b[new[j]] /\ new[j] \in 1 .. n
      <4>1. nth[j] \in 1 .. l /\ Now[j] = kernel[nth[j]] /\ new[j] = dev[nth[j]]
        BY <1>9, <1>11, <3>1
      <4>2. kernel[nth[j]].bytes = b[dev[nth[j]]]
        BY <1>1, <4>1 DEF Counted, l
      <4> QED BY <1>6, <4>1, <4>2
    <3>3. c[new[j]] <= b[new[j]] /\ (changes = 0 => Boot <= b[new[j]]) /\ b[new[j]] \in Nat
      BY <1>1, <1>5, <3>2 DEF Counted
    <3>4. b[new[j]] <= b[new[j]]
      BY <3>3
    <3> QED BY <3>2, <3>3, <3>4 DEF Fits
  <2>3. \A i \in 0 .. 0 - 1 : FALSE
    OBVIOUS
  <2>4. \A v, a : Fits(v, a, b, c) => Fits(v, a, b, c)'
    BY <1>4 DEF Fits
  <2>5. began' # None
    <3>1. changes \in Nat /\ None < 0
      BY <1>2, Facts
    <3> QED BY <1>3, <3>1
  <2>6. /\ began' # None /\ cpc' # "unflag" /\ file' = Now /\ ci' = 0
    BY <1>3, <2>5
  <2>7. Len(new) = Least(ci' + Len(file'), TableMax)
    BY <2>1, <2>6
  <2>8. \A j \in 1 .. Len(file') : ci' + j <= TableMax => Fits(file'[j].bytes, new[ci' + j], b, c)
    BY <2>2, <2>6
  <2>9. \A i \in 0 .. ci' - 1 : FALSE
    BY <2>3, <2>6
  <2> QED BY <2>4, <2>6, <2>7, <2>8, <2>9 DEF Filled
<1>17. Ordered(n, dev, c, P, tid, new)'
  <2>1. Members(new) = {new[i] : i \in 1 .. Room}
    BY <1>10 DEF Members
  <2>2. Members(new) \subseteq Members(dev)
    BY <1>6, <1>9, <1>11, <2>1 DEF Members
  <2>3. /\ \A a \in 1 .. n : c[a] > 0 /\ a \notin P => a \notin Members(dev) /\ a \notin Members(tid)
        /\ \A a \in P : a \in Members(dev) => a \in Members(tid)
        /\ \A k \in 1 .. l : dev[k] \in P \cup Members(tid) =>
               k \in S /\ Rank(k, S) <= TableMax
    BY <1>1 DEF Ordered, l, S
  <2>4. \A a \in P \cup Members(tid) : a \in Members(dev) => a \in Members(new)
    <3> SUFFICES ASSUME NEW a \in P \cup Members(tid), a \in Members(dev) PROVE a \in Members(new)
      OBVIOUS
    <3>1. PICK k \in 1 .. l : a = dev[k]
      BY <1>6 DEF Members
    <3>2. Rank(k, S) \in 1 .. Room /\ nth[Rank(k, S)] = k
      BY <1>12, <2>3, <3>1
    <3> QED BY <1>9, <2>1, <3>1, <3>2
  <2>5. \A k \in 1 .. l : dev[k] \in P \cup Members(tid) \cup Members(new) => k \in S /\ Rank(k, S) <= TableMax
    <3> SUFFICES ASSUME NEW k \in 1 .. l, dev[k] \in Members(new) PROVE k \in S /\ Rank(k, S) <= TableMax
      BY <2>3
    <3>1. PICK i \in 1 .. Room : dev[k] = dev[nth[i]]
      BY <1>9, <2>1
    <3>2. k = nth[i]
      BY <1>5, <1>6, <1>11, <3>1 DEF Different
    <3>3. k \in S /\ Rank(k, S) = i
      BY <1>11, <3>2
    <3> QED BY <1>7, <3>3
  <2>6. Kept(kernel)' = S
    BY <1>4 DEF Kept, Shown, S
  <2>7. \A a \in 1 .. n : c[a] > 0 /\ a \notin P =>
           a \notin Members(dev) /\ a \notin Members(tid) /\ a \notin Members(new)
    BY <2>2, <2>3
  <2>8. \A k \in 1 .. Len(kernel') : dev[k] \in P \cup Members(tid) \cup Members(new) =>
           k \in S /\ Rank(k, S) <= TableMax
    BY <1>4, <2>5 DEF l
  <2> QED BY <2>3, <2>4, <2>6, <2>7, <2>8 DEF Ordered
<1>18. Told(n, dev, b, c, P, tid, new)'
  BY <1>13, <1>14, <1>15, <1>16, <1>17 DEF Told
<1> QED BY <1>18 DEF Story

(* The rows of the last pass that filled the table are those of the next   *)
(* sample.                                                                 *)
LEMMA EndTold ==
    ASSUME TablesInv, StoreCount \/ StoreCountAtEnd,
           NEW n, NEW dev, NEW b, NEW c, NEW P, NEW tid, NEW fid,
           Told(n, dev, b, c, P, tid, fid)
    PROVE  Story'
<1>1. Known(n, dev, b, c, P, tid, fid) /\ Counted(n, dev, b, c) /\ Sampled(n, c, P)
      /\ Filled(b, c, tid, fid) /\ Ordered(n, dev, c, P, tid, fid)
  BY DEF Told
<1>2. Typed /\ PassOrder
  BY DEF TablesInv, Typed
<1>3. /\ cpc \in {"row", "flags"}
      /\ count' = ci /\ began' = None
      /\ UNCHANGED <<kind, kernel, changes, moved, rows, prev, reported>>
  BY DEF StoreCount, StoreCountAtEnd, EndTable, world, tally
<1>4. began # None
  BY <1>2, <1>3 DEF PassOrder
<1>5. ci \in Nat /\ ci <= TableMax /\ TableMax \in Nat /\ Len(file) \in Nat
  BY <1>2, Facts
<1>6. ci = TableMax \/ Len(file) = 0
  <2>1. file = <<>> \/ ci = TableMax
    BY <1>2, <1>5 DEF StoreCount, StoreCountAtEnd, MoreRows, PassOrder
  <2> QED BY <2>1, EmptySeq
<1>7. /\ Len(fid) = Least(ci + Len(file), TableMax)
      /\ \A i \in 0 .. ci - 1 : Fits(rows[i].bytes, fid[i + 1], b, c)
  BY <1>1, <1>4 DEF Filled
<1>8. Len(fid) = ci
  <2>1. Least(ci + Len(file), TableMax) = ci
    BY <1>5, <1>6 DEF Least
  <2> QED BY <1>7, <2>1
<1>9. Known(n, dev, b, c, P, fid, <<>>)'
  <2>1. <<>> \in Seq(1 .. n) /\ Different(<<>>)
    <3>1. DOMAIN <<>> = {}
      BY EmptySeq
    <3> QED BY <3>1, EmptySeq DEF Different
  <2> QED BY <1>1, <1>3, <1>8, <2>1 DEF Known
<1>10. Counted(n, dev, b, c)'
  BY <1>1, <1>3 DEF Counted
<1>11. Sampled(n, c, P)'
  BY <1>1, <1>3 DEF Sampled
<1>12. Filled(b, c, fid, <<>>)'
  <2>1. \A v, a : Fits(v, a, b, c) => Fits(v, a, b, c)'
    BY <1>3 DEF Fits
  <2>2. \A i \in 0 .. count' - 1 : Fits(rows'[i].bytes, fid[i + 1], b, c)
    BY <1>3, <1>7
  <2> QED BY <1>3, <2>1, <2>2 DEF Filled
<1>13. Ordered(n, dev, c, P, fid, <<>>)'
  <2>1. Kept(kernel)' = Kept(kernel)
    BY <1>3 DEF Kept, Shown
  <2>2. /\ \A a \in 1 .. n : c[a] > 0 /\ a \notin P => a \notin Members(dev) /\ a \notin Members(fid)
        /\ \A a \in P : a \in Members(dev) => a \in Members(fid)
        /\ \A k \in 1 .. Len(kernel) : dev[k] \in P \cup Members(fid) =>
               k \in Kept(kernel) /\ Rank(k, Kept(kernel)) <= TableMax
    BY <1>1, <1>4 DEF Ordered
  <2> QED BY <1>3, <2>1, <2>2, NoMembers DEF Ordered
<1>14. Told(n, dev, b, c, P, fid, <<>>)'
  BY <1>9, <1>10, <1>11, <1>12, <1>13 DEF Told
<1> QED BY <1>14 DEF Story

-----------------------------------------------------------------------------
(* The bytes that a sample finds are new in the devices of its rows.       *)
LEMMA DeltaIsNew ==
    ASSUME NEW N, IsFiniteSet(N), NEW T \in SUBSET N, NEW P \in SUBSET N, NEW c, NEW e,
           \A a \in N : c[a] \in Nat /\ e[a] \in Nat /\ c[a] <= e[a],
           \A a \in N : a \notin T => e[a] = c[a],
           \A a \in T : a \notin P => c[a] = 0
    PROVE  Sum(c, N) + Delta(Sum(e, T), Sum(c, P)) <= Sum(e, N)
<1>1. IsFiniteSet(T) /\ IsFiniteSet(P) /\ IsFiniteSet(N \ T) /\ IsFiniteSet(T \ P) /\ IsFiniteSet(T \cap P)
  BY FS_Subset
<1>2. /\ Sum(c, N) = Sum(c, T) + Sum(c, N \ T)
      /\ Sum(e, N) = Sum(e, T) + Sum(e, N \ T)
  BY SumSplit
<1>3. Sum(e, N \ T) = Sum(c, N \ T)
  BY <1>1, SumSame
<1>4. Sum(c, T) = Sum(c, T \cap P) + Sum(c, T \ P)
  <2>1. T \cap P \in SUBSET T /\ T \ (T \cap P) = T \ P
    OBVIOUS
  <2>2. \A a \in T : c[a] \in Nat
    OBVIOUS
  <2>3. Sum(c, T) = Sum(c, T \cap P) + Sum(c, T \ (T \cap P))
    BY <1>1, <2>1, <2>2, SumSplit
  <2> QED BY <2>1, <2>3
<1>5. Sum(c, T \ P) = 0
  BY <1>1, SumZero
<1>6. Sum(c, T \cap P) <= Sum(c, P)
  <2>1. T \cap P \in SUBSET P /\ \A a \in P : c[a] \in Nat
    OBVIOUS
  <2> QED BY <1>1, <2>1, SumSubset
<1>7. /\ Sum(c, T) \in Nat /\ Sum(e, T) \in Nat /\ Sum(c, P) \in Nat /\ Sum(c, N \ T) \in Nat
      /\ Sum(c, T \cap P) \in Nat
  BY <1>1, SumType
<1>8. Sum(c, T) <= Sum(e, T)
  BY <1>1, SumLess
<1> DEFINE x == Sum(c, T)
           y == Sum(e, T)
           z == Sum(c, P)
           w == Sum(c, N \ T)
<1>9. /\ x \in Nat /\ y \in Nat /\ z \in Nat /\ w \in Nat /\ x <= z /\ x <= y
      /\ Sum(c, N) = x + w /\ Sum(e, N) = y + w
  BY <1>2, <1>3, <1>4, <1>5, <1>6, <1>7, <1>8
<1> HIDE DEF x, y, z, w
<1>10. x + w + Delta(y, z) <= y + w
  BY <1>9 DEF Delta
<1> QED BY <1>9, <1>10 DEF y, z

(* While every device has counted Boot bytes or more, a sample has those   *)
(* and, beyond them, no more than what was moved.                          *)
LEMMA SampleBounds ==
    ASSUME NEW N, IsFiniteSet(N), NEW T \in SUBSET N, NEW b, NEW e, NEW m \in Nat,
           \A a \in N : b[a] \in Nat /\ e[a] \in Nat /\ e[a] <= b[a] /\ Boot <= b[a],
           \A a \in T : Boot <= e[a],
           Sum(b, N) = m + Boot * Cardinality(N)
    PROVE  /\ Boot * Cardinality(T) <= Sum(e, T)
           /\ Sum(e, T) <= m + Boot * Cardinality(T)
<1> DEFINE g == [a \in N |-> b[a] - Boot]
           k == [a \in N |-> Boot]
           z == [a \in N |-> 0]
<1>1. IsFiniteSet(T) /\ Cardinality(T) \in Nat /\ Cardinality(N) \in Nat
  BY FS_Subset, FS_CardinalityType
<1>2. /\ \A a \in N : g[a] \in Nat /\ b[a] = g[a] + Boot
      /\ \A a \in N : z[a] \in Nat /\ z[a] = 0 /\ k[a] \in Nat /\ k[a] = z[a] + Boot /\ k[a] = Boot
  BY Consts
<1> HIDE DEF g, k, z
<1>3. Sum(b, T) = Sum(g, T) + Boot * Cardinality(T) /\ Sum(b, N) = Sum(g, N) + Boot * Cardinality(N)
      /\ Sum(k, T) = Sum(z, T) + Boot * Cardinality(T)
  <2>1. \A a \in T : g[a] \in Nat /\ b[a] = g[a] + Boot
    BY <1>2
  <2>2. \A a \in T : z[a] \in Nat /\ k[a] = z[a] + Boot
    BY <1>2
  <2>3. Sum(b, T) = Sum(g, T) + Boot * Cardinality(T)
    BY <1>1, <2>1, SumShift
  <2>4. Sum(k, T) = Sum(z, T) + Boot * Cardinality(T)
    BY <1>1, <2>2, SumShift
  <2>5. \A a \in N : g[a] \in Nat /\ b[a] = g[a] + Boot
    BY <1>2
  <2>6. Sum(b, N) = Sum(g, N) + Boot * Cardinality(N)
    BY <2>5, SumShift
  <2> QED BY <2>3, <2>4, <2>6
<1>4. Sum(z, T) = 0
  BY <1>1, <1>2, SumZero
<1>5. Sum(k, T) <= Sum(e, T) /\ Sum(e, T) <= Sum(b, T)
  BY <1>1, <1>2, SumLess
<1>6. Sum(g, T) <= Sum(g, N)
  BY <1>2, SumSubset
<1>7. Sum(g, T) \in Nat /\ Sum(g, N) \in Nat /\ Sum(e, T) \in Nat
  BY <1>1, <1>2, SumType
<1> DEFINE p == Boot * Cardinality(T)
           q == Boot * Cardinality(N)
<1>8. p \in Nat /\ q \in Nat
  <2> DEFINE u == Cardinality(T)
             v == Cardinality(N)
  <2>1. u \in Nat /\ v \in Nat /\ Boot \in Nat
    BY <1>1, Consts
  <2> HIDE DEF u, v
  <2>2. Boot * u \in Nat /\ Boot * v \in Nat
    BY <2>1
  <2> QED BY <2>2 DEF u, v
<1> HIDE DEF p, q
<1>9. /\ Sum(b, T) = Sum(g, T) + p /\ m + q = Sum(g, N) + q /\ Sum(k, T) = 0 + p
  BY <1>3, <1>4 DEF p, q
<1>10. p <= Sum(e, T) /\ Sum(e, T) <= m + p
  BY <1>5, <1>6, <1>7, <1>8, <1>9
<1> QED BY <1>10 DEF p

-----------------------------------------------------------------------------
(* What a sample adds up: a counter of each of the devices of the rows.    *)
LEMMA TableSum ==
    ASSUME TablesInv, began = None, NEW n, NEW dev, NEW b, NEW c, NEW P, NEW tid, NEW fid,
           Told(n, dev, b, c, P, tid, fid)
    PROVE  /\ Cardinality(Members(tid)) = count /\ SumTable \in Nat
           /\ \E e \in [1 .. n -> Nat] :
                 /\ \A i \in 0 .. count - 1 : e[tid[i + 1]] = rows[i].bytes
                 /\ \A a \in Members(tid) : Fits(e[a], a, b, c)
                 /\ \A a \in 1 .. n : a \notin Members(tid) => e[a] = c[a]
                 /\ SumTable = Sum(e, Members(tid))
<1>1. Known(n, dev, b, c, P, tid, fid) /\ Filled(b, c, tid, fid)
  BY DEF Told
<1>2. Typed
  BY DEF TablesInv
<1>3. count \in 0 .. TableMax /\ TableMax \in Nat /\ count \in Nat
      /\ \A i \in 0 .. TableMax - 1 : rows[i].bytes \in Nat
  <2>1. count \in 0 .. TableMax /\ TableMax \in Nat /\ \A i \in 0 .. TableMax - 1 : rows[i].bytes \in Nat
    BY <1>2, Facts
  <2> QED BY <2>1
<1>4. n \in Nat /\ tid \in Seq(1 .. n) /\ Different(tid) /\ Len(tid) = count /\ c \in [1 .. n -> Nat]
  BY <1>1 DEF Known
<1> DEFINE T == Members(tid)
<1>5. DOMAIN tid = 1 .. count /\ \A i \in 1 .. count : tid[i] \in 1 .. n
  BY <1>4, LenProperties
<1>6. T \subseteq 1 .. n /\ T = {tid[i] : i \in 1 .. count}
  BY <1>5 DEF Members
<1>7. \A i \in 0 .. count - 1 : /\ i + 1 \in 1 .. count /\ i \in 0 .. TableMax - 1 /\ (i + 1) - 1 = i
                                /\ rows[i].bytes \in Nat
                                /\ Fits(rows[i].bytes, tid[i + 1], b, c)
  <2>1. \A i \in 0 .. count - 1 : i + 1 \in 1 .. count /\ i \in 0 .. TableMax - 1 /\ (i + 1) - 1 = i
    BY <1>3
  <2>2. \A i \in 0 .. count - 1 : Fits(rows[i].bytes, tid[i + 1], b, c)
    BY <1>1 DEF Filled
  <2> QED BY <1>3, <2>1, <2>2
<1>8. \A i \in 1 .. count : i - 1 \in 0 .. count - 1 /\ (i - 1) + 1 = i
  BY <1>3
<1>9. Cardinality(T) = count
  <2> DEFINE f == [i \in 1 .. count |-> tid[i]]
  <2>1. f \in [1 .. count -> T] /\ \A i, j \in 1 .. count : f[i] = f[j] => i = j
    BY <1>4, <1>5, <1>6 DEF Different
  <2>2. \A a \in T : \E i \in 1 .. count : f[i] = a
    BY <1>6
  <2>3. f \in Bijection(1 .. count, T)
    BY <2>1, <2>2 DEF Bijection, Injection, Surjection, IsInjective
  <2>4. ExistsBijection(1 .. count, T)
    BY <2>3 DEF ExistsBijection
  <2> QED BY <1>3, <2>4, FS_CountingElements
<1> DEFINE row(a) == CHOOSE i \in 1 .. count : tid[i] = a
<1>10. PICK e : e = [a \in 1 .. n |-> IF a \in T THEN rows[row(a) - 1].bytes ELSE c[a]]
  OBVIOUS
<1>11. \A a \in T : row(a) \in 1 .. count /\ tid[row(a)] = a
  BY <1>6
<1>12. \A i \in 1 .. count : row(tid[i]) = i
  BY <1>4, <1>5, <1>6, <1>11 DEF Different
<1> HIDE DEF row, T
<1>13. \A i \in 0 .. count - 1 : e[tid[i + 1]] = rows[i].bytes
  <2> SUFFICES ASSUME NEW i \in 0 .. count - 1 PROVE e[tid[i + 1]] = rows[i].bytes
    OBVIOUS
  <2>1. tid[i + 1] \in T /\ tid[i + 1] \in 1 .. n
    BY <1>5, <1>6, <1>7
  <2>2. row(tid[i + 1]) - 1 = i
    BY <1>7, <1>12
  <2> QED BY <1>10, <2>1, <2>2
<1>14. \A a \in T : \E i \in 0 .. count - 1 : a = tid[i + 1]
  BY <1>8, <1>11
<1>15. \A a \in T : Fits(e[a], a, b, c) /\ e[a] \in Nat
  BY <1>7, <1>13, <1>14
<1>16. \A a \in 1 .. n : a \notin T => e[a] = c[a]
  BY <1>10
<1>17. e \in [1 .. n -> Nat]
  BY <1>4, <1>10, <1>15, <1>16
<1>18. SumTable = Sum(e, T) /\ SumTable \in Nat
  <2> DEFINE I == 0 .. count - 1
             f == [i \in DOMAIN rows |-> rows[i].bytes]
             h == [i \in I |-> tid[i + 1]]
  <2>1. Least(count, TableMax) = count
    BY <1>3 DEF Least
  <2>2. SumTable = Sum(f, I)
    BY <2>1, SumBytesIs DEF SumTable
  <2>3. \A i \in I : f[i] \in Nat /\ e[h[i]] = f[i] /\ h[i] = tid[i + 1]
    <3>1. DOMAIN rows = 0 .. TableMax - 1
      BY <1>2, Facts
    <3> QED BY <1>7, <1>13, <3>1
  <2>4. \A i, j \in I : h[i] = h[j] => i = j
    <3> SUFFICES ASSUME NEW i \in I, NEW j \in I, tid[i + 1] = tid[j + 1] PROVE i = j
      OBVIOUS
    <3>1. i + 1 = j + 1
      BY <1>4, <1>5, <1>7 DEF Different
    <3> QED BY <1>7, <3>1
  <2>5. IsFiniteSet(I)
    <3>1. count - 1 \in Int
      BY <1>3
    <3> QED BY <3>1, FS_Interval
  <2>6. T = {h[i] : i \in I}
    <3>1. \A a \in T : \E i \in I : a = h[i]
      BY <1>14
    <3>2. \A i \in I : h[i] \in T
      BY <1>6, <1>7
    <3> QED BY <3>1, <3>2
  <2> HIDE DEF f, h, I
  <2>7. \A i \in I : f[i] \in Nat /\ e[h[i]] = f[i]
    BY <2>3
  <2>8. Sum(f, I) = Sum(e, {h[i] : i \in I})
    BY <2>4, <2>5, <2>7, SumImage
  <2>9. Sum(f, I) \in Nat
    BY <2>5, <2>7, SumType
  <2> QED BY <2>2, <2>6, <2>8, <2>9
<1>19. \A a \in T : Fits(e[a], a, b, c)
  BY <1>15
<1> QED BY <1>9, <1>13, <1>16, <1>17, <1>18, <1>19 DEF T

(* A sample: the devices in it are from now on those of its rows.          *)
LEMMA SampleTold ==
    ASSUME TrafficInv, Sample, kind # "filesystems"
    PROVE  Story' /\ Growth'
<1>1. TablesInv /\ Story /\ Growth /\ Typed /\ PassOrder /\ SampleTyped
  BY DEF TrafficInv, TablesInv, Typed
<1>2. /\ cpc = "sample" /\ cpc' = "idle"
      /\ \/ /\ reported' = reported + Delta(SumTable, prev) /\ prev' = SumTable
            /\ first' = IF first = None /\ filled # None THEN reported' ELSE first
         \/ UNCHANGED <<reported, prev, first>>
      /\ UNCHANGED <<world, rows, count, file, addrs, ci, passes, began, filled, reader, moved>>
  BY DEF Sample
<1>3. UNCHANGED <<kind, kernel, changes, moved, rows, count, began, filled>> /\ began = None
  BY <1>1, <1>2 DEF world, PassOrder
<1>4. Room' = Room /\ Now' = Now
  BY <1>3 DEF Room, Now, Listed
<1>5. CASE UNCHANGED <<reported, prev, first>>
  <2>1. Story'
    <3>1. ToldFrame
      BY <1>2, <1>3, <1>5 DEF ToldFrame
    <3> QED BY <1>1, <1>2, <1>3, <3>1, CountersSame
  <2>2. Growth'
    BY <1>1, <1>3, <1>4, <1>5 DEF Growth
  <2> QED BY <2>1, <2>2
<1>6. CASE /\ reported' = reported + Delta(SumTable, prev) /\ prev' = SumTable
           /\ first' = IF first = None /\ filled # None THEN reported' ELSE first
  <2>1. PICK n, dev, b, c, P, tid, fid : Told(n, dev, b, c, P, tid, fid)
    BY <1>1 DEF Story
  <2>2. Known(n, dev, b, c, P, tid, fid) /\ Counted(n, dev, b, c) /\ Sampled(n, c, P)
        /\ Filled(b, c, tid, fid) /\ Ordered(n, dev, c, P, tid, fid)
    BY <2>1 DEF Told
  <2>3. /\ n \in Nat /\ tid \in Seq(1 .. n)
        /\ b \in [1 .. n -> Nat] /\ c \in [1 .. n -> Nat] /\ P \subseteq 1 .. n
    BY <2>2 DEF Known
  <2> DEFINE N == 1 .. n
             T == Members(tid)
  <2>4. T \subseteq N
    BY <2>3, MembersAre
  <2>5. Cardinality(T) = count /\ SumTable \in Nat
    BY <1>1, <1>3, <2>1, TableSum
  <2>6. PICK e \in [1 .. n -> Nat] :
            /\ \A i \in 0 .. count - 1 : e[tid[i + 1]] = rows[i].bytes
            /\ \A a \in T : Fits(e[a], a, b, c)
            /\ \A a \in N : a \notin T => e[a] = c[a]
            /\ SumTable = Sum(e, T)
    BY <1>1, <1>3, <2>1, TableSum
  <2>7. IsFiniteSet(N) /\ Cardinality(N) = n
    BY <2>3, UptoFinite
  <2>8. \A a \in N : /\ b[a] \in Nat /\ c[a] \in Nat /\ e[a] \in Nat /\ c[a] <= b[a]
                     /\ c[a] <= e[a] /\ e[a] <= b[a]
    <3>1. \A a \in N : b[a] \in Nat /\ c[a] \in Nat /\ e[a] \in Nat /\ c[a] <= b[a] /\ c[a] <= c[a]
      <4>1. \A a \in N : b[a] \in Nat /\ c[a] \in Nat /\ e[a] \in Nat /\ c[a] <= b[a]
        BY <2>2, <2>3, <2>6 DEF Counted
      <4> QED BY <4>1
    <3>2. \A a \in T : c[a] <= e[a] /\ e[a] <= b[a]
      BY <2>6 DEF Fits
    <3>3. \A a \in N : a \notin T => c[a] <= e[a] /\ e[a] <= b[a]
      BY <2>6, <3>1
    <3> QED BY <3>1, <3>2, <3>3
  <2>9. /\ \A a \in N : c[a] > 0 /\ a \notin P => a \notin Members(dev) /\ a \notin T /\ a \notin Members(fid)
        /\ \A a \in P : a \in Members(dev) => a \in T
        /\ \A k \in 1 .. Len(kernel) : dev[k] \in P \cup T \cup Members(fid) =>
               k \in Kept(kernel) /\ Rank(k, Kept(kernel)) <= TableMax
    BY <2>2 DEF Ordered
  <2>10. fid = <<>> /\ Members(fid) = {}
    BY <1>3, <2>2, NoMembers DEF Filled
  <2> HIDE DEF T, N
  <2>11. Known(n, dev, b, e, T, tid, fid)'
    <3>1. T \subseteq 1 .. n
      BY <2>4 DEF N
    <3> QED BY <1>3, <2>2, <2>6, <3>1 DEF Known
  <2>12. Counted(n, dev, b, e)'
    <3>1. \A a \in 1 .. n : e[a] <= b[a]
      BY <2>8 DEF N
    <3> QED BY <1>3, <2>2, <3>1 DEF Counted
  <2>13. Sampled(n, e, T)'
    <3>1. Sum(c, N) + Delta(Sum(e, T), Sum(c, P)) <= Sum(e, N)
      <4>1. \A a \in T : a \notin P => c[a] = 0
        BY <2>4, <2>8, <2>9
      <4>2. P \in SUBSET N /\ T \in SUBSET N
        BY <2>3, <2>4 DEF N
      <4>3. \A a \in N : c[a] \in Nat /\ e[a] \in Nat /\ c[a] <= e[a]
        BY <2>8
      <4>4. \A a \in N : a \notin T => e[a] = c[a]
        BY <2>6
      <4> QED BY <2>7, <4>1, <4>2, <4>3, <4>4, DeltaIsNew
    <3>2. reported <= Sum(c, N) /\ prev = Sum(c, P)
      BY <2>2 DEF Sampled, N
    <3>3. /\ Sum(c, N) \in Nat /\ Sum(e, N) \in Nat /\ reported \in Nat /\ Delta(SumTable, prev) \in Nat
      <4>1. Sum(c, N) \in Nat /\ Sum(e, N) \in Nat
        BY <2>7, <2>8, SumType
      <4>2. reported \in Nat /\ prev \in Nat
        BY <1>1 DEF SampleTyped
      <4> QED BY <2>5, <4>1, <4>2 DEF Delta
    <3>4. Sum(c, N) + Delta(SumTable, prev) <= Sum(e, N)
      BY <2>6, <3>1, <3>2
    <3>5. reported + Delta(SumTable, prev) <= Sum(e, N)
      BY <3>2, <3>3, <3>4
    <3> QED BY <1>6, <2>6, <3>5 DEF Sampled, N
  <2>14. Filled(b, e, tid, fid)'
    <3>1. \A v, a : Fits(v, a, b, e) => Fits(v, a, b, e)'
      BY <1>3 DEF Fits
    <3>2. \A i \in 0 .. count - 1 : Fits(rows[i].bytes, tid[i + 1], b, e)
      <4> SUFFICES ASSUME NEW i \in 0 .. count - 1 PROVE Fits(rows[i].bytes, tid[i + 1], b, e)
        OBVIOUS
      <4>1. Len(tid) = count /\ count \in Nat
        <5>1. count \in 0 .. TableMax /\ TableMax \in Nat
          BY <1>1, Facts
        <5> QED BY <2>2, <5>1 DEF Known
      <4>2. tid[i + 1] \in T
        <5>1. i + 1 \in 1 .. Len(tid)
          BY <4>1
        <5> QED BY <2>3, <5>1, MembersAre DEF T
      <4>3. e[tid[i + 1]] = rows[i].bytes /\ Fits(e[tid[i + 1]], tid[i + 1], b, c) /\ e[tid[i + 1]] \in Nat
        BY <2>4, <2>6, <2>8, <4>2
      <4> QED BY <4>3 DEF Fits
    <3> QED BY <1>2, <1>3, <2>10, <3>1, <3>2 DEF Filled
  <2>15. Ordered(n, dev, e, T, tid, fid)'
    <3>1. \A a \in N : e[a] > 0 /\ a \notin T => a \notin Members(dev)
      <4> SUFFICES ASSUME NEW a \in N, e[a] > 0, a \notin T PROVE a \notin Members(dev)
        OBVIOUS
      <4>1. c[a] > 0
        BY <2>6
      <4> QED BY <2>9, <4>1
    <3>2. Kept(kernel)' = Kept(kernel)
      BY <1>3 DEF Kept, Shown
    <3> QED BY <1>3, <2>9, <2>10, <3>1, <3>2 DEF Ordered, N, T
  <2>16. Story'
    <3>1. Told(n, dev, b, e, T, tid, fid)'
      BY <2>11, <2>12, <2>13, <2>14, <2>15 DEF Told
    <3> QED BY <3>1 DEF Story
  <2>17. Growth'
    <3>1. first' # None => filled' # None
      BY <1>1, <1>3, <1>6 DEF Growth
    <3>2. ASSUME changes = 0, first' # None
          PROVE  /\ Boot * Room <= SumTable /\ SumTable <= moved + Boot * Room
                 /\ reported' - first' <= SumTable - Boot * Room
      <4>1. filled # None
        BY <1>3, <3>1, <3>2
      <4>2. count = Room
        <5>1. filled \in 0 .. MaxTurns \cup {None} /\ filled <= changes
          BY <1>1 DEF Typed, PassTyped, PassOrder
        <5>2. filled = changes
          BY <3>2, <4>1, <5>1, Consts
        <5> QED BY <1>1, <5>2 DEF TablesInv, TableComplete
      <4>3. /\ n = Len(FirstNames) /\ \A a \in N : Boot <= b[a] /\ a \in Members(dev)
            /\ Sum(b, N) = moved + Boot * n
        BY <2>2, <3>2 DEF Counted, N
      <4>4. \A a \in T : Boot <= e[a]
        BY <2>6, <3>2 DEF Fits
      <4>5. moved \in Nat /\ Room \in Nat /\ Boot \in Nat
        <5>1. moved \in Nat
          BY <1>1, BytesNat DEF Typed
        <5> QED BY <1>1, <5>1, NowNat, Consts
      <4>6. Boot * Cardinality(T) <= Sum(e, T) /\ Sum(e, T) <= moved + Boot * Cardinality(T)
        <5>1. \A a \in N : b[a] \in Nat /\ e[a] \in Nat /\ e[a] <= b[a] /\ Boot <= b[a]
          BY <2>8, <4>3
        <5>2. T \in SUBSET N
          BY <2>4
        <5>3. Sum(b, N) = moved + Boot * Cardinality(N)
          BY <2>7, <4>3
        <5> QED BY <2>7, <4>4, <4>5, <5>1, <5>2, <5>3, SampleBounds
      <4>7. Boot * Room <= SumTable /\ SumTable <= moved + Boot * Room
        BY <2>5, <2>6, <4>2, <4>6
      <4>8. prev <= SumTable
        <5>1. P \subseteq T
          BY <2>3, <2>9, <4>3 DEF N
        <5>2. IsFiniteSet(T) /\ \A a \in T : c[a] \in Nat /\ e[a] \in Nat /\ c[a] <= e[a]
          BY <2>4, <2>7, <2>8, FS_Subset
        <5>3. Sum(c, P) <= Sum(c, T)
          BY <5>1, <5>2, SumSubset
        <5>4. Sum(c, T) <= Sum(e, T)
          BY <5>2, SumLess
        <5>5. IsFiniteSet(P) /\ \A a \in P : c[a] \in Nat
          BY <5>1, <5>2, FS_Subset
        <5>6. Sum(c, T) \in Nat /\ Sum(e, T) \in Nat /\ Sum(c, P) \in Nat
          BY <5>2, <5>5, SumType
        <5>7. prev = Sum(c, P)
          BY <2>2 DEF Sampled
        <5> QED BY <2>6, <5>3, <5>4, <5>6, <5>7
      <4> DEFINE q == Boot * Room
      <4>9. q \in Nat
        BY <4>5
      <4>10. reported \in Nat /\ prev \in Nat /\ SumTable \in Nat /\ q <= SumTable
        BY <1>1, <2>5, <4>7 DEF SampleTyped
      <4>11. Delta(SumTable, prev) = SumTable - prev
        BY <4>8, <4>10 DEF Delta
      <4>12. first # None => reported - first <= prev - q
        BY <1>1, <3>2 DEF Growth
      <4>13. first \in Nat \cup {None} /\ None < 0
        BY <1>1, Facts DEF SampleTyped
      <4> HIDE DEF q
      <4>14. reported' - first' <= SumTable - q
        <5>1. CASE first = None
          <6>1. first' = reported' /\ reported' = reported + (SumTable - prev)
            BY <1>6, <4>1, <4>11, <5>1
          <6>2. reported + (SumTable - prev) \in Int
            BY <4>10
          <6>3. reported' - first' = 0
            BY <6>1, <6>2
          <6>4. 0 <= SumTable - q
            BY <4>9, <4>10
          <6> QED BY <6>3, <6>4
        <5>2. CASE first # None
          <6>1. first' = first /\ first \in Nat /\ reported' = reported + (SumTable - prev)
            BY <1>6, <4>11, <4>13, <5>2
          <6> QED BY <4>9, <4>10, <4>12, <5>2, <6>1
        <5> QED BY <5>1, <5>2
      <4> QED BY <4>7, <4>14 DEF q
    <3> QED BY <1>3, <1>4, <1>6, <3>1, <3>2 DEF Growth
  <2> QED BY <2>16, <2>17
<1> QED BY <1>2, <1>5, <1>6

(* A step that leaves the samples as they are leaves what they say.        *)
LEMMA GrowthStays ==
    ASSUME TablesInv, Growth, UNCHANGED <<prev, reported, first>>,
           filled' = filled \/ (filled' = began /\ began # None),
           \/ changes' = changes + 1
           \/ changes' = changes /\ Room' = Room /\ (moved' = moved \/ moved' = moved + 1)
    PROVE  Growth'
<1>1. Typed /\ WorldTyped /\ SampleTyped
  BY DEF TablesInv, Typed
<1>2. first' # None => filled' # None
  BY DEF Growth
<1>3. changes \in Nat /\ prev \in Nat /\ moved \in Nat /\ Boot \in Nat /\ Room \in Nat
  BY <1>1, Facts, BytesNat, NowNat DEF SampleTyped
<1>4. CASE changes' = changes + 1
  <2>1. changes' # 0
    BY <1>3, <1>4
  <2> QED BY <1>2, <2>1 DEF Growth
<1>5. CASE changes' = changes /\ Room' = Room /\ (moved' = moved \/ moved' = moved + 1)
  <2> DEFINE q == Boot * Room
  <2>1. q \in Nat /\ (Boot * Room)' = q
    BY <1>3, <1>5
  <2> HIDE DEF q
  <2>2. ASSUME changes = 0, first # None
        PROVE  q <= prev /\ prev <= moved' + q /\ reported - first <= prev - q
    <3>1. q <= prev /\ prev <= moved + q /\ reported - first <= prev - q
      BY <2>2 DEF Growth, q
    <3>2. prev <= moved' + q
      BY <1>3, <1>5, <2>1, <3>1
    <3> QED BY <3>1, <3>2
  <2> QED BY <1>2, <1>5, <2>1, <2>2 DEF Growth
<1> QED BY <1>4, <1>5

(* The steps in which nothing in the story changes.                        *)
LEMMA QuietTold ==
    ASSUME TablesInv, Story, kind # "filesystems",
           \/ ReadFails \/ StoreName \/ GetIfaddrs \/ SetFlags
           \/ UNCHANGED <<world, shared, collector, tally>>
    PROVE  Story'
<1>1. Typed /\ PassOrder
  BY DEF TablesInv, Typed
<1>2. ToldFrame
  BY DEF ToldFrame, ReadFails, StoreName, GetIfaddrs, SetFlags, Begin, Store, shared, collector, tally
<1>3. (began # None => UNCHANGED <<file, ci>>) /\ (cpc' = "unflag" => cpc = "unflag")
  <2>1. CASE ReadFails
    BY <1>1, <2>1 DEF ReadFails, Begin, PassOrder, AfterTable
  <2>2. CASE StoreName \/ GetIfaddrs \/ SetFlags
    BY <2>2 DEF StoreName, GetIfaddrs, SetFlags, Store
  <2>3. CASE UNCHANGED <<world, shared, collector, tally>>
    BY <2>3 DEF collector
  <2> QED BY <2>1, <2>2, <2>3
<1>4. \A i \in 0 .. TableMax - 1 : rows'[i].bytes = rows[i].bytes
  <2>1. CASE ReadFails \/ GetIfaddrs \/ UNCHANGED <<world, shared, collector, tally>>
    BY <2>1 DEF ReadFails, GetIfaddrs, shared
  <2>2. CASE StoreName
    <3>1. file # <<>> /\ ci < TableMax /\ rows' = [rows EXCEPT ![ci]["name"] = Head(file).name]
      BY <2>2 DEF StoreName, MoreRows, Store
    <3>2. Head(file).name \in Names
      BY <1>1, <3>1, FileFacts, Facts
    <3>3. Others /\ rows'[ci].bytes = rows[ci].bytes
      BY <1>1, <3>1, <3>2, NameStored DEF StoredName
    <3> QED BY <3>3 DEF Others
  <2>3. CASE SetFlags
    <3> DEFINE named == {i \in 0 .. ci - 1 : rows[i].name = Head(addrs)}
    <3>1. rows' = IF named = {} THEN rows ELSE [rows EXCEPT ![Min(named)]["up"] = TRUE]
      BY <2>3 DEF SetFlags
    <3>2. CASE named = {}
      BY <3>1, <3>2
    <3>3. CASE named # {}
      <4>1. ci \in Nat /\ ci <= TableMax /\ TableMax \in Nat
        BY <1>1, Facts
      <4>2. Min(named) \in named
        <5>1. named \subseteq Nat
          BY <4>1
        <5>2. \E x \in named : \A y \in named : x <= y
          BY <3>3, <5>1, NatMin
        <5> QED BY <5>2 DEF Min
      <4>3. Min(named) \in 0 .. TableMax - 1
        BY <4>1, <4>2
      <4> HIDE DEF named
      <4>4. rows' = [rows EXCEPT ![Min(named)]["up"] = TRUE]
        BY <3>1, <3>3
      <4> QED BY <1>1, <4>3, <4>4, UpStored
    <3> QED BY <3>2, <3>3
  <2> QED BY <2>1, <2>2, <2>3
<1> QED BY <1>2, <1>3, <1>4, CountersSame

-----------------------------------------------------------------------------
LEMMA StepTraffic == TrafficInv /\ [Next]_vars => TrafficInv'
<1> SUFFICES ASSUME TrafficInv, [Next]_vars PROVE TrafficInv'
  OBVIOUS
<1>1. TablesInv /\ TablesInv'
  BY StepTables DEF TrafficInv
<1>t. Typed /\ WorldTyped /\ PassOrder
  BY <1>1 DEF TablesInv, Typed
<1>k. kind' = kind
  BY DEF Next, Kernel, Collector, Reader, Traffic, Plug, Unplug, Change, ReadFile, ReadFails, StoreName,
     Statvfs, StatvfsFails, StoreCounters, StoreSizes, ClearFlags, GetIfaddrs, SetFlags, StoreCount,
     StoreCountAtEnd, EndTable, Sample, ReadCount, ReadFsCount, StartRead, SumRow, EmitName, EmitRow,
     EmitEnd, Begin, Store, Rest, world, vars
<1>2. ASSUME Reader \/ UNCHANGED vars PROVE UNCHANGED <<world, shared, collector, tally>>
  BY <1>2 DEF Reader, ReadCount, ReadFsCount, StartRead, SumRow, EmitName, EmitRow, EmitEnd, Rest, vars
<1>3. ASSUME ~Sample PROVE UNCHANGED <<prev, reported, first>>
  BY <1>2, <1>3 DEF Next, Kernel, Collector, Traffic, Plug, Unplug, Change, ReadFile, ReadFails, StoreName,
     Statvfs, StatvfsFails, StoreCounters, StoreSizes, ClearFlags, GetIfaddrs, SetFlags, StoreCount,
     StoreCountAtEnd, EndTable, Begin, Store, shared, tally
<1>4. CASE kind = "filesystems"
  <2>1. ~Sample
    BY <1>t, <1>4 DEF Sample, PassOrder
  <2> QED BY <1>1, <1>3, <1>4, <1>k, <2>1 DEF TrafficInv
<1>5. CASE kind # "filesystems"
  <2>1. Story /\ Growth
    BY <1>5 DEF TrafficInv
  <2>2. CASE Sample
    BY <1>1, <1>5, <1>k, <2>2, SampleTold DEF TrafficInv
  <2>3. CASE ~Sample
    <3>1. Story'
      <4>1. CASE Traffic \/ Plug \/ Unplug \/ ReadFile \/ StoreCount \/ StoreCountAtEnd
        <5>1. PICK n, dev, b, c, P, tid, fid : Told(n, dev, b, c, P, tid, fid)
          BY <2>1 DEF Story
        <5> QED BY <1>1, <4>1, <5>1, TrafficTold, PlugTold, UnplugTold, ReadFileTold, EndTold
      <4>2. CASE StoreSizes \/ StoreCounters
        BY <1>1, <2>1, <4>2, CountersTold
      <4>3. CASE ClearFlags
        BY <1>1, <2>1, <4>3, ClearFlagsTold
      <4>4. CASE ReadFails \/ StoreName \/ GetIfaddrs \/ SetFlags \/ Reader \/ UNCHANGED vars
        BY <1>1, <1>2, <1>5, <2>1, <4>4, QuietTold
      <4>5. ~Statvfs /\ ~StatvfsFails
        BY <1>5 DEF Statvfs, StatvfsFails
      <4> QED BY <2>3, <4>1, <4>2, <4>3, <4>4, <4>5 DEF Next, Kernel, Collector
    <3>2. filled' = filled \/ (filled' = began /\ began # None)
      <4>1. CASE StoreCount \/ StoreCountAtEnd
        <5>1. cpc \in {"row", "flags"} /\ filled' = began
          BY <4>1 DEF StoreCount, StoreCountAtEnd, EndTable
        <5> QED BY <1>t, <5>1 DEF PassOrder
      <4>2. CASE Kernel
        BY <4>2 DEF Kernel, Traffic, Plug, Unplug, Change, collector
      <4>3. CASE Reader \/ UNCHANGED vars
        BY <1>2, <4>3 DEF collector
      <4>4. CASE ReadFile \/ ReadFails \/ GetIfaddrs \/ SetFlags \/ Statvfs \/ StatvfsFails
        BY <4>4 DEF ReadFile, ReadFails, GetIfaddrs, SetFlags, Statvfs, StatvfsFails, Store
      <4>5. CASE StoreName \/ StoreCounters \/ StoreSizes \/ ClearFlags
        BY <4>5 DEF StoreName, StoreCounters, StoreSizes, ClearFlags, Store
      <4> QED BY <2>3, <4>1, <4>2, <4>3, <4>4, <4>5 DEF Next, Collector
    <3>3. \/ changes' = changes + 1
          \/ changes' = changes /\ Room' = Room /\ (moved' = moved \/ moved' = moved + 1)
      <4>1. CASE Traffic
        BY <1>t, <4>1, TrafficWorld DEF Traffic
      <4>2. CASE Plug \/ Unplug
        BY <4>2 DEF Plug, Unplug, Change
      <4>3. CASE Collector \/ Reader \/ UNCHANGED vars
        <5>1. UNCHANGED <<world, moved>>
          BY <1>2, <2>3, <4>3 DEF Collector, ReadFile, ReadFails, StoreName, Statvfs, StatvfsFails,
             StoreCounters, StoreSizes, ClearFlags, GetIfaddrs, SetFlags, StoreCount, StoreCountAtEnd,
             EndTable, Begin, Store, tally
        <5> QED BY <1>t, <5>1, SameWorld DEF world
      <4> QED BY <4>1, <4>2, <4>3 DEF Next, Kernel
    <3>4. UNCHANGED <<prev, reported, first>>
      BY <1>3, <2>3
    <3>5. Growth'
      BY <1>1, <2>1, <3>2, <3>3, <3>4, GrowthStays
    <3> QED BY <1>1, <1>5, <1>k, <3>1, <3>5 DEF TrafficInv
  <2> QED BY <2>2, <2>3
<1> QED BY <1>4, <1>5

-----------------------------------------------------------------------------
(* What the bytes of the table are bounded by.                             *)
LEMMA TablesTypeOK == TablesInv => TypeOK
<1> SUFFICES ASSUME TablesInv PROVE TypeOK
  OBVIOUS
<1>1. WorldTyped /\ PassTyped /\ PassOrder /\ ResponseTyped /\ SampleTyped
  BY DEF TablesInv, Typed
<1>2. 0 .. Boot + moved \subseteq Bytes
  <2>1. moved \in 0 .. MaxTraffic /\ moved \in Nat /\ Boot \in Nat /\ MaxTraffic \in Nat
    BY <1>1, BytesNat, Consts DEF WorldTyped
  <2> QED BY <2>1 DEF Bytes
<1>3. Devices \subseteq [name : Names, bytes : Bytes] /\ Cells \subseteq RowType
  BY <1>2 DEF Devices, Cells, RowType
<1>4. kernel \in Seq([name : Names, bytes : Bytes]) /\ out \in Seq(RowType)
  BY <1>1, <1>3, SeqMonotonic DEF WorldTyped, ResponseTyped
<1>5. rows \in [0 .. TableMax - 1 -> RowType]
  BY <1>1, <1>3 DEF PassTyped
<1> QED BY <1>1, <1>4, <1>5 DEF TypeOK, WorldTyped, PassTyped, ResponseTyped, SampleTyped

LEMMA TrafficAlways == MCSpec => []TrafficInv
<1>1. MCInit => TrafficInv
  BY InitStory DEF MCInit
<1>2. TrafficInv /\ [MCNext]_<<subject, vars, gaugeVars>> => TrafficInv'
  BY StepTraffic DEF MCNext
<1> QED BY <1>1, <1>2, PTL DEF MCSpec

(* The bytes in the samples of the history were all moved, whichever       *)
(* devices go, come back with a zero counter, or shift into the table      *)
(* (collect_history); and what was counted before nginx started is in the  *)
(* first sample that finds a table only, while no device comes or goes.    *)
THEOREM NoTrafficIsInvented == MCSpec => []NoPhantomTraffic
<1>1. TrafficInv => NoPhantomTraffic
  <2> SUFFICES ASSUME TrafficInv PROVE NoPhantomTraffic
    OBVIOUS
  <2>1. TablesInv /\ WorldTyped /\ SampleTyped /\ Typed
    BY DEF TrafficInv, TablesInv, Typed
  <2>2. TypeOK
    BY <2>1, TablesTypeOK
  <2> DEFINE q == Boot * Len(FirstNames)
  <2>3. moved \in Nat /\ reported \in Nat /\ prev \in Nat /\ q \in Nat /\ Boot \in Nat /\ Room \in Nat
        /\ first \in Nat \cup {None}
    <3>1. Len(FirstNames) \in Nat /\ Boot \in Nat
      BY Consts, LenProperties
    <3>2. q \in Nat
      BY <3>1
    <3> QED BY <2>1, <3>1, <3>2, BytesNat, NowNat DEF SampleTyped
  <2>4. CASE kind = "filesystems"
    <3>1. reported = 0 /\ first = None
      BY <2>4 DEF TrafficInv
    <3> HIDE DEF q
    <3>2. reported <= moved + q
      BY <2>3, <3>1
    <3> QED BY <2>2, <3>1, <3>2 DEF NoPhantomTraffic, q
  <2>5. CASE kind # "filesystems"
    <3>1. PICK n, dev, b, c, P, tid, fid : Told(n, dev, b, c, P, tid, fid)
      BY <2>5 DEF TrafficInv, Story
    <3>2. /\ n \in Nat /\ b \in [1 .. n -> Nat] /\ c \in [1 .. n -> Nat]
          /\ \A a \in 1 .. n : c[a] <= b[a]
          /\ Sum(b, 1 .. n) = moved + q
          /\ reported <= Sum(c, 1 .. n)
      BY <3>1 DEF Told, Known, Counted, Sampled
    <3> HIDE DEF q
    <3>3. IsFiniteSet(1 .. n) /\ \A a \in 1 .. n : c[a] \in Nat /\ b[a] \in Nat /\ c[a] <= b[a]
      BY <3>2, UptoFinite
    <3>4. Sum(c, 1 .. n) <= Sum(b, 1 .. n) /\ Sum(c, 1 .. n) \in Nat /\ Sum(b, 1 .. n) \in Nat
      BY <3>3, SumLess, SumType
    <3>5. reported <= moved + q
      BY <2>3, <3>2, <3>4
    <3>6. changes = 0 /\ first # None => reported - first <= moved
      <4> SUFFICES ASSUME changes = 0, first # None PROVE reported - first <= moved
        OBVIOUS
      <4> DEFINE p == Boot * Room
      <4>1. p \in Nat
        BY <2>3
      <4>2. prev <= moved + p /\ reported - first <= prev - p
        BY <2>5 DEF TrafficInv, Growth
      <4>3. first \in Nat
        BY <2>3
      <4> HIDE DEF p
      <4> QED BY <2>3, <4>1, <4>2, <4>3
    <3> QED BY <2>2, <3>5, <3>6 DEF NoPhantomTraffic, q
  <2> QED BY <2>4, <2>5
<1> QED BY <1>1, TrafficAlways, PTL
=============================================================================

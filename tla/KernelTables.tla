---------------------------- MODULE KernelTables -----------------------------
(***************************************************************************)
(* The tables of network interfaces, disks and filesystems in shared       *)
(* memory: how a collection pass overwrites one of them row by row, how    *)
(* the history turns its counters into traffic, and how a worker that      *)
(* answers /monitor/api walks it meanwhile, without a lock.  The tables    *)
(* are independent and a behaviour is about one of them, its kind.  A row  *)
(* has three cells: the name, the counters (one stands for all) and, for   *)
(* interfaces, the flags (up or not).  Disks whose name starts with loop   *)
(* or ram, and pseudo filesystems, are not listed.  The size of a          *)
(* filesystem is asked for when its row is filled, and it may be gone.     *)
(***************************************************************************)
EXTENDS Integers, SequencesExt

CONSTANTS
    Names,        \* the devices there may be, told apart by name; interfaces are up
    Hidden,       \* those that are no rows if they are disks or filesystems
    FirstNames,   \* those there are at the start, in the order of the kernel
    TableMax,     \* NGX_HTTP_MONITORING_IFACES_MAX, _DISKS_MAX, _FILESYSTEMS_MAX
    Boot,         \* what each device had counted when nginx started
    MaxTraffic, MaxReads,
    MaxTurns      \* bound on passes and changes together

ASSUME TablesAssumption ==
    /\ TableMax \in Nat \ {0}
    /\ FirstNames \in Seq(Names) /\ Hidden \subseteq Names
    /\ \A j, k \in DOMAIN FirstNames : FirstNames[j] = FirstNames[k] => j = k
    /\ {Boot, MaxTraffic, MaxTurns, MaxReads} \subseteq Nat

VARIABLES
    kind,                         \* which table this is
    kernel, changes,              \* the devices: a sequence of [name, bytes]
    rows, count, prev,            \* shared memory
    cpc, file, addrs, ci, passes, \* the pass
    rpc, rcount, ri, rsum, rname, out, reads,  \* a response
    began, filled,                \* changes when the pass read the file that fills,
                                  \* and that filled, the table; None at first
    floor, full,                  \* the table, and filled, when a response began
    moved, reported,              \* bytes moved since, and bytes in the samples
    first                         \* in the samples up to the first of a filled table

world     == <<kind, kernel, changes>>
shared    == <<rows, count, prev>>
collector == <<cpc, file, addrs, ci, passes, began, filled>>
reader    == <<rpc, rcount, ri, rsum, rname, out, reads, floor, full>>
tally     == <<moved, reported, first>>
vars      == <<world, shared, collector, reader, tally>>

None == -1

Least(a, b) == IF a < b THEN a ELSE b
Blank == [name |-> "", bytes |-> 0, up |-> FALSE]

Kinds == {"interfaces", "disks", "filesystems"}

Rank(k, S) == Cardinality({m \in S : m <= k})

(* The devices that are rows, in the order of the kernel.                  *)
Listed(devices) ==
    LET kept == {k \in DOMAIN devices :
                     kind = "interfaces" \/ devices[k].name \notin Hidden}
    IN  [n \in 1 .. Cardinality(kept) |->
            devices[CHOOSE k \in kept : Rank(k, kept) = n]]

SumBytes(table, n) ==
    SumFunctionOnSet([i \in DOMAIN table |-> table[i].bytes], 0 .. n - 1)

Init ==
    /\ kind \in Kinds
    /\ kernel = [k \in DOMAIN FirstNames |-> [name |-> FirstNames[k], bytes |-> Boot]]
    /\ changes = 0
    /\ rows = [i \in 0 .. TableMax - 1 |-> Blank]
    /\ count = 0 /\ prev = 0
    /\ cpc = "idle" /\ file = <<>> /\ addrs = <<>> /\ ci = 0 /\ passes = 0
    /\ began = None /\ filled = None
    /\ rpc = "idle" /\ rcount = 0 /\ ri = 0 /\ rsum = 0 /\ rname = ""
    /\ out = <<>> /\ floor = rows /\ full = None /\ reads = 0
    /\ moved = 0 /\ reported = 0 /\ first = None

-----------------------------------------------------------------------------
(* The kernel: traffic, and devices that come, last in the order, and go.  *)
Traffic ==
    /\ moved < MaxTraffic
    /\ \E k \in DOMAIN kernel : kernel' = [kernel EXCEPT ![k].bytes = @ + 1]
    /\ moved' = moved + 1
    /\ UNCHANGED <<kind, changes, shared, collector, reader, reported, first>>

Change ==
    /\ passes + changes < MaxTurns
    /\ changes' = changes + 1
    /\ UNCHANGED <<kind, shared, collector, reader, tally>>

Plug ==
    /\ Change
    /\ \E n \in Names \ {kernel[k].name : k \in DOMAIN kernel} :
          kernel' = Append(kernel, [name |-> n, bytes |-> 0])

Unplug ==
    /\ Change
    /\ \E k \in DOMAIN kernel : kernel' = RemoveAt(kernel, k)

-----------------------------------------------------------------------------
(* collect_network, collect_diskstats, collect_filesystems                 *)
Begin(next) ==
    /\ cpc = "idle" /\ passes + changes < MaxTurns
    /\ cpc' = next
    /\ passes' = passes + 1
    /\ ci' = 0

(* The two counts of bytes are sampled by the history; sizes are not.      *)
AfterTable == IF kind = "filesystems" THEN "idle" ELSE "sample"

(* Mutation: the table is emptied before it is filled.                     *)
ReadFile_Clear ==
    /\ Begin("row")
    /\ file' = Listed(kernel)
    /\ began' = changes
    /\ count' = 0
    /\ UNCHANGED <<world, rows, prev, addrs, filled, reader, tally>>

ReadFile ==
    /\ Begin("row")
    /\ file' = Listed(kernel)
    /\ began' = changes
    /\ UNCHANGED <<world, shared, addrs, filled, reader, tally>>

(* What cannot be read is left as it was.                                  *)
ReadFails ==
    /\ Begin(AfterTable)
    /\ UNCHANGED <<world, shared, file, addrs, began, filled, reader, tally>>

MoreRows == cpc = "row" /\ file # <<>> /\ ci < TableMax

Store(next, cell, value) ==
    /\ cpc' = next
    /\ rows' = [rows EXCEPT ![ci][cell] = value]
    /\ UNCHANGED <<world, count, prev, addrs, passes, began, filled, reader, tally>>

NextRow == file' = Tail(file) /\ ci' = ci + 1

StoreName ==
    /\ MoreRows /\ kind # "filesystems"
    /\ Store("counters", "name", Head(file).name)
    /\ UNCHANGED <<file, ci>>

(* statvfs: the size is the one of this moment.                            *)
Statvfs ==
    /\ MoreRows /\ kind = "filesystems"
    /\ \E k \in DOMAIN kernel :
          /\ kernel[k].name = Head(file).name
          /\ file' = [file EXCEPT ![1] = kernel[k]]
    /\ Store("counters", "name", Head(file).name)
    /\ UNCHANGED ci

StatvfsFails ==
    /\ MoreRows /\ kind = "filesystems"
    /\ \A k \in DOMAIN kernel : kernel[k].name # Head(file).name
    /\ file' = Tail(file)
    /\ UNCHANGED <<world, shared, cpc, addrs, ci, passes, began, filled, reader, tally>>

(* The counters end the row of a disk or a filesystem.                     *)
StoreSizes ==
    /\ cpc = "counters" /\ kind # "interfaces"
    /\ Store("row", "bytes", Head(file).bytes) /\ NextRow

StoreCounters ==
    /\ cpc = "counters" /\ kind = "interfaces"
    /\ Store("unflag", "bytes", Head(file).bytes)
    /\ UNCHANGED <<file, ci>>

ClearFlags ==
    /\ cpc = "unflag"
    /\ Store("row", "up", FALSE) /\ NextRow

(* Without the list of addresses no interface is up.                       *)
GetIfaddrs ==
    /\ cpc = "row" /\ ~MoreRows /\ kind = "interfaces"
    /\ cpc' = "flags"
    /\ addrs' \in {[k \in DOMAIN kernel |-> kernel[k].name], <<>>}
    /\ UNCHANGED <<world, shared, file, ci, passes, began, filled, reader, tally>>

(* The flags go to the first row of that name; ci is the number of rows.   *)
SetFlags ==
    /\ cpc = "flags" /\ addrs # <<>>
    /\ LET named == {i \in 0 .. ci - 1 : rows[i].name = Head(addrs)}
       IN  rows' = IF named = {} THEN rows ELSE [rows EXCEPT ![Min(named)].up = TRUE]
    /\ addrs' = Tail(addrs)
    /\ UNCHANGED <<world, count, prev, cpc, file, ci, passes, began, filled, reader, tally>>

EndTable ==
    /\ count' = ci
    /\ filled' = began
    /\ cpc' = AfterTable
    /\ file' = <<>> /\ ci' = 0 /\ began' = None
    /\ UNCHANGED <<world, rows, prev, addrs, passes, reader, tally>>

StoreCount == cpc = "flags" /\ addrs = <<>> /\ EndTable

StoreCountAtEnd == cpc = "row" /\ ~MoreRows /\ kind # "interfaces" /\ EndTable

(* Mutation: a counter that went down counts as traffic.                   *)
Delta_Distance(now, before) == IF now >= before THEN now - before ELSE before - now

Delta(now, before) == IF now >= before THEN now - before ELSE 0

(* sum_network and sum_disk.                                               *)
SumTable == SumBytes(rows, Least(count, TableMax))

(* collect_history, later in the same pass, when a sample is due.          *)
Sample ==
    /\ cpc = "sample"
    /\ \/ /\ reported' = reported + Delta(SumTable, prev)
          /\ prev' = SumTable
          /\ first' = IF first = None /\ filled # None THEN reported' ELSE first
       \/ UNCHANGED <<reported, prev, first>>
    /\ cpc' = "idle"
    /\ UNCHANGED <<world, rows, count, file, addrs, ci, passes, began, filled, reader, moved>>

-----------------------------------------------------------------------------
(* json_network and json_disk: the totals in one walk, the rows in another;*)
(* filesystems have no totals.                                             *)
Rest == <<world, shared, collector, tally>>

StartRead(next) ==
    /\ rpc = "idle" /\ reads < MaxReads
    /\ rcount' = Least(count, TableMax)
    /\ rpc' = next
    /\ ri' = 0 /\ rsum' = 0 /\ out' = <<>>
    /\ floor' = rows /\ full' = filled
    /\ reads' = reads + 1
    /\ UNCHANGED <<rname, Rest>>

ReadCount == kind # "filesystems" /\ StartRead("sum")

ReadFsCount == kind = "filesystems" /\ StartRead("name")

SumRow ==
    /\ rpc = "sum"
    /\ IF ri < rcount
         THEN rsum' = rsum + rows[ri].bytes /\ ri' = ri + 1 /\ UNCHANGED rpc
         ELSE rpc' = "name" /\ ri' = 0 /\ UNCHANGED rsum
    /\ UNCHANGED <<rcount, rname, out, floor, full, reads, Rest>>

EmitName ==
    /\ rpc = "name" /\ ri < rcount
    /\ rname' = rows[ri].name
    /\ rpc' = "row"
    /\ UNCHANGED <<rcount, ri, rsum, out, floor, full, reads, Rest>>

EmitRow ==
    /\ rpc = "row"
    /\ out' = Append(out, [rows[ri] EXCEPT !.name = rname])
    /\ ri' = ri + 1
    /\ rpc' = "name" /\ rname' = ""
    /\ UNCHANGED <<rcount, rsum, floor, full, reads, Rest>>

EmitEnd ==
    /\ rpc = "name" /\ ri = rcount
    /\ rpc' = "idle"
    /\ UNCHANGED <<rcount, ri, rsum, rname, out, floor, full, reads, Rest>>

Kernel    == Traffic \/ Plug \/ Unplug
Collector == ReadFile \/ ReadFails \/ StoreName \/ Statvfs \/ StatvfsFails
             \/ StoreCounters \/ StoreSizes \/ ClearFlags \/ GetIfaddrs \/ SetFlags
             \/ StoreCount \/ StoreCountAtEnd \/ Sample
Reader    == ReadCount \/ ReadFsCount \/ SumRow \/ EmitName \/ EmitRow \/ EmitEnd

Next == Kernel \/ Collector \/ Reader

Spec == Init /\ [][Next]_vars

-----------------------------------------------------------------------------
Bytes   == 0 .. Boot + MaxTraffic
RowType == [name : Names \cup {""}, bytes : Bytes, up : BOOLEAN]

TypeOK ==
    /\ kind \in Kinds
    /\ kernel \in Seq([name : Names, bytes : Bytes])
    /\ changes \in 0 .. MaxTurns
    /\ rows \in [0 .. TableMax - 1 -> RowType]
    /\ count \in 0 .. TableMax /\ prev \in Nat
    /\ cpc \in {"idle", "row", "counters", "unflag", "flags", "sample"}
    /\ addrs \in Seq(Names) /\ ci \in 0 .. TableMax /\ passes \in 0 .. MaxTurns
    /\ rpc \in {"idle", "sum", "name", "row"}
    /\ rcount \in 0 .. TableMax /\ ri \in 0 .. rcount /\ rsum \in Nat
    /\ out \in Seq(RowType) /\ reads \in 0 .. MaxReads
    /\ {began, filled, full} \subseteq 0 .. MaxTurns \cup {None}
    /\ moved \in 0 .. MaxTraffic /\ reported \in Nat /\ first \in Nat \cup {None}

(* A response that begins when the table was filled from a file as new as  *)
(* the last device that came or went, and during which none does, names    *)
(* each listed device once and in order, however many passes it overlaps,  *)
(* and no counter in it is older than the table was when it began; nor are *)
(* its totals.  One pass after a change is thus enough to make the names   *)
(* and the counters of a response belong together again.                   *)
ResponseComplete ==
    rpc = "idle" /\ full = changes =>
        LET listed == Listed(kernel)
        IN  /\ Len(out) = Least(Len(listed), TableMax)
            /\ \A k \in DOMAIN out : /\ out[k].name = listed[k].name
                                     /\ out[k].bytes >= floor[k - 1].bytes
            /\ kind # "filesystems" => rsum >= SumBytes(floor, rcount)

(* The bytes in the samples were all moved: devices that go, come back     *)
(* with a zero counter, or shift into the table when another one goes,     *)
(* never show as more traffic than there was since the counters were zero. *)
(* What was counted before nginx started is in the first sample that finds *)
(* a table and, while no device comes or goes, in no later one, whichever  *)
(* passes could not read the file.                                         *)
NoPhantomTraffic ==
    /\ TypeOK
    /\ reported <= moved + Boot * Len(FirstNames)
    /\ changes = 0 /\ first # None => reported - first <= moved
=============================================================================

----------------------------- MODULE HistoryRing -----------------------------
(***************************************************************************)
(* The historical ring buffer in shared memory.  Three parties touch it    *)
(* without a common lock: the worker that holds collector_lock appends     *)
(* samples (one writer at a time, module Collector), a worker that serves  *)
(* the JSON API reads it, and the master, on a reload, stores a new        *)
(* capacity while the workers of the old cycle go on.                      *)
(*                                                                         *)
(* A sample is abstracted to its number, counted from 1; 0 is a row that   *)
(* was never written or that is zeroed and not yet filled.                 *)
(***************************************************************************)
EXTENDS Integers, Sequences, FiniteSets

CONSTANTS
    HistoryMax,   \* NGX_HTTP_MONITORING_HISTORY_MAX
    Confs,        \* configurations [history, resolution], in milliseconds
    MaxSamples,   \* bound on the samples appended
    MaxReloads,   \* bound on the reloads
    MaxReads      \* bound on the JSON responses

ASSUME HistoryAssumption ==
    /\ HistoryMax \in Nat \ {0}
    /\ Confs \subseteq [history : Nat, resolution : Nat]
    /\ Confs # {}
    /\ MaxSamples \in Nat /\ MaxReloads \in Nat /\ MaxReads \in Nat

VARIABLES
    history, historyWrite, historyCount, historyCapacity,  \* shared memory
    wpc, wcap, wpos,                  \* the writer, inside collect_history
    mpc, mcap, reloads,               \* the master, inside init_shm
    rpc, rcount, rcap, rwrite, out,   \* a reader, inside json_history
    reads,
    settled                           \* appends begun and ended since a reload

ring   == <<history, historyWrite, historyCount, historyCapacity>>
writer == <<wpc, wcap, wpos>>
master == <<mpc, mcap, reloads>>
reader == <<rpc, rcount, rcap, rwrite, out, reads>>
vars   == <<ring, writer, master, reader, settled>>

Least(a, b)    == IF a < b THEN a ELSE b
Greatest(a, b) == IF a > b THEN a ELSE b

(* The capacity of a configuration: its samples, at least 1, at most the   *)
(* compiled maximum.                                                       *)
CapacityOf(c) ==
    Least(Greatest(c.history \div Greatest(c.resolution, 1), 1), HistoryMax)

-----------------------------------------------------------------------------
Init ==
    /\ history = [i \in 0 .. HistoryMax - 1 |-> 0]
    /\ historyWrite = 0
    /\ historyCount = 0
    /\ \E c \in Confs : historyCapacity = CapacityOf(c)
    /\ wpc = "idle" /\ wcap = 0 /\ wpos = 0
    /\ mpc = "idle" /\ mcap = 0 /\ reloads = 0
    /\ rpc = "idle" /\ rcount = 0 /\ rcap = 0 /\ rwrite = 0 /\ out = <<>>
    /\ reads = 0
    /\ settled = 0

-----------------------------------------------------------------------------
(* collect_history, once it is past the test of the resolution.            *)
LoadCapacity ==
    /\ wpc = "idle" /\ historyWrite < MaxSamples
    /\ wcap' = IF historyCapacity = 0 \/ historyCapacity > HistoryMax
                 THEN HistoryMax ELSE historyCapacity
    /\ wpc' = "claim"
    /\ UNCHANGED <<ring, wpos, master, reader, settled>>

(* Mutation: the cursor wraps at the compiled maximum.                      *)
Claim_Wide ==
    /\ wpc = "claim"
    /\ wpos' = historyWrite % HistoryMax
    /\ historyWrite' = historyWrite + 1
    /\ wpc' = "zero"
    /\ UNCHANGED <<history, historyCount, historyCapacity, wcap, master, reader, settled>>

(* Mutation: the cursor is advanced twice.                                  *)
Claim_Twice ==
    /\ wpc = "claim"
    /\ wpos' = historyWrite % wcap
    /\ historyWrite' = historyWrite + 2
    /\ wpc' = "zero"
    /\ UNCHANGED <<history, historyCount, historyCapacity, wcap, master, reader, settled>>

Claim ==
    /\ wpc = "claim"
    /\ wpos' = historyWrite % wcap
    /\ historyWrite' = historyWrite + 1
    /\ wpc' = "zero"
    /\ UNCHANGED <<history, historyCount, historyCapacity, wcap, master, reader, settled>>

ZeroRow ==
    /\ wpc = "zero"
    /\ history' = [history EXCEPT ![wpos] = 0]
    /\ wpc' = "fill"
    /\ UNCHANGED <<historyWrite, historyCount, historyCapacity, wcap, wpos, master,
                   reader, settled>>

FillRow ==
    /\ wpc = "fill"
    /\ history' = [history EXCEPT ![wpos] = historyWrite]
    /\ wpc' = "test"
    /\ UNCHANGED <<historyWrite, historyCount, historyCapacity, wcap, wpos, master,
                   reader, settled>>

(* An append that began before a reload does not count as settled.         *)
Ended == settled' = IF wcap = historyCapacity /\ mpc = "idle" THEN settled + 1 ELSE settled

(* Mutation: an off-by-one lets the count pass the capacity.               *)
TestCount_Loose ==
    /\ wpc = "test"
    /\ IF historyCount <= wcap
         THEN wpc' = "add" /\ UNCHANGED settled
         ELSE wpc' = "idle" /\ Ended
    /\ UNCHANGED <<ring, wcap, wpos, master, reader>>

TestCount ==
    /\ wpc = "test"
    /\ IF historyCount < wcap
         THEN wpc' = "add" /\ UNCHANGED settled
         ELSE wpc' = "idle" /\ Ended
    /\ UNCHANGED <<ring, wcap, wpos, master, reader>>

AddCount ==
    /\ wpc = "add"
    /\ historyCount' = historyCount + 1
    /\ wpc' = "idle"
    /\ Ended
    /\ UNCHANGED <<history, historyWrite, historyCapacity, wcap, wpos, master, reader>>

-----------------------------------------------------------------------------
(* init_shm on a reload: the zone is inherited from the previous cycle.    *)
StoreCapacity ==
    /\ mpc = "idle" /\ reloads < MaxReloads
    /\ \E c \in Confs : mcap' = CapacityOf(c)
    /\ historyCapacity' = mcap'
    /\ mpc' = "test"
    /\ reloads' = reloads + 1
    /\ settled' = 0
    /\ UNCHANGED <<history, historyWrite, historyCount, writer, reader>>

ClampTest ==
    /\ mpc = "test"
    /\ mpc' = IF historyCount > mcap THEN "clamp" ELSE "idle"
    /\ UNCHANGED <<ring, writer, mcap, reloads, reader, settled>>

ClampStore ==
    /\ mpc = "clamp"
    /\ historyCount' = mcap
    /\ mpc' = "idle"
    /\ UNCHANGED <<history, historyWrite, historyCapacity, writer, mcap, reloads,
                   reader, settled>>

-----------------------------------------------------------------------------
(* json_history: three loads, then one row at a time.                      *)
ReadCount ==
    /\ rpc = "idle" /\ reads < MaxReads
    /\ rcount' = Least(historyCount, HistoryMax)
    /\ rpc' = "capacity"
    /\ out' = <<>>
    /\ reads' = reads + 1
    /\ UNCHANGED <<ring, writer, master, rcap, rwrite, settled>>

(* A capacity of zero is answered with an empty array.                     *)
ReadCapacity ==
    /\ rpc = "capacity"
    /\ rcap' = Least(historyCapacity, HistoryMax)
    /\ rpc' = IF rcap' = 0 THEN "idle" ELSE "write"
    /\ UNCHANGED <<ring, writer, master, rcount, rwrite, out, reads, settled>>

ReadWrite ==
    /\ rpc = "write"
    /\ rwrite' = historyWrite
    /\ rpc' = "rows"
    /\ UNCHANGED <<ring, writer, master, rcount, rcap, out, reads, settled>>

(* Mutation: the ring is read one row too far ahead.                       *)
RowIndex_Ahead(write, capacity, count, i) == (write + capacity - count + i + 1) % capacity

RowIndex(write, capacity, count, i) == (write + capacity - count + i) % capacity

ReadRow ==
    /\ rpc = "rows" /\ Len(out) < rcount
    /\ out' = Append(out, history[RowIndex(rwrite, rcap, rcount, Len(out))])
    /\ UNCHANGED <<ring, writer, master, rpc, rcount, rcap, rwrite, reads, settled>>

ReadDone ==
    /\ rpc = "rows" /\ Len(out) = rcount
    /\ rpc' = "idle"
    /\ UNCHANGED <<ring, writer, master, rcount, rcap, rwrite, out, reads, settled>>

WriterNext == LoadCapacity \/ Claim \/ ZeroRow \/ FillRow \/ TestCount \/ AddCount
MasterNext == StoreCapacity \/ ClampTest \/ ClampStore
ReaderNext == ReadCount \/ ReadCapacity \/ ReadWrite \/ ReadRow \/ ReadDone

Next == WriterNext \/ MasterNext \/ ReaderNext

Spec == Init /\ [][Next]_vars

-----------------------------------------------------------------------------
Rows == 0 .. HistoryMax - 1

TypeOK ==
    /\ history \in [Rows -> 0 .. MaxSamples]
    /\ historyWrite \in 0 .. MaxSamples
    /\ historyCount \in 0 .. HistoryMax
    /\ historyCapacity \in 1 .. HistoryMax
    /\ wpc \in {"idle", "claim", "zero", "fill", "test", "add"}
    /\ wcap \in 0 .. HistoryMax /\ wpos \in Rows
    /\ mpc \in {"idle", "test", "clamp"}
    /\ mcap \in 0 .. HistoryMax /\ reloads \in 0 .. MaxReloads
    /\ rpc \in {"idle", "capacity", "write", "rows"}
    /\ rcount \in 0 .. HistoryMax /\ rcap \in 0 .. HistoryMax
    /\ rwrite \in 0 .. MaxSamples
    /\ out \in Seq(0 .. MaxSamples) /\ Len(out) <= HistoryMax
    /\ reads \in 0 .. MaxReads
    /\ settled \in 0 .. MaxSamples

(* What a reader that nobody disturbs emits now.                           *)
View == [i \in 1 .. historyCount |->
           history[RowIndex(historyWrite, historyCapacity, historyCount, i - 1)]]

Quiet == wpc = "idle" /\ mpc = "idle"

(* The last n samples appended, oldest first.                              *)
LastSamples(n) == [i \in 1 .. n |-> historyWrite - n + i]

(* Until a reload, and between two appends, the response is exactly the    *)
(* most recent samples, as many as the capacity holds, oldest first.       *)
WindowExact ==
    /\ TypeOK
    /\ Quiet /\ reloads = 0 => View = LastSamples(Least(historyWrite, historyCapacity))

(* However slow the reader and however often the writer laps it, a row it  *)
(* emits is blank or no older than the sample being replaced when it       *)
(* loaded history_write, as long as there is no reload.                    *)
ReaderFresh ==
    \A i \in 1 .. Len(out) :
        rpc = "rows" /\ reloads = 0 => out[i] = 0 \/ out[i] >= rwrite - rcap

(* After a reload the window is wrong at first (see WindowOrdered), and    *)
(* right again once the new capacity has been filled by appends that began *)
(* after the reload, unless the count was left above the capacity.         *)
ReloadHeals ==
    Quiet /\ settled >= historyCapacity /\ historyCount <= historyCapacity =>
        View = LastSamples(historyCapacity)

(* Between two appends the samples are real ones in the order in which     *)
(* they were taken.                                                        *)
WindowOrdered ==
    Quiet /\ historyCount <= historyCapacity =>
        \A i \in 1 .. historyCount :
            View[i] # 0 /\ (i > 1 => View[i - 1] < View[i])

-----------------------------------------------------------------------------
(* The ring implements the log.  A claimed row no longer belongs to the    *)
(* window, whatever it still holds, until it is filled.                    *)
Pending == wpc \in {"zero", "fill"}

Appended == IF Pending THEN historyWrite - 1 ELSE historyWrite

KeptCount ==
    Least(Appended, IF Pending THEN historyCapacity - 1 ELSE historyCapacity)

Kept == [i \in 1 .. KeptCount |->
           history[(Appended - KeptCount + i - 1) % historyCapacity]]

Log == INSTANCE HistoryLog WITH
    capacity <- historyCapacity,
    appended <- Appended,
    window   <- Kept

(* Up to the first reload, appending to the ring is appending to the log:  *)
(* one sample at a time, none skipped, the oldest given up only when the   *)
(* window is full.                                                         *)
ImplementsLog == Log!LogInit /\ [][reloads' = 0 => Log!LogStep]_vars
=============================================================================

----------------------------- MODULE MCCollected ------------------------------
(***************************************************************************)
(* A small instance of KernelTables and of SystemGauges, the two parts of  *)
(* what a pass collects from the kernel.  They share no word, and a        *)
(* behaviour is about one of them, its subject, while the other one waits  *)
(* in an initial state.  There are three devices, one more than a table    *)
(* holds, and sizes up to two.                                             *)
(***************************************************************************)
EXTENDS KernelTables

CONSTANTS Word, Full, MaxSize, MaxShifts, MaxPasses

(* 64 bits are enough for a thousand times the jiffies there can be.       *)
ASSUME GaugesAssumption ==
    /\ {Word, Full} \subseteq Nat \ {0}
    /\ {MaxSize, MaxShifts, MaxPasses} \subseteq Nat
    /\ 2 * (1 + MaxShifts) * Full < Word /\ MaxSize < Word

VARIABLES
    subject,
    moves, cpu, size, rest, shifts, usage, prevCpu, total, left, gpc, meminfo, rounds,
    sample, apc, gauge, loaded, shown, answers, last, span, truth, source, fresh, resized

G == INSTANCE SystemGauges
        WITH changes <- shifts, prev <- prevCpu, cpc <- gpc, file <- meminfo,
             passes <- rounds, rpc <- apc, reads <- answers, MaxChanges <- MaxShifts

gaugeVars ==
    <<moves, cpu, size, rest, shifts, usage, prevCpu, total, left, gpc, meminfo, rounds,
      sample, apc, gauge, loaded, shown, answers, last, span, truth, source, fresh,
      resized>>

MCThree == <<"loop0", "a", "b">>

MCInit ==
    /\ Init /\ G!Init
    /\ \/ subject = "tables" /\ moves = "cpu"
       \/ subject = "gauges" /\ kind = "disks"

MCNext ==
    /\ UNCHANGED subject
    /\ \/ subject = "tables" /\ Next /\ UNCHANGED gaugeVars
       \/ subject = "gauges" /\ G!Next /\ UNCHANGED vars

MCSpec == MCInit /\ [][MCNext]_<<subject, vars, gaugeVars>>

(* The usage of the CPUs is the busy share of the time between two passes, *)
(* as SystemGauges states it.                                              *)
UsageHonest == G!UsageHonest

(* The shares of memory and swap in a response or a sample were so at one  *)
(* moment.                                                                 *)
SharesHonest == G!SharesHonest
=============================================================================

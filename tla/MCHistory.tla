------------------------------ MODULE MCHistory ------------------------------
(***************************************************************************)
(* Small instances of HistoryRing and of Sampling: the ring that keeps the *)
(* history, and when and of what samples are taken.  They share no word,   *)
(* and a behaviour is about one of them, its subject, while the other one  *)
(* waits in an initial state.                                              *)
(*                                                                         *)
(* The ring: a compiled maximum of four rows and configurations whose      *)
(* quotient is below 1, inside the range and above it.  The sampling:      *)
(* three workers, two of them with timers that coincide, as those of slots *)
(* 0 and 16 do, and a resolution that is not a multiple of the refresh     *)
(* interval.                                                               *)
(***************************************************************************)
EXTENDS HistoryRing, Sampling

Conf(h, r) == [history |-> h, resolution |-> r]

MCReload == {Conf(2000, 1000), Conf(3000, 1000)}
MCConfs  == {Conf(100, 1000), Conf(2500, 1000), Conf(9000, 1000)}

MCStagger == [w \in Workers |-> IF w = "w2" THEN 1 ELSE 0]

VARIABLE subject

MCInit ==
    /\ Init /\ SamplingInit
    /\ \/ subject = "ring" /\ lag = CHOOSE l \in Lags : TRUE
       \/ subject = "sampling" /\ historyCapacity = CapacityOf(CHOOSE c \in Confs : TRUE)

MCNext ==
    /\ UNCHANGED subject
    /\ \/ subject = "ring" /\ Next /\ UNCHANGED samplingVars
       \/ subject = "sampling" /\ SamplingNext /\ UNCHANGED vars

MCSpec == MCInit /\ [][MCNext]_<<subject, vars, samplingVars>>
=============================================================================

-------------------------------- MODULE MCSse --------------------------------
(* Two clients of two workers: a worker serves both, or each serves one    *)
(* and the two change the gauge at once.                                   *)
EXTENDS SseStream
=============================================================================

--------------------------- MODULE MCTimeoutQueue ---------------------------
(* TimeoutQueue for TLC.                                                    *)
EXTENDS TimeoutQueue

CONSTANTS t1, t2
=============================================================================

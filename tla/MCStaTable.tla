----------------------------- MODULE MCStaTable -----------------------------
(* StaTable for TLC.                                                        *)
EXTENDS StaTable
=============================================================================

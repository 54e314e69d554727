---------------------------- MODULE MCLocalNode ----------------------------
(* LocalNode for TLC.                                                       *)
EXTENDS LocalNode

OneSsid == [n \in Names |-> "net"]
=============================================================================

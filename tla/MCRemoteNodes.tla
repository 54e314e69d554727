--------------------------- MODULE MCRemoteNodes ---------------------------
(* RemoteNodes for TLC.                                                     *)
EXTENDS RemoteNodes
=============================================================================

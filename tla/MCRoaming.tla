----------------------------- MODULE MCRoaming -----------------------------
(* Roaming for TLC: access point 1 on 2.4 GHz, access point 2 on 5 GHz,     *)
(* both above load_kick_threshold as soon as they have 3 other clients.     *)
EXTENDS Roaming

OneSsid == [n \in Nodes |-> "net"]
FiveG == [n \in Nodes |-> n = 2]
NoLimit == [n \in Nodes |-> 0]
NearAndFar == {-50, -60}
=============================================================================

----------------------------- MODULE MCSteering -----------------------------
(* Steering for TLC: nodes 1 and 2 on 2.4 GHz, node 3 on 5 GHz.             *)
EXTENDS Steering

OneSsid == [n \in Nodes |-> "net"]
FiveG == [n \in Nodes |-> n = 3]
Limited == [n \in Nodes |-> IF n = 2 THEN 3 ELSE 0]

View(sig, seen, reported) == [signal |-> sig, seen |-> seen, reported |-> reported]
Near(n, by) == [m \in Nodes |-> IF m = n THEN -50 ELSE -50 - by]

\* A client near node 1 that every node has heard lately, and one near node 3 that has
\* sent reports but is steered by entries while it is at node 1.
MixedViews == {View(Near(1, 2), Nodes, {}), View(Near(3, 2), {1, 3}, {2, 3})}
=============================================================================

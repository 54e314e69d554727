------------------------------ MODULE Steering ------------------------------
(***************************************************************************)
(* Where usteerd steers a client: the comparison of access points in        *)
(* policy.c (is_better_candidate and its hearing map twin) and the search   *)
(* for a better candidate, as operators, and the movement they cause: a     *)
(* client that is refused or kicked because find_better_candidate has an    *)
(* answer associates with that answer, and the next polls of the two nodes  *)
(* count it.                                                                *)
(***************************************************************************)
EXTENDS Integers, FiniteSets

CONSTANTS
  Stations, Nodes,
  ssid,                        \* ssid[n]
  is5g,                        \* is5g[n]: freq > 4000
  max_assoc,                   \* max_assoc[n], 0: no limit
  band_steering_threshold, load_balancing_threshold,       \* config
  signal_diff_threshold,                                   \* config, in dB
  load_kick_threshold, load_kick_min_clients,              \* config
  Views,                       \* what can be known of a client, see view
  Loads,                       \* the loads of a node
  Drift                        \* whether views and loads change

INT_MAX == 2147483647      \* signals are ints

ASSUME SteeringAssumption ==
  /\ IsFiniteSet(Stations)
  /\ is5g \in [Nodes -> BOOLEAN] /\ max_assoc \in [Nodes -> Nat]
  /\ band_steering_threshold \in Nat /\ load_balancing_threshold \in Nat
  /\ signal_diff_threshold \in Nat
  /\ load_kick_threshold \in Nat /\ load_kick_min_clients \in Nat
  /\ Views \subseteq [signal : [Nodes -> Int], seen : SUBSET Nodes, reported : SUBSET Nodes]
  /\ \A v \in Views, n \in Nodes : v.signal[n] <= INT_MAX
  /\ Loads \subseteq Nat
  /\ Drift \in BOOLEAN

VARIABLES
  at,        \* the node a client is associated with
  n_assoc,   \* n_assoc[n]
  load,      \* load[n]
  view,      \* view[s].signal[n], the nodes whose entry of s was seen within
             \* seen_policy_timeout, and the nodes s has sent beacon reports of
  last       \* ghost: the last move, if nothing has happened since

vars == <<at, n_assoc, load, view, last>>
None == [path |-> "none"]

-----------------------------------------------------------------------------
(* The comparison of two nodes.                                             *)

MAssocThresholdNoBalance(cur, new) ==
  LET penaltyNew == IF is5g[cur] /\ ~is5g[new] THEN band_steering_threshold ELSE 0
      penaltyCur == IF ~is5g[cur] /\ is5g[new] THEN band_steering_threshold ELSE 0
  IN  n_assoc[new] + penaltyNew <= n_assoc[cur] + penaltyCur

below_assoc_threshold(cur, new) ==
  LET penaltyNew == IF is5g[cur] /\ ~is5g[new] THEN band_steering_threshold ELSE 0
      penaltyCur == IF ~is5g[cur] /\ is5g[new] THEN band_steering_threshold ELSE 0
  IN  n_assoc[new] + penaltyNew + load_balancing_threshold <= n_assoc[cur] + penaltyCur

better_signal_strength(s, cur, new) ==
  /\ signal_diff_threshold # 0
  /\ view[s].signal[new] - view[s].signal[cur] > signal_diff_threshold

\* A beacon report gives the received power in half decibels above -110 dBm.
rcpi(s, n) == 2 * (view[s].signal[n] + 110)

better_signal_strength_hearing_map(s, cur, new) ==
  /\ signal_diff_threshold # 0
  /\ rcpi(s, new) - rcpi(s, cur) > (signal_diff_threshold \div 100) * 255

below_load_threshold(n) ==
  n_assoc[n] >= load_kick_min_clients /\ load[n] > load_kick_threshold

has_better_load(cur, new) == ~below_load_threshold(cur) /\ below_load_threshold(new)

below_max_assoc(n) == max_assoc[n] = 0 \/ n_assoc[n] < max_assoc[n]

is_better_candidate(s, cur, new) ==
  /\ below_max_assoc(new)
  /\ \/ below_assoc_threshold(cur, new)
     \/ better_signal_strength(s, cur, new)
     \/ has_better_load(cur, new)

is_better_candidate_hearing_map(s, cur, new) ==
  /\ below_max_assoc(new)
  /\ \/ below_assoc_threshold(cur, new)
     \/ better_signal_strength_hearing_map(s, cur, new)
     \/ has_better_load(cur, new)

-----------------------------------------------------------------------------
(* find_better_candidate: beacon reports first, if there is one of the      *)
(* node the client is at, then entries.  The code takes the first of its    *)
(* list; here every element may come first.                                 *)

ReportedCandidates(s) ==
  LET cur == at[s] IN
  {n \in view[s].reported \ {cur} :
     /\ cur \in view[s].reported
     /\ ssid[n] = ssid[cur]
     /\ is_better_candidate_hearing_map(s, cur, n)
     /\ ~is_better_candidate_hearing_map(s, n, cur)}

MBetterEntriesOneSided(s, cur) ==
  {n \in view[s].seen \ {cur} : ssid[n] = ssid[cur] /\ is_better_candidate(s, cur, n)}

\* The entries that are better for s than the one at cur.
BetterEntries(s, cur) ==
  {n \in view[s].seen \ {cur} :
     /\ ssid[n] = ssid[cur]
     /\ is_better_candidate(s, cur, n)
     /\ ~is_better_candidate(s, n, cur)}

SeenCandidates(s) == BetterEntries(s, at[s])

find_better_candidate(s) ==
  IF ReportedCandidates(s) # {} THEN ReportedCandidates(s) ELSE SeenCandidates(s)

-----------------------------------------------------------------------------
Init ==
  /\ at \in [Stations -> Nodes]
  /\ n_assoc = [n \in Nodes |-> Cardinality({s \in Stations : at[s] = n})]
  /\ load \in [Nodes -> Loads]
  /\ view \in [Stations -> Views]
  /\ last = None

\* The client follows; usteer_local_node_set_assoc of both nodes counts it.
Steer(s, n) ==
  LET cur == at[s] IN
  /\ n \in find_better_candidate(s)
  /\ at' = [at EXCEPT ![s] = n]
  /\ n_assoc' = [n_assoc EXCEPT ![cur] = @ - 1, ![n] = @ + 1]
  /\ last' = [path |-> IF ReportedCandidates(s) # {} THEN "reports" ELSE "entries",
              sta |-> s, from |-> cur, room |-> below_max_assoc(cur)]
  /\ UNCHANGED <<load, view>>

\* Polls, probe requests, beacon reports and messages change what is known.
Observe(s) ==
  /\ Drift
  /\ \E v \in Views : view' = [view EXCEPT ![s] = v]
  /\ last' = None
  /\ UNCHANGED <<at, n_assoc, load>>

LoadChanges(n) ==
  /\ Drift
  /\ \E x \in Loads : load' = [load EXCEPT ![n] = x]
  /\ last' = None
  /\ UNCHANGED <<at, n_assoc, view>>

Next ==
  \/ \E s \in Stations : Observe(s) \/ \E n \in Nodes : Steer(s, n)
  \/ \E n \in Nodes : LoadChanges(n)

Spec == Init /\ [][Next]_vars

-----------------------------------------------------------------------------
TypeOK ==
  /\ at \in [Stations -> Nodes]
  /\ n_assoc \in [Nodes -> 0 .. Cardinality(Stations)]
  /\ load \in [Nodes -> Loads]
  /\ view \in [Stations -> Views]

(* policy.c:104-113, 178-180.  Steering does not bounce a client: right     *)
(* after it has followed an entry, the node it came from is no better       *)
(* candidate, by its entry, than the node it is at, as long as neither was  *)
(* full.  That needs a load_balancing_threshold of at least 2.              *)
NoReturn ==
  (/\ load_balancing_threshold >= 2
   /\ last.path = "entries" /\ last.room /\ below_max_assoc(at[last.sta]))
    => last.from \notin SeenCandidates(last.sta)

(* policy.c:24-182, 231.  Requests are refused while there is a better      *)
(* candidate.  Three criteria compare the nodes, each with its own          *)
(* threshold, and could lead round in a circle of nodes that all refuse the *)
(* client in favour of the next; they do not: by the entries, one of the    *)
(* nodes that hear a client has no better candidate and takes it.           *)
SomeNodeIsBest ==
  \A s \in Stations : view[s].seen # {} => \E n \in view[s].seen : BetterEntries(s, n) = {}

\* What a client pays at a node: its rank among the nodes by clients and band, and
\* the signal it lacks, weighed by the thresholds of the other.
Price(s, n) ==
  (signal_diff_threshold + 1) * (n_assoc[n] + IF is5g[n] THEN 0 ELSE band_steering_threshold)
    - (IF signal_diff_threshold = 0 THEN 0 ELSE load_balancing_threshold * view[s].signal[n])

\* A client gains more by a better signal than it may lose by following the counts.
Balanced ==
  /\ load_balancing_threshold >= 2
  /\ signal_diff_threshold = 0 \/ signal_diff_threshold + 1 < load_balancing_threshold

(* policy.c:24-182.  Every step on the way counts: a client that follows an *)
(* entry away from a node with room gets to an overloaded node from one     *)
(* that is not, or between nodes of the same kind to one where it pays      *)
(* less, with itself counted, or as much for a better signal.  That is why  *)
(* clients cannot go round in a circle.                                     *)
EveryMovePaysOff ==
  [][\A s \in Stations : \A a \in {at[s]}, b \in {at'[s]} \ {at[s]} :
       Balanced /\ ReportedCandidates(s) = {} /\ below_max_assoc(a) =>
         \/ ~below_load_threshold(a) /\ below_load_threshold(b)'
         \/ /\ below_load_threshold(a) <=> below_load_threshold(b)'
            /\ \/ Price(s, b)' < Price(s, a)
               \/ Price(s, b)' = Price(s, a) /\ view[s].signal[b] > view[s].signal[a]]_vars

(* policy.c:24-182.  Steering by entries comes to rest: once what is known  *)
(* of clients and loads stays as it is, and while nobody is steered by      *)
(* beacon reports or away from a full node, clients move only finitely      *)
(* often, whichever of them are refused or kicked and in whichever order    *)
(* they follow.  A client that nobody refuses or kicks may stay where it    *)
(* is.  That needs thresholds that are Balanced.                            *)
SteeringSettles ==
  (/\ Balanced
   /\ <>[][UNCHANGED <<load, view>>]_vars
   /\ <>[](\A s \in Stations : ReportedCandidates(s) = {})
   /\ <>[][\A s \in Stations : at'[s] # at[s] => below_max_assoc(at[s])]_vars)
    => <>[][UNCHANGED at]_vars
=============================================================================

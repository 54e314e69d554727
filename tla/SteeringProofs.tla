--------------------------- MODULE SteeringProofs ---------------------------
(***************************************************************************)
(* Steering for every network, configuration, load and view: the counts of *)
(* clients are right, no client is steered straight back, some node is      *)
(* best, and every move pays off.  The last part is about Roaming, whose    *)
(* daemons compare nodes by the same code, each on what it holds of the     *)
(* others.                                                                  *)
(***************************************************************************)
EXTENDS Steering, FiniteSetTheorems, WellFoundedInduction, TLAPS

\* What Roaming has beside the constants of Steering, and its state.
CONSTANTS noise, max_retry_band, min_connect_snr, initial_connect_delay, Counts, Signals, Faulty
VARIABLES own, entry, remote, socket, answer

R == INSTANCE Roaming

ClientsAt(a, n) == {s \in Stations : a[s] = n}

\* A node's count is the number of its clients.
CountInv == \A n \in Nodes : n_assoc[n] = Cardinality(ClientsAt(at, n))

IInv == TypeOK /\ CountInv /\ NoReturn

-----------------------------------------------------------------------------
\* A count of clients is a natural number, at most all of them.
LEMMA CountType ==
  ASSUME NEW a, NEW n
  PROVE  /\ IsFiniteSet(ClientsAt(a, n))
         /\ Cardinality(ClientsAt(a, n)) \in 0 .. Cardinality(Stations)
<1>1. ClientsAt(a, n) \subseteq Stations
  BY DEF ClientsAt
<1>2. IsFiniteSet(ClientsAt(a, n)) /\ Cardinality(ClientsAt(a, n)) <= Cardinality(Stations)
  BY <1>1, FS_Subset, SteeringAssumption
<1>3. Cardinality(ClientsAt(a, n)) \in Nat /\ Cardinality(Stations) \in Nat
  BY <1>2, FS_CardinalityType, SteeringAssumption
<1>4. QED
  BY <1>2, <1>3

\* A client that moves is counted at its new node and no longer at its old one.
LEMMA MoveCounts ==
  ASSUME NEW a \in [Stations -> Nodes], NEW s \in Stations, NEW n \in Nodes, n # a[s]
  PROVE  LET b == [a EXCEPT ![s] = n] IN
         /\ Cardinality(ClientsAt(b, n)) = Cardinality(ClientsAt(a, n)) + 1
         /\ Cardinality(ClientsAt(b, a[s])) = Cardinality(ClientsAt(a, a[s])) - 1
         /\ \A m \in Nodes \ {n, a[s]} : ClientsAt(b, m) = ClientsAt(a, m)
<1> DEFINE b == [a EXCEPT ![s] = n]
<1>1. /\ ClientsAt(b, n) = ClientsAt(a, n) \cup {s} /\ s \notin ClientsAt(a, n)
      /\ ClientsAt(b, a[s]) = ClientsAt(a, a[s]) \ {s} /\ s \in ClientsAt(a, a[s])
      /\ \A m \in Nodes \ {n, a[s]} : ClientsAt(b, m) = ClientsAt(a, m)
  BY DEF ClientsAt
<1>2. Cardinality(ClientsAt(a, n) \cup {s}) = Cardinality(ClientsAt(a, n)) + 1
  BY <1>1, CountType, FS_AddElement
<1>3. Cardinality(ClientsAt(a, a[s]) \ {s}) = Cardinality(ClientsAt(a, a[s])) - 1
  BY <1>1, CountType, FS_RemoveElement
<1>4. QED
  BY <1>1, <1>2, <1>3

\* Every node has a natural number of clients and typed signals.
LEMMA Types ==
  ASSUME TypeOK
  PROVE  /\ \A n \in Nodes : n_assoc[n] \in Nat /\ load[n] \in Nat
         /\ \A s \in Stations : /\ at[s] \in Nodes
                                /\ view[s].seen \subseteq Nodes
                                /\ view[s].reported \subseteq Nodes
                                /\ \A n \in Nodes : view[s].signal[n] \in Int
<1>1. \A n \in Nodes : n_assoc[n] \in Nat /\ load[n] \in Nat
  <2>1. Cardinality(Stations) \in Nat
    BY FS_CardinalityType, SteeringAssumption
  <2>2. \A n \in Nodes : n_assoc[n] \in Nat
    BY <2>1 DEF TypeOK
  <2>3. QED
    BY <2>2, SteeringAssumption DEF TypeOK
<1>2. ASSUME NEW s \in Stations
      PROVE  view[s] \in [signal : [Nodes -> Int], seen : SUBSET Nodes, reported : SUBSET Nodes]
  BY SteeringAssumption DEF TypeOK
<1>3. ASSUME NEW s \in Stations
      PROVE  /\ view[s].seen \subseteq Nodes /\ view[s].reported \subseteq Nodes
             /\ \A n \in Nodes : view[s].signal[n] \in Int
  <2>1. view[s].seen \in SUBSET Nodes /\ view[s].reported \in SUBSET Nodes
    BY <1>2, <1>3
  <2>2. view[s].signal \in [Nodes -> Int]
    BY <1>2, <1>3
  <2>3. QED
    BY <2>1, <2>2
<1>4. \A s \in Stations : at[s] \in Nodes
  BY DEF TypeOK
<1>5. QED
  BY <1>1, <1>3, <1>4

\* What a step of Steer does to the state.
LEMMA SteerParts ==
  ASSUME TypeOK, NEW s \in Stations, NEW n \in Nodes, Steer(s, n)
  PROVE  /\ at[s] \in Nodes /\ n # at[s]
         /\ n_assoc' = [n_assoc EXCEPT ![at[s]] = n_assoc[at[s]] - 1, ![n] = n_assoc[n] + 1]
         /\ at' = [at EXCEPT ![s] = n]
         /\ UNCHANGED <<load, view>>
<1>1. at[s] \in Nodes
  BY Types
<1>2. n # at[s]
  BY DEF Steer, find_better_candidate, ReportedCandidates, SeenCandidates, BetterEntries
<1>3. n_assoc' = [n_assoc EXCEPT ![at[s]] = n_assoc[at[s]] - 1, ![n] = n_assoc[n] + 1]
  BY <1>1, <1>2 DEF Steer, TypeOK
<1>4. QED
  BY <1>1, <1>2, <1>3 DEF Steer

\* Steer keeps the counts.
LEMMA SteerCounts ==
  ASSUME TypeOK, CountInv, NEW s \in Stations, NEW n \in Nodes, Steer(s, n)
  PROVE  TypeOK' /\ CountInv'
<1>1. /\ at[s] \in Nodes /\ n # at[s] /\ at' = [at EXCEPT ![s] = n]
      /\ n_assoc' = [n_assoc EXCEPT ![at[s]] = n_assoc[at[s]] - 1, ![n] = n_assoc[n] + 1]
      /\ UNCHANGED <<load, view>>
  BY SteerParts
<1>2. /\ Cardinality(ClientsAt(at', n)) = Cardinality(ClientsAt(at, n)) + 1
      /\ Cardinality(ClientsAt(at', at[s])) = Cardinality(ClientsAt(at, at[s])) - 1
      /\ \A m \in Nodes \ {n, at[s]} : ClientsAt(at', m) = ClientsAt(at, m)
  <2> DEFINE b == [at EXCEPT ![s] = n]
  <2>1. at \in [Stations -> Nodes] /\ at' = b
    BY <1>1 DEF TypeOK
  <2>2. /\ Cardinality(ClientsAt(b, n)) = Cardinality(ClientsAt(at, n)) + 1
        /\ Cardinality(ClientsAt(b, at[s])) = Cardinality(ClientsAt(at, at[s])) - 1
        /\ \A m \in Nodes \ {n, at[s]} : ClientsAt(b, m) = ClientsAt(at, m)
    BY <1>1, <2>1, MoveCounts
  <2> HIDE DEF b
  <2>3. QED
    BY <2>1, <2>2
<1>3. /\ n_assoc'[n] = n_assoc[n] + 1 /\ n_assoc'[at[s]] = n_assoc[at[s]] - 1
      /\ \A m \in Nodes \ {n, at[s]} : n_assoc'[m] = n_assoc[m]
      /\ DOMAIN n_assoc' = Nodes /\ n_assoc' = [m \in Nodes |-> n_assoc'[m]]
  BY <1>1 DEF TypeOK
<1>4. CountInv'
  <2> SUFFICES ASSUME NEW m \in Nodes PROVE n_assoc'[m] = Cardinality(ClientsAt(at', m))
    BY DEF CountInv
  <2>1. CASE m = n
    BY <1>2, <1>3, <2>1 DEF CountInv
  <2>2. CASE m = at[s]
    BY <1>1, <1>2, <1>3, <2>2 DEF CountInv
  <2>3. CASE m \notin {n, at[s]}
    BY <1>2, <1>3, <2>3 DEF CountInv
  <2>4. QED
    BY <2>1, <2>2, <2>3
<1>5. \A m \in Nodes : n_assoc'[m] \in 0 .. Cardinality(Stations)
  BY <1>4, CountType DEF CountInv
<1>6. n_assoc' \in [Nodes -> 0 .. Cardinality(Stations)]
  BY <1>3, <1>5
<1>7. TypeOK'
  BY <1>1, <1>6 DEF TypeOK
<1>8. QED
  BY <1>4, <1>7

-----------------------------------------------------------------------------
(* No way straight back.                                                   *)

\* s has moved from a to n by its entry, and neither node was full: nothing in
\* the comparison of the two nodes argues for the way back.
LEMMA NoReturnStep ==
  ASSUME TypeOK, NEW s \in Stations, NEW n \in Nodes, NEW a \in Nodes, a = at[s], Steer(s, n),
         load_balancing_threshold >= 2, n \in SeenCandidates(s),
         below_max_assoc(a), below_max_assoc(n)'
  PROVE  a \notin SeenCandidates(s)'
<1> DEFINE p == IF is5g[a] /\ ~is5g[n] THEN band_steering_threshold ELSE 0
           q == IF ~is5g[a] /\ is5g[n] THEN band_steering_threshold ELSE 0
<1>1. /\ n # a /\ at'[s] = n /\ load' = load /\ view' = view
      /\ n_assoc'[n] = n_assoc[n] + 1 /\ n_assoc'[a] = n_assoc[a] - 1
  BY SteerParts DEF TypeOK
<1>2. is_better_candidate(s, a, n) /\ ~is_better_candidate(s, n, a)
  BY DEF SeenCandidates, BetterEntries
<1>3. SUFFICES ASSUME a \in SeenCandidates(s)' PROVE FALSE
  OBVIOUS
<1>4. is_better_candidate(s, n, a)' /\ ~is_better_candidate(s, a, n)'
  BY <1>1, <1>3 DEF SeenCandidates, BetterEntries
<1>5. /\ n_assoc[a] \in Nat /\ n_assoc[n] \in Nat /\ load[a] \in Nat /\ load[n] \in Nat
      /\ view[s].signal[a] \in Int /\ view[s].signal[n] \in Int
  BY <1>1, Types
<1>6. /\ p \in Nat /\ q \in Nat /\ load_balancing_threshold \in Nat
      /\ load_kick_min_clients \in Nat /\ load_kick_threshold \in Nat
  BY SteeringAssumption
<1>7. /\ better_signal_strength(s, a, n)' <=> better_signal_strength(s, a, n)
      /\ better_signal_strength(s, n, a)' <=> better_signal_strength(s, n, a)
  BY <1>1 DEF better_signal_strength
<1>8. /\ ~below_assoc_threshold(n, a) /\ ~better_signal_strength(s, n, a)
      /\ ~has_better_load(n, a)
  BY <1>2 DEF is_better_candidate
<1>9. /\ ~below_assoc_threshold(a, n)' /\ ~better_signal_strength(s, a, n)
      /\ ~has_better_load(a, n)'
  BY <1>4, <1>7 DEF is_better_candidate
<1>10. /\ below_load_threshold(n) => below_load_threshold(n)'
       /\ below_load_threshold(a)' => below_load_threshold(a)
  BY <1>1, <1>5, <1>6 DEF below_load_threshold
<1>11. ~has_better_load(a, n) /\ ~has_better_load(n, a)'
  BY <1>8, <1>9, <1>10 DEF has_better_load
<1>12. n_assoc[n] + p + load_balancing_threshold <= n_assoc[a] + q
  BY <1>2, <1>9, <1>11 DEF is_better_candidate, below_assoc_threshold
<1>13. (n_assoc[a] - 1) + q + load_balancing_threshold <= (n_assoc[n] + 1) + p
  BY <1>1, <1>4, <1>7, <1>8, <1>11 DEF is_better_candidate, below_assoc_threshold
<1> HIDE DEF p, q
<1>14. QED
  BY <1>5, <1>6, <1>12, <1>13

\* Steer keeps NoReturn.
LEMMA SteerNoReturn ==
  ASSUME TypeOK, NEW s \in Stations, NEW n \in Nodes, Steer(s, n)
  PROVE  NoReturn'
<1> DEFINE a == at[s]
<1>1. a \in Nodes /\ at'[s] = n
  BY SteerParts DEF TypeOK
<1>2. /\ n \in find_better_candidate(s) /\ last'.sta = s /\ last'.from = a
      /\ last'.room = below_max_assoc(a)
      /\ last'.path = IF ReportedCandidates(s) # {} THEN "reports" ELSE "entries"
  BY DEF Steer
<1>3. SUFFICES ASSUME load_balancing_threshold >= 2, last'.path = "entries", last'.room,
                      below_max_assoc(n)'
               PROVE  a \notin SeenCandidates(s)'
  BY <1>1, <1>2 DEF NoReturn
<1>4. n \in SeenCandidates(s)
  BY <1>2, <1>3 DEF find_better_candidate
<1>5. QED
  BY <1>1, <1>2, <1>3, <1>4, NoReturnStep

-----------------------------------------------------------------------------
(* Some node is best.  The client count and the signal pull in different    *)
(* directions, but a weighted sum of both (Cost) never grows along the      *)
(* relation "better", and where it stays the same the count falls.  The     *)
(* argument is about any counts, loads and signals of the nodes: those of   *)
(* Steering, or those the daemons of Roaming hold.                          *)

\* A node's count, with the handicap of the 2.4 GHz band.
Rank(cnt, n) == cnt[n] + (IF is5g[n] THEN 0 ELSE band_steering_threshold)

Cost(cnt, sig, n) ==
  IF signal_diff_threshold = 0 THEN 0
  ELSE signal_diff_threshold * Rank(cnt, n) + load_balancing_threshold * (INT_MAX - sig[n])

\* The criteria of policy.c over given counts, loads and signals.
Emptier(cnt, a, b) == Rank(cnt, b) + load_balancing_threshold <= Rank(cnt, a)
Louder(sig, a, b) == signal_diff_threshold # 0 /\ sig[b] - sig[a] > signal_diff_threshold
Hot(cnt, ld, n) == cnt[n] >= load_kick_min_clients /\ ld[n] > load_kick_threshold
Open(cnt, n) == max_assoc[n] = 0 \/ cnt[n] < max_assoc[n]

Better(cnt, ld, sig, a, b) ==
  /\ Open(cnt, b)
  /\ \/ Emptier(cnt, a, b)
     \/ Louder(sig, a, b)
     \/ ~Hot(cnt, ld, a) /\ Hot(cnt, ld, b)

\* What was measured at the nodes of S is of the code's types.
Measured(cnt, sig, S) == \A n \in S : cnt[n] \in Nat /\ sig[n] \in Int /\ sig[n] <= INT_MAX

\* The largest int is a number; which one does not matter.
LEMMA IntMax == INT_MAX \in Int
BY SMT DEF INT_MAX

\* A set of natural numbers has a least element.
LEMMA NatMin ==
  ASSUME NEW T, T \subseteq Nat, T # {}
  PROVE  \E x \in T : \A y \in T : x <= y
<1>1. PICK x \in T : \A y \in T : ~ (<<y, x>> \in OpToRel(<, Nat))
  BY WFMin, NatLessThanWellFounded, Zenon
<1>2. ASSUME NEW y \in T PROVE x <= y
  <2>1. x \in Nat /\ y \in Nat
    OBVIOUS
  <2>2. (y < x) => <<y, x>> \in OpToRel(<, Nat)
    BY <2>1 DEF OpToRel
  <2>3. ~(y < x)
    BY <1>1, <2>2, Zenon
  <2>4. QED
    BY <2>1, <2>3
<1>3. QED
  BY <1>2

\* A function into the natural numbers has a minimum on every set.
LEMMA MinBy ==
  ASSUME NEW S, S # {}, NEW f, \A x \in S : f[x] \in Nat
  PROVE  \E x \in S : \A y \in S : f[x] <= f[y]
<1> DEFINE T == {f[x] : x \in S}
<1>1. T \subseteq Nat /\ T # {}
  OBVIOUS
<1>2. \E m \in T : \A k \in T : m <= k
  <2> HIDE DEF T
  <2>1. QED
    BY <1>1, NatMin
<1>3. QED
  BY <1>2

\* The client count criterion compares ranks.
LEMMA AssocIsRank ==
  ASSUME NEW cnt, NEW a \in Nodes, NEW b \in Nodes, cnt[a] \in Nat, cnt[b] \in Nat
  PROVE  LET p == IF is5g[a] /\ ~is5g[b] THEN band_steering_threshold ELSE 0
             q == IF ~is5g[a] /\ is5g[b] THEN band_steering_threshold ELSE 0
         IN  Emptier(cnt, a, b) <=> cnt[b] + p + load_balancing_threshold <= cnt[a] + q
<1>1. /\ is5g[a] \in BOOLEAN /\ is5g[b] \in BOOLEAN
      /\ band_steering_threshold \in Nat /\ load_balancing_threshold \in Nat
  BY SteeringAssumption
<1>2. QED
  BY <1>1 DEF Rank, Emptier

\* Rank and cost are natural numbers.
LEMMA CostType ==
  ASSUME NEW cnt, NEW sig, NEW n \in Nodes, Measured(cnt, sig, {n})
  PROVE  Rank(cnt, n) \in Nat /\ Cost(cnt, sig, n) \in Nat
<1>1. cnt[n] \in Nat /\ sig[n] \in Int /\ sig[n] <= INT_MAX
  BY DEF Measured
<1>2. Rank(cnt, n) \in Nat
  BY <1>1, SteeringAssumption DEF Rank
<1>3. signal_diff_threshold \in Nat /\ load_balancing_threshold \in Nat
  BY SteeringAssumption
<1>4. INT_MAX - sig[n] \in Nat
  BY <1>1, IntMax
<1>5. \A x, y \in Nat : x * y \in Nat
  OBVIOUS
<1>6. /\ signal_diff_threshold * Rank(cnt, n) \in Nat
      /\ load_balancing_threshold * (INT_MAX - sig[n]) \in Nat
  BY <1>2, <1>3, <1>4, <1>5
<1>7. QED
  BY <1>2, <1>6 DEF Cost

\* The weighted sum under a change in both terms.
LEMMA WeightedSum ==
  ASSUME NEW t \in Nat, NEW l \in Nat, NEW p \in Nat, NEW q \in Nat,
         NEW u \in Nat, NEW v \in Nat, NEW c \in Int, NEW d \in Int,
         q <= p + c, v <= u + d
  PROVE  t * q + l * v <= (t * p + l * u) + (t * c + l * d)
<1>1. t * q <= t * (p + c)
  OBVIOUS
<1>2. l * v <= l * (u + d)
  OBVIOUS
<1>3. t * (p + c) = t * p + t * c /\ l * (u + d) = l * u + l * d
  OBVIOUS
<1>4. /\ t * q \in Int /\ l * v \in Int /\ t * p \in Int /\ t * c \in Int
      /\ l * u \in Int /\ l * d \in Int
  OBVIOUS
<1>5. QED
  BY <1>1, <1>2, <1>3, <1>4

\* A node that is better by client count or by signal, and not worse by the
\* other, has less cost, or the same cost and a lower rank.
LEMMA BetterIsCheaper ==
  ASSUME NEW cnt, NEW sig, NEW a \in Nodes, NEW b \in Nodes, Measured(cnt, sig, {a, b}),
         Emptier(cnt, a, b) \/ Louder(sig, a, b), ~Emptier(cnt, b, a), ~Louder(sig, b, a)
  PROVE  \/ Cost(cnt, sig, b) < Cost(cnt, sig, a)
         \/ Cost(cnt, sig, b) = Cost(cnt, sig, a) /\ Rank(cnt, b) < Rank(cnt, a)
<1> DEFINE t == signal_diff_threshold
           l == load_balancing_threshold
           p == Rank(cnt, a)
           q == Rank(cnt, b)
           u == INT_MAX - sig[a]
           v == INT_MAX - sig[b]
<1>1. t \in Nat /\ l \in Nat
  BY SteeringAssumption
<1>2. p \in Nat /\ q \in Nat /\ ~(p + l <= q) /\ (Emptier(cnt, a, b) <=> q + l <= p)
  <2>1. Measured(cnt, sig, {a}) /\ Measured(cnt, sig, {b})
    BY DEF Measured
  <2>2. QED
    BY <2>1, CostType DEF Emptier
<1>3. sig[a] \in Int /\ sig[b] \in Int /\ sig[a] <= INT_MAX /\ sig[b] <= INT_MAX
  BY DEF Measured
<1>4. u \in Nat /\ v \in Nat
  BY <1>3, IntMax
<1>5. /\ Louder(sig, a, b) <=> t # 0 /\ u - v > t
      /\ t = 0 \/ ~(v - u > t)
  BY <1>1, <1>3, IntMax DEF Louder
<1>6. /\ Cost(cnt, sig, a) = IF t = 0 THEN 0 ELSE t * p + l * u
      /\ Cost(cnt, sig, b) = IF t = 0 THEN 0 ELSE t * q + l * v
  BY DEF Cost
<1>7. Emptier(cnt, a, b) => q < p
  BY <1>1, <1>2
<1> HIDE DEF t, l, p, q, u, v
<1>8. CASE t = 0
  BY <1>5, <1>6, <1>7, <1>8 DEF p, q
<1>9. CASE t # 0 /\ Emptier(cnt, a, b)
  <2>1. q <= p + (-l) /\ v <= u + t
    BY <1>1, <1>2, <1>4, <1>5, <1>9
  <2>2. t * q + l * v <= (t * p + l * u) + (t * (-l) + l * t)
    BY <1>1, <1>2, <1>4, <2>1, WeightedSum
  <2>3. t * (-l) + l * t = 0
    BY <1>1
  <2>4. t * q + l * v \in Int /\ t * p + l * u \in Int
    BY <1>1, <1>2, <1>4
  <2>5. t * q + l * v <= t * p + l * u
    BY <2>2, <2>3, <2>4
  <2>6. QED
    BY <1>6, <1>7, <1>9, <2>4, <2>5 DEF p, q
<1>10. CASE t # 0 /\ Louder(sig, a, b)
  <2>1. q <= p + (l - 1) /\ v <= u + (-t - 1)
    BY <1>1, <1>2, <1>4, <1>5, <1>10
  <2>2. t * q + l * v <= (t * p + l * u) + (t * (l - 1) + l * (-t - 1))
    BY <1>1, <1>2, <1>4, <2>1, WeightedSum
  <2>3. t * (l - 1) + l * (-t - 1) = -t - l
    BY <1>1
  <2>4. t * q + l * v \in Int /\ t * p + l * u \in Int
    BY <1>1, <1>2, <1>4
  <2>5. t * q + l * v < t * p + l * u
    BY <1>1, <1>10, <2>2, <2>3, <2>4
  <2>6. QED
    BY <1>6, <1>10, <2>5
<1>11. QED
  BY <1>8, <1>9, <1>10

\* In every set of nodes there is one of least cost, and of least rank among those.
LEMMA CheapestNode ==
  ASSUME NEW cnt, NEW sig, NEW S \in SUBSET Nodes, S # {}, Measured(cnt, sig, S)
  PROVE  \E z \in S : \A y \in S :
           \/ Cost(cnt, sig, z) < Cost(cnt, sig, y)
           \/ Cost(cnt, sig, z) = Cost(cnt, sig, y) /\ Rank(cnt, z) <= Rank(cnt, y)
<1> DEFINE f == [n \in S |-> Cost(cnt, sig, n)]
           g == [n \in S |-> Rank(cnt, n)]
<1>1. \A n \in S : f[n] \in Nat /\ g[n] \in Nat
  <2>1. \A n \in S : Measured(cnt, sig, {n})
    BY DEF Measured
  <2>2. QED
    BY <2>1, CostType
<1>2. PICK x \in S : \A y \in S : f[x] <= f[y]
  <2> HIDE DEF f, g
  <2>1. QED
    BY <1>1, MinBy
<1> DEFINE U == {y \in S : f[y] = f[x]}
<1>3. U # {} /\ \A n \in U : g[n] \in Nat
  BY <1>1
<1>4. PICK z \in U : \A y \in U : g[z] <= g[y]
  <2> HIDE DEF U, f, g
  <2>1. QED
    BY <1>3, MinBy
<1>5. ASSUME NEW y \in S
      PROVE  f[z] < f[y] \/ (f[z] = f[y] /\ g[z] <= g[y])
  <2>1. z \in S /\ f[z] = f[x] /\ f[x] <= f[y] /\ f[x] \in Nat /\ f[y] \in Nat
    BY <1>1, <1>2
  <2>2. f[y] = f[x] => y \in U
    OBVIOUS
  <2> HIDE DEF f, g, U
  <2>3. QED
    BY <1>4, <2>1, <2>2
<1>6. z \in S /\ \A n \in S : f[n] = Cost(cnt, sig, n) /\ g[n] = Rank(cnt, n)
  OBVIOUS
<1> HIDE DEF f, g
<1>7. QED
  BY <1>5, <1>6

\* One node of every set has no better one in it.
LEMMA BestNode ==
  ASSUME NEW cnt, NEW ld, NEW sig, NEW T \in SUBSET Nodes, T # {}, Measured(cnt, sig, T)
  PROVE  \E z \in T : \A b \in T :
           Better(cnt, ld, sig, z, b) => Better(cnt, ld, sig, b, z)
<1> DEFINE open == {n \in T : Open(cnt, n)}
           hot == {n \in open : Hot(cnt, ld, n)}
           S == IF hot # {} THEN hot ELSE open
<1>1. CASE open = {}
  <2>1. \A z, b \in T : ~Better(cnt, ld, sig, z, b)
    BY <1>1 DEF Better
  <2>2. QED
    BY <2>1
<1>2. CASE open # {}
  <2>1. S \in SUBSET Nodes /\ S # {} /\ S \subseteq open /\ Measured(cnt, sig, S)
    BY <1>2 DEF Measured
  <2>2. PICK z \in S : \A y \in S :
          \/ Cost(cnt, sig, z) < Cost(cnt, sig, y)
          \/ Cost(cnt, sig, z) = Cost(cnt, sig, y) /\ Rank(cnt, z) <= Rank(cnt, y)
    <3> HIDE DEF S
    <3>1. QED
      BY <2>1, CheapestNode
  <2>3. ASSUME NEW b \in T, Better(cnt, ld, sig, z, b), ~Better(cnt, ld, sig, b, z)
        PROVE  FALSE
    <3>1. z \in open /\ b \in open /\ z \in Nodes /\ b \in Nodes /\ Open(cnt, z)
      BY <2>1, <2>3 DEF Better
    <3>2. /\ ~Emptier(cnt, b, z) /\ ~Louder(sig, b, z)
          /\ Hot(cnt, ld, z) => Hot(cnt, ld, b)
      BY <2>3, <3>1 DEF Better
    <3>3. b \in S /\ (Hot(cnt, ld, b) => Hot(cnt, ld, z))
      BY <3>1, <3>2
    <3>4. Emptier(cnt, z, b) \/ Louder(sig, z, b)
      BY <2>3, <3>3 DEF Better
    <3>5. Measured(cnt, sig, {z, b}) /\ Measured(cnt, sig, {z}) /\ Measured(cnt, sig, {b})
      BY <2>1, <3>3 DEF Measured
    <3>6. \/ Cost(cnt, sig, b) < Cost(cnt, sig, z)
          \/ Cost(cnt, sig, b) = Cost(cnt, sig, z) /\ Rank(cnt, b) < Rank(cnt, z)
      BY <3>1, <3>2, <3>4, <3>5, BetterIsCheaper
    <3>7. /\ Cost(cnt, sig, b) \in Nat /\ Cost(cnt, sig, z) \in Nat
          /\ Rank(cnt, b) \in Nat /\ Rank(cnt, z) \in Nat
      BY <3>1, <3>5, CostType
    <3>8. \/ Cost(cnt, sig, z) < Cost(cnt, sig, b)
          \/ Cost(cnt, sig, z) = Cost(cnt, sig, b) /\ Rank(cnt, z) <= Rank(cnt, b)
      BY <2>2, <3>3
    <3>9. QED
      BY <3>6, <3>7, <3>8
  <2>4. z \in T
    BY <2>1
  <2>5. QED
    BY <2>3, <2>4
<1>3. QED
  BY <1>1, <1>2

\* is_better_candidate compares the counts, loads and signals of the state.
LEMMA CandidateIsBetter ==
  ASSUME TypeOK, NEW s \in Stations, NEW a \in Nodes, NEW b \in Nodes
  PROVE  is_better_candidate(s, a, b) <=> Better(n_assoc, load, view[s].signal, a, b)
<1>1. n_assoc[a] \in Nat /\ n_assoc[b] \in Nat
  BY Types
<1>2. below_assoc_threshold(a, b) <=> Emptier(n_assoc, a, b)
  BY <1>1, AssocIsRank DEF below_assoc_threshold
<1>3. QED
  BY <1>2 DEF is_better_candidate, below_max_assoc, better_signal_strength, has_better_load,
     below_load_threshold, Better, Open, Louder, Hot

\* By entries, one of the nodes that hear a client has no better candidate.
LEMMA BestEntry ==
  ASSUME TypeOK, NEW s \in Stations, view[s].seen # {}
  PROVE  \E n \in view[s].seen : BetterEntries(s, n) = {}
<1>1. view[s].seen \in SUBSET Nodes
  BY Types
<1>2. Measured(n_assoc, view[s].signal, view[s].seen)
  BY <1>1, Types, SteeringAssumption DEF Measured, TypeOK
<1>3. PICK z \in view[s].seen : \A b \in view[s].seen :
        Better(n_assoc, load, view[s].signal, z, b) => Better(n_assoc, load, view[s].signal, b, z)
  BY <1>1, <1>2, BestNode
<1>4. \A b \in view[s].seen : is_better_candidate(s, z, b) => is_better_candidate(s, b, z)
  BY <1>1, <1>3, CandidateIsBetter
<1>5. QED
  BY <1>4 DEF BetterEntries

-----------------------------------------------------------------------------
(* Steering comes to rest.  A client that moves is counted at its new node, *)
(* so that Cost is too coarse: a step down of load_balancing_threshold in   *)
(* the count is one less with the client itself.  Price leaves that one for *)
(* the signal.                                                              *)

\* The client moves from rank p and signal x to rank q and signal y, with thresholds t
\* for the signal and l for the count.
LEMMA MoveIsCheaper ==
  ASSUME NEW t \in Nat, NEW l \in Nat, NEW p \in Int, NEW q \in Int, NEW x \in Int, NEW y \in Int,
         l >= 2, t = 0 \/ t + 1 < l,
         q + l <= p \/ (t # 0 /\ y - x > t),
         ~(p + l <= q), ~(t # 0 /\ x - y > t)
  PROVE  LET old == (t + 1) * p - (IF t = 0 THEN 0 ELSE l * x)
             new == (t + 1) * (q + 1) - (IF t = 0 THEN 0 ELSE l * y)
         IN  new < old \/ (new = old /\ y > x)
<1>1. CASE t = 0
  BY <1>1
<1>2. CASE t # 0 /\ q + l <= p
  <2>1. (t + 1) * (q + 1) <= (t + 1) * (p + (1 - l))
    BY <1>2
  <2>2. l * x <= l * (y + t)
    BY <1>2
  <2>3. /\ (t + 1) * (p + (1 - l)) = (t + 1) * p + (t + 1 - l) - l * t
        /\ l * (y + t) = l * y + l * t
    OBVIOUS
  <2>4. (t + 1) * (q + 1) - l * y <= ((t + 1) * p - l * x) + (t + 1 - l)
    BY <2>1, <2>2, <2>3
  <2>5. (t + 1) * (q + 1) - l * y \in Int /\ (t + 1) * p - l * x \in Int /\ t + 1 - l < 0
    BY <1>2
  <2>6. QED
    BY <1>2, <2>4, <2>5
<1>3. CASE t # 0 /\ y - x > t
  <2>1. (t + 1) * (q + 1) <= (t + 1) * (p + l)
    OBVIOUS
  <2>2. l * (x + (t + 1)) <= l * y
    BY <1>3
  <2>3. (t + 1) * (p + l) = (t + 1) * p + l * (t + 1) /\ l * (x + (t + 1)) = l * x + l * (t + 1)
    OBVIOUS
  <2>4. (t + 1) * (q + 1) - l * y <= (t + 1) * p - l * x
    BY <2>1, <2>2, <2>3
  <2>5. (t + 1) * (q + 1) - l * y \in Int /\ (t + 1) * p - l * x \in Int /\ y > x
    BY <1>3
  <2>6. QED
    BY <1>3, <2>4, <2>5
<1>4. QED
  BY <1>1, <1>2, <1>3

\* What a move by an entry away from a node with room is good for.
LEMMA MovePaysOff ==
  ASSUME TypeOK, NEW s \in Stations, NEW a \in Nodes, NEW b \in Nodes, a = at[s], Steer(s, b),
         Balanced, ReportedCandidates(s) = {}, below_max_assoc(a)
  PROVE  \/ ~below_load_threshold(a) /\ below_load_threshold(b)'
         \/ /\ below_load_threshold(a) <=> below_load_threshold(b)'
            /\ \/ Price(s, b)' < Price(s, a)
               \/ Price(s, b)' = Price(s, a) /\ view[s].signal[b] > view[s].signal[a]
<1> DEFINE t == signal_diff_threshold
           l == load_balancing_threshold
           p == Rank(n_assoc, a)
           q == Rank(n_assoc, b)
           x == view[s].signal[a]
           y == view[s].signal[b]
<1>1. a # b /\ load' = load /\ view' = view /\ n_assoc'[b] = n_assoc[b] + 1
  BY SteerParts DEF TypeOK
<1>2. is_better_candidate(s, a, b) /\ ~is_better_candidate(s, b, a)
  BY DEF Steer, find_better_candidate, SeenCandidates, BetterEntries
<1>3. /\ Better(n_assoc, load, view[s].signal, a, b) /\ Open(n_assoc, a)
      /\ ~Better(n_assoc, load, view[s].signal, b, a)
  BY <1>2, CandidateIsBetter DEF below_max_assoc, Open
<1>4. /\ n_assoc[a] \in Nat /\ n_assoc[b] \in Nat /\ x \in Int /\ y \in Int
      /\ t \in Nat /\ l \in Nat /\ band_steering_threshold \in Nat /\ load_kick_min_clients \in Nat
  BY Types, SteeringAssumption
<1>5. /\ below_load_threshold(a) <=> Hot(n_assoc, load, a)
      /\ Hot(n_assoc, load, b) => below_load_threshold(b)'
  BY <1>1, <1>4 DEF below_load_threshold, Hot
<1>6. below_load_threshold(a) => below_load_threshold(b)'
  BY <1>3, <1>5 DEF Better
<1>7. CASE ~Emptier(n_assoc, a, b) /\ ~Louder(view[s].signal, a, b)
  BY <1>3, <1>5, <1>7 DEF Better
<1>8. CASE Emptier(n_assoc, a, b) \/ Louder(view[s].signal, a, b)
  <2>1. /\ Price(s, a) = (t + 1) * p - (IF t = 0 THEN 0 ELSE l * x)
        /\ Price(s, b)' = (t + 1) * (q + 1) - (IF t = 0 THEN 0 ELSE l * y)
    <3>1. q + 1 = n_assoc'[b] + (IF is5g[b] THEN 0 ELSE band_steering_threshold)
      BY <1>1, <1>4 DEF Rank
    <3>2. QED
      BY <1>1, <3>1 DEF Price, Rank
  <2>2. p \in Int /\ q \in Int
    BY <1>4 DEF Rank
  <2>3. q + l <= p \/ (t # 0 /\ y - x > t)
    BY <1>8 DEF Emptier, Louder
  <2>4. ~(p + l <= q) /\ ~(t # 0 /\ x - y > t)
    BY <1>3 DEF Better, Emptier, Louder
  <2>5. l >= 2 /\ (t = 0 \/ t + 1 < l)
    BY DEF Balanced
  <2> HIDE DEF t, l, p, q, x, y
  <2>6. Price(s, b)' < Price(s, a) \/ (Price(s, b)' = Price(s, a) /\ y > x)
    BY <1>4, <2>1, <2>2, <2>3, <2>4, <2>5, MoveIsCheaper
  <2>7. QED
    BY <1>6, <2>6 DEF x, y
<1>9. QED
  BY <1>7, <1>8

-----------------------------------------------------------------------------
\* At the start the counts are right and nobody has moved.
LEMMA InitInv == Init => IInv
<1> SUFFICES ASSUME Init PROVE IInv
  OBVIOUS
<1>1. CountInv
  BY DEF Init, CountInv, ClientsAt
<1>2. \A n \in Nodes : n_assoc[n] \in 0 .. Cardinality(Stations)
  BY <1>1, CountType DEF CountInv
<1>3. TypeOK
  BY <1>2 DEF Init, TypeOK
<1>4. NoReturn
  BY DEF Init, NoReturn, None
<1>5. QED
  BY <1>1, <1>3, <1>4 DEF IInv

\* The invariant is inductive.
LEMMA NextInv == IInv /\ [Next]_vars => IInv'
<1> SUFFICES ASSUME IInv, [Next]_vars PROVE IInv'
  OBVIOUS
<1>1. ASSUME NEW s \in Stations, NEW n \in Nodes, Steer(s, n) PROVE IInv'
  BY <1>1, SteerCounts, SteerNoReturn DEF IInv
<1>2. ASSUME NEW s \in Stations, Observe(s) PROVE IInv'
  BY <1>2 DEF Observe, IInv, TypeOK, CountInv, NoReturn, None
<1>3. ASSUME NEW n \in Nodes, LoadChanges(n) PROVE IInv'
  BY <1>3 DEF LoadChanges, IInv, TypeOK, CountInv, NoReturn, None
<1>4. CASE UNCHANGED vars
  <2>1. TypeOK' /\ CountInv'
    BY <1>4 DEF vars, IInv, TypeOK, CountInv
  <2>2. NoReturn'
    BY <1>4 DEF vars, IInv, NoReturn, below_max_assoc, SeenCandidates, BetterEntries, is_better_candidate,
       below_assoc_threshold, better_signal_strength, has_better_load, below_load_threshold
  <2>3. QED
    BY <2>1, <2>2 DEF IInv
<1>5. QED
  BY <1>1, <1>2, <1>3, <1>4 DEF Next

\* policy.c:24-184: the inductive invariant always holds.
THEOREM InvariantHolds == Spec => []IInv
<1>1. Init => IInv
  BY InitInv
<1>2. IInv /\ [Next]_vars => IInv'
  BY NextInv
<1>3. QED
  BY <1>1, <1>2, PTL DEF Spec

\* The types of the steering state; a node never counts more clients than exist.
THEOREM TypeCorrect == Spec => []TypeOK
<1>1. IInv => TypeOK
  BY DEF IInv
<1>2. QED
  BY <1>1, InvariantHolds, PTL

\* policy.c:104-113, 178-180: with a load_balancing_threshold of at least 2, and
\* whatever the loads, signals and bands are, steering does not bounce a client
\* between two nodes that have room.
THEOREM NobodyIsSteeredBack == Spec => []NoReturn
<1>1. IInv => NoReturn
  BY DEF IInv
<1>2. QED
  BY <1>1, InvariantHolds, PTL

\* policy.c:24-182, 231: whatever the counts, signals, bands, loads and thresholds
\* are, the nodes that hear a client do not all refuse it in favour of each other.
THEOREM NobodyIsRefusedByAll == Spec => []SomeNodeIsBest
<1>1. TypeOK => SomeNodeIsBest
  BY BestEntry DEF SomeNodeIsBest
<1>2. QED
  BY <1>1, TypeCorrect, PTL

\* policy.c:24-182: why steering by entries comes to rest, for any clients, nodes, loads
\* and signals, if the thresholds are Balanced: every move between nodes with room either
\* brings a client to an overloaded node from one that is not, or lowers what it pays.
THEOREM MovesPayOff == Spec => EveryMovePaysOff
<1> DEFINE Step == \A s \in Stations : \A a \in {at[s]}, b \in {at'[s]} \ {at[s]} :
             Balanced /\ ReportedCandidates(s) = {} /\ below_max_assoc(a) =>
               \/ ~below_load_threshold(a) /\ below_load_threshold(b)'
               \/ /\ below_load_threshold(a) <=> below_load_threshold(b)'
                  /\ \/ Price(s, b)' < Price(s, a)
                     \/ Price(s, b)' = Price(s, a) /\ view[s].signal[b] > view[s].signal[a]
<1>1. TypeOK /\ [Next]_vars => [Step]_vars
  <2> SUFFICES ASSUME TypeOK, Next, NEW s \in Stations, NEW a \in {at[s]},
                      NEW b \in {at'[s]} \ {at[s]},
                      Balanced, ReportedCandidates(s) = {}, below_max_assoc(a)
               PROVE  \/ ~below_load_threshold(a) /\ below_load_threshold(b)'
                      \/ /\ below_load_threshold(a) <=> below_load_threshold(b)'
                         /\ \/ Price(s, b)' < Price(s, a)
                            \/ /\ Price(s, b)' = Price(s, a)
                               /\ view[s].signal[b] > view[s].signal[a]
    OBVIOUS
  <2>1. a = at[s] /\ b = at'[s] /\ b # a /\ a \in Nodes
    BY Types
  <2>2. PICK r \in Stations, n \in Nodes : Steer(r, n)
    BY <2>1 DEF Next, Observe, LoadChanges
  <2>3. r = s /\ n = b
    BY <2>1, <2>2, SteerParts DEF TypeOK
  <2>4. QED
    BY <2>1, <2>2, <2>3, MovePaysOff
<1>2. QED
  BY <1>1, TypeCorrect, PTL DEF Spec, EveryMovePaysOff

-----------------------------------------------------------------------------
(* Roaming.                                                                *)

\* Every step of Roaming keeps the types.
LEMMA RoamingTypes ==
  ASSUME R!TypeOK, [R!Next]_(R!vars)
  PROVE  R!TypeOK'
<1>1. ASSUME NEW d \in Nodes, R!Poll(d) PROVE R!TypeOK'
  <2>1. PICK i \in R!NodeInfo : own' = [own EXCEPT ![d].node = i]
    BY <1>1 DEF R!Poll
  <2>2. own \in [Nodes -> [node : R!NodeInfo, signal : Signals]]
    BY DEF R!TypeOK
  <2>3. own' \in [Nodes -> [node : R!NodeInfo, signal : Signals]]
    BY <2>1, <2>2
  <2>4. UNCHANGED <<entry, remote, socket, answer>>
    BY <1>1 DEF R!Poll
  <2>5. QED
    BY <2>3, <2>4 DEF R!TypeOK
<1>2. ASSUME NEW d \in Nodes, R!Move(d) PROVE R!TypeOK'
  <2>1. PICK x \in Signals : own' = [own EXCEPT ![d].signal = x]
    BY <1>2 DEF R!Move
  <2>2. own \in [Nodes -> [node : R!NodeInfo, signal : Signals]]
    BY DEF R!TypeOK
  <2>3. own' \in [Nodes -> [node : R!NodeInfo, signal : Signals]]
    BY <2>1, <2>2
  <2>4. UNCHANGED <<entry, remote, socket, answer>>
    BY <1>2 DEF R!Move
  <2>5. QED
    BY <2>3, <2>4 DEF R!TypeOK
<1>3. ASSUME NEW d \in Nodes, R!HandleEvent(d) PROVE R!TypeOK'
  <2>1. \A old : R!Granted(d, old) \in BOOLEAN
    BY Zenon DEF R!Granted, R!Decision!usteer_check_request
  <2>2. answer' \in [by : SUBSET Nodes, granted : BOOLEAN]
    BY <1>3, <2>1 DEF R!HandleEvent
  <2>3. entry' \in [Nodes -> {"none", "new", "old"}]
    BY <1>3 DEF R!HandleEvent, R!TypeOK
  <2>4. QED
    BY <1>3, <2>2, <2>3 DEF R!HandleEvent, R!TypeOK
<1>4. ASSUME NEW d \in Nodes, R!Ripen(d) \/ R!Forget(d) PROVE R!TypeOK'
  BY <1>4 DEF R!Ripen, R!Forget, R!TypeOK
<1>5. ASSUME NEW d \in Nodes, R!ReceiveError(d) \/ R!InterfaceReplaced(d) \/ R!SetInterfaces(d)
      PROVE  R!TypeOK'
  <2>1. PICK new \in {"listening", "deaf", "orphan"} : socket' = [socket EXCEPT ![d] = new]
    BY <1>5 DEF R!ReceiveError, R!InterfaceReplaced, R!SetInterfaces, R!usteer_reload_timer
  <2>2. socket' \in [Nodes -> {"listening", "deaf", "orphan"}]
    BY <2>1 DEF R!TypeOK
  <2>3. UNCHANGED <<own, entry, remote, answer>>
    BY <1>5 DEF R!ReceiveError, R!InterfaceReplaced, R!SetInterfaces
  <2>4. QED
    BY <2>2, <2>3 DEF R!TypeOK
<1>6. ASSUME NEW m \in Nodes, NEW d \in Nodes, R!Message(m, d) PROVE R!TypeOK'
  BY <1>6 DEF R!Message, R!Received, R!TypeOK
<1>7. ASSUME NEW m \in Nodes, NEW d \in Nodes, R!Silence(m, d) PROVE R!TypeOK'
  <2> DEFINE Node == R!NodeInfo \cup {R!Unknown.node}
             Held == [node : Node, signal : Signals \cup {0}, entry : {"none", "seen", "unseen"}]
             old == remote[d][m]
             aged == [old EXCEPT !.entry = IF @ = "seen" THEN "unseen" ELSE "none"]
  <2>1. remote \in [Nodes -> [Nodes -> Held]] /\ old \in Held
    BY DEF R!TypeOK
  <2>2. /\ aged \in Held /\ aged.node = old.node
        /\ aged.entry # "none" => old.entry # "none"
    <3> HIDE DEF Node, old
    <3>1. QED
      BY <2>1
  <2>3. R!Unknown \in Held /\ R!Unknown.entry = "none"
    BY DEF R!Unknown
  <2>4. PICK new \in {R!Unknown, aged} : remote' = [remote EXCEPT ![d][m] = new]
    BY <1>7, <2>1 DEF R!Silence, R!NodeGone
  <2>5. new \in Held /\ (new.entry # "none" => new.node \in R!NodeInfo)
    <3>1. old.entry # "none" => old.node \in R!NodeInfo
      BY DEF R!TypeOK
    <3> HIDE DEF Held, old, aged
    <3>2. QED
      BY <2>2, <2>3, <2>4, <3>1
  <2>6. /\ remote' \in [Nodes -> [Nodes -> Held]]
        /\ \A e, n \in Nodes : remote'[e][n] = IF e = d /\ n = m THEN new ELSE remote[e][n]
    <3> HIDE DEF Held
    <3>1. QED
      BY <2>1, <2>4, <2>5
  <2>7. ASSUME NEW e \in Nodes, NEW n \in Nodes, remote'[e][n].entry # "none"
        PROVE  remote'[e][n].node \in R!NodeInfo
    <3>1. CASE e = d /\ n = m
      BY <2>5, <2>6, <2>7, <3>1
    <3>2. CASE ~(e = d /\ n = m)
      <4>1. remote'[e][n] = remote[e][n]
        BY <2>6, <3>2
      <4>2. QED
        BY <2>7, <4>1 DEF R!TypeOK
    <3>3. QED
      BY <3>1, <3>2
  <2>8. QED
    BY <1>7, <2>6, <2>7 DEF R!Silence, R!TypeOK
<1>8. CASE UNCHANGED R!vars
  BY <1>8 DEF R!vars, R!TypeOK
<1>9. QED
  BY <1>1, <1>2, <1>3, <1>4, <1>5, <1>6, <1>7, <1>8 DEF R!Next

\* What the daemons start with is typed.
LEMMA RoamingInit ==
  ASSUME R!ConstantsOK, R!Init
  PROVE  R!TypeOK
<1> DEFINE Node == R!NodeInfo \cup {R!Unknown.node}
           Held == [node : Node, signal : Signals \cup {0}, entry : {"none", "seen", "unseen"}]
<1>1. R!Unknown \in Held /\ R!Unknown.entry = "none"
  BY DEF R!Unknown
<1>2. /\ remote = [d \in Nodes |-> [m \in Nodes |-> R!Unknown]]
      /\ own \in [Nodes -> [node : R!NodeInfo, signal : Signals]]
      /\ entry = [d \in Nodes |-> "none"] /\ socket = [d \in Nodes |-> "listening"]
      /\ answer = [by |-> {}, granted |-> FALSE]
  BY DEF R!Init
<1>3. remote \in [Nodes -> [Nodes -> Held]] /\ \A d, m \in Nodes : remote[d][m] = R!Unknown
  <2> HIDE DEF Held
  <2>1. QED
    BY <1>1, <1>2
<1>4. \A d, m \in Nodes : remote[d][m].entry = "none"
  BY <1>1, <1>3
<1>5. QED
  BY <1>2, <1>3, <1>4 DEF R!TypeOK

\* The counts, loads and signals by which daemon d compares nodes.
CountsAt(d) == [m \in Nodes |-> R!At(d, m).node.n_assoc]
LoadsAt(d) == [m \in Nodes |-> R!At(d, m).node.load]
SignalsAt(d) == [m \in Nodes |-> R!At(d, m).signal]

\* The nodes whose entries daemon d considers.
HeardBy(d) == {m \in Nodes \ {d} : remote[d][m].entry = "seen"} \cup {d}

\* What the nodes themselves measure.
OwnCounts == [m \in Nodes |-> own[m].node.n_assoc]
OwnLoads == [m \in Nodes |-> own[m].node.load]
OwnSignals == [m \in Nodes |-> own[m].signal]

\* A daemon whose picture is up to date compares what the nodes measure.
LEMMA SamePicture ==
  ASSUME NEW d \in Nodes, R!UpToDate(d), NEW m \in HeardBy(d)
  PROVE  /\ CountsAt(d)[m] = OwnCounts[m] /\ LoadsAt(d)[m] = OwnLoads[m]
         /\ SignalsAt(d)[m] = OwnSignals[m]
<1>1. m \in Nodes /\ (m # d => remote[d][m].entry = "seen")
  BY DEF HeardBy
<1>2. R!At(d, m).node = own[m].node /\ R!At(d, m).signal = own[m].signal
  BY <1>1 DEF R!At, R!UpToDate
<1>3. QED
  BY <1>1, <1>2 DEF CountsAt, LoadsAt, SignalsAt, OwnCounts, OwnLoads, OwnSignals

\* What the nodes measure is typed.
LEMMA OwnMeasured ==
  ASSUME R!ConstantsOK, R!TypeOK
  PROVE  Measured(OwnCounts, OwnSignals, Nodes)
<1> SUFFICES ASSUME NEW m \in Nodes
             PROVE  /\ OwnCounts[m] \in Nat
                    /\ OwnSignals[m] \in Int /\ OwnSignals[m] <= INT_MAX
  BY DEF Measured
<1>1. own[m] \in [node : R!NodeInfo, signal : Signals]
  BY DEF R!TypeOK
<1>2. own[m].node.n_assoc \in Counts /\ own[m].signal \in Signals
  BY <1>1 DEF R!NodeInfo
<1>3. Counts \subseteq Nat /\ Signals \subseteq Int /\ \A x \in Signals : x <= R!INT_MAX
  BY DEF R!ConstantsOK
<1>4. R!INT_MAX = INT_MAX
  BY SMT DEF R!INT_MAX, INT_MAX
<1>5. QED
  BY <1>2, <1>3, <1>4 DEF OwnCounts, OwnSignals

\* For two nodes d hears, an up to date d decides as they would by their own data.
LEMMA DaemonIsBetter ==
  ASSUME R!ConstantsOK, R!TypeOK, NEW d \in Nodes, R!UpToDate(d),
         NEW a \in HeardBy(d), NEW b \in HeardBy(d)
  PROVE  R!Daemon(d)!is_better_candidate("client", a, b)
           <=> Better(OwnCounts, OwnLoads, OwnSignals, a, b)
<1>1. a \in Nodes /\ b \in Nodes
  BY DEF HeardBy
<1>2. OwnCounts[a] \in Nat /\ OwnCounts[b] \in Nat
  BY <1>1, OwnMeasured DEF Measured
<1>3. /\ CountsAt(d)[a] = OwnCounts[a] /\ CountsAt(d)[b] = OwnCounts[b]
      /\ LoadsAt(d)[a] = OwnLoads[a] /\ LoadsAt(d)[b] = OwnLoads[b]
      /\ SignalsAt(d)[a] = OwnSignals[a] /\ SignalsAt(d)[b] = OwnSignals[b]
  BY SamePicture
<1>4. R!Daemon(d)!below_assoc_threshold(a, b) <=> Emptier(OwnCounts, a, b)
  BY <1>1, <1>2, <1>3, AssocIsRank DEF R!Daemon!below_assoc_threshold, CountsAt
<1>5. R!Daemon(d)!better_signal_strength("client", a, b) <=> Louder(OwnSignals, a, b)
  BY <1>3 DEF R!Daemon!better_signal_strength, Louder, SignalsAt
<1>6. /\ R!Daemon(d)!has_better_load(a, b)
           <=> ~Hot(OwnCounts, OwnLoads, a) /\ Hot(OwnCounts, OwnLoads, b)
      /\ R!Daemon(d)!below_max_assoc(b) <=> Open(OwnCounts, b)
  BY <1>3 DEF R!Daemon!has_better_load, R!Daemon!below_load_threshold, R!Daemon!below_max_assoc,
     Hot, Open, CountsAt, LoadsAt
<1>7. QED
  BY <1>4, <1>5, <1>6 DEF R!Daemon!is_better_candidate, Better

\* The best node of all has no better candidate, whomever it hears of.
LEMMA SomeDaemonHasNoBetter ==
  ASSUME R!ConstantsOK, R!TypeOK, \A d \in Nodes : R!UpToDate(d)
  PROVE  \E d \in Nodes : R!Daemon(d)!find_better_candidate("client") = {}
<1>1. PICK z \in Nodes : \A b \in Nodes :
        Better(OwnCounts, OwnLoads, OwnSignals, z, b) => Better(OwnCounts, OwnLoads, OwnSignals, b, z)
  BY OwnMeasured, BestNode DEF R!ConstantsOK
<1>2. ASSUME NEW b \in HeardBy(z), R!Daemon(z)!is_better_candidate("client", z, b)
      PROVE  R!Daemon(z)!is_better_candidate("client", b, z)
  <2>1. z \in HeardBy(z) /\ b \in Nodes
    BY DEF HeardBy
  <2>2. QED
    BY <1>1, <1>2, <2>1, DaemonIsBetter
<1>3. R!Daemon(z)!BetterEntries("client", z) = {}
  BY <1>2 DEF R!Daemon!BetterEntries, HeardBy
<1>4. R!Daemon(z)!ReportedCandidates("client") = {}
  BY DEF R!Daemon!ReportedCandidates
<1>5. QED
  BY <1>3, <1>4 DEF R!Daemon!find_better_candidate, R!Daemon!SeenCandidates

\* A daemon that hears the client well and knows no better node takes it.
LEMMA WelcomeIsGranted ==
  ASSUME R!ConstantsOK, R!TypeOK, NEW d \in Nodes, R!StrongEnough(d),
         R!Daemon(d)!find_better_candidate("client") = {}
  PROVE  R!Granted(d, TRUE)
<1>1. own[d].signal \in Int
  BY DEF R!TypeOK, R!ConstantsOK
<1>2. R!Decision!snr_to_signal(min_connect_snr) \in Int
  BY DEF R!ConstantsOK, R!Decision!snr_to_signal
<1>3. ~R!Decision!Unwelcome(own[d].signal, initial_connect_delay, FALSE)
  BY <1>1, <1>2 DEF R!Decision!Unwelcome, R!StrongEnough, R!ConstantsOK
<1>4. QED
  BY <1>3 DEF R!Granted, R!Decision!usteer_check_request

\* sta.c:165-207, remote.c:154-184: the types of what daemons hold of each other,
\* for any number of daemons, counts, loads and signals; in particular an entry of
\* the client is held only together with its node.
THEOREM RoamingTypeCorrect ==
  ASSUME R!ConstantsOK
  PROVE  R!Spec => []R!TypeOK
<1>1. R!Init => R!TypeOK
  BY RoamingInit
<1>2. R!TypeOK /\ [R!Next]_(R!vars) => R!TypeOK'
  BY RoamingTypes
<1>3. QED
  BY <1>1, <1>2, PTL DEF R!Spec

\* policy.c:24-231, sta.c:165-207: however many daemons there are and whichever of
\* them hear each other, they refuse a client in favour of each other only while one
\* hears it too weakly or decides on old information.
THEOREM RefusedByAllOnlyWhenStale ==
  ASSUME R!ConstantsOK
  PROVE  R!Spec => []R!RefusedByAllOnlyWhenStale
<1>1. R!TypeOK => R!RefusedByAllOnlyWhenStale
  BY SomeDaemonHasNoBetter, WelcomeIsGranted DEF R!RefusedByAllOnlyWhenStale
<1>2. QED
  BY <1>1, RoamingTypeCorrect, PTL
=============================================================================

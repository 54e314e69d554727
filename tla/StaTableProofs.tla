--------------------------- MODULE StaTableProofs ---------------------------
(***************************************************************************)
(* StaTable for every set of stations and nodes: the table is consistent,  *)
(* an associated client is not forgotten while nl80211 confirms it, and a   *)
(* timer ends every entry but those of associated clients and orphans.      *)
(***************************************************************************)
EXTENDS StaTable, TLAPS

\* A timer of a local entry was armed for local_sta_timeout, at the latest when
\* nl80211 confirmed the client.
AgeInv ==
  \A p \in Pairs : p[2] \in Local /\ timer[p] # NotArmed => timer[p] + age[p] >= local_sta_timeout

\* The timer of a client that is associated to a remote node is off.
RemoteInv == \A p \in connected : p[2] \in Remote => timer[p] = NotArmed

IInv == TypeOK /\ TableConsistent /\ AgeInv /\ RemoteInv /\ AssociatedKeptWhileConfirmed

-----------------------------------------------------------------------------
(* The operations of sta.c.                                                 *)

\* Creating entries of live nodes keeps stations and entries in step.
LEMMA GetOrCreateStations ==
  ASSUME NoStrayStation, NEW P, GetOrCreate(P)
  PROVE  NoStrayStation'
BY DEF NoStrayStation, GetOrCreate, StationsOf

\* Deleting entries deletes exactly the stations that have none left.
LEMMA DelStations ==
  ASSUME TypeOK, NoStrayStation, NEW D, D \subseteq entries, usteer_sta_info_del(D)
  PROVE  NoStrayStation'
<1>1. /\ known = StationsOf(entries) /\ entries \subseteq Pairs /\ entries' = entries \ D
      /\ known' = known \ {s \in StationsOf(D) : ~\E n \in Nodes : <<s, n>> \in entries \ D}
  BY DEF usteer_sta_info_del, NoStrayStation, TypeOK
<1>2. ASSUME NEW s, s \in known' PROVE s \in StationsOf(entries')
  <2>1. PICK p \in entries : p[1] = s
    BY <1>1, <1>2 DEF StationsOf
  <2>2. CASE p \in D
    <3>1. s \in StationsOf(D)
      BY <2>1, <2>2 DEF StationsOf
    <3>2. PICK n \in Nodes : <<s, n>> \in entries \ D
      BY <1>1, <1>2, <3>1
    <3>3. QED
      BY <1>1, <3>2 DEF StationsOf
  <2>3. CASE p \notin D
    BY <1>1, <2>1, <2>3 DEF StationsOf
  <2>4. QED
    BY <2>2, <2>3
<1>3. ASSUME NEW s, s \in StationsOf(entries') PROVE s \in known'
  <2>1. PICK p \in entries \ D : p[1] = s
    BY <1>1, <1>3 DEF StationsOf
  <2>2. p \in Pairs /\ p = <<s, p[2]>> /\ p[2] \in Nodes
    BY <1>1, <2>1 DEF Pairs
  <2>3. s \in known /\ \E n \in Nodes : <<s, n>> \in entries \ D
    BY <1>1, <2>1, <2>2 DEF StationsOf
  <2>4. QED
    BY <1>1, <2>3
<1>4. QED
  BY <1>2, <1>3 DEF NoStrayStation

-----------------------------------------------------------------------------
(* The steps.                                                               *)

\* usteerd starts with an empty table.
LEMMA InitInv == Init => IInv
BY TableAssumption DEF Init, IInv, TypeOK, TableConsistent, NoStrayStation, StationsOf,
   NoDanglingTimer, NoDanglingNode, AgeInv, RemoteInv, AssociatedKeptWhileConfirmed, NotArmed

\* A new node has no entries.
LEMMA NodeAppearsInv ==
  ASSUME IInv, NEW n \in Nodes, NodeAppears(n)
  PROVE  IInv'
BY DEF NodeAppears, IInv, TypeOK, TableConsistent, NoStrayStation, StationsOf,
   NoDanglingTimer, NoDanglingNode, AgeInv, RemoteInv, AssociatedKeptWhileConfirmed

\* usteer_sta_node_cleanup deletes all entries of a node that is freed.
LEMMA NodeGoneInv ==
  ASSUME IInv, NEW n \in Nodes, NodeGone(n)
  PROVE  IInv'
<1> USE DEF IInv, TableConsistent
<1> DEFINE D == At(n) \cap entries
<1>1. /\ usteer_sta_info_del(D) /\ nodes' = nodes \ {n} /\ heard' = {} /\ lost' = {}
      /\ UNCHANGED age
  BY DEF NodeGone
<1>2. /\ entries' = entries \ D /\ connected' = connected \ D
      /\ timer' = [p \in Pairs |-> IF p \in D THEN NotArmed ELSE timer[p]]
      /\ orphans' = orphans \ D
  BY <1>1 DEF usteer_sta_info_del
<1>3. NoStrayStation'
  BY <1>1, DelStations
<1>4. TypeOK'
  <2>1. entries' \subseteq Pairs
    BY <1>2 DEF TypeOK
  <2>2. known' \subseteq Stations
    BY <1>1 DEF usteer_sta_info_del, TypeOK
  <2>3. timer' \in [Pairs -> -1 .. local_sta_timeout]
    BY <1>2, TableAssumption DEF TypeOK, NotArmed
  <2>4. QED
    BY <1>1, <1>2, <2>1, <2>2, <2>3 DEF TypeOK
<1>5. NoDanglingTimer' /\ AgeInv' /\ RemoteInv' /\ AssociatedKeptWhileConfirmed'
  BY <1>1, <1>2
     DEF TypeOK, NoDanglingTimer, AgeInv, RemoteInv, AssociatedKeptWhileConfirmed
<1>6. NoDanglingNode'
  <2>1. ASSUME NEW p \in entries' PROVE p[2] \in nodes'
    <3>1. p \in entries /\ p \notin At(n) /\ p \in Pairs
      BY <1>2, <2>1 DEF TypeOK
    <3>2. p[2] # n
      BY <3>1 DEF At, Pairs
    <3>3. QED
      BY <1>1, <3>1, <3>2 DEF NoDanglingNode
  <2>2. QED
    BY <1>2, <2>1 DEF NoDanglingNode
<1>7. QED
  BY <1>3, <1>4, <1>5, <1>6

\* usteer_sta_info_timeout deletes an entry that is due.
LEMMA ExpireInv ==
  ASSUME IInv, NEW q \in Pairs, Expire(q)
  PROVE  IInv'
<1> USE DEF IInv, TableConsistent
<1>1. /\ timer[q] = 0 /\ usteer_sta_info_del({q}) /\ heard' = {}
      /\ lost' = {q} \cap connected /\ UNCHANGED <<nodes, age>>
  BY DEF Expire
<1>2. /\ entries' = entries \ {q} /\ connected' = connected \ {q}
      /\ timer' = [p \in Pairs |-> IF p \in {q} THEN NotArmed ELSE timer[p]]
      /\ orphans' = orphans \ {q}
  BY <1>1 DEF usteer_sta_info_del
<1>3. q \in entries
  BY <1>1 DEF NoDanglingTimer, NotArmed
<1>4. NoStrayStation'
  BY <1>1, <1>3, DelStations
<1>5. TypeOK'
  <2>1. known' \subseteq Stations
    BY <1>1 DEF usteer_sta_info_del, TypeOK
  <2>2. timer' \in [Pairs -> -1 .. local_sta_timeout]
    BY <1>2, TableAssumption DEF TypeOK, NotArmed
  <2>3. QED
    BY <1>1, <1>2, <2>1, <2>2 DEF TypeOK
<1>6. NoDanglingTimer' /\ NoDanglingNode' /\ AgeInv' /\ RemoteInv'
  BY <1>1, <1>2 DEF TypeOK, NoDanglingTimer, NoDanglingNode, AgeInv, RemoteInv
<1>7. AssociatedKeptWhileConfirmed'
  <2> SUFFICES ASSUME q \in connected PROVE age[q] >= local_sta_timeout
    BY <1>1 DEF AssociatedKeptWhileConfirmed
  <2>1. q[2] \notin Remote
    BY <1>1 DEF RemoteInv, NotArmed
  <2>2. q[2] \in Local
    BY <2>1 DEF Pairs, Nodes
  <2>3. QED
    BY <1>1, <2>2, TableAssumption DEF AgeInv, TypeOK, NotArmed
<1>8. QED
  BY <1>4, <1>5, <1>6, <1>7

\* usteer_handle_sta_event arms the timer of a client that is not associated.
LEMMA EventInv ==
  ASSUME IInv, NEW s \in Stations, NEW n \in Nodes, Event(s, n)
  PROVE  IInv'
<1> USE DEF IInv, TableConsistent
<1> DEFINE q == <<s, n>>
<1>1. /\ n \in nodes \cap Local /\ GetOrCreate({q}) /\ heard' = {q} /\ lost' = {}
      /\ orphans' = orphans \ {q}
      /\ timer' = [timer EXCEPT ![q] = IF q \in connected THEN NotArmed ELSE local_sta_timeout]
      /\ UNCHANGED <<nodes, connected, age>>
  BY DEF Event, usteer_sta_info_update_timeout
<1>2. q \in Pairs /\ q[2] = n /\ entries' = entries \cup {q}
  BY <1>1 DEF Pairs, GetOrCreate
<1> HIDE DEF q
<1>3. NoStrayStation'
  BY <1>1, GetOrCreateStations
<1>4. TypeOK'
  <2>1. entries' \subseteq Pairs
    BY <1>2 DEF TypeOK
  <2>2. known' \subseteq Stations
    BY <1>3, <2>1 DEF NoStrayStation, StationsOf, Pairs
  <2>3. timer' \in [Pairs -> -1 .. local_sta_timeout]
    BY <1>1, <1>2, TableAssumption DEF TypeOK, NotArmed
  <2>4. QED
    BY <1>1, <1>2, <2>1, <2>2, <2>3 DEF TypeOK
<1>5. NoDanglingTimer' /\ NoDanglingNode' /\ AssociatedKeptWhileConfirmed'
  BY <1>1, <1>2 DEF TypeOK, NoDanglingTimer, NoDanglingNode, AssociatedKeptWhileConfirmed
<1>6. AgeInv' /\ RemoteInv'
  BY <1>1, <1>2, TableAssumption DEF TypeOK, AgeInv, RemoteInv, NotArmed
<1>7. QED
  BY <1>3, <1>4, <1>5, <1>6

\* usteer_local_node_set_assoc arms timers only of entries that exist, all for
\* the full local_sta_timeout.
LEMMA PollInv ==
  ASSUME IInv, NEW n \in Nodes, Poll(n)
  PROVE  IInv'
<1> USE DEF IInv, TableConsistent
<1>1. n \in nodes \cap Local /\ lost' = {} /\ UNCHANGED nodes
  BY DEF Poll
<1>2. PICK listed \in SUBSET Stations : \E assoc \in SUBSET listed, answered \in SUBSET listed :
        /\ usteer_local_node_set_assoc(n, listed, assoc, answered)
        /\ age' = [p \in Pairs |-> IF p \in answered \X {n} THEN 0 ELSE age[p]]
        /\ heard' = answered \X {n}
        /\ orphans' \subseteq orphans \cup (listed \X {n})
  BY DEF Poll
<1>3. PICK assoc \in SUBSET listed, answered \in SUBSET listed :
        /\ usteer_local_node_set_assoc(n, listed, assoc, answered)
        /\ age' = [p \in Pairs |-> IF p \in answered \X {n} THEN 0 ELSE age[p]]
        /\ heard' = answered \X {n}
        /\ orphans' \subseteq orphans \cup (listed \X {n})
  BY <1>2
<1> DEFINE L == listed \X {n}
           A == assoc \X {n}
           F == answered \X {n}
           G == (connected \cap At(n)) \ A
<1>4. /\ A \subseteq L /\ F \subseteq L /\ L \subseteq Pairs
      /\ \A p \in L : p[2] = n
      /\ \A p \in Pairs : p \in At(n) <=> p[2] = n
  BY DEF Pairs, At
<1>5. /\ GetOrCreate(L)
      /\ connected' = (connected \ At(n)) \cup A
      /\ timer' = [p \in Pairs |-> IF p \in F \/ p \in G THEN local_sta_timeout ELSE timer[p]]
      /\ age' = [p \in Pairs |-> IF p \in F THEN 0 ELSE age[p]]
      /\ heard' = F
      /\ orphans' \subseteq orphans \cup L
  BY <1>3 DEF usteer_local_node_set_assoc, usteer_sta_info_update_timeout
<1>6. entries' = entries \cup L /\ G \subseteq connected
  BY <1>5 DEF GetOrCreate
<1> HIDE DEF L, A, F, G
<1>7. NoStrayStation'
  BY <1>5, GetOrCreateStations
<1>8. TypeOK'
  <2>1. /\ entries' \subseteq Pairs /\ connected' \subseteq Pairs /\ heard' \subseteq Pairs
        /\ orphans' \subseteq Pairs
    BY <1>4, <1>5, <1>6 DEF TypeOK
  <2>2. known' \subseteq Stations
    BY <1>7, <2>1 DEF NoStrayStation, StationsOf, Pairs
  <2>3. /\ timer' \in [Pairs -> -1 .. local_sta_timeout]
        /\ age' \in [Pairs -> 0 .. local_sta_timeout]
    BY <1>5, TableAssumption DEF TypeOK
  <2>4. QED
    BY <1>1, <2>1, <2>2, <2>3 DEF TypeOK
<1>9. NoDanglingTimer'
  BY <1>4, <1>5, <1>6 DEF NoDanglingTimer, NoDanglingNode
<1>10. NoDanglingNode'
  BY <1>1, <1>4, <1>5, <1>6 DEF NoDanglingNode
<1>11. AgeInv'
  BY <1>5, TableAssumption DEF AgeInv, TypeOK, NotArmed
<1>12. RemoteInv'
  <2> SUFFICES ASSUME NEW p \in connected', p[2] \in Remote PROVE timer'[p] = NotArmed
    BY DEF RemoteInv
  <2>1. p[2] # n /\ p \in Pairs
    BY <1>1, <1>8, TableAssumption DEF TypeOK
  <2>2. p \in connected /\ p \notin F /\ p \notin G
    BY <1>4, <1>5, <2>1 DEF G
  <2>3. QED
    BY <1>5, <2>1, <2>2 DEF RemoteInv
<1>13. AssociatedKeptWhileConfirmed'
  BY <1>1 DEF AssociatedKeptWhileConfirmed
<1>14. QED
  BY <1>7, <1>8, <1>9, <1>10, <1>11, <1>12, <1>13

\* interface_add_station switches the timer off for an associated client.
LEMMA RemoteStationInv ==
  ASSUME IInv, NEW s \in Stations, NEW n \in Nodes, NEW c \in BOOLEAN,
         NEW t, t \in 1 .. local_sta_timeout, interface_add_station(s, n, c, t)
  PROVE  IInv'
<1> USE DEF IInv, TableConsistent
<1> DEFINE q == <<s, n>>
<1>1. /\ n \in nodes \cap Remote /\ GetOrCreate({q}) /\ heard' = {q} /\ lost' = {}
      /\ orphans' = orphans \ {q}
      /\ connected' = IF c THEN connected \cup {q} ELSE connected \ {q}
      /\ timer' = [timer EXCEPT ![q] = IF c THEN NotArmed ELSE t]
      /\ UNCHANGED <<nodes, age>>
  BY DEF interface_add_station, usteer_sta_info_update_timeout
<1>2. q \in Pairs /\ q[2] = n /\ n \notin Local /\ entries' = entries \cup {q}
  BY <1>1, TableAssumption DEF Pairs, GetOrCreate
<1> HIDE DEF q
<1>3. NoStrayStation'
  BY <1>1, GetOrCreateStations
<1>4. TypeOK'
  <2>1. entries' \subseteq Pairs /\ connected' \subseteq Pairs
    BY <1>1, <1>2 DEF TypeOK
  <2>2. known' \subseteq Stations
    BY <1>3, <2>1 DEF NoStrayStation, StationsOf, Pairs
  <2>3. timer' \in [Pairs -> -1 .. local_sta_timeout]
    BY <1>1, <1>2, TableAssumption DEF TypeOK, NotArmed
  <2>4. QED
    BY <1>1, <1>2, <2>1, <2>2, <2>3 DEF TypeOK
<1>5. NoDanglingTimer' /\ NoDanglingNode' /\ AssociatedKeptWhileConfirmed'
  BY <1>1, <1>2 DEF TypeOK, NoDanglingTimer, NoDanglingNode, AssociatedKeptWhileConfirmed
<1>6. AgeInv'
  BY <1>1, <1>2 DEF TypeOK, AgeInv
<1>7. RemoteInv'
  BY <1>1, <1>2 DEF TypeOK, RemoteInv
<1>8. QED
  BY <1>3, <1>4, <1>5, <1>6, <1>7

\* The entry that find_better_candidate creates belongs to a live node.
LEMMA CandidateInv ==
  ASSUME IInv, NEW s \in Stations, NEW n \in Nodes, NEW ref, CandidateEntry(s, n, ref)
  PROVE  IInv'
<1> USE DEF IInv, TableConsistent
<1> DEFINE q == <<s, n>>
<1>1. /\ n \in nodes /\ GetOrCreate({q}) /\ heard' = {} /\ lost' = {}
      /\ orphans' = orphans \cup ({q} \ entries)
      /\ UNCHANGED <<nodes, connected, timer, age>>
  BY DEF CandidateEntry
<1>2. q \in Pairs /\ q[2] = n /\ entries' = entries \cup {q}
  BY <1>1 DEF Pairs, GetOrCreate
<1> HIDE DEF q
<1>3. NoStrayStation'
  BY <1>1, GetOrCreateStations
<1>4. TypeOK'
  <2>1. entries' \subseteq Pairs
    BY <1>2 DEF TypeOK
  <2>2. known' \subseteq Stations
    BY <1>3, <2>1 DEF NoStrayStation, StationsOf, Pairs
  <2>3. QED
    BY <1>1, <1>2, <2>1, <2>2 DEF TypeOK
<1>5. QED
  BY <1>1, <1>2, <1>3, <1>4 DEF NoDanglingTimer, NoDanglingNode, AgeInv, RemoteInv,
     AssociatedKeptWhileConfirmed

\* A kick only clears the association.
LEMMA KickInv ==
  ASSUME IInv, NEW q \in Pairs, Kick(q)
  PROVE  IInv'
BY DEF Kick, IInv, TypeOK, TableConsistent, NoStrayStation, NoDanglingTimer, NoDanglingNode,
   AgeInv, RemoteInv, AssociatedKeptWhileConfirmed

\* Time passes for the timers and for the ghost in step.
LEMMA TickInv ==
  ASSUME IInv, Tick
  PROVE  IInv'
<1> USE DEF IInv, TableConsistent
<1>1. /\ \A p \in Pairs : timer[p] # 0
      /\ timer' = [p \in Pairs |-> IF timer[p] > 0 THEN timer[p] - 1 ELSE timer[p]]
      /\ age' = [p \in Pairs |-> IF age[p] < local_sta_timeout THEN age[p] + 1 ELSE age[p]]
      /\ heard' = {} /\ lost' = {} /\ UNCHANGED <<nodes, known, entries, connected, orphans>>
  BY DEF Tick
<1>2. TypeOK'
  BY <1>1, TableAssumption DEF TypeOK
<1>3. NoStrayStation' /\ NoDanglingNode' /\ AssociatedKeptWhileConfirmed'
  BY <1>1 DEF NoStrayStation, NoDanglingNode, AssociatedKeptWhileConfirmed
<1>4. NoDanglingTimer'
  BY <1>1, TableAssumption DEF NoDanglingTimer, NotArmed, TypeOK
<1>5. AgeInv' /\ RemoteInv'
  BY <1>1, TableAssumption DEF AgeInv, RemoteInv, NotArmed, TypeOK
<1>6. QED
  BY <1>2, <1>3, <1>4, <1>5

\* The invariant is inductive.
LEMMA NextInv == IInv /\ [Next]_vars => IInv'
<1> SUFFICES ASSUME IInv, [Next]_vars PROVE IInv'
  OBVIOUS
<1>1. ASSUME NEW n \in Nodes, NodeAppears(n) \/ NodeGone(n) \/ Poll(n) PROVE IInv'
  BY <1>1, NodeAppearsInv, NodeGoneInv, PollInv
<1>2. ASSUME NEW s \in Stations, NEW n \in Nodes, Event(s, n) PROVE IInv'
  BY <1>2, EventInv
<1>3. ASSUME NEW s \in Stations, NEW n \in Nodes,
             NEW c \in BOOLEAN, NEW t \in 1 .. local_sta_timeout,
             interface_add_station(s, n, c, t)
      PROVE  IInv'
  BY <1>3, RemoteStationInv
<1>4. ASSUME NEW s \in Stations, NEW n \in Nodes, NEW ref \in Nodes, CandidateEntry(s, n, ref)
      PROVE  IInv'
  BY <1>4, CandidateInv
<1>5. ASSUME NEW p \in Pairs, Kick(p) \/ Expire(p) PROVE IInv'
  BY <1>5, KickInv, ExpireInv
<1>6. CASE Tick
  BY <1>6, TickInv
<1>7. CASE UNCHANGED vars
  BY <1>7 DEF vars, IInv, TypeOK, TableConsistent, NoStrayStation, NoDanglingTimer,
     NoDanglingNode, AgeInv, RemoteInv, AssociatedKeptWhileConfirmed
<1>8. QED
  BY <1>1, <1>2, <1>3, <1>4, <1>5, <1>6, <1>7 DEF Next

\* sta.c with all its callers: the inductive invariant always holds.
THEOREM InvariantHolds == Spec => []IInv
<1>1. Init => IInv
  BY InitInv
<1>2. IInv /\ [Next]_vars => IInv'
  BY NextInv
<1>3. QED
  BY <1>1, <1>2, PTL DEF Spec

\* The types of the station table.
THEOREM TypeCorrect == Spec => []TypeOK
<1>1. IInv => TypeOK
  BY DEF IInv
<1>2. QED
  BY <1>1, InvariantHolds, PTL

\* sta.c:32-163: no timer of a freed entry, no entry of a freed node, no
\* station without an entry, for any number of stations and nodes.
THEOREM TableIsConsistent == Spec => []TableConsistent
<1>1. IInv => TableConsistent
  BY DEF IInv
<1>2. QED
  BY <1>1, InvariantHolds, PTL

\* local_node.c:216-266: an associated client's entry times out only when
\* nl80211 has not confirmed the client for local_sta_timeout.
THEOREM AssociatedAreKept == Spec => []AssociatedKeptWhileConfirmed
<1>1. IInv => AssociatedKeptWhileConfirmed
  BY DEF IInv
<1>2. QED
  BY <1>1, InvariantHolds, PTL

-----------------------------------------------------------------------------
(* Which entries no timer ends.                                             *)

\* A poll arms the timer of every client it finds no longer associated, and of
\* every new one that nl80211 answers for.
LEMMA PollUntimed ==
  ASSUME IInv, UntimedAreAccountedFor, NEW n \in Nodes, Poll(n)
  PROVE  UntimedAreAccountedFor'
<1>1. PICK listed \in SUBSET Stations : \E assoc \in SUBSET listed, answered \in SUBSET listed :
        /\ usteer_local_node_set_assoc(n, listed, assoc, answered)
        /\ orphans' = (orphans \ ((assoc \cup answered) \X {n}))
                        \cup (((listed \ (assoc \cup answered)) \X {n}) \ entries)
  BY DEF Poll
<1>2. PICK assoc \in SUBSET listed, answered \in SUBSET listed :
        /\ usteer_local_node_set_assoc(n, listed, assoc, answered)
        /\ orphans' = (orphans \ ((assoc \cup answered) \X {n}))
                        \cup (((listed \ (assoc \cup answered)) \X {n}) \ entries)
  BY <1>1
<1> DEFINE L == listed \X {n}
           A == assoc \X {n}
           F == answered \X {n}
<1>3. L \subseteq Pairs /\ entries \subseteq Pairs
  BY DEF Pairs, IInv, TypeOK
<1>4. /\ entries' = entries \cup L
      /\ connected' = (connected \ At(n)) \cup A
      /\ timer' = [p \in Pairs |->
           IF p \in F \/ p \in (connected \cap At(n)) \ A THEN local_sta_timeout ELSE timer[p]]
  BY <1>2 DEF usteer_local_node_set_assoc, usteer_sta_info_update_timeout, GetOrCreate
<1>5. /\ \A p \in orphans \ (A \cup F) : p \in orphans'
      /\ \A p \in (L \ (A \cup F)) \ entries : p \in orphans'
  BY <1>2
<1> HIDE DEF L, A, F
<1>6. local_sta_timeout # NotArmed
  BY TableAssumption DEF NotArmed
<1>7. ASSUME NEW p \in entries', timer'[p] = NotArmed, p \notin connected' PROVE p \in orphans'
  <2>1. /\ p \in Pairs /\ p \notin A /\ p \notin F /\ p \notin connected \cap At(n)
        /\ p \notin connected /\ timer[p] = NotArmed
    BY <1>3, <1>4, <1>6, <1>7
  <2>2. CASE p \in entries
    BY <1>5, <2>1, <2>2 DEF UntimedAreAccountedFor
  <2>3. CASE p \notin entries
    BY <1>4, <1>5, <1>7, <2>1, <2>3
  <2>4. QED
    BY <2>2, <2>3
<1>8. QED
  BY <1>7 DEF UntimedAreAccountedFor

\* Every step leaves only associated clients and orphans without a timer.
LEMMA NextUntimed ==
  ASSUME IInv, UntimedAreAccountedFor, [Next]_vars
  PROVE  UntimedAreAccountedFor'
<1> USE DEF UntimedAreAccountedFor
<1>1. entries \subseteq Pairs /\ timer \in [Pairs -> -1 .. local_sta_timeout]
  BY DEF IInv, TypeOK
<1>2. ASSUME NEW n \in Nodes, NodeAppears(n) PROVE UntimedAreAccountedFor'
  BY <1>2 DEF NodeAppears
<1>3. ASSUME NEW n \in Nodes, NodeGone(n) PROVE UntimedAreAccountedFor'
  BY <1>1, <1>3 DEF NodeGone, usteer_sta_info_del
<1>4. ASSUME NEW n \in Nodes, Poll(n) PROVE UntimedAreAccountedFor'
  BY <1>4, PollUntimed
<1>5. ASSUME NEW s \in Stations, NEW n \in Nodes, Event(s, n) PROVE UntimedAreAccountedFor'
  BY <1>1, <1>5, TableAssumption
     DEF Event, GetOrCreate, usteer_sta_info_update_timeout, Pairs, NotArmed
<1>6. ASSUME NEW s \in Stations, NEW n \in Nodes,
             NEW c \in BOOLEAN, NEW t \in 1 .. local_sta_timeout,
             interface_add_station(s, n, c, t)
      PROVE  UntimedAreAccountedFor'
  BY <1>1, <1>6, TableAssumption
     DEF interface_add_station, GetOrCreate, usteer_sta_info_update_timeout, Pairs, NotArmed
<1>7. ASSUME NEW s \in Stations, NEW n \in Nodes, NEW ref \in Nodes, CandidateEntry(s, n, ref)
      PROVE  UntimedAreAccountedFor'
  BY <1>7 DEF CandidateEntry, GetOrCreate
<1>8. ASSUME NEW p \in Pairs, Kick(p) PROVE UntimedAreAccountedFor'
  BY <1>8 DEF Kick
<1>9. ASSUME NEW p \in Pairs, Expire(p) PROVE UntimedAreAccountedFor'
  BY <1>1, <1>9 DEF Expire, usteer_sta_info_del
<1>10. CASE Tick
  BY <1>1, <1>10, TableAssumption DEF Tick, NotArmed
<1>11. CASE UNCHANGED vars
  BY <1>11 DEF vars
<1>12. QED
  BY <1>2, <1>3, <1>4, <1>5, <1>6, <1>7, <1>8, <1>9, <1>10, <1>11 DEF Next

\* sta.c:72-127, local_node.c:231-265: for any number of stations and nodes, an
\* entry without a timer is that of an associated client or an orphan.
THEOREM UntimedEntries == Spec => []UntimedAreAccountedFor
<1>1. Init => UntimedAreAccountedFor
  BY DEF Init, UntimedAreAccountedFor
<1>2. IInv /\ UntimedAreAccountedFor /\ [Next]_vars => UntimedAreAccountedFor'
  BY NextUntimed
<1>3. QED
  BY <1>1, <1>2, InvariantHolds, PTL DEF Spec
=============================================================================

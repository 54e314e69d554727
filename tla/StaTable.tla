------------------------------ MODULE StaTable ------------------------------
(***************************************************************************)
(* The station table of sta.c: which stations usteerd knows, and for each   *)
(* station and each node that has heard of it an entry (struct sta_info)    *)
(* with its association state and its timeout.  Entries are made and        *)
(* changed by hostapd's events and polls (local_node.c, nl80211.c), by      *)
(* messages of other daemons (remote.c), by the search for a better         *)
(* candidate (policy.c) and by kicks (ubus.c).                              *)
(*                                                                         *)
(* An entry is the pair <<station, node>>.  The timeout queue is TimerSpec: *)
(* a due entry is deleted before time goes on.                              *)
(***************************************************************************)
EXTENDS Integers

CONSTANTS
  Stations,
  Local, Remote,         \* nodes of this daemon, nodes of other daemons
  local_sta_timeout,     \* config
  ReliableNl80211,       \* nl80211 is present and answers for every client
  KickOn,                \* clients are kicked
  CandidateOn            \* beacon reports name nodes as candidates

ASSUME TableAssumption ==
  /\ Local \cap Remote = {}
  /\ local_sta_timeout \in Nat \ {0}
  /\ ReliableNl80211 \in BOOLEAN /\ KickOn \in BOOLEAN /\ CandidateOn \in BOOLEAN

Nodes == Local \cup Remote
Pairs == Stations \X Nodes
NotArmed == -1

VARIABLES
  nodes,      \* the nodes that exist
  known,      \* the stations in the AVL tree
  entries,    \* the entries
  connected,  \* the entries with connected == 1 (2 lives only inside a poll)
  timer,      \* milliseconds until an entry's timeout, or NotArmed
  \* ghosts
  age,        \* time since nl80211 confirmed the client in a poll (saturating)
  heard,      \* the entries of clients that this step has heard of
  lost,       \* the entries of associated clients that this step timed out
  orphans     \* the entries that were left without a timer by a kick, a candidate
              \* search or a poll without nl80211, and that nothing has touched since

vars == <<nodes, known, entries, connected, timer, age, heard, lost, orphans>>

At(n) == Stations \X {n}
StationsOf(E) == {p[1] : p \in E}

-----------------------------------------------------------------------------
(* The operations of sta.c.                                                 *)

\* usteer_sta_get and usteer_sta_info_get with create: no timer yet.
GetOrCreate(P) ==
  /\ known' = known \cup StationsOf(P)
  /\ entries' = entries \cup P

MDelKeepsTimer(D) ==
  /\ entries' = entries \ D
  /\ connected' = connected \ D
  /\ known' = known \ {s \in StationsOf(D) : ~\E n \in Nodes : <<s, n>> \in entries \ D}
  /\ orphans' = orphans \ D
  /\ UNCHANGED timer

\* usteer_sta_info_del of the entries D: timers, then stations without entry.
usteer_sta_info_del(D) ==
  /\ entries' = entries \ D
  /\ connected' = connected \ D
  /\ timer' = [p \in Pairs |-> IF p \in D THEN NotArmed ELSE timer[p]]
  /\ orphans' = orphans \ D
  /\ known' = known \ {s \in StationsOf(D) : ~\E n \in Nodes : <<s, n>> \in entries \ D}

\* usteer_sta_info_update_timeout: the timer it leaves behind.
usteer_sta_info_update_timeout(isConnected, timeout) ==
  IF isConnected THEN NotArmed ELSE timeout

-----------------------------------------------------------------------------
Init ==
  /\ nodes = {} /\ known = {} /\ entries = {} /\ connected = {}
  /\ timer = [p \in Pairs |-> NotArmed]
  /\ age = [p \in Pairs |-> local_sta_timeout]
  /\ heard = {} /\ lost = {} /\ orphans = {}

\* A hostapd object appears on ubus, or a message of a new remote node comes.
NodeAppears(n) ==
  /\ n \notin nodes
  /\ nodes' = nodes \cup {n}
  /\ heard' = {} /\ lost' = {}
  /\ UNCHANGED <<known, entries, connected, timer, age, orphans>>

\* usteer_free_node and remote_node_free, with usteer_sta_node_cleanup.
NodeGone(n) ==
  /\ n \in nodes
  /\ nodes' = nodes \ {n}
  /\ usteer_sta_info_del(At(n) \cap entries)
  /\ heard' = {} /\ lost' = {}
  /\ UNCHANGED age

\* usteer_handle_sta_event: hostapd asks for a probe, auth or assoc request.
Event(s, n) ==
  LET p == <<s, n>> IN
  /\ n \in nodes \cap Local
  /\ GetOrCreate({p})
  /\ timer' = [timer EXCEPT ![p] =
                 usteer_sta_info_update_timeout(p \in connected, local_sta_timeout)]
  /\ heard' = {p} /\ lost' = {} /\ orphans' = orphans \ {p}
  /\ UNCHANGED <<nodes, connected, age>>

MSetAssocNoTimeout(n, listed, assoc, answered) ==
  /\ GetOrCreate(listed \X {n})
  /\ connected' = (connected \ At(n)) \cup (assoc \X {n})
  /\ timer' = [p \in Pairs |->
       IF p \in answered \X {n} THEN usteer_sta_info_update_timeout(FALSE, local_sta_timeout)
       ELSE timer[p]]

MSetAssocNewOnly(n, listed, assoc, answered) ==
  /\ GetOrCreate(listed \X {n})
  /\ connected' = (connected \ At(n)) \cup (assoc \X {n})
  /\ timer' = [p \in Pairs |->
       IF \/ p \in (answered \X {n}) \ entries
          \/ p \in (connected \cap At(n)) \ (assoc \X {n})
       THEN usteer_sta_info_update_timeout(FALSE, local_sta_timeout)
       ELSE timer[p]]

\* usteer_local_node_set_assoc: hostapd lists its clients, some of them as
\* associated; nl80211_update_sta finds the ones in `answered'.  Whoever was
\* connected is 2 by then, so nl80211_update_sta arms the timer of every client
\* it finds, and the association that is noted next does not cancel it.
usteer_local_node_set_assoc(n, listed, assoc, answered) ==
  /\ GetOrCreate(listed \X {n})
  /\ connected' = (connected \ At(n)) \cup (assoc \X {n})
  /\ timer' = [p \in Pairs |->
       IF \/ p \in answered \X {n}                              \* nl80211_update_sta
          \/ p \in (connected \cap At(n)) \ (assoc \X {n})      \* left at 2: disconnected
       THEN usteer_sta_info_update_timeout(FALSE, local_sta_timeout)
       ELSE timer[p]]

Poll(n) ==
  /\ n \in nodes \cap Local
  /\ \E listed \in SUBSET Stations : \E assoc \in SUBSET listed, answered \in SUBSET listed :
       /\ ReliableNl80211 => answered = listed
       /\ usteer_local_node_set_assoc(n, listed, assoc, answered)
       /\ age' = [p \in Pairs |-> IF p \in answered \X {n} THEN 0 ELSE age[p]]
       /\ heard' = answered \X {n}
       /\ orphans' = (orphans \ ((assoc \cup answered) \X {n}))
                       \cup (((listed \ (assoc \cup answered)) \X {n}) \ entries)
  /\ lost' = {}
  /\ UNCHANGED nodes

\* interface_add_station: another daemon tells of an entry of its own that
\* has `timeout' left, and whether the client is associated there.
interface_add_station(s, n, isConnected, timeout) ==
  LET p == <<s, n>> IN
  /\ n \in nodes \cap Remote
  /\ GetOrCreate({p})
  /\ connected' = IF isConnected THEN connected \cup {p} ELSE connected \ {p}
  /\ timer' = [timer EXCEPT ![p] = usteer_sta_info_update_timeout(isConnected, timeout)]
  /\ heard' = {p} /\ lost' = {} /\ orphans' = orphans \ {p}
  /\ UNCHANGED <<nodes, age>>

\* find_better_candidate follows a beacon report of <<s, ref>> to the node n and
\* creates the entry it returns.
CandidateEntry(s, n, ref) ==
  /\ CandidateOn
  /\ n \in nodes /\ ref \in nodes \cap Local /\ n # ref
  /\ <<s, ref>> \in entries
  /\ GetOrCreate({<<s, n>>})
  /\ orphans' = orphans \cup ({<<s, n>>} \ entries)
  /\ heard' = {} /\ lost' = {}
  /\ UNCHANGED <<nodes, connected, timer, age>>

\* usteer_ubus_kick_client.
Kick(p) ==
  /\ KickOn
  /\ p \in connected /\ p[2] \in Local
  /\ connected' = connected \ {p}
  /\ orphans' = IF timer[p] = NotArmed THEN orphans \cup {p} ELSE orphans
  /\ heard' = {} /\ lost' = {}
  /\ UNCHANGED <<nodes, known, entries, timer, age>>

\* usteer_sta_info_timeout.
Expire(p) ==
  /\ timer[p] = 0
  /\ usteer_sta_info_del({p})
  /\ heard' = {}
  /\ lost' = {p} \cap connected
  /\ UNCHANGED <<nodes, age>>

Tick ==
  /\ \A p \in Pairs : timer[p] # 0
  /\ timer' = [p \in Pairs |-> IF timer[p] > 0 THEN timer[p] - 1 ELSE timer[p]]
  /\ age' = [p \in Pairs |-> IF age[p] < local_sta_timeout THEN age[p] + 1 ELSE age[p]]
  /\ heard' = {} /\ lost' = {}
  /\ UNCHANGED <<nodes, known, entries, connected, orphans>>

Next ==
  \/ \E n \in Nodes : NodeAppears(n) \/ NodeGone(n) \/ Poll(n)
  \/ \E s \in Stations, n \in Nodes :
       \/ Event(s, n)
       \/ \E c \in BOOLEAN, t \in 1 .. local_sta_timeout : interface_add_station(s, n, c, t)
       \/ \E ref \in Nodes : CandidateEntry(s, n, ref)
  \/ \E p \in Pairs : Kick(p) \/ Expire(p)
  \/ Tick

Spec == Init /\ [][Next]_vars

\* Time passes and uloop serves the timeout queue.
FairSpec == Spec /\ WF_vars(Tick) /\ WF_vars(\E p \in Pairs : Expire(p))

-----------------------------------------------------------------------------
TypeOK ==
  /\ nodes \subseteq Nodes /\ known \subseteq Stations
  /\ entries \subseteq Pairs /\ connected \subseteq Pairs
  /\ timer \in [Pairs -> -1 .. local_sta_timeout]
  /\ age \in [Pairs -> 0 .. local_sta_timeout]
  /\ heard \subseteq Pairs /\ lost \subseteq Pairs /\ orphans \subseteq Pairs

\* A station is in the tree exactly as long as some node has an entry of it.
NoStrayStation == known = StationsOf(entries)

\* No timer points to a freed entry.
NoDanglingTimer == \A p \in Pairs : timer[p] # NotArmed => p \in entries

\* No entry points to a freed node, and only entries are associated.
NoDanglingNode == connected \subseteq entries /\ \A p \in entries : p[2] \in nodes

(* sta.c:32-163.  Whatever creates and deletes entries, the stations, the   *)
(* entries, their timers and the nodes refer to each other consistently:    *)
(* nothing that is still reachable has been freed, nothing is leaked.       *)
TableConsistent == NoStrayStation /\ NoDanglingTimer /\ NoDanglingNode

(* local_node.c:231-252, nl80211.c:268, sta.c:118-127.  The timer of an     *)
(* associated client keeps running; still its entry, with the roam state    *)
(* and the counters in it, is deleted only if nl80211 has not confirmed the *)
(* client in any poll for all of local_sta_timeout.                         *)
AssociatedKeptWhileConfirmed == \A p \in lost : age[p] >= local_sta_timeout

(* sta.c:72-127, local_node.c:231-265, ubus.c:516-531.  An entry that no    *)
(* timer will end belongs to an associated client or is an orphan: no       *)
(* sequence of requests, polls, messages and departures leaves another.     *)
UntimedAreAccountedFor ==
  \A p \in entries : timer[p] = NotArmed => p \in connected \/ p \in orphans

(* sta.c:72-127, local_node.c:257-265.  However a client leaves, its entry  *)
(* ends unless the client is heard of again: the only entries that stay are *)
(* orphans.                                                                 *)
EntriesAgeOut ==
  \A p \in Pairs : (p \in (entries \ connected) \ orphans)
                     ~> (p \notin entries \ connected \/ p \in heard)
=============================================================================

-------------------------- MODULE LocalNodeProofs --------------------------
(***************************************************************************)
(* LocalNode for any number of nodes, object ids, intervals and latencies:  *)
(* freed nodes are silent, the request is not used twice, and the clients   *)
(* are listed in time.                                                      *)
(***************************************************************************)
EXTENDS LocalNode, SequenceTheorems, TLAPS

-----------------------------------------------------------------------------
(* The inductive invariant.                                                 *)

\* hostapd answers before the next update.
Prompt == MaxLatency + 1 < local_sta_update

\* ids grow; no request and no message is about an object that is still to come.
IdInv(n) ==
  /\ obj[n] \in {0, ids[n]} /\ obj_id[n] <= ids[n] /\ to[n] <= ids[n]
  /\ \A i \in 1 .. Len(queue) : queue[i].name = n => queue[i].id <= ids[n]

IsRemove(i, n) == queue[i].type = "remove" /\ queue[i].name = n

\* A removal that ubus has still to deliver is the only one for the node.  It is about
\* the one object the node has subscribed to, and the node does not know a newer one.
RemoveInv(n) ==
  \A i \in 1 .. Len(queue) : IsRemove(i, n) =>
    /\ subs[n] = {queue[i].id} /\ obj[n] # queue[i].id
    /\ obj_id[n] <= queue[i].id /\ to[n] <= queue[i].id
    /\ \A j \in 1 .. Len(queue) : queue[j].name = n /\ j # i =>
         queue[j].type = "add" /\ (j < i => queue[j].id <= queue[i].id)

\* With no removal on its way, the node has subscribed to the present object at most.
SubInv(n) ==
  (\A i \in 1 .. Len(queue) : ~IsRemove(i, n)) => subs[n] \subseteq {obj[n]}

\* The request, and what the states of the chain say of it.
ReqInv(n) ==
  /\ req_state[n] = REQ_IDLE => req[n] = "none"
  /\ req_timer[n] # NotArmed => req[n] = "none"
  /\ req[n] # "none" => to[n] # 0

\* What free tests before it cancels covers what is to be cancelled.
HandlerInv(n) ==
  /\ InterfaceStays => (nl_timer[n] => present[n])
  /\ nf_req[n] = "sent" => nf_pending[n]

LiveInv(n) ==
  /\ live[n] => obj_id[n] # 0 /\ update[n] # NotArmed
  /\ ~live[n] => /\ update[n] = NotArmed /\ req_timer[n] = NotArmed
                 /\ req[n] = "none" /\ nf_req[n] # "sent" /\ ~present[n] /\ subs[n] = {}

\* get_clients is about to be sent, or is on the wire to the present object.
Starting(n) == req_state[n] = REQ_IDLE /\ req_timer[n] # NotArmed
Listing(n) == req_state[n] = REQ_CLIENTS /\ req[n] = "sent" /\ to[n] = obj[n]

\* The answer is there before the update timer aborts the request.
LeadInv(n) ==
  /\ Starting(n) => update[n] > req_timer[n] + MaxLatency
  /\ Listing(n) => update[n] + waited[n] > MaxLatency

\* How long it may still take until the clients are listed.
Left(n) ==
  IF Starting(n) THEN req_timer[n] + MaxLatency
  ELSE IF Listing(n) THEN MaxLatency - waited[n]
  ELSE update[n] + 1 + MaxLatency

PollInv(n) ==
  /\ unpolled[n] <= PollBound
  /\ Reached(n) => unpolled[n] + Left(n) <= PollBound

QueueInv(n) == IdInv(n) /\ RemoveInv(n) /\ SubInv(n)
TimeInv(n) == Prompt => LeadInv(n) /\ PollInv(n)
NodeInv(n) == ReqInv(n) /\ HandlerInv(n) /\ LiveInv(n) /\ TimeInv(n)

IInv == TypeOK /\ \A n \in Names : QueueInv(n) /\ NodeInv(n)

-----------------------------------------------------------------------------
(* Types by parts.                                                          *)

\* The nodes that can be neighbours.
Known == Names \cup Remotes

Messages == [type : {"add", "remove"}, name : Names, id : 1 .. MaxId]

OutsideType ==
  /\ obj \in [Names -> 0 .. MaxId] /\ ids \in [Names -> 0 .. MaxId]
  /\ queue \in Seq(Messages) /\ list \in [Names -> SUBSET Known]
BookType ==
  /\ live \in [Names -> BOOLEAN] /\ rrm_nr \in [Names -> BOOLEAN]
  /\ obj_id \in [Names -> 0 .. MaxId] /\ subs \in [Names -> SUBSET (1 .. MaxId)]
ChainType ==
  /\ update \in [Names -> -1 .. local_sta_update] /\ req_timer \in [Names -> -1 .. 1]
  /\ req_state \in [Names -> 0 .. 3]
  /\ req \in [Names -> {"none", "sent", "answered"}]
  /\ to \in [Names -> 0 .. MaxId] /\ waited \in [Names -> 0 .. MaxLatency]
  /\ nbrs \in [Names -> SUBSET Known]
SsidType ==
  /\ ssid \in [Names -> Ssids \cup {""}]
  /\ \A n \in Names : ssid[n] \in {"", Ssid[n]}
  /\ remote \in [Remotes -> Ssids \cup {""}]
HandlerType ==
  /\ present \in [Names -> BOOLEAN] /\ nl_timer \in [Names -> BOOLEAN]
  /\ nf_pending \in [Names -> BOOLEAN] /\ nf_req \in [Names -> {"none", "sent", "answered"}]
  /\ nf_complete \in [Names -> BOOLEAN]
GhostType == unpolled \in [Names -> 0 .. PollBound + 2] /\ refused \in [Names -> BOOLEAN]

LEMMA TypeParts ==
  /\ TypeOK <=> /\ OutsideType /\ BookType /\ ChainType /\ SsidType /\ HandlerType
                /\ GhostType
  /\ TypeOK' <=> /\ OutsideType' /\ BookType' /\ ChainType' /\ SsidType' /\ HandlerType'
                 /\ GhostType'
<1>1. __REQ_MAX - 1 = 3
  BY DEF __REQ_MAX
<1>2. QED
  BY <1>1 DEF TypeOK, OutsideType, BookType, ChainType, SsidType, HandlerType, GhostType, Messages,
     Known

\* The bounds are numbers.
LEMMA Bounds ==
  /\ local_sta_update \in Nat /\ local_sta_update >= 1 /\ MaxLatency \in Nat /\ MaxId \in Nat
  /\ PollBound = local_sta_update + 1 + MaxLatency /\ PollBound \in Nat
<1>1. local_sta_update \in Nat \ {0} /\ MaxLatency \in Nat /\ MaxId \in Nat
  BY LocalNodeAssumption
<1>2. QED
  BY <1>1 DEF PollBound

\* Set changes a function at one place.
LEMMA SetAt ==
  ASSUME NEW S, NEW f \in [Names -> S], NEW n \in Names, NEW v
  PROVE  /\ Set(f, n, v)[n] = v
         /\ \A m \in Names \ {n} : Set(f, n, v)[m] = f[m]
         /\ v \in S => Set(f, n, v) \in [Names -> S]
BY DEF Set

\* What stands in the queue.
LEMMA MessageType ==
  ASSUME OutsideType
  PROVE  /\ Len(queue) \in Nat
         /\ \A i \in 1 .. Len(queue) :
              /\ queue[i].type \in {"add", "remove"} /\ queue[i].name \in Names
              /\ queue[i].id \in 1 .. MaxId
<1>1. Len(queue) \in Nat /\ \A i \in 1 .. Len(queue) : queue[i] \in Messages
  BY ElementOfSeq, LenProperties DEF OutsideType
<1>2. QED
  BY <1>1 DEF Messages

-----------------------------------------------------------------------------
(* Steps that leave the objects, the queue and the subscriptions alone.     *)

LEMMA QueueFrame ==
  ASSUME IInv, TypeOK', UNCHANGED <<obj, ids, queue, obj_id, subs>>, NEW m \in Names,
         to'[m] \in {to[m], 0, obj_id[m]}
  PROVE  QueueInv(m)'
<1>1. QueueInv(m) /\ OutsideType /\ BookType /\ ChainType
  BY TypeParts DEF IInv
<1>2. ids[m] \in Nat /\ obj_id[m] \in Nat /\ to[m] \in Nat
  BY <1>1 DEF OutsideType, BookType, ChainType
<1>3. \A i \in 1 .. Len(queue) : queue[i].id \in Nat
  BY <1>1, MessageType, Bounds
<1>4. IdInv(m)'
  BY <1>1, <1>2 DEF QueueInv, IdInv
<1>5. RemoveInv(m)'
  <2>1. \A i \in 1 .. Len(queue) : IsRemove(i, m)' <=> IsRemove(i, m)
    BY DEF IsRemove
  <2>2. \A i \in 1 .. Len(queue) : IsRemove(i, m) => to'[m] <= queue[i].id
    BY <1>1, <1>2, <1>3 DEF QueueInv, RemoveInv
  <2>3. RemoveInv(m)
    BY <1>1 DEF QueueInv
  <2>4. QED
    BY <2>1, <2>2, <2>3 DEF RemoveInv
<1>6. SubInv(m)'
  BY <1>1 DEF QueueInv, SubInv, IsRemove
<1>7. QED
  BY <1>4, <1>5, <1>6 DEF QueueInv

\* What the invariant of a node reads.
Cell(n) ==
  <<obj[n], live[n], obj_id[n], subs[n], update[n], req_timer[n], req_state[n], req[n], to[n],
    waited[n], present[n], nl_timer[n], nf_pending[n], nf_req[n], unpolled[n]>>

\* A step of another node changes nothing.
LEMMA NodeFrame ==
  ASSUME NEW m \in Names, NodeInv(m), UNCHANGED Cell(m)
  PROVE  NodeInv(m)'
BY DEF Cell, NodeInv, ReqInv, HandlerInv, LiveInv, TimeInv, LeadInv, PollInv, Starting, Listing,
       Left, Reached

-----------------------------------------------------------------------------
(* The helpers of the handlers.                                             *)

\* usteer_local_node_state_reset leaves no request (local_node.c:44-52).
LEMMA Reset ==
  ASSUME ChainType, list \in [Names -> SUBSET Known], NEW n \in Names, ReqInv(n),
         usteer_local_node_state_reset(n)
  PROVE  /\ req_state' \in [Names -> 0 .. 3] /\ req' \in [Names -> {"none", "sent", "answered"}]
         /\ to' \in [Names -> 0 .. MaxId] /\ waited' \in [Names -> 0 .. MaxLatency]
         /\ nbrs' \in [Names -> SUBSET Known] /\ list' \in [Names -> SUBSET Known]
         /\ req_state'[n] = REQ_IDLE /\ req'[n] = "none" /\ to'[n] \in {to[n], 0}
         /\ \A m \in Names \ {n} : /\ req_state'[m] = req_state[m] /\ req'[m] = req[m]
                                   /\ to'[m] = to[m] /\ waited'[m] = waited[m]
<1>1. CASE req_state[n] = REQ_IDLE
  <2>1. UNCHANGED <<req_state, req, to, nbrs, waited, list>>
    BY <1>1 DEF usteer_local_node_state_reset
  <2>2. QED
    BY <1>1, <2>1 DEF ReqInv, ChainType
<1>2. CASE req_state[n] # REQ_IDLE
  <2>1. /\ req_state' = Set(req_state, n, REQ_IDLE) /\ req' = Set(req, n, "none")
        /\ to' = Set(to, n, 0) /\ nbrs' = Set(nbrs, n, {}) /\ waited' = Set(waited, n, 0)
        /\ list' = list \/ list' = Set(list, n, nbrs[n])
    BY <1>2 DEF usteer_local_node_state_reset
  <2>2. REQ_IDLE \in 0 .. 3 /\ 0 \in 0 .. MaxId /\ 0 \in 0 .. MaxLatency
    BY Bounds DEF REQ_IDLE
  <2>3. nbrs[n] \in SUBSET Known
    BY DEF ChainType
  <2>4. QED
    BY <2>1, <2>2, <2>3 DEF ChainType, Set
<1>3. QED
  BY <1>1, <1>2

\* netifd_update_node: a request on the wire is pending (netifd.c:105-134).
LEMMA NetifdUpdate ==
  ASSUME HandlerType, NEW n \in Names, nf_req[n] = "sent" => nf_pending[n], NEW c \in BOOLEAN,
         netifd_update_node(n, c)
  PROVE  /\ nf_pending' \in [Names -> BOOLEAN] /\ nf_req' \in [Names -> {"none", "sent", "answered"}]
         /\ nf_complete' \in [Names -> BOOLEAN]
         /\ nf_req'[n] = "sent" => nf_pending'[n]
         /\ \A m \in Names \ {n} : nf_req'[m] = nf_req[m] /\ nf_pending'[m] = nf_pending[m]
<1>1. nf_complete' \in [Names -> BOOLEAN]
  BY DEF netifd_update_node, HandlerType, Set
<1>2. CASE UNCHANGED <<nf_pending, nf_req>>
  BY <1>1, <1>2 DEF HandlerType
<1>3. CASE nf_req' = Set(nf_req, n, Unaborted(n)) /\ UNCHANGED nf_pending
  <2>1. /\ nf_req' \in [Names -> {"none", "sent", "answered"}] /\ nf_req'[n] # "sent"
        /\ \A m \in Names \ {n} : nf_req'[m] = nf_req[m]
    BY <1>3 DEF HandlerType, Set, Unaborted
  <2>2. QED
    BY <1>1, <1>3, <2>1 DEF HandlerType
<1>4. CASE nf_req' = Set(nf_req, n, "sent") /\ nf_pending' = Set(nf_pending, n, TRUE)
  BY <1>1, <1>4 DEF HandlerType, Set
<1>5. QED
  BY <1>2, <1>3, <1>4 DEF netifd_update_node

\* usteer_free_node takes everything off that calls back (local_node.c:54-72).
LEMMA FreeNode ==
  ASSUME IInv, NEW n \in Names, NEW rest \in Seq(Messages), usteer_free_node(n, rest),
         refused' \in [Names -> BOOLEAN]
  PROVE  /\ TypeOK' /\ NodeInv(n)'
         /\ \A m \in Names \ {n} : UNCHANGED Cell(m)
         /\ subs'[n] = {} /\ obj_id'[n] = 0 /\ to'[n] \in {to[n], 0}
         /\ queue' = rest /\ UNCHANGED <<obj, ids>>
<1>1. /\ OutsideType /\ BookType /\ ChainType /\ SsidType /\ HandlerType /\ GhostType
      /\ NodeInv(n)
  BY TypeParts DEF IInv
<1>2. /\ usteer_local_node_state_reset(n)
      /\ nl80211_free_node(n) /\ netifd_free_node(n)
      /\ req_timer' = Set(req_timer, n, NotArmed) /\ update' = Set(update, n, NotArmed)
      /\ subs' = Set(subs, n, {}) /\ live' = Set(live, n, FALSE)
      /\ queue' = rest
      /\ rrm_nr' = Set(rrm_nr, n, FALSE) /\ unpolled' = Set(unpolled, n, 0)
      /\ obj_id' = Set(obj_id, n, 0) /\ ssid' = Set(ssid, n, "")
      /\ present' = Set(present, n, FALSE)
      /\ nf_pending' = Set(nf_pending, n, FALSE) /\ nf_complete' = Set(nf_complete, n, FALSE)
      /\ UNCHANGED <<obj, ids, remote>>
  BY DEF usteer_free_node
<1>3. /\ req_state' \in [Names -> 0 .. 3] /\ req' \in [Names -> {"none", "sent", "answered"}]
      /\ to' \in [Names -> 0 .. MaxId] /\ waited' \in [Names -> 0 .. MaxLatency]
      /\ nbrs' \in [Names -> SUBSET Known] /\ list' \in [Names -> SUBSET Known]
      /\ req_state'[n] = REQ_IDLE /\ req'[n] = "none" /\ to'[n] \in {to[n], 0}
      /\ \A m \in Names \ {n} : /\ req_state'[m] = req_state[m] /\ req'[m] = req[m]
                                /\ to'[m] = to[m] /\ waited'[m] = waited[m]
  BY <1>1, <1>2, Reset DEF OutsideType, NodeInv
<1>4. /\ NotArmed \in -1 .. local_sta_update /\ NotArmed \in -1 .. 1
      /\ 0 \in 0 .. MaxId /\ 0 \in 0 .. PollBound + 2
  BY Bounds DEF NotArmed
<1>5. OutsideType' /\ BookType' /\ ChainType' /\ SsidType' /\ GhostType'
  <2>1. OutsideType'
    BY <1>1, <1>2, <1>3 DEF OutsideType, Messages
  <2>2. BookType'
    BY <1>1, <1>2, <1>4 DEF BookType, Set
  <2>3. ChainType'
    BY <1>1, <1>2, <1>3, <1>4 DEF ChainType, Set
  <2>4. SsidType'
    BY <1>1, <1>2 DEF SsidType, Set
  <2>5. GhostType'
    BY <1>1, <1>2, <1>4, Bounds DEF GhostType, Set, PollBound
  <2>6. QED
    BY <2>1, <2>2, <2>3, <2>4, <2>5
<1>6. HandlerType'
  BY <1>1, <1>2 DEF HandlerType, Set, nl80211_free_node, netifd_free_node, Unaborted
<1>7. /\ nf_req'[n] # "sent" /\ ~present'[n] /\ (InterfaceStays => ~nl_timer'[n])
      /\ ~live'[n] /\ update'[n] = NotArmed /\ req_timer'[n] = NotArmed /\ subs'[n] = {}
      /\ obj_id'[n] = 0 /\ unpolled'[n] = 0
  <2>1. nf_req'[n] # "sent" /\ ~present'[n] /\ (InterfaceStays => ~nl_timer'[n])
    BY <1>1, <1>2 DEF HandlerType, Set, nl80211_free_node, netifd_free_node, Unaborted,
       NodeInv, HandlerInv
  <2>2. ~live'[n] /\ subs'[n] = {} /\ obj_id'[n] = 0
    BY <1>1, <1>2 DEF BookType, Set
  <2>3. update'[n] = NotArmed /\ req_timer'[n] = NotArmed
    BY <1>1, <1>2 DEF ChainType, Set
  <2>4. unpolled'[n] = 0
    BY <1>1, <1>2 DEF GhostType, Set
  <2>5. QED
    BY <2>1, <2>2, <2>3, <2>4
<1>8. NodeInv(n)'
  <2>1. ReqInv(n)' /\ HandlerInv(n)' /\ LiveInv(n)'
    BY <1>3, <1>7 DEF ReqInv, HandlerInv, LiveInv
  <2>2. ~Starting(n)' /\ ~Listing(n)' /\ ~Reached(n)'
    BY <1>3, <1>7 DEF Starting, Listing, Reached
  <2>3. LeadInv(n)' /\ PollInv(n)'
    BY <1>7, <2>2, Bounds DEF LeadInv, PollInv, PollBound
  <2>4. QED
    BY <2>1, <2>3 DEF NodeInv, TimeInv
<1>9. ASSUME NEW m \in Names \ {n} PROVE UNCHANGED Cell(m)
  <2>1. UNCHANGED <<req_state[m], req[m], to[m], waited[m]>>
    BY <1>3
  <2>2. UNCHANGED <<obj[m], live[m], obj_id[m], subs[m]>>
    BY <1>1, <1>2 DEF BookType, Set
  <2>3. UNCHANGED <<update[m], req_timer[m], unpolled[m]>>
    BY <1>1, <1>2 DEF ChainType, GhostType, Set
  <2>4. UNCHANGED <<present[m], nl_timer[m], nf_pending[m], nf_req[m]>>
    BY <1>1, <1>2 DEF HandlerType, Set, nl80211_free_node, netifd_free_node
  <2>5. QED
    BY <2>1, <2>2, <2>3, <2>4 DEF Cell
<1>10. QED
  BY <1>2, <1>3, <1>5, <1>6, <1>7, <1>8, <1>9, TypeParts

-----------------------------------------------------------------------------
(* Steps of one node's chain of requests.                                   *)

\* The values at a node.
LEMMA Values ==
  ASSUME TypeOK, NEW n \in Names
  PROVE  /\ obj[n] \in Nat /\ obj_id[n] \in 0 .. MaxId /\ update[n] \in -1 .. local_sta_update
         /\ req_timer[n] \in {-1, 0, 1} /\ req_state[n] \in 0 .. 3
         /\ req[n] \in {"none", "sent", "answered"}
         /\ to[n] \in Nat /\ waited[n] \in 0 .. MaxLatency /\ unpolled[n] \in Nat
<1>1. OutsideType /\ BookType /\ ChainType /\ GhostType
  BY TypeParts
<1>2. QED
  BY <1>1, Bounds DEF OutsideType, BookType, ChainType, GhostType

LEMMA LocalStep ==
  ASSUME IInv, TypeOK', UNCHANGED <<obj, ids, queue, obj_id, subs>>,
         NEW n \in Names, to'[n] \in {to[n], 0, obj_id[n]}, NodeInv(n)',
         \A m \in Names \ {n} : UNCHANGED Cell(m)
  PROVE  IInv'
<1>1. ASSUME NEW m \in Names PROVE QueueInv(m)' /\ NodeInv(m)'
  <2>1. to'[m] \in {to[m], 0, obj_id[m]}
    BY DEF Cell
  <2>2. NodeInv(m)'
    BY NodeFrame DEF IInv
  <2>3. QED
    BY <2>1, <2>2, QueueFrame
<1>2. QED
  BY <1>1 DEF IInv

\* Once per interval the chain starts again (local_node.c:406-430).
LEMMA UpdateInv ==
  ASSUME IInv, NEW n \in Names, usteer_local_node_update(n)
  PROVE  IInv'
<1>1. /\ OutsideType /\ BookType /\ ChainType /\ SsidType /\ HandlerType /\ GhostType
      /\ NodeInv(n) /\ TypeOK
  BY TypeParts DEF IInv
<1>2. /\ update[n] = 0
      /\ netifd_update_node(n, nf_complete[n]) /\ usteer_local_node_state_reset(n)
      /\ req_timer' = Set(req_timer, n, 1) /\ update' = Set(update, n, local_sta_update)
      /\ UNCHANGED <<obj, ids, remote, queue, live, obj_id, subs, rrm_nr, ssid, present,
                     nl_timer, unpolled, refused>>
  BY DEF usteer_local_node_update
<1>3. /\ req_state' \in [Names -> 0 .. 3] /\ req' \in [Names -> {"none", "sent", "answered"}]
      /\ to' \in [Names -> 0 .. MaxId] /\ waited' \in [Names -> 0 .. MaxLatency]
      /\ nbrs' \in [Names -> SUBSET Known] /\ list' \in [Names -> SUBSET Known]
      /\ req_state'[n] = REQ_IDLE /\ req'[n] = "none" /\ to'[n] \in {to[n], 0}
      /\ \A m \in Names \ {n} : /\ req_state'[m] = req_state[m] /\ req'[m] = req[m]
                                /\ to'[m] = to[m] /\ waited'[m] = waited[m]
  BY <1>1, <1>2, Reset DEF OutsideType, NodeInv
<1>4. /\ nf_pending' \in [Names -> BOOLEAN] /\ nf_req' \in [Names -> {"none", "sent", "answered"}]
      /\ nf_complete' \in [Names -> BOOLEAN]
      /\ nf_req'[n] = "sent" => nf_pending'[n]
      /\ \A m \in Names \ {n} : nf_req'[m] = nf_req[m] /\ nf_pending'[m] = nf_pending[m]
  <2>1. nf_complete[n] \in BOOLEAN /\ (nf_req[n] = "sent" => nf_pending[n])
    BY <1>1 DEF HandlerType, NodeInv, HandlerInv
  <2>2. QED
    BY <1>1, <1>2, <2>1, NetifdUpdate
<1>5. TypeOK'
  <2>1. 1 \in -1 .. 1 /\ local_sta_update \in -1 .. local_sta_update
    BY Bounds
  <2>2. ChainType'
    BY <1>1, <1>2, <1>3, <2>1 DEF ChainType, Set
  <2>3. /\ OutsideType' /\ BookType' /\ SsidType' /\ GhostType'
    BY <1>1, <1>2, <1>3 DEF OutsideType, Messages, BookType, SsidType, GhostType, PollBound
  <2>4. HandlerType'
    BY <1>1, <1>2, <1>4 DEF HandlerType
  <2>5. QED
    BY <2>2, <2>3, <2>4, TypeParts
<1>6. update'[n] = local_sta_update /\ req_timer'[n] = 1
  BY <1>1, <1>2 DEF ChainType, Set
<1>7. live[n] /\ obj_id[n] # 0
  BY <1>1, <1>2 DEF NodeInv, LiveInv, NotArmed
<1>8. ReqInv(n)' /\ HandlerInv(n)' /\ LiveInv(n)'
  <2>1. ReqInv(n)'
    BY <1>3 DEF ReqInv
  <2>2. HandlerInv(n)'
    BY <1>1, <1>2, <1>4 DEF HandlerInv, NodeInv
  <2>3. LiveInv(n)'
    BY <1>2, <1>6, <1>7, Bounds DEF LiveInv, NotArmed
  <2>4. QED
    BY <2>1, <2>2, <2>3
<1>9. TimeInv(n)'
  <2> SUFFICES ASSUME Prompt PROVE LeadInv(n)' /\ PollInv(n)'
    BY DEF TimeInv, Prompt
  <2>1. LeadInv(n) /\ PollInv(n)
    BY <1>1 DEF NodeInv, TimeInv
  <2>2. ~Starting(n) /\ ~Listing(n)
    BY <1>1, <1>2, <2>1, Values, Bounds DEF LeadInv, Starting, NotArmed
  <2>3. Reached(n) => unpolled[n] + 1 + MaxLatency <= PollBound
    BY <1>1, <1>2, <2>1, <2>2, Values, Bounds DEF PollInv, Left
  <2>4. Starting(n)' /\ ~Listing(n)' /\ Reached(n)' = Reached(n)
    BY <1>2, <1>3, <1>6 DEF Starting, Listing, Reached, NotArmed
  <2>5. LeadInv(n)'
    BY <1>6, <2>4, Bounds DEF LeadInv, Prompt
  <2>6. PollInv(n)'
    <3>1. Left(n)' = 1 + MaxLatency
      BY <1>6, <2>4 DEF Left
    <3>2. unpolled'[n] = unpolled[n] /\ PollBound' = PollBound
      BY <1>2 DEF PollBound
    <3>3. QED
      BY <1>1, <2>1, <2>3, <2>4, <3>1, <3>2, Values, Bounds DEF PollInv
  <2>7. QED
    BY <2>5, <2>6
<1>10. ASSUME NEW m \in Names \ {n} PROVE UNCHANGED Cell(m)
  <2>1. UNCHANGED <<update[m], req_timer[m]>>
    BY <1>1, <1>2 DEF ChainType, Set
  <2>2. QED
    BY <1>2, <1>3, <1>4, <2>1 DEF Cell
<1>11. QED
  BY <1>2, <1>3, <1>5, <1>8, <1>9, <1>10, LocalStep DEF NodeInv

\* The next request of the chain goes out (local_node.c:371-404).
LEMMA StateNextInv ==
  ASSUME IInv, NEW n \in Names, usteer_local_node_state_next(n)
  PROVE  IInv'
<1> DEFINE next == (req_state[n] + 1) % __REQ_MAX
<1>1. /\ OutsideType /\ BookType /\ ChainType /\ SsidType /\ HandlerType /\ GhostType
      /\ NodeInv(n) /\ TypeOK
  BY TypeParts DEF IInv
<1>2. /\ req_timer[n] = 0
      /\ req_timer' = Set(req_timer, n, NotArmed) /\ req_state' = Set(req_state, n, next)
      /\ \/ next = REQ_IDLE /\ UNCHANGED <<req, to, nbrs, waited>>
         \/ /\ next # REQ_IDLE
            /\ req' = Set(req, n, "sent") /\ to' = Set(to, n, obj_id[n])
            /\ nbrs' = Set(nbrs, n, IF next = REQ_RRM_SET_LIST THEN Neighbours(n) ELSE {})
            /\ waited' = Set(waited, n, 0)
      /\ UNCHANGED <<outside, live, obj_id, subs, update, rrm_nr, handlers, unpolled, refused>>
  BY DEF usteer_local_node_state_next
<1>3. /\ next \in 0 .. 3
      /\ req_state[n] = 0 => next = 1
      /\ req_state[n] = 1 => next = 2
      /\ req_state[n] = 2 => next = 3
      /\ req_state[n] = 3 => next = 0
  BY <1>1, Values DEF __REQ_MAX
<1> HIDE DEF next
<1>4. req[n] = "none" /\ live[n] /\ obj_id[n] # 0
  BY <1>1, <1>2 DEF NodeInv, ReqInv, LiveInv, NotArmed
<1>5. ChainType'
  <2>1. NotArmed \in -1 .. 1 /\ 0 \in 0 .. MaxLatency /\ obj_id[n] \in 0 .. MaxId
    BY <1>1, Bounds, Values DEF NotArmed
  <2>2. Neighbours(n) \in SUBSET Known
    BY DEF Neighbours, RemoteNeighbours, Known
  <2>3. req_timer' \in [Names -> -1 .. 1] /\ req_state' \in [Names -> 0 .. 3]
    BY <1>1, <1>2, <1>3, <2>1 DEF ChainType, Set
  <2>4. /\ req' \in [Names -> {"none", "sent", "answered"}]
        /\ to' \in [Names -> 0 .. MaxId] /\ waited' \in [Names -> 0 .. MaxLatency]
        /\ nbrs' \in [Names -> SUBSET Known]
    BY <1>1, <1>2, <2>1, <2>2 DEF ChainType, Set
  <2>5. QED
    BY <1>1, <1>2, <2>3, <2>4 DEF ChainType
<1>6. TypeOK'
  BY <1>1, <1>2, <1>5, TypeParts DEF OutsideType, Messages, BookType, SsidType, HandlerType,
     GhostType, PollBound, outside, handlers
<1>7. /\ req_timer'[n] = NotArmed /\ req_state'[n] = next
      /\ next = REQ_IDLE => req'[n] = "none" /\ to'[n] = to[n]
      /\ next # REQ_IDLE => req'[n] = "sent" /\ to'[n] = obj_id[n] /\ waited'[n] = 0
  BY <1>1, <1>2, <1>4 DEF ChainType, Set
<1>8. /\ obj' = obj /\ ids' = ids /\ queue' = queue /\ live' = live /\ obj_id' = obj_id
      /\ subs' = subs /\ update' = update /\ unpolled' = unpolled
      /\ present' = present /\ nl_timer' = nl_timer /\ nf_pending' = nf_pending /\ nf_req' = nf_req
  BY <1>2 DEF outside, handlers
<1>9. ReqInv(n)' /\ HandlerInv(n)' /\ LiveInv(n)'
  BY <1>1, <1>4, <1>7, <1>8 DEF NodeInv, ReqInv, HandlerInv, LiveInv
<1>10. TimeInv(n)'
  <2> SUFFICES ASSUME Prompt PROVE LeadInv(n)' /\ PollInv(n)'
    BY DEF TimeInv, Prompt
  <2>1. LeadInv(n) /\ PollInv(n) /\ ~Listing(n) /\ ~Starting(n)'
    BY <1>1, <1>4, <1>7 DEF NodeInv, TimeInv, Listing, Starting
  <2>2. Reached(n)' = Reached(n)
    BY <1>8 DEF Reached
  <2>3. CASE req_state[n] = REQ_IDLE
    <3>1. next = REQ_CLIENTS /\ next # REQ_IDLE /\ Starting(n)
      BY <1>2, <1>3, <2>3 DEF REQ_IDLE, REQ_CLIENTS, Starting, NotArmed
    <3>2. update[n] > MaxLatency /\ (Reached(n) => unpolled[n] + MaxLatency <= PollBound)
      BY <1>1, <1>2, <2>1, <3>1, Values, Bounds DEF LeadInv, PollInv, Left
    <3>3. LeadInv(n)'
      BY <1>1, <1>7, <1>8, <2>1, <3>1, <3>2, Values, Bounds DEF LeadInv
    <3>4. Reached(n) => Listing(n)'
      BY <1>7, <1>8, <3>1 DEF Listing, Reached
    <3>5. Reached(n) => Left(n)' = MaxLatency
      BY <1>7, <2>1, <3>1, <3>4, Bounds DEF Left
    <3>6. QED
      BY <1>8, <2>1, <2>2, <3>2, <3>3, <3>5 DEF PollInv, PollBound
  <2>4. CASE req_state[n] # REQ_IDLE
    <3>1. ~Starting(n) /\ ~Listing(n)'
      BY <1>1, <1>3, <1>7, <2>4, Values DEF Starting, Listing, REQ_IDLE, REQ_CLIENTS
    <3>2. Left(n)' = Left(n)
      BY <1>8, <2>1, <3>1 DEF Left
    <3>3. QED
      BY <1>8, <2>1, <2>2, <3>1, <3>2 DEF LeadInv, PollInv, PollBound
  <2>5. QED
    BY <2>3, <2>4
<1>11. ASSUME NEW m \in Names \ {n} PROVE UNCHANGED Cell(m)
  <2>1. UNCHANGED <<req_timer[m], req_state[m], req[m], to[m], waited[m]>>
    BY <1>1, <1>2 DEF ChainType, Set
  <2>2. QED
    BY <1>8, <2>1 DEF Cell
<1>12. to'[n] \in {to[n], 0, obj_id[n]}
  BY <1>7
<1>13. QED
  BY <1>6, <1>8, <1>9, <1>10, <1>11, <1>12, LocalStep DEF NodeInv

\* hostapd's answers (local_node.c:268-328).
LEMMA AnswerInv ==
  ASSUME IInv, NEW n \in Names, Answerable(n),
         req' = Set(req, n, "answered"),
         UNCHANGED <<obj, ids, remote, queue, live, obj_id, subs, update, req_timer, req_state, to,
                     nbrs, waited, handlers, refused>>,
         list' \in {list, Set(list, n, nbrs[n])}, rrm_nr' \in {rrm_nr, Set(rrm_nr, n, TRUE)},
         \/ unpolled' = unpolled /\ req_state[n] # REQ_CLIENTS
         \/ unpolled' = Set(unpolled, n, 0)
  PROVE  IInv'
<1>1. /\ OutsideType /\ BookType /\ ChainType /\ SsidType /\ HandlerType /\ GhostType
      /\ NodeInv(n) /\ TypeOK
  BY TypeParts DEF IInv
<1>2. TypeOK'
  <2>1. nbrs[n] \in SUBSET Known /\ 0 \in 0 .. PollBound + 2
    BY <1>1, Bounds DEF ChainType
  <2>2. OutsideType'
    BY <1>1, <2>1 DEF OutsideType, Messages, Set
  <2>3. BookType' /\ ChainType' /\ SsidType' /\ HandlerType'
    BY <1>1 DEF BookType, ChainType, SsidType, HandlerType, handlers, Set
  <2>4. GhostType'
    BY <1>1, <2>1 DEF GhostType, PollBound, Set
  <2>5. QED
    BY <2>2, <2>3, <2>4, TypeParts
<1>3. /\ req'[n] = "answered" /\ req[n] = "sent" /\ ~Listing(n)'
      /\ \A m \in Names \ {n} : req'[m] = req[m] /\ unpolled'[m] = unpolled[m]
  <2>1. req'[n] = "answered" /\ \A m \in Names \ {n} : req'[m] = req[m]
    BY <1>1 DEF ChainType, Set
  <2>2. \A m \in Names \ {n} : unpolled'[m] = unpolled[m]
    BY <1>1 DEF GhostType, Set
  <2>3. QED
    BY <2>1, <2>2 DEF Answerable, Listing
<1>4. ReqInv(n)' /\ HandlerInv(n)' /\ LiveInv(n)'
  BY <1>1, <1>3 DEF NodeInv, ReqInv, HandlerInv, LiveInv, handlers
<1>5. TimeInv(n)'
  <2> SUFFICES ASSUME Prompt PROVE LeadInv(n)' /\ PollInv(n)'
    BY DEF TimeInv, Prompt
  <2>1. LeadInv(n) /\ PollInv(n) /\ ~Starting(n)
    BY <1>1, <1>3 DEF NodeInv, TimeInv, Starting, ReqInv
  <2>2. ~Starting(n)' /\ Reached(n)' = Reached(n)
    BY <2>1 DEF Starting, Reached
  <2>3. LeadInv(n)'
    BY <1>3, <2>2 DEF LeadInv
  <2>4. Left(n)' = update[n] + 1 + MaxLatency
    BY <1>3, <2>2 DEF Left
  <2>5. CASE unpolled' = unpolled /\ req_state[n] # REQ_CLIENTS
    <3>1. Left(n)' = Left(n)
      BY <2>1, <2>4, <2>5 DEF Left, Listing
    <3>2. QED
      BY <2>1, <2>2, <2>3, <2>5, <3>1 DEF PollInv, PollBound
  <2>6. CASE unpolled' = Set(unpolled, n, 0)
    <3>1. unpolled'[n] = 0
      BY <1>1, <2>6 DEF GhostType, Set
    <3>2. QED
      BY <1>1, <2>3, <2>4, <3>1, Values, Bounds DEF PollInv, PollBound
  <2>7. QED
    BY <2>5, <2>6
<1>6. ASSUME NEW m \in Names \ {n} PROVE UNCHANGED Cell(m)
  BY <1>3 DEF Cell, handlers
<1>7. QED
  BY <1>2, <1>4, <1>5, <1>6, LocalStep DEF NodeInv

\* The request is complete or failed (local_node.c:330-337).  A get_clients request to
\* the present object does not fail.
LEMMA ReqCbInv ==
  ASSUME IInv, NEW n \in Names, usteer_local_node_req_cb(n)
  PROVE  IInv'
<1>1. /\ OutsideType /\ BookType /\ ChainType /\ SsidType /\ HandlerType /\ GhostType
      /\ NodeInv(n) /\ TypeOK
  BY TypeParts DEF IInv
<1>2. /\ req' = Set(req, n, "none") /\ to' = Set(to, n, 0) /\ nbrs' = Set(nbrs, n, {})
      /\ waited' = Set(waited, n, 0) /\ req_timer' = Set(req_timer, n, 1)
      /\ UNCHANGED <<obj, ids, remote, queue, list, live, obj_id, subs, update, req_state, rrm_nr,
                     ssid, present, nl_timer, nf_pending, nf_req, nf_complete, unpolled, refused>>
  BY DEF usteer_local_node_req_cb, outside, handlers
<1>3. /\ req[n] # "none" /\ (obj[n] # 0 => ~Listing(n))
  BY DEF usteer_local_node_req_cb, Answerable, Listing
<1>4. TypeOK'
  <2>1. 0 \in 0 .. MaxId /\ 0 \in 0 .. MaxLatency
    BY Bounds
  <2>2. ChainType'
    BY <1>1, <1>2, <2>1 DEF ChainType, Set
  <2>3. QED
    BY <1>1, <1>2, <2>2, TypeParts DEF OutsideType, Messages, BookType, SsidType, HandlerType,
       GhostType, PollBound
<1>5. req'[n] = "none" /\ to'[n] = 0 /\ req_timer'[n] = 1
  BY <1>1, <1>2 DEF ChainType, Set
<1>6. live[n] /\ req_state[n] # REQ_IDLE
  BY <1>1, <1>3 DEF NodeInv, LiveInv, ReqInv
<1>7. ReqInv(n)' /\ HandlerInv(n)' /\ LiveInv(n)'
  BY <1>1, <1>2, <1>5, <1>6 DEF NodeInv, ReqInv, HandlerInv, LiveInv
<1>8. TimeInv(n)'
  <2> SUFFICES ASSUME Prompt PROVE LeadInv(n)' /\ PollInv(n)'
    BY DEF TimeInv, Prompt
  <2>1. PollInv(n) /\ ~Starting(n) /\ ~Starting(n)' /\ ~Listing(n)' /\ Reached(n)' = Reached(n)
    BY <1>1, <1>2, <1>5, <1>6 DEF NodeInv, TimeInv, Starting, Listing, Reached
  <2>2. Reached(n) => Left(n)' = Left(n)
    BY <1>2, <1>3, <2>1 DEF Left, Reached
  <2>3. QED
    BY <1>2, <2>1, <2>2 DEF LeadInv, PollInv, PollBound
<1>9. ASSUME NEW m \in Names \ {n} PROVE UNCHANGED Cell(m)
  <2>1. UNCHANGED <<req_timer[m], req[m], to[m], waited[m]>>
    BY <1>1, <1>2 DEF ChainType, Set
  <2>2. QED
    BY <1>2, <2>1 DEF Cell
<1>10. QED
  BY <1>2, <1>4, <1>5, <1>7, <1>8, <1>9, LocalStep DEF NodeInv

\* netifd answers (netifd.c:25-103), and its request ends.
LEMMA StatusInv ==
  ASSUME IInv, NEW n \in Names, netifd_status_cb(n) \/ NetifdStatus(n)
  PROVE  IInv'
<1>1. /\ OutsideType /\ BookType /\ ChainType /\ SsidType /\ HandlerType /\ GhostType
      /\ NodeInv(n) /\ TypeOK
  BY TypeParts DEF IInv
<1>2. /\ nf_req' \in {Set(nf_req, n, "answered"), Set(nf_req, n, "none")}
      /\ nf_pending' \in {nf_pending, Set(nf_pending, n, FALSE)}
      /\ \E b \in BOOLEAN : nf_complete' = Set(nf_complete, n, b)
      /\ UNCHANGED <<obj, ids, remote, queue, list, live, obj_id, subs, update, req_timer, req_state,
                     req, to, nbrs, waited, rrm_nr, ssid, present, nl_timer, unpolled, refused>>
  <2>1. \A b \in BOOLEAN : nf_complete[n] \/ b \in BOOLEAN
    BY <1>1 DEF HandlerType
  <2>2. nf_complete = Set(nf_complete, n, nf_complete[n]) /\ nf_complete[n] \in BOOLEAN
    BY <1>1 DEF HandlerType, Set
  <2>3. QED
    BY <2>1, <2>2 DEF netifd_status_cb, NetifdStatus, outside, chain
<1>3. HandlerType'
  BY <1>1, <1>2 DEF HandlerType, Set
<1>4. TypeOK'
  BY <1>1, <1>2, <1>3, TypeParts DEF OutsideType, Messages, BookType, ChainType, SsidType,
     GhostType, PollBound
<1>5. nf_req'[n] # "sent"
  BY <1>1, <1>2 DEF HandlerType, Set
<1>6. ReqInv(n)' /\ HandlerInv(n)' /\ LiveInv(n)'
  BY <1>1, <1>2, <1>5 DEF NodeInv, ReqInv, HandlerInv, LiveInv
<1>7. TimeInv(n)'
  BY <1>1, <1>2 DEF NodeInv, TimeInv, Prompt, LeadInv, PollInv, PollBound, Left, Starting, Listing,
     Reached
<1>8. ASSUME NEW m \in Names \ {n} PROVE UNCHANGED Cell(m)
  <2>1. UNCHANGED <<nf_req[m], nf_pending[m]>>
    BY <1>1, <1>2 DEF HandlerType, Set
  <2>2. QED
    BY <1>2, <2>1 DEF Cell
<1>9. QED
  BY <1>2, <1>4, <1>6, <1>7, <1>8, LocalStep DEF NodeInv

\* Messages of other daemons change remote nodes only (remote.c:226-256).
LEMMA RemoteInv ==
  ASSUME IInv, NEW r \in Remotes, RemoteChanges(r)
  PROVE  IInv'
<1>1. /\ OutsideType /\ BookType /\ ChainType /\ SsidType /\ HandlerType /\ GhostType
  BY TypeParts DEF IInv
<1>2. /\ \E x \in Ssids \cup {""} : remote' = Set(remote, r, x)
      /\ UNCHANGED <<obj, ids, queue, list, live, obj_id, subs, update, req_timer, req_state, req,
                     to, nbrs, waited, rrm_nr, ssid, present, nl_timer, nf_pending, nf_req,
                     nf_complete, unpolled, refused>>
  BY DEF RemoteChanges, chain, handlers
<1>3. remote' \in [Remotes -> Ssids \cup {""}]
  BY <1>1, <1>2 DEF SsidType, Set
<1>4. TypeOK'
  BY <1>1, <1>2, <1>3, TypeParts DEF OutsideType, Messages, BookType, ChainType, SsidType,
     HandlerType, GhostType, PollBound
<1>5. ASSUME NEW m \in Names PROVE UNCHANGED Cell(m) /\ to'[m] = to[m]
  BY <1>2 DEF Cell
<1>6. QED
  BY <1>2, <1>4, <1>5, QueueFrame, NodeFrame DEF IInv

-----------------------------------------------------------------------------
(* Time.                                                                    *)

\* Time passes only while no timer is due and hostapd is not late.
LEMMA TickInv ==
  ASSUME IInv, Tick
  PROVE  IInv'
<1>1. /\ OutsideType /\ BookType /\ ChainType /\ SsidType /\ HandlerType /\ GhostType /\ TypeOK
  BY TypeParts DEF IInv
<1>2. /\ update' = [n \in Names |-> IF update[n] > 0 THEN update[n] - 1 ELSE update[n]]
      /\ req_timer' = [n \in Names |-> IF req_timer[n] > 0 THEN req_timer[n] - 1 ELSE req_timer[n]]
      /\ waited' = [n \in Names |-> IF req[n] # "none" /\ waited[n] < MaxLatency
                                    THEN waited[n] + 1 ELSE waited[n]]
      /\ unpolled' = [n \in Names |-> IF Reached(n) /\ unpolled[n] <= PollBound + 1
                                      THEN unpolled[n] + 1 ELSE unpolled[n]]
      /\ UNCHANGED <<obj, ids, remote, queue, list, live, obj_id, subs, req_state, req, to, nbrs,
                     rrm_nr, ssid, present, nl_timer, nf_pending, nf_req, nf_complete, refused>>
  BY DEF Tick, outside, handlers
<1>3. TypeOK'
  <2>1. /\ update' \in [Names -> -1 .. local_sta_update] /\ req_timer' \in [Names -> -1 .. 1]
        /\ waited' \in [Names -> 0 .. MaxLatency]
    BY <1>1, <1>2, Bounds DEF ChainType
  <2>2. unpolled' \in [Names -> 0 .. PollBound + 2]
    BY <1>1, <1>2, Bounds DEF GhostType
  <2>3. ChainType' /\ GhostType'
    BY <1>1, <1>2, <2>1, <2>2 DEF ChainType, GhostType, PollBound
  <2>4. QED
    BY <1>1, <1>2, <2>3, TypeParts DEF OutsideType, Messages, BookType, SsidType, HandlerType
<1>4. ASSUME NEW n \in Names PROVE QueueInv(n)' /\ NodeInv(n)'
  <2>1. NodeInv(n)
    BY DEF IInv
  <2>2. /\ update[n] # 0 /\ req_timer[n] # 0
        /\ req[n] # "none" /\ to[n] = obj[n] => waited[n] < MaxLatency
    BY DEF Tick
  <2>3. /\ update[n] = -1 => update'[n] = -1
        /\ update[n] > 0 => update'[n] = update[n] - 1
        /\ req_timer[n] = -1 => req_timer'[n] = -1
        /\ req_timer[n] = 1 => req_timer'[n] = 0
        /\ update[n] \in -1 .. local_sta_update /\ req_timer[n] \in {-1, 1}
    BY <1>1, <1>2, <2>2, Values
  <2>4. QueueInv(n)'
    BY <1>2, <1>3, QueueFrame
  <2>5. ReqInv(n)' /\ HandlerInv(n)' /\ LiveInv(n)'
    BY <1>2, <2>1, <2>2, <2>3, Bounds DEF NodeInv, ReqInv, HandlerInv, LiveInv, NotArmed
  <2>6. TimeInv(n)'
    <3> SUFFICES ASSUME Prompt PROVE LeadInv(n)' /\ PollInv(n)'
      BY DEF TimeInv, Prompt
    <3>1. LeadInv(n) /\ PollInv(n)
      BY <2>1 DEF NodeInv, TimeInv
    <3>2. /\ Starting(n)' = Starting(n) /\ Listing(n)' = Listing(n) /\ Reached(n)' = Reached(n)
      BY <1>2, <2>3 DEF Starting, Listing, Reached, NotArmed
    <3>3. /\ Starting(n) => req_timer[n] = 1 /\ req_timer'[n] = 0
          /\ Listing(n) => waited[n] < MaxLatency /\ waited'[n] = waited[n] + 1
      BY <1>1, <1>2, <2>2, <2>3, Values, Bounds DEF Starting, Listing, NotArmed
    <3>4. LeadInv(n)'
      BY <1>1, <2>2, <2>3, <3>1, <3>2, <3>3, Values, Bounds DEF LeadInv
    <3>5. CASE ~Reached(n)
      BY <1>2, <3>1, <3>2, <3>4, <3>5 DEF PollInv, PollBound
    <3>6. CASE Reached(n)
      <4>1. update[n] > 0
        BY <2>1, <2>2, <2>3, <3>6, Bounds DEF NodeInv, LiveInv, Reached, NotArmed
      <4>2. Left(n)' = Left(n) - 1 /\ Left(n) \in Nat /\ Left(n) >= 1
        BY <1>1, <2>3, <3>2, <3>3, <4>1, Values, Bounds DEF Left
      <4>3. unpolled[n] + Left(n) <= PollBound /\ unpolled[n] \in Nat
        BY <1>1, <3>1, <3>6, Values DEF PollInv
      <4>4. unpolled'[n] = unpolled[n] + 1 /\ PollBound' = PollBound
        BY <1>2, <3>6, <4>2, <4>3, Bounds DEF PollBound
      <4>5. QED
        BY <3>2, <3>4, <3>6, <4>2, <4>3, <4>4, Bounds DEF PollInv
    <3>7. QED
      BY <3>5, <3>6
  <2>7. QED
    BY <2>4, <2>5, <2>6 DEF NodeInv
<1>5. QED
  BY <1>3, <1>4 DEF IInv

-----------------------------------------------------------------------------
(* Objects come and go.                                                     *)

\* An object that is announced is newer than everything the node knows.
LEMMA AddedInv ==
  ASSUME IInv, NEW n \in Names, ObjectAdded(n)
  PROVE  IInv'
<1> DEFINE k == ids[n] + 1
           add == [type |-> "add", name |-> n, id |-> k]
<1>1. /\ OutsideType /\ BookType /\ ChainType /\ SsidType /\ HandlerType /\ GhostType /\ TypeOK
  BY TypeParts DEF IInv
<1>2. /\ obj[n] = 0 /\ ids[n] < MaxId
      /\ obj' = Set(obj, n, k) /\ ids' = Set(ids, n, k)
      /\ queue' = Append(queue, add) \/ queue' = queue \o <<add, add>>
      /\ list' = Set(list, n, {})
      /\ UNCHANGED <<remote, live, obj_id, subs, update, req_timer, req_state, req, to, nbrs, waited,
                     rrm_nr, ssid, present, nl_timer, nf_pending, nf_req, nf_complete, unpolled,
                     refused>>
  BY DEF ObjectAdded, chain, handlers
<1>3. ids[n] \in Nat /\ k \in 1 .. MaxId /\ add \in Messages
  BY <1>1, <1>2, Bounds DEF OutsideType, Messages
<1>4. /\ queue' \in Seq(Messages) /\ Len(queue) \in Nat /\ Len(queue') \in Nat
      /\ Len(queue') >= Len(queue)
      /\ \A i \in 1 .. Len(queue) : queue'[i] = queue[i]
      /\ \A i \in 1 .. Len(queue') : i > Len(queue) => queue'[i] = add
  <2> HIDE DEF add
  <2>1. queue \in Seq(Messages)
    BY <1>1 DEF OutsideType
  <2>2. CASE queue' = Append(queue, add)
    BY <1>3, <2>1, <2>2, AppendProperties
  <2>3. CASE queue' = queue \o <<add, add>>
    <3>1. <<add, add>> \in Seq(Messages) /\ Len(<<add, add>>) = 2
      BY <1>3
    <3>2. <<add, add>>[1] = add /\ <<add, add>>[2] = add
      OBVIOUS
    <3>3. QED
      BY <2>1, <2>3, <3>1, <3>2, ConcatProperties
  <2>4. QED
    BY <1>2, <2>2, <2>3
<1>5. TypeOK'
  <2>1. OutsideType'
    BY <1>1, <1>2, <1>3, <1>4, Bounds DEF OutsideType, Messages, Set
  <2>2. QED
    BY <1>1, <1>2, <2>1, TypeParts DEF BookType, ChainType, SsidType, HandlerType, GhostType,
       PollBound
<1>6. /\ obj'[n] = k /\ ids'[n] = k
      /\ \A m \in Names \ {n} : obj'[m] = obj[m] /\ ids'[m] = ids[m]
  BY <1>1, <1>2 DEF OutsideType, Set
<1>7. /\ \A i \in 1 .. Len(queue) : queue[i].name \in Names /\ queue[i].id \in Nat
      /\ add.type = "add" /\ add.name = n /\ add.id = k
  BY <1>1, MessageType, Bounds
<1> HIDE DEF k, add
<1>8. ASSUME NEW m \in Names PROVE QueueInv(m)'
  <2>1. QueueInv(m)
    BY DEF IInv
  <2>2. obj_id[m] \in Nat /\ to[m] \in Nat /\ ids[m] \in Nat /\ ids'[m] >= ids[m]
    <3>1. obj_id[m] \in Nat /\ to[m] \in Nat /\ ids[m] \in Nat
      BY <1>1, Bounds DEF OutsideType, BookType, ChainType
    <3>2. ids'[m] = IF m = n THEN ids[n] + 1 ELSE ids[m]
      BY <1>6 DEF k
    <3>3. QED
      BY <3>1, <3>2
  <2>3. IdInv(m)'
    <3>1. ASSUME NEW i \in 1 .. Len(queue'), queue'[i].name = m
          PROVE  queue'[i].id <= ids'[m]
      <4>1. CASE i \in 1 .. Len(queue)
        <5>1. queue[i].name = m /\ queue'[i].id = queue[i].id
          BY <1>4, <3>1, <4>1
        <5>2. queue[i].id <= ids[m] /\ queue[i].id \in Nat
          BY <1>7, <2>1, <4>1, <5>1 DEF QueueInv, IdInv
        <5>3. ids'[m] \in Int
          BY <1>3, <1>6, <2>2
        <5>4. QED
          BY <2>2, <5>1, <5>2, <5>3
      <4>2. CASE i > Len(queue)
        BY <1>3, <1>4, <1>6, <1>7, <3>1, <4>2
      <4>3. QED
        BY <1>4, <4>1, <4>2
    <3>2. obj'[m] \in {0, ids'[m]} /\ obj_id'[m] <= ids'[m] /\ to'[m] <= ids'[m]
      BY <1>2, <1>3, <1>6, <2>1, <2>2 DEF QueueInv, IdInv, k
    <3>3. QED
      BY <3>1, <3>2 DEF IdInv
  <2>4. ASSUME NEW i \in 1 .. Len(queue'), IsRemove(i, m)'
        PROVE  i \in 1 .. Len(queue) /\ IsRemove(i, m)
    BY <1>4, <1>7, <2>4 DEF IsRemove
  <2>5. RemoveInv(m)'
    <3> SUFFICES ASSUME NEW i \in 1 .. Len(queue'), IsRemove(i, m)'
                 PROVE  /\ subs'[m] = {queue'[i].id} /\ obj'[m] # queue'[i].id
                        /\ obj_id'[m] <= queue'[i].id /\ to'[m] <= queue'[i].id
                        /\ \A j \in 1 .. Len(queue') : queue'[j].name = m /\ j # i =>
                             /\ queue'[j].type = "add"
                             /\ j < i => queue'[j].id <= queue'[i].id
      BY DEF RemoveInv
    <3>1. i \in 1 .. Len(queue) /\ IsRemove(i, m) /\ queue'[i] = queue[i]
      BY <1>4, <2>4
    <3>2. queue[i].id <= ids[m] /\ queue[i].id \in Nat
      BY <1>7, <2>1, <3>1 DEF QueueInv, IdInv, IsRemove
    <3>3. obj'[m] # queue'[i].id
      BY <1>3, <1>6, <2>1, <3>1, <3>2 DEF QueueInv, RemoveInv, k
    <3>4. subs'[m] = {queue'[i].id} /\ obj_id'[m] <= queue'[i].id /\ to'[m] <= queue'[i].id
      BY <1>2, <2>1, <3>1 DEF QueueInv, RemoveInv
    <3>5. ASSUME NEW j \in 1 .. Len(queue'), queue'[j].name = m, j # i
          PROVE  queue'[j].type = "add" /\ (j < i => queue'[j].id <= queue'[i].id)
      BY <1>4, <1>7, <2>1, <3>1, <3>5 DEF QueueInv, RemoveInv
    <3>6. QED
      BY <3>3, <3>4, <3>5
  <2>6. SubInv(m)'
    <3> SUFFICES ASSUME \A i \in 1 .. Len(queue') : ~IsRemove(i, m)'
                 PROVE  subs'[m] \subseteq {obj'[m]}
      BY DEF SubInv
    <3>1. \A i \in 1 .. Len(queue) : ~IsRemove(i, m)
      BY <1>4 DEF IsRemove
    <3>2. subs[m] \subseteq {obj[m]} /\ subs[m] \subseteq 1 .. MaxId
      BY <1>1, <2>1, <3>1 DEF QueueInv, SubInv, BookType
    <3>3. QED
      BY <1>2, <1>6, <3>2
  <2>7. QED
    BY <2>3, <2>5, <2>6 DEF QueueInv
<1>9. ASSUME NEW m \in Names PROVE NodeInv(m)'
  <2>1. CASE m # n
    BY <1>2, <1>6, <2>1, NodeFrame DEF IInv, Cell
  <2>2. CASE m = n
    <3>1. NodeInv(n) /\ QueueInv(n)
      BY DEF IInv
    <3>2. to[n] # k /\ obj_id[n] # k /\ ~Reached(n)' /\ ~Listing(n)'
      BY <1>1, <1>2, <1>3, <1>6, <3>1, Values DEF QueueInv, IdInv, Reached, Listing, k
    <3>3. ReqInv(n)' /\ HandlerInv(n)' /\ LiveInv(n)'
      BY <1>2, <3>1 DEF NodeInv, ReqInv, HandlerInv, LiveInv
    <3>4. TimeInv(n)'
      BY <1>2, <3>1, <3>2 DEF NodeInv, TimeInv, Prompt, LeadInv, PollInv, PollBound, Starting
    <3>5. QED
      BY <2>2, <3>3, <3>4 DEF NodeInv
  <2>3. QED
    BY <2>1, <2>2
<1>10. QED
  BY <1>5, <1>8, <1>9 DEF IInv

\* A removal is told of once, because the node has subscribed to one object.
LEMMA RemovedInv ==
  ASSUME IInv, NEW n \in Names, ObjectRemoved(n)
  PROVE  IInv'
<1> DEFINE remove == [type |-> "remove", name |-> n, id |-> obj[n]]
<1>1. /\ OutsideType /\ BookType /\ ChainType /\ SsidType /\ HandlerType /\ GhostType /\ TypeOK
      /\ QueueInv(n) /\ NodeInv(n)
  BY TypeParts DEF IInv
<1>2. /\ obj[n] # 0 /\ obj' = Set(obj, n, 0)
      /\ queue' = IF obj[n] \in subs[n] THEN Append(queue, remove) ELSE queue
      /\ unpolled' = Set(unpolled, n, 0)
      /\ UNCHANGED <<ids, list, remote, live, obj_id, subs, update, req_timer, req_state, req, to,
                     nbrs, waited, rrm_nr, ssid, present, nl_timer, nf_pending, nf_req,
                     nf_complete, refused>>
  BY DEF ObjectRemoved, chain, handlers
<1>3. obj[n] \in 1 .. MaxId /\ obj[n] = ids[n] /\ remove \in Messages
  <2>1. obj[n] \in 1 .. MaxId /\ obj[n] = ids[n]
    BY <1>1, <1>2, Bounds DEF OutsideType, QueueInv, IdInv
  <2>2. QED
    BY <2>1 DEF Messages
<1>4. /\ queue' \in Seq(Messages) /\ Len(queue) \in Nat
      /\ obj[n] \notin subs[n] => queue' = queue
      /\ obj[n] \in subs[n] => /\ Len(queue') = Len(queue) + 1
                               /\ queue'[Len(queue) + 1] = remove
                               /\ \A i \in 1 .. Len(queue) : queue'[i] = queue[i]
  <2> HIDE DEF remove
  <2>1. QED
    BY <1>1, <1>2, <1>3, AppendProperties, LenProperties DEF OutsideType
<1>5. TypeOK'
  <2>1. 0 \in 0 .. MaxId /\ 0 \in 0 .. PollBound + 2
    BY Bounds
  <2>2. OutsideType' /\ GhostType'
    BY <1>1, <1>2, <1>4, <2>1 DEF OutsideType, Messages, GhostType, PollBound, Set
  <2>3. QED
    BY <1>1, <1>2, <2>2, TypeParts DEF BookType, ChainType, SsidType, HandlerType
<1>6. /\ obj'[n] = 0 /\ unpolled'[n] = 0
      /\ \A m \in Names \ {n} : obj'[m] = obj[m] /\ unpolled'[m] = unpolled[m]
  BY <1>1, <1>2 DEF OutsideType, GhostType, Set
<1>7. /\ \A i \in 1 .. Len(queue) : queue[i].name \in Names /\ queue[i].id \in 1 .. MaxId
      /\ remove.type = "remove" /\ remove.name = n /\ remove.id = obj[n]
  BY <1>1, MessageType, Bounds
<1>8. obj[n] \in subs[n] =>
        subs[n] = {obj[n]} /\ \A i \in 1 .. Len(queue) : ~IsRemove(i, n)
  BY <1>1 DEF QueueInv, RemoveInv, SubInv
<1> HIDE DEF remove
<1>9. ASSUME NEW m \in Names PROVE QueueInv(m)'
  <2>1. QueueInv(m)
    BY DEF IInv
  <2>2. CASE obj[n] \notin subs[n]
    <3>1. IdInv(m)' /\ RemoveInv(m)'
      BY <1>2, <1>4, <1>6, <1>7, <2>1, <2>2 DEF QueueInv, IdInv, RemoveInv, IsRemove
    <3>2. SubInv(m)'
      BY <1>2, <1>4, <1>6, <2>1, <2>2 DEF QueueInv, SubInv, IsRemove
    <3>3. QED
      BY <3>1, <3>2 DEF QueueInv
  <2>3. CASE obj[n] \in subs[n] /\ m # n
    <3>1. \A i \in 1 .. Len(queue') : queue'[i].name = m =>
            i \in 1 .. Len(queue) /\ queue'[i] = queue[i]
      BY <1>4, <1>7, <2>3
    <3>2. /\ obj'[m] = obj[m] /\ ids' = ids /\ subs' = subs /\ obj_id' = obj_id /\ to' = to
          /\ 1 .. Len(queue) \subseteq 1 .. Len(queue')
      BY <1>2, <1>4, <1>6, <2>3
    <3>3. IdInv(m)'
      BY <2>1, <3>1, <3>2 DEF QueueInv, IdInv
    <3>4. RemoveInv(m)'
      BY <2>1, <3>1, <3>2 DEF QueueInv, RemoveInv, IsRemove
    <3>5. SubInv(m)'
      BY <1>4, <2>1, <2>3, <3>2 DEF QueueInv, SubInv, IsRemove
    <3>6. QED
      BY <3>3, <3>4, <3>5 DEF QueueInv
  <2>4. CASE obj[n] \in subs[n] /\ m = n
    <3>1. /\ obj_id[n] <= obj[n] /\ to[n] <= obj[n] /\ obj[n] = ids[n]
          /\ \A i \in 1 .. Len(queue) : queue[i].name = n => queue[i].id <= obj[n]
      BY <1>1, <1>3 DEF QueueInv, IdInv
    <3>2. \A i \in 1 .. Len(queue') :
            \/ i \in 1 .. Len(queue) /\ queue'[i] = queue[i] /\ ~IsRemove(i, n)
            \/ i = Len(queue) + 1 /\ queue'[i] = remove
      BY <1>4, <1>8, <2>4
    <3>3. \A i \in 1 .. Len(queue) : queue[i].name = n => queue[i].type = "add"
      BY <1>1, <1>8, <2>4, MessageType DEF IsRemove
    <3>4. IdInv(n)'
      BY <1>2, <1>3, <1>6, <1>7, <3>1, <3>2 DEF IdInv
    <3>5. RemoveInv(n)'
      <4> SUFFICES ASSUME NEW i \in 1 .. Len(queue'), IsRemove(i, n)'
                   PROVE  /\ subs'[n] = {queue'[i].id} /\ obj'[n] # queue'[i].id
                          /\ obj_id'[n] <= queue'[i].id /\ to'[n] <= queue'[i].id
                          /\ \A j \in 1 .. Len(queue') : queue'[j].name = n /\ j # i =>
                               /\ queue'[j].type = "add"
                               /\ j < i => queue'[j].id <= queue'[i].id
        BY DEF RemoveInv
      <4>1. i = Len(queue) + 1 /\ queue'[i].id = obj[n]
        BY <1>7, <3>2 DEF IsRemove
      <4>2. \A j \in 1 .. Len(queue') : j # i => j \in 1 .. Len(queue) /\ queue'[j] = queue[j]
        BY <3>2, <4>1
      <4>3. QED
        BY <1>2, <1>6, <1>8, <2>4, <3>1, <3>3, <4>1, <4>2
    <3>6. SubInv(n)'
      <4>1. PICK i \in 1 .. Len(queue') : i = Len(queue) + 1
        BY <1>4, <2>4
      <4>2. IsRemove(i, n)'
        BY <1>4, <1>7, <2>4, <4>1 DEF IsRemove
      <4>3. QED
        BY <4>2 DEF SubInv
    <3>7. QED
      BY <2>4, <3>4, <3>5, <3>6 DEF QueueInv
  <2>5. QED
    BY <2>2, <2>3, <2>4
<1>10. ASSUME NEW m \in Names PROVE NodeInv(m)'
  <2>1. CASE m # n
    BY <1>2, <1>6, <2>1, NodeFrame DEF IInv, Cell
  <2>2. CASE m = n
    <3>1. ~Reached(n)' /\ ~Listing(n)'
      BY <1>1, <1>2, <1>6 DEF NodeInv, ReqInv, Reached, Listing
    <3>2. ReqInv(n)' /\ HandlerInv(n)' /\ LiveInv(n)'
      BY <1>1, <1>2 DEF NodeInv, ReqInv, HandlerInv, LiveInv
    <3>3. TimeInv(n)'
      BY <1>1, <1>2, <1>6, <3>1, Bounds DEF NodeInv, TimeInv, Prompt, LeadInv, PollInv, PollBound,
         Starting
    <3>4. QED
      BY <2>2, <3>2, <3>3 DEF NodeInv
  <2>3. QED
    BY <2>1, <2>2
<1>11. QED
  BY <1>5, <1>9, <1>10 DEF IInv

\* The rest of the queue, one place further on.
LEMMA TailOfQueue ==
  ASSUME OutsideType, queue # <<>>
  PROVE  /\ Tail(queue) \in Seq(Messages) /\ Head(queue) = queue[1]
         /\ Len(queue) \in Nat /\ Len(queue) >= 1 /\ Len(Tail(queue)) = Len(queue) - 1
         /\ \A i \in 1 .. Len(Tail(queue)) :
              Tail(queue)[i] = queue[i + 1] /\ i + 1 \in 1 .. Len(queue)
<1>1. queue \in Seq(Messages)
  BY DEF OutsideType
<1>2. Len(queue) \in Nat /\ Len(queue) # 0
  BY <1>1, EmptySeq, LenProperties
<1>3. /\ Tail(queue) \in Seq(Messages) /\ Head(queue) = queue[1]
      /\ Len(Tail(queue)) = Len(queue) - 1
      /\ \A i \in 1 .. Len(Tail(queue)) : Tail(queue)[i] = queue[i + 1]
  BY <1>1, <1>2, HeadTailProperties
<1>4. QED
  BY <1>2, <1>3

\* Without a removal on its way the freed node leaves nothing behind.
LEMMA FreeInv ==
  ASSUME IInv, NEW n \in Names, NEW rest \in Seq(Messages), usteer_free_node(n, rest),
         refused' \in [Names -> BOOLEAN],
         \/ rest = queue /\ \A i \in 1 .. Len(queue) : ~IsRemove(i, n)
         \/ rest = Tail(queue) /\ queue # <<>> /\ IsRemove(1, n)
  PROVE  IInv'
<1>1. /\ OutsideType /\ BookType /\ ChainType /\ TypeOK
  BY TypeParts DEF IInv
<1>2. /\ TypeOK' /\ NodeInv(n)'
      /\ \A m \in Names \ {n} : UNCHANGED Cell(m)
      /\ subs'[n] = {} /\ obj_id'[n] = 0 /\ to'[n] \in {to[n], 0}
      /\ queue' = rest /\ UNCHANGED <<obj, ids>>
  BY FreeNode
<1>3. PICK d \in {0, 1} :
        /\ IsRemove(1, n) \/ d = 0
        /\ Len(queue') = Len(queue) - d /\ Len(queue) \in Nat
        /\ \A i \in 1 .. Len(queue') : queue'[i] = queue[i + d] /\ i + d \in 1 .. Len(queue)
        /\ d = 1 => Len(queue) >= 1
  <2>1. CASE rest = queue
    <3>1. Len(queue) \in Nat
      BY <1>1, MessageType
    <3>2. QED
      BY <1>2, <2>1, <3>1
  <2>2. CASE rest = Tail(queue) /\ queue # <<>> /\ IsRemove(1, n)
    BY <1>1, <1>2, <2>2, TailOfQueue
  <2>3. QED
    BY <2>1, <2>2
<1>4. \A i \in 1 .. Len(queue') : ~IsRemove(i, n)'
  <2> SUFFICES ASSUME NEW i \in 1 .. Len(queue') PROVE ~IsRemove(i, n)'
    OBVIOUS
  <2>1. CASE rest = queue /\ \A j \in 1 .. Len(queue) : ~IsRemove(j, n)
    BY <1>2, <2>1 DEF IsRemove
  <2>2. CASE rest = Tail(queue) /\ queue # <<>> /\ IsRemove(1, n)
    <3>1. /\ queue'[i] = queue[i + 1] /\ i + 1 \in 1 .. Len(queue) /\ i + 1 # 1
          /\ 1 \in 1 .. Len(queue)
      <4>1. queue' = Tail(queue) /\ queue # <<>>
        BY <1>2, <2>2
      <4>2. /\ Len(queue) \in Nat /\ Len(queue) >= 1 /\ Len(queue') = Len(queue) - 1
            /\ \A j \in 1 .. Len(queue') : queue'[j] = queue[j + 1] /\ j + 1 \in 1 .. Len(queue)
        BY <1>1, <4>1, TailOfQueue
      <4>3. i \in Nat /\ i >= 1 /\ 1 \in 1 .. Len(queue)
        BY <4>2
      <4>4. QED
        BY <4>2, <4>3
    <3>2. RemoveInv(n)
      BY DEF IInv, QueueInv
    <3>3. queue[i + 1].name = n => queue[i + 1].type = "add"
      BY <2>2, <3>1, <3>2 DEF RemoveInv
    <3>4. QED
      BY <3>1, <3>3 DEF IsRemove
  <2>3. QED
    BY <2>1, <2>2
<1>5. ASSUME NEW m \in Names PROVE QueueInv(m)'
  <2>1. QueueInv(m)
    BY DEF IInv
  <2>2. /\ obj'[m] = obj[m] /\ ids'[m] = ids[m] /\ to'[m] \in {to[m], 0}
        /\ obj_id'[m] \in {obj_id[m], 0} /\ ids[m] \in Nat
    BY <1>1, <1>2, Bounds DEF Cell, OutsideType
  <2>3. IdInv(m)'
    <3>1. \A i \in 1 .. Len(queue') : queue'[i].name = m => queue'[i].id <= ids[m]
      BY <1>3, <2>1 DEF QueueInv, IdInv
    <3>2. obj[m] \in {0, ids[m]} /\ obj_id'[m] <= ids[m] /\ to'[m] <= ids[m]
      BY <2>1, <2>2 DEF QueueInv, IdInv
    <3>3. QED
      BY <2>2, <3>1, <3>2 DEF IdInv
  <2>4. CASE m = n
    <3>1. RemoveInv(n)' /\ SubInv(n)'
      BY <1>2, <1>4 DEF RemoveInv, SubInv
    <3>2. QED
      BY <2>3, <2>4, <3>1 DEF QueueInv
  <2>5. CASE m # n
    <3>1. subs'[m] = subs[m] /\ obj_id'[m] = obj_id[m] /\ to'[m] = to[m]
      BY <1>2, <2>5 DEF Cell
    <3>2. RemoveInv(m)'
      <4> SUFFICES ASSUME NEW i \in 1 .. Len(queue'), IsRemove(i, m)'
                   PROVE  /\ subs'[m] = {queue'[i].id} /\ obj'[m] # queue'[i].id
                          /\ obj_id'[m] <= queue'[i].id /\ to'[m] <= queue'[i].id
                          /\ \A j \in 1 .. Len(queue') : queue'[j].name = m /\ j # i =>
                               /\ queue'[j].type = "add"
                               /\ j < i => queue'[j].id <= queue'[i].id
        BY DEF RemoveInv
      <4>1. i + d \in 1 .. Len(queue) /\ IsRemove(i + d, m) /\ queue'[i] = queue[i + d]
        BY <1>3 DEF IsRemove
      <4>2. ASSUME NEW j \in 1 .. Len(queue'), queue'[j].name = m, j # i
            PROVE  queue'[j].type = "add" /\ (j < i => queue'[j].id <= queue'[i].id)
        <5>1. /\ j + d \in 1 .. Len(queue) /\ queue'[j] = queue[j + d]
              /\ j + d # i + d /\ (j < i => j + d < i + d)
          BY <1>3, <4>2
        <5>2. QED
          BY <2>1, <4>1, <4>2, <5>1 DEF QueueInv, RemoveInv
      <4>3. QED
        BY <2>1, <2>2, <3>1, <4>1, <4>2 DEF QueueInv, RemoveInv
    <3>3. SubInv(m)'
      <4> SUFFICES ASSUME \A i \in 1 .. Len(queue') : ~IsRemove(i, m)'
                   PROVE  subs[m] \subseteq {obj[m]}
        BY <2>2, <3>1 DEF SubInv
      <4>1. ASSUME NEW i \in 1 .. Len(queue) PROVE ~IsRemove(i, m)
        <5>1. CASE i <= d
          BY <1>3, <2>5, <5>1 DEF IsRemove
        <5>2. CASE i > d
          <6>1. i - d \in 1 .. Len(queue') /\ (i - d) + d = i
            BY <1>3, <5>2
          <6>2. PICK j \in 1 .. Len(queue') : j = i - d
            BY <6>1
          <6>3. ~IsRemove(j, m)' /\ queue'[j] = queue[i]
            BY <1>3, <6>1, <6>2
          <6>4. QED
            BY <6>3 DEF IsRemove
        <5>3. QED
          BY <5>1, <5>2
      <4>2. QED
        BY <2>1, <4>1 DEF QueueInv, SubInv
    <3>4. QED
      BY <2>3, <3>2, <3>3 DEF QueueInv
  <2>6. QED
    BY <2>4, <2>5
<1>6. ASSUME NEW m \in Names PROVE NodeInv(m)'
  BY <1>2, NodeFrame DEF IInv
<1>7. QED
  BY <1>2, <1>5, <1>6 DEF IInv

\* The node's object is gone (local_node.c:74-81).
LEMMA RemoveHandled ==
  ASSUME IInv, usteer_handle_remove
  PROVE  IInv'
<1>1. OutsideType /\ GhostType
  BY TypeParts DEF IInv
<1>2. /\ queue # <<>> /\ queue[1].type = "remove" /\ Tail(queue) \in Seq(Messages)
      /\ Head(queue) = queue[1] /\ 1 \in 1 .. Len(queue)
      /\ usteer_free_node(queue[1].name, Tail(queue)) /\ refused' \in [Names -> BOOLEAN]
  BY <1>1, TailOfQueue DEF usteer_handle_remove, GhostType
<1>3. queue[1].name \in Names /\ IsRemove(1, queue[1].name)
  BY <1>1, <1>2, MessageType DEF IsRemove
<1>4. QED
  BY <1>2, <1>3, FreeInv

\* hostapd answers rrm_nr_get_own: the object is there, and the node would have been
\* told of its predecessor's removal before (local_node.c:295-328).
LEMMA RrmInv ==
  ASSUME IInv, NEW n \in Names, usteer_local_node_rrm_nr_cb(n)
  PROVE  IInv'
<1>1. Answerable(n) /\ req_state[n] = REQ_RRM_GET_OWN
  BY DEF usteer_local_node_rrm_nr_cb
<1>2. CASE usteer_free_node(n, queue) /\ refused' = Set(refused, n, TRUE)
  <2>1. /\ OutsideType /\ ChainType /\ QueueInv(n) /\ queue \in Seq(Messages)
        /\ refused' \in [Names -> BOOLEAN]
    BY <1>2, TypeParts DEF IInv, OutsideType, GhostType, Set
  <2>2. ASSUME NEW i \in 1 .. Len(queue), IsRemove(i, n) PROVE FALSE
    <3>1. obj[n] # queue[i].id /\ to[n] <= queue[i].id /\ queue[i].id <= ids[n]
      BY <2>1, <2>2 DEF QueueInv, RemoveInv, IdInv, IsRemove
    <3>2. to[n] = ids[n] /\ obj[n] = ids[n] /\ ids[n] \in Nat
      BY <1>1, <2>1, Bounds DEF Answerable, QueueInv, IdInv, OutsideType
    <3>3. queue[i].id \in Nat
      BY <2>1, MessageType, Bounds
    <3>4. QED
      BY <3>1, <3>2, <3>3
  <2>3. QED
    BY <1>2, <2>1, <2>2, FreeInv
<1>3. CASE /\ req' = Set(req, n, "answered") /\ rrm_nr' = Set(rrm_nr, n, TRUE)
           /\ UNCHANGED <<outside, live, obj_id, subs, update, req_timer, req_state, to, nbrs,
                          waited, handlers, unpolled, refused>>
  <2>1. req_state[n] # REQ_CLIENTS
    BY <1>1 DEF REQ_RRM_GET_OWN, REQ_CLIENTS
  <2>2. QED
    BY <1>1, <1>3, <2>1, AnswerInv DEF outside
<1>4. QED
  BY <1>2, <1>3 DEF usteer_local_node_rrm_nr_cb

\* An announcement makes the node or renews its subscription (local_node.c:474-548).
LEMMA RegisterInv ==
  ASSUME IInv, usteer_register_node
  PROVE  IInv'
<1>1. /\ OutsideType /\ BookType /\ ChainType /\ SsidType /\ HandlerType /\ GhostType /\ TypeOK
  BY TypeParts DEF IInv
<1>2. /\ queue # <<>> /\ Head(queue) = queue[1] /\ queue[1].type = "add"
      /\ Len(queue) \in Nat /\ 1 \in 1 .. Len(queue)
  BY <1>1, TailOfQueue DEF usteer_register_node
<1>3. PICK n \in Names, k \in 1 .. MaxId : n = queue[1].name /\ k = queue[1].id
  BY <1>1, <1>2, MessageType
<1>4. PICK found \in BOOLEAN :
        /\ queue' = Tail(queue)
        /\ usteer_get_node(n)
        /\ obj_id' = Set(obj_id, n, k)
        /\ subs' = IF obj[n] = k THEN Set(subs, n, subs[n] \cup {k}) ELSE subs
        /\ InterfaceStays /\ live[n] /\ present[n] => found
        /\ nl80211_init_node(n, found)
        /\ netifd_update_node(n, FALSE)
        /\ unpolled' = Set(unpolled, n, 0) /\ refused' = Set(refused, n, FALSE)
        /\ UNCHANGED <<obj, ids, remote, list, req_timer, req_state, req, to, nbrs, waited, rrm_nr>>
  <2>1. InterfaceFound \subseteq BOOLEAN
    BY LocalNodeAssumption
  <2>2. QED
    BY <1>2, <1>3, <2>1 DEF usteer_register_node
<1>5. /\ Len(queue') = Len(queue) - 1 /\ queue' \in Seq(Messages)
      /\ \A i \in 1 .. Len(queue') : queue'[i] = queue[i + 1] /\ i + 1 \in 1 .. Len(queue)
  BY <1>1, <1>2, <1>4, TailOfQueue
<1>6. QueueInv(n) /\ NodeInv(n)
  BY DEF IInv
<1>7. /\ nf_pending' \in [Names -> BOOLEAN] /\ nf_req' \in [Names -> {"none", "sent", "answered"}]
      /\ nf_complete' \in [Names -> BOOLEAN]
      /\ nf_req'[n] = "sent" => nf_pending'[n]
      /\ \A m \in Names \ {n} : nf_req'[m] = nf_req[m] /\ nf_pending'[m] = nf_pending[m]
  BY <1>1, <1>4, <1>6, NetifdUpdate DEF NodeInv, HandlerInv
<1>8. /\ present' \in [Names -> BOOLEAN] /\ nl_timer' \in [Names -> BOOLEAN]
      /\ present'[n] = found /\ nl_timer'[n] = (nl_timer[n] \/ found)
      /\ \A m \in Names \ {n} : present'[m] = present[m] /\ nl_timer'[m] = nl_timer[m]
  BY <1>1, <1>4 DEF HandlerType, nl80211_init_node, Set
<1>9. /\ live' \in [Names -> BOOLEAN] /\ update' \in [Names -> -1 .. local_sta_update]
      /\ live'[n] /\ update'[n] = (IF live[n] THEN update[n] ELSE 1)
      /\ \A m \in Names \ {n} : live'[m] = live[m] /\ update'[m] = update[m]
  <2>1. CASE live[n]
    BY <1>1, <1>4, <2>1 DEF BookType, ChainType, usteer_get_node
  <2>2. CASE ~live[n]
    <3>1. live' = Set(live, n, TRUE) /\ update' = Set(update, n, 1)
      BY <1>4, <2>2 DEF usteer_get_node
    <3>2. 1 \in -1 .. local_sta_update
      BY Bounds
    <3>3. live' \in [Names -> BOOLEAN] /\ live'[n] /\ \A m \in Names \ {n} : live'[m] = live[m]
      BY <1>1, <3>1 DEF BookType, Set
    <3>4. /\ update' \in [Names -> -1 .. local_sta_update] /\ update'[n] = 1
          /\ \A m \in Names \ {n} : update'[m] = update[m]
      BY <1>1, <3>1, <3>2 DEF ChainType, Set
    <3>5. QED
      BY <2>2, <3>3, <3>4
  <2>3. QED
    BY <2>1, <2>2
<1>10. /\ obj_id' \in [Names -> 0 .. MaxId] /\ obj_id'[n] = k
       /\ subs' \in [Names -> SUBSET (1 .. MaxId)]
       /\ subs'[n] = IF obj[n] = k THEN subs[n] \cup {k} ELSE subs[n]
       /\ \A m \in Names \ {n} : obj_id'[m] = obj_id[m] /\ subs'[m] = subs[m]
  <2>1. k \in 0 .. MaxId /\ subs[n] \cup {k} \in SUBSET (1 .. MaxId)
    BY <1>1, Bounds DEF BookType
  <2>2. obj_id' \in [Names -> 0 .. MaxId] /\ obj_id'[n] = k /\ \A m \in Names \ {n} : obj_id'[m] = obj_id[m]
    BY <1>1, <1>4, <2>1 DEF BookType, Set
  <2>3. /\ subs' \in [Names -> SUBSET (1 .. MaxId)]
        /\ subs'[n] = IF obj[n] = k THEN subs[n] \cup {k} ELSE subs[n]
        /\ \A m \in Names \ {n} : subs'[m] = subs[m]
    BY <1>1, <1>4, <2>1 DEF BookType, Set
  <2>4. QED
    BY <2>2, <2>3
<1>11. unpolled' \in [Names -> 0 .. PollBound + 2] /\ unpolled'[n] = 0
       /\ \A m \in Names \ {n} : unpolled'[m] = unpolled[m]
  BY <1>1, <1>4, Bounds DEF GhostType, Set
<1>12. TypeOK'
  <2>1. SsidType'
    <3>1. Ssid[n] \in Ssids
      BY DEF Ssids
    <3>2. CASE ssid' = ssid
      BY <1>1, <1>4, <3>2 DEF SsidType
    <3>3. CASE ssid' = Set(ssid, n, Ssid[n])
      BY <1>1, <1>4, <3>1, <3>3 DEF SsidType, Set
    <3>4. QED
      BY <1>4, <3>2, <3>3 DEF nl80211_init_node
  <2>2. OutsideType' /\ BookType' /\ ChainType'
    BY <1>1, <1>4, <1>5, <1>9, <1>10 DEF OutsideType, Messages, BookType, ChainType
  <2>3. HandlerType' /\ GhostType'
    <3>1. refused' \in [Names -> BOOLEAN]
      BY <1>1, <1>4 DEF GhostType, Set
    <3>2. QED
      BY <1>7, <1>8, <1>11, <3>1 DEF HandlerType, GhostType, PollBound
  <2>4. QED
    BY <2>1, <2>2, <2>3, TypeParts
<1>13. NodeInv(n)'
  <2>1. ReqInv(n)'
    BY <1>4, <1>6 DEF NodeInv, ReqInv
  <2>2. HandlerInv(n)'
    BY <1>4, <1>6, <1>7, <1>8 DEF NodeInv, HandlerInv, LiveInv
  <2>3. LiveInv(n)'
    BY <1>6, <1>9, <1>10, Bounds DEF NodeInv, LiveInv, NotArmed
  <2>4. TimeInv(n)'
    <3> SUFFICES ASSUME Prompt PROVE LeadInv(n)' /\ PollInv(n)'
      BY DEF TimeInv, Prompt
    <3>1. LeadInv(n)
      BY <1>6 DEF NodeInv, TimeInv
    <3>2. /\ Starting(n)' = Starting(n) /\ Listing(n)' = Listing(n)
          /\ Starting(n) \/ Listing(n) => live[n]
      BY <1>4, <1>6 DEF Starting, Listing, NodeInv, LiveInv
    <3>3. LeadInv(n)'
      BY <1>4, <1>9, <3>1, <3>2 DEF LeadInv
    <3>4. Left(n)' <= PollBound /\ Left(n)' \in Int
      <4>1. update'[n] \in -1 .. local_sta_update
        BY <1>9
      <4>2. req_timer'[n] \in -1 .. 1 /\ waited'[n] \in 0 .. MaxLatency
        BY <1>1, <1>4, Values
      <4>3. QED
        BY <4>1, <4>2, Bounds DEF Left
    <3>5. QED
      BY <1>11, <3>3, <3>4, Bounds DEF PollInv, PollBound
  <2>5. QED
    BY <2>1, <2>2, <2>3, <2>4 DEF NodeInv
<1>14. ASSUME NEW m \in Names PROVE NodeInv(m)'
  <2>1. CASE m # n
    <3>1. UNCHANGED Cell(m)
      BY <1>4, <1>7, <1>8, <1>9, <1>10, <1>11, <2>1 DEF Cell
    <3>2. QED
      BY <3>1, NodeFrame DEF IInv
  <2>2. QED
    BY <1>13, <2>1
<1>15. ASSUME NEW m \in Names PROVE QueueInv(m)'
  <2>1. QueueInv(m)
    BY DEF IInv
  <2>2. IdInv(m)'
    <3>1. k <= ids[n]
      BY <1>2, <1>3, <1>6 DEF QueueInv, IdInv
    <3>2. obj_id'[m] <= ids[m]
      BY <1>10, <2>1, <3>1 DEF QueueInv, IdInv
    <3>3. QED
      BY <1>4, <1>5, <2>1, <3>2 DEF QueueInv, IdInv
  <2>3. RemoveInv(m)'
    <3> SUFFICES ASSUME NEW i \in 1 .. Len(queue'), IsRemove(i, m)'
                 PROVE  /\ subs'[m] = {queue'[i].id} /\ obj'[m] # queue'[i].id
                        /\ obj_id'[m] <= queue'[i].id /\ to'[m] <= queue'[i].id
                        /\ \A j \in 1 .. Len(queue') : queue'[j].name = m /\ j # i =>
                             /\ queue'[j].type = "add"
                             /\ j < i => queue'[j].id <= queue'[i].id
      BY DEF RemoveInv
    <3>1. i + 1 \in 1 .. Len(queue) /\ IsRemove(i + 1, m) /\ queue'[i] = queue[i + 1]
      BY <1>5 DEF IsRemove
    <3>2. /\ subs[m] = {queue'[i].id} /\ obj[m] # queue'[i].id
          /\ obj_id[m] <= queue'[i].id /\ to[m] <= queue'[i].id
      BY <2>1, <3>1 DEF QueueInv, RemoveInv
    <3>3. ASSUME NEW j \in 1 .. Len(queue'), queue'[j].name = m, j # i
          PROVE  queue'[j].type = "add" /\ (j < i => queue'[j].id <= queue'[i].id)
      <4>1. /\ j + 1 \in 1 .. Len(queue) /\ queue'[j] = queue[j + 1]
            /\ j + 1 # i + 1 /\ (j < i => j + 1 < i + 1)
        BY <1>5, <3>3
      <4>2. QED
        BY <2>1, <3>1, <3>3, <4>1 DEF QueueInv, RemoveInv
    <3>4. m = n => k <= queue'[i].id /\ obj[n] # k
      <4> SUFFICES ASSUME m = n PROVE k <= queue'[i].id /\ obj[n] # k
        OBVIOUS
      <4>1. 1 # i + 1 /\ 1 < i + 1
        BY <1>5
      <4>2. k <= queue'[i].id
        BY <1>2, <1>3, <2>1, <3>1, <4>1 DEF QueueInv, RemoveInv
      <4>3. queue'[i].id <= ids[n] /\ queue'[i].id \in Nat
        BY <1>1, <2>1, <3>1, MessageType, Bounds DEF QueueInv, IdInv, IsRemove
      <4>4. obj[n] \in {0, ids[n]} /\ obj[n] # queue'[i].id /\ ids[n] \in Nat
        BY <1>1, <2>1, <3>2, Bounds DEF QueueInv, IdInv, OutsideType
      <4>5. QED
        BY <4>2, <4>3, <4>4
    <3>5. subs'[m] = subs[m] /\ obj_id'[m] <= queue'[i].id
      BY <1>10, <3>2, <3>4
    <3>6. QED
      BY <1>4, <3>2, <3>3, <3>5
  <2>4. SubInv(m)'
    <3> SUFFICES ASSUME \A i \in 1 .. Len(queue') : ~IsRemove(i, m)'
                 PROVE  subs'[m] \subseteq {obj[m]}
      BY <1>4 DEF SubInv
    <3>1. ASSUME NEW i \in 1 .. Len(queue) PROVE ~IsRemove(i, m)
      <4>1. CASE i = 1
        BY <1>2, <4>1 DEF IsRemove
      <4>2. CASE i > 1
        <5>1. PICK j \in 1 .. Len(queue') : j = i - 1
          BY <1>2, <1>5, <4>2
        <5>2. ~IsRemove(j, m)' /\ queue'[j] = queue[i]
          BY <1>5, <5>1
        <5>3. QED
          BY <5>2 DEF IsRemove
      <4>3. QED
        BY <4>1, <4>2
    <3>2. subs[m] \subseteq {obj[m]}
      BY <2>1, <3>1 DEF QueueInv, SubInv
    <3>3. QED
      BY <1>10, <3>2
  <2>5. QED
    BY <2>2, <2>3, <2>4 DEF QueueInv
<1>16. QED
  BY <1>12, <1>14, <1>15 DEF IInv

-----------------------------------------------------------------------------
(* The theorems.                                                            *)

\* At the start there are no nodes.
LEMMA InitInv == Init => IInv
<1> SUFFICES ASSUME Init PROVE IInv
  OBVIOUS
<1>1. TypeOK
  <2>1. /\ 0 \in 0 .. MaxId /\ 0 \in 0 .. MaxLatency /\ 0 \in 0 .. PollBound + 2
        /\ NotArmed \in -1 .. local_sta_update /\ NotArmed \in -1 .. 1 /\ REQ_IDLE \in 0 .. 3
    BY Bounds DEF NotArmed, REQ_IDLE
  <2>2. OutsideType
    BY <2>1, EmptySeq DEF Init, OutsideType
  <2>3. BookType /\ ChainType /\ SsidType /\ HandlerType /\ GhostType
    BY <2>1 DEF Init, BookType, ChainType, SsidType, HandlerType, GhostType
  <2>4. QED
    BY <2>2, <2>3, TypeParts
<1>2. ASSUME NEW n \in Names PROVE QueueInv(n) /\ NodeInv(n)
  <2>1. QueueInv(n)
    <3>1. 1 .. Len(queue) = {}
      <4>1. Len(queue) = 0
        BY EmptySeq DEF Init
      <4>2. QED
        BY <4>1
    <3>2. obj[n] = 0 /\ ids[n] = 0 /\ obj_id[n] = 0 /\ to[n] = 0 /\ subs[n] = {}
      BY DEF Init
    <3>3. QED
      BY <3>1, <3>2 DEF QueueInv, IdInv, RemoveInv, SubInv
  <2>2. ReqInv(n) /\ HandlerInv(n) /\ LiveInv(n)
    BY DEF Init, ReqInv, HandlerInv, LiveInv
  <2>3. LeadInv(n) /\ PollInv(n)
    <3>1. ~Starting(n) /\ ~Listing(n)
      BY DEF Init, Starting, Listing
    <3>2. ~Reached(n) /\ unpolled[n] = 0
      BY DEF Init, Reached
    <3>3. QED
      BY <3>1, <3>2, Bounds DEF LeadInv, PollInv
  <2>4. QED
    BY <2>1, <2>2, <2>3 DEF NodeInv, TimeInv
<1>3. QED
  BY <1>1, <1>2 DEF IInv

LEMMA StutterInv == IInv /\ UNCHANGED vars => IInv'
<1> SUFFICES ASSUME IInv, UNCHANGED vars PROVE IInv'
  OBVIOUS
<1>1. UNCHANGED <<obj, ids, queue, obj_id, subs, to>> /\ \A n \in Names : UNCHANGED Cell(n)
  BY DEF vars, outside, chain, handlers, Cell
<1>2. TypeOK'
  BY DEF IInv, TypeOK, vars, outside, chain, handlers, PollBound
<1>3. QED
  BY <1>1, <1>2, QueueFrame, NodeFrame DEF IInv

LEMMA NextInv == IInv /\ [Next]_vars => IInv'
<1> SUFFICES ASSUME IInv, Next PROVE IInv'
  BY StutterInv
<1>1. ASSUME NEW n \in Names, ObjectAdded(n) \/ ObjectRemoved(n) \/ netifd_status_cb(n) \/
                              NetifdStatus(n)
      PROVE  IInv'
  BY <1>1, AddedInv, RemovedInv, StatusInv
<1>2. ASSUME NEW n \in Names, usteer_local_node_list_cb(n) PROVE IInv'
  BY <1>2, AnswerInv DEF usteer_local_node_list_cb, outside
<1>3. ASSUME NEW n \in Names, HostapdSetList(n) PROVE IInv'
  <2>1. req_state[n] # REQ_CLIENTS
    BY <1>3 DEF HostapdSetList, REQ_RRM_SET_LIST, REQ_CLIENTS
  <2>2. QED
    BY <1>3, <2>1, AnswerInv DEF HostapdSetList
<1>4. ASSUME NEW n \in Names, Serve(n) PROVE IInv'
  BY <1>2, <1>3, <1>4, UpdateInv, StateNextInv, RrmInv, ReqCbInv DEF Serve
<1>5. QED
  BY <1>1, <1>4, RegisterInv, RemoveHandled, RemoteInv, TickInv DEF Next, HandleUbus

\* local_node.c:44-548: the inductive invariant always holds.
THEOREM InvariantHolds == Spec => []IInv
<1>1. IInv /\ [Next]_vars => IInv'
  BY NextInv
<1>2. QED
  BY <1>1, InitInv, PTL DEF Spec

\* Types of nodes, requests and messages, among them that req_state stays within its
\* enumeration (local_node.c:371-404).
THEOREM TypeCorrect == Spec => []TypeOK
<1>1. IInv => TypeOK
  BY DEF IInv
<1>2. QED
  BY <1>1, InvariantHolds, PTL

\* local_node.c:371-427: the one struct ubus_request of a node is not used again while
\* it is on the wire, in whatever order updates, answers, errors and removals come.
THEOREM RequestsAreNotReused == Spec => []RequestIsNotReused
<1>1. IInv => RequestIsNotReused
  BY DEF IInv, NodeInv, ReqInv, RequestIsNotReused
<1>2. QED
  BY <1>1, InvariantHolds, PTL

\* local_node.c:54-72: nothing calls back into a freed node, and ubus has no removal left
\* for its subscriber, if an interface that nl80211 has found is found again.  A netifd
\* request whose data has come may still wait for its status, which calls nobody back
\* (netifd.c:99, 141).
THEOREM FreedNodesStaySilent ==
  ASSUME InterfaceStays
  PROVE  Spec => []FreedNodesAreSilent
<1>1. IInv => FreedNodesAreSilent
  <2> SUFFICES ASSUME IInv, NEW n \in Names, ~live[n]
               PROVE  /\ update[n] = NotArmed /\ req_timer[n] = NotArmed /\ ~nl_timer[n]
                      /\ req[n] = "none" /\ nf_req[n] # "sent" /\ subs[n] = {}
                      /\ \A i \in 1 .. Len(queue) : queue[i].name = n => queue[i].type = "add"
    BY DEF FreedNodesAreSilent
  <2>1. NodeInv(n) /\ QueueInv(n) /\ OutsideType
    BY TypeParts DEF IInv
  <2>2. /\ update[n] = NotArmed /\ req_timer[n] = NotArmed /\ ~nl_timer[n]
        /\ req[n] = "none" /\ nf_req[n] # "sent" /\ subs[n] = {}
    BY <2>1 DEF NodeInv, LiveInv, HandlerInv
  <2>3. ASSUME NEW i \in 1 .. Len(queue), queue[i].name = n PROVE queue[i].type = "add"
    BY <2>1, <2>2, <2>3, MessageType DEF QueueInv, RemoveInv, IsRemove
  <2>4. QED
    BY <2>2, <2>3
<1>2. QED
  BY <1>1, InvariantHolds, PTL

\* local_node.c:371-427: if hostapd answers before the next update, the clients are listed
\* at least every local_sta_update milliseconds and the time of one request, although the
\* update aborts whatever is under way and objects are replaced meanwhile.
THEOREM ClientsAreListedInTime ==
  ASSUME MaxLatency + 1 < local_sta_update
  PROVE  Spec => []ClientsAreListed
<1>1. IInv => ClientsAreListed
  BY DEF IInv, NodeInv, TimeInv, Prompt, PollInv, ClientsAreListed
<1>2. QED
  BY <1>1, InvariantHolds, PTL

-----------------------------------------------------------------------------
(* In step with hostapd.  What usteerd will know of an object when the      *)
(* queue is served is what the newest event about it says: of an object     *)
(* that is there, that it was announced; of one that has gone, that it was  *)
(* removed or could no longer be subscribed to.                             *)

Newest(i, n) ==
  queue[i].name = n /\ \A j \in 1 .. Len(queue) : j > i => queue[j].name # n

NewestInv(n) ==
  \A i \in 1 .. Len(queue) : Newest(i, n) =>
    IF obj[n] = 0 THEN queue[i].type = "add" => queue[i].id \notin subs[n]
    ELSE queue[i].type = "add" /\ queue[i].id = obj[n]

NoNews(n) == \A i \in 1 .. Len(queue) : queue[i].name # n

FollowInv(n) == NewestInv(n) /\ (NoNews(n) => InStep(n))

\* What InStep reads of a node.
Picture(n) == <<obj[n], live[n], obj_id[n], subs[n], refused[n]>>

\* Steps between events.
LEMMA FollowFrame ==
  ASSUME NEW m \in Names, FollowInv(m), queue' = queue, UNCHANGED Picture(m)
  PROVE  FollowInv(m)'
BY DEF FollowInv, NewestInv, Newest, NoNews, InStep, Reached, Picture

\* Delivering an event moves the others one place forward.
LEMMA Delivered ==
  ASSUME OutsideType, queue # <<>>, queue' = Tail(queue), NEW m \in Names
  PROVE  /\ \A i \in 1 .. Len(queue') : /\ queue'[i] = queue[i + 1] /\ i + 1 \in 1 .. Len(queue)
                                        /\ Newest(i, m)' => Newest(i + 1, m)
         /\ NoNews(m)' => NoNews(m) \/ Newest(1, m)
         /\ 1 \in 1 .. Len(queue) /\ Head(queue) = queue[1]
<1>1. /\ Len(queue) \in Nat /\ Len(queue) >= 1 /\ Len(queue') = Len(queue) - 1
      /\ \A i \in 1 .. Len(queue') : queue'[i] = queue[i + 1] /\ i + 1 \in 1 .. Len(queue)
      /\ Head(queue) = queue[1]
  BY TailOfQueue
<1>2. ASSUME NEW j \in 2 .. Len(queue)
      PROVE  j - 1 \in 1 .. Len(queue') /\ queue'[j - 1] = queue[j]
  <2>1. j - 1 \in 1 .. Len(queue') /\ (j - 1) + 1 = j
    BY <1>1
  <2>2. QED
    BY <1>1, <2>1
<1>3. ASSUME NEW i \in 1 .. Len(queue'), Newest(i, m)' PROVE Newest(i + 1, m)
  <2>1. queue[i + 1].name = m
    BY <1>1, <1>3 DEF Newest
  <2>2. ASSUME NEW j \in 1 .. Len(queue), j > i + 1 PROVE queue[j].name # m
    <3>1. j \in 2 .. Len(queue) /\ j - 1 > i
      BY <1>1, <2>2
    <3>2. QED
      BY <1>2, <1>3, <3>1 DEF Newest
  <2>3. QED
    BY <2>1, <2>2 DEF Newest
<1>4. ASSUME NoNews(m)' PROVE NoNews(m) \/ Newest(1, m)
  <2>1. \A j \in 1 .. Len(queue) : j > 1 => queue[j].name # m
    <3> SUFFICES ASSUME NEW j \in 1 .. Len(queue), j > 1 PROVE queue[j].name # m
      OBVIOUS
    <3>1. j \in 2 .. Len(queue)
      BY <1>1
    <3>2. QED
      BY <1>2, <1>4, <3>1 DEF NoNews
  <2>2. CASE queue[1].name = m
    BY <2>1, <2>2 DEF Newest
  <2>3. CASE queue[1].name # m
    <3>1. \A j \in 1 .. Len(queue) : j = 1 \/ j > 1
      BY <1>1
    <3>2. QED
      BY <2>1, <2>3, <3>1 DEF NoNews
  <2>4. QED
    BY <2>2, <2>3
<1>5. QED
  BY <1>1, <1>3, <1>4

\* Delivering an event about another object.
LEMMA DeliveredToOther ==
  ASSUME OutsideType, queue # <<>>, queue' = Tail(queue), NEW m \in Names, FollowInv(m),
         queue[1].name # m, UNCHANGED Picture(m)
  PROVE  FollowInv(m)'
<1>1. /\ \A i \in 1 .. Len(queue') : /\ queue'[i] = queue[i + 1] /\ i + 1 \in 1 .. Len(queue)
                                     /\ Newest(i, m)' => Newest(i + 1, m)
      /\ NoNews(m)' => NoNews(m)
  BY Delivered DEF Newest
<1>2. NewestInv(m)'
  <2> SUFFICES ASSUME NEW i \in 1 .. Len(queue'), Newest(i, m)'
               PROVE  IF obj'[m] = 0 THEN queue'[i].type = "add" => queue'[i].id \notin subs'[m]
                      ELSE queue'[i].type = "add" /\ queue'[i].id = obj'[m]
    BY DEF NewestInv
  <2>1. Newest(i + 1, m) /\ i + 1 \in 1 .. Len(queue) /\ queue'[i] = queue[i + 1]
    BY <1>1
  <2>2. QED
    BY <2>1 DEF FollowInv, NewestInv, Picture
<1>3. NoNews(m)' => InStep(m)'
  BY <1>1 DEF FollowInv, InStep, Reached, Picture
<1>4. QED
  BY <1>2, <1>3 DEF FollowInv

\* A new event at the end of the queue is the newest about its object.
LEMMA Announced ==
  ASSUME OutsideType, NEW n \in Names, NEW event, event.name = n,
         Len(queue') \in Nat, Len(queue') > Len(queue),
         \A i \in 1 .. Len(queue) : queue'[i] = queue[i],
         \A i \in 1 .. Len(queue') : i > Len(queue) => queue'[i] = event
  PROVE  /\ \A i \in 1 .. Len(queue') : Newest(i, n)' => queue'[i] = event
         /\ ~NoNews(n)'
         /\ \A m \in Names \ {n} : FollowInv(m) /\ UNCHANGED Picture(m) => FollowInv(m)'
<1>1. Len(queue) \in Nat
  BY MessageType
<1>2. Len(queue') \in 1 .. Len(queue') /\ queue'[Len(queue')].name = n
  BY <1>1
<1>3. ASSUME NEW i \in 1 .. Len(queue'), Newest(i, n)' PROVE queue'[i] = event
  <2>1. ~(Len(queue') > i)
    BY <1>2, <1>3 DEF Newest
  <2>2. i > Len(queue)
    BY <1>1, <2>1
  <2>3. QED
    BY <2>2
<1>4. ASSUME NEW m \in Names \ {n}, FollowInv(m), UNCHANGED Picture(m) PROVE FollowInv(m)'
  <2>1. ASSUME NEW i \in 1 .. Len(queue'), queue'[i].name = m
        PROVE  i \in 1 .. Len(queue) /\ queue'[i] = queue[i]
    <3>1. i \in 1 .. Len(queue)
      BY <1>1, <2>1
    <3>2. QED
      BY <3>1
  <2>2. \A i \in 1 .. Len(queue) : i \in 1 .. Len(queue')
    BY <1>1
  <2>3. NewestInv(m)'
    <3> SUFFICES ASSUME NEW i \in 1 .. Len(queue'), Newest(i, m)'
                 PROVE  IF obj'[m] = 0
                        THEN queue'[i].type = "add" => queue'[i].id \notin subs'[m]
                        ELSE queue'[i].type = "add" /\ queue'[i].id = obj'[m]
      BY DEF NewestInv
    <3>1. i \in 1 .. Len(queue) /\ queue'[i] = queue[i]
      BY <2>1 DEF Newest
    <3>2. Newest(i, m)
      BY <2>2, <3>1 DEF Newest
    <3>3. QED
      BY <1>4, <3>1, <3>2 DEF FollowInv, NewestInv, Picture
  <2>4. NoNews(m)' => InStep(m)'
    <3>1. NoNews(m)' => NoNews(m)
      BY <2>2 DEF NoNews
    <3>2. QED
      BY <1>4, <3>1 DEF FollowInv, InStep, Reached, Picture
  <2>5. QED
    BY <2>3, <2>4 DEF FollowInv
<1>5. QED
  BY <1>2, <1>3, <1>4 DEF NoNews

\* hostapd's object appears (local_node.c:474-515).
LEMMA AddedFollow ==
  ASSUME IInv, NEW n \in Names, ObjectAdded(n), NEW m \in Names, FollowInv(m)
  PROVE  FollowInv(m)'
<1> DEFINE k == ids[n] + 1
           add == [type |-> "add", name |-> n, id |-> k]
<1>1. OutsideType /\ TypeOK
  BY TypeParts DEF IInv
<1>2. /\ obj' = Set(obj, n, k) /\ ids[n] < MaxId
      /\ queue' = Append(queue, add) \/ queue' = queue \o <<add, add>>
      /\ UNCHANGED <<live, obj_id, subs, refused>>
  BY DEF ObjectAdded
<1>3. k \in 1 .. MaxId /\ add \in Messages
  BY <1>1, <1>2, Bounds DEF OutsideType, Messages
<1>4. add.name = n /\ add.type = "add" /\ add.id = k /\ k # 0
  BY <1>3
<1>5. obj'[n] = k /\ \A l \in Names \ {n} : UNCHANGED Picture(l)
  BY <1>1, <1>2 DEF OutsideType, Set, Picture
<1> HIDE DEF k, add
<1>6. /\ Len(queue') \in Nat /\ Len(queue') > Len(queue)
      /\ \A i \in 1 .. Len(queue) : queue'[i] = queue[i]
      /\ \A i \in 1 .. Len(queue') : i > Len(queue) => queue'[i] = add
  <2>1. queue \in Seq(Messages)
    BY <1>1 DEF OutsideType
  <2>2. CASE queue' = Append(queue, add)
    BY <1>3, <2>1, <2>2, AppendProperties, LenProperties
  <2>3. CASE queue' = queue \o <<add, add>>
    <3>1. <<add, add>> \in Seq(Messages) /\ Len(<<add, add>>) = 2
      BY <1>3
    <3>2. <<add, add>>[1] = add /\ <<add, add>>[2] = add
      OBVIOUS
    <3>3. QED
      BY <2>1, <2>3, <3>1, <3>2, ConcatProperties, LenProperties
  <2>4. QED
    BY <1>2, <2>2, <2>3
<1>7. /\ \A i \in 1 .. Len(queue') : Newest(i, n)' => queue'[i] = add
      /\ ~NoNews(n)'
      /\ \A l \in Names \ {n} : FollowInv(l) /\ UNCHANGED Picture(l) => FollowInv(l)'
  BY <1>1, <1>4, <1>6, Announced
<1>8. CASE m = n
  BY <1>4, <1>5, <1>7, <1>8 DEF FollowInv, NewestInv
<1>9. QED
  BY <1>5, <1>7, <1>8

\* hostapd's object goes; only a subscriber is told (local_node.c:74-81).
LEMMA RemovedFollow ==
  ASSUME IInv, NEW n \in Names, ObjectRemoved(n), NEW m \in Names, FollowInv(m)
  PROVE  FollowInv(m)'
<1> DEFINE remove == [type |-> "remove", name |-> n, id |-> obj[n]]
<1>1. OutsideType /\ queue \in Seq(Messages)
  BY TypeParts DEF IInv, OutsideType
<1>2. /\ obj[n] # 0 /\ obj' = Set(obj, n, 0)
      /\ queue' = IF obj[n] \in subs[n] THEN Append(queue, remove) ELSE queue
      /\ UNCHANGED <<live, obj_id, subs, refused>>
  BY DEF ObjectRemoved
<1>3. obj'[n] = 0 /\ \A l \in Names \ {n} : UNCHANGED Picture(l)
  BY <1>1, <1>2 DEF OutsideType, Set, Picture
<1>4. CASE obj[n] \in subs[n]
  <2>1. remove \in Messages /\ remove.name = n /\ remove.type = "remove"
    <3>1. obj[n] \in 1 .. MaxId
      BY <1>1, <1>2, Bounds DEF OutsideType
    <3>2. QED
      BY <3>1 DEF Messages
  <2> HIDE DEF remove
  <2>2. /\ Len(queue') \in Nat /\ Len(queue') > Len(queue)
        /\ \A i \in 1 .. Len(queue) : queue'[i] = queue[i]
        /\ \A i \in 1 .. Len(queue') : i > Len(queue) => queue'[i] = remove
    BY <1>1, <1>2, <1>4, <2>1, AppendProperties, LenProperties
  <2>3. /\ \A i \in 1 .. Len(queue') : Newest(i, n)' => queue'[i] = remove
        /\ ~NoNews(n)'
        /\ \A l \in Names \ {n} : FollowInv(l) /\ UNCHANGED Picture(l) => FollowInv(l)'
    BY <1>1, <2>1, <2>2, Announced
  <2>4. CASE m = n
    BY <1>3, <2>1, <2>3, <2>4 DEF FollowInv, NewestInv
  <2>5. QED
    BY <1>3, <2>3, <2>4
<1>5. CASE obj[n] \notin subs[n]
  <2>1. queue' = queue
    BY <1>2, <1>5
  <2>2. CASE m = n
    <3>1. NewestInv(n)'
      BY <1>2, <1>3, <1>5, <2>1, <2>2 DEF FollowInv, NewestInv, Newest
    <3>2. NoNews(n)' => InStep(n)'
      BY <1>2, <1>3, <1>5, <2>1, <2>2 DEF FollowInv, NoNews, InStep, Reached
    <3>3. QED
      BY <2>2, <3>1, <3>2 DEF FollowInv
  <2>3. QED
    BY <1>3, <2>1, <2>2, FollowFrame
<1>6. QED
  BY <1>4, <1>5

\* An announcement is delivered (local_node.c:474-515).
LEMMA RegisterFollow ==
  ASSUME IInv, usteer_register_node, NEW m \in Names, FollowInv(m)
  PROVE  FollowInv(m)'
<1>1. OutsideType /\ BookType /\ GhostType
  BY TypeParts DEF IInv
<1>2. queue # <<>> /\ queue' = Tail(queue) /\ Head(queue).type = "add"
  BY DEF usteer_register_node
<1>3. /\ 1 \in 1 .. Len(queue) /\ Head(queue) = queue[1]
      /\ \A i \in 1 .. Len(queue') : /\ queue'[i] = queue[i + 1] /\ i + 1 \in 1 .. Len(queue)
                                     /\ Newest(i, m)' => Newest(i + 1, m)
      /\ NoNews(m)' => NoNews(m) \/ Newest(1, m)
  BY <1>1, <1>2, Delivered
<1>4. PICK n \in Names, k \in 1 .. MaxId : n = queue[1].name /\ k = queue[1].id
  BY <1>1, <1>3, MessageType
<1>5. /\ usteer_get_node(n)
      /\ obj_id' = Set(obj_id, n, k)
      /\ subs' = IF obj[n] = k THEN Set(subs, n, subs[n] \cup {k}) ELSE subs
      /\ obj' = obj /\ refused' = Set(refused, n, FALSE)
  BY <1>3, <1>4 DEF usteer_register_node
<1>6. /\ live'[n] /\ obj_id'[n] = k /\ (obj[n] # k => subs'[n] = subs[n])
      /\ \A l \in Names \ {n} : UNCHANGED Picture(l)
  BY <1>1, <1>5 DEF BookType, GhostType, Set, usteer_get_node, Picture
<1>7. CASE m = n
  <2>1. obj[n] = 0 => subs'[n] = subs[n] /\ obj[n] # k
    BY <1>4, <1>6, Bounds
  <2>2. NewestInv(n)'
    <3> SUFFICES ASSUME NEW i \in 1 .. Len(queue'), Newest(i, n)'
                 PROVE  IF obj'[n] = 0
                        THEN queue'[i].type = "add" => queue'[i].id \notin subs'[n]
                        ELSE queue'[i].type = "add" /\ queue'[i].id = obj'[n]
      BY DEF NewestInv
    <3>1. Newest(i + 1, n) /\ i + 1 \in 1 .. Len(queue) /\ queue'[i] = queue[i + 1]
      BY <1>3, <1>7
    <3>2. QED
      BY <1>5, <1>7, <2>1, <3>1 DEF FollowInv, NewestInv
  <2>3. ASSUME NoNews(n)' PROVE InStep(n)'
    <3>1. Newest(1, n)
      BY <1>3, <1>4, <1>7, <2>3 DEF NoNews
    <3>2. IF obj[n] = 0 THEN k \notin subs[n] ELSE k = obj[n]
      BY <1>2, <1>3, <1>4, <1>7, <3>1 DEF FollowInv, NewestInv
    <3>3. QED
      BY <1>5, <1>6, <2>1, <3>2 DEF InStep, Reached
  <2>4. QED
    BY <1>7, <2>2, <2>3 DEF FollowInv
<1>8. CASE m # n
  BY <1>1, <1>2, <1>4, <1>6, <1>8, DeliveredToOther
<1>9. QED
  BY <1>7, <1>8

\* A freed node, whatever is left in the queue (local_node.c:54-72).
LEMMA FreePicture ==
  ASSUME BookType, NEW n \in Names, NEW rest, usteer_free_node(n, rest),
         \A l \in Names \ {n} : refused'[l] = refused[l]
  PROVE  /\ queue' = rest /\ obj' = obj /\ ~live'[n] /\ subs'[n] = {}
         /\ \A l \in Names \ {n} : UNCHANGED Picture(l)
<1>1. /\ queue' = rest /\ obj' = obj
      /\ live' = Set(live, n, FALSE) /\ subs' = Set(subs, n, {}) /\ obj_id' = Set(obj_id, n, 0)
  BY DEF usteer_free_node
<1>2. QED
  BY <1>1 DEF BookType, Set, Picture

\* A removal is delivered: if the object has come back, its announcement follows
\* (local_node.c:74-81).
LEMMA RemoveFollow ==
  ASSUME IInv, usteer_handle_remove, NEW m \in Names, FollowInv(m)
  PROVE  FollowInv(m)'
<1>1. OutsideType /\ BookType
  BY TypeParts DEF IInv
<1>2. /\ queue # <<>> /\ Head(queue).type = "remove" /\ usteer_free_node(Head(queue).name, Tail(queue))
      /\ refused' = refused
  BY DEF usteer_handle_remove
<1>3. Head(queue) = queue[1] /\ 1 \in 1 .. Len(queue)
  BY <1>1, <1>2, TailOfQueue
<1>4. PICK n \in Names : n = queue[1].name
  BY <1>1, <1>3, MessageType
<1>5. /\ queue' = Tail(queue) /\ obj' = obj /\ ~live'[n] /\ subs'[n] = {}
      /\ \A l \in Names \ {n} : UNCHANGED Picture(l)
  BY <1>1, <1>2, <1>3, <1>4, FreePicture
<1>6. CASE m = n
  <2>1. /\ \A i \in 1 .. Len(queue') :
             /\ queue'[i] = queue[i + 1] /\ i + 1 \in 1 .. Len(queue)
             /\ Newest(i, n)' => Newest(i + 1, n)
        /\ NoNews(n)' => NoNews(n) \/ Newest(1, n)
    BY <1>1, <1>2, <1>5, Delivered
  <2>2. NewestInv(n)'
    <3> SUFFICES ASSUME NEW i \in 1 .. Len(queue'), Newest(i, n)'
                 PROVE  IF obj'[n] = 0
                        THEN queue'[i].type = "add" => queue'[i].id \notin subs'[n]
                        ELSE queue'[i].type = "add" /\ queue'[i].id = obj'[n]
      BY DEF NewestInv
    <3>1. Newest(i + 1, n) /\ i + 1 \in 1 .. Len(queue) /\ queue'[i] = queue[i + 1]
      BY <2>1
    <3>2. QED
      BY <1>5, <1>6, <3>1 DEF FollowInv, NewestInv
  <2>3. ASSUME NoNews(n)' PROVE InStep(n)'
    <3>1. Newest(1, n)
      BY <1>3, <1>4, <2>1, <2>3 DEF NoNews
    <3>2. obj[n] = 0
      BY <1>2, <1>3, <1>6, <3>1 DEF FollowInv, NewestInv
    <3>3. QED
      BY <1>5, <3>2 DEF InStep
  <2>4. QED
    BY <1>6, <2>2, <2>3 DEF FollowInv
<1>7. CASE m # n
  BY <1>1, <1>2, <1>4, <1>5, <1>7, DeliveredToOther
<1>8. QED
  BY <1>6, <1>7

\* The answer to rrm_nr_get_own frees a node whose SSID is not configured: the object
\* stays, and that is the one way to lack its node (local_node.c:295-328).
LEMMA RrmFollow ==
  ASSUME IInv, NEW n \in Names, usteer_local_node_rrm_nr_cb(n), NEW m \in Names, FollowInv(m)
  PROVE  FollowInv(m)'
<1>1. OutsideType /\ BookType /\ GhostType /\ obj[n] # 0
  BY TypeParts DEF IInv, usteer_local_node_rrm_nr_cb, Answerable
<1>2. CASE usteer_free_node(n, queue) /\ refused' = Set(refused, n, TRUE)
  <2>0. refused'[n] /\ \A l \in Names \ {n} : refused'[l] = refused[l]
    BY <1>1, <1>2 DEF GhostType, Set
  <2>1. /\ queue' = queue /\ obj' = obj /\ ~live'[n] /\ subs'[n] = {}
        /\ \A l \in Names \ {n} : UNCHANGED Picture(l)
    BY <1>1, <1>2, <2>0, FreePicture
  <2>2. CASE m = n
    <3>1. InStep(n)'
      BY <1>1, <2>0, <2>1 DEF InStep
    <3>2. NewestInv(n)'
      BY <1>1, <2>1, <2>2 DEF FollowInv, NewestInv, Newest
    <3>3. QED
      BY <2>2, <3>1, <3>2 DEF FollowInv
  <2>3. QED
    BY <2>1, <2>2, FollowFrame
<1>3. CASE UNCHANGED <<outside, live, obj_id, subs, refused>>
  <2>1. queue' = queue /\ UNCHANGED Picture(m)
    BY <1>3 DEF outside, Picture
  <2>2. QED
    BY <2>1, FollowFrame
<1>4. QED
  BY <1>2, <1>3 DEF usteer_local_node_rrm_nr_cb

LEMMA NextFollow ==
  ASSUME IInv, [Next]_vars, NEW m \in Names, FollowInv(m)
  PROVE  FollowInv(m)'
<1>1. ASSUME UNCHANGED <<obj, queue, live, obj_id, subs, refused>> PROVE FollowInv(m)'
  BY <1>1, FollowFrame DEF Picture
<1>2. ASSUME NEW n \in Names, usteer_local_node_update(n) PROVE FollowInv(m)'
  BY <1>1, <1>2 DEF usteer_local_node_update
<1>3. ASSUME NEW n \in Names, usteer_local_node_state_next(n) PROVE FollowInv(m)'
  BY <1>1, <1>3 DEF usteer_local_node_state_next, outside
<1>4. ASSUME NEW n \in Names, usteer_local_node_list_cb(n) PROVE FollowInv(m)'
  BY <1>1, <1>4 DEF usteer_local_node_list_cb, outside
<1>5. ASSUME NEW n \in Names, HostapdSetList(n) PROVE FollowInv(m)'
  BY <1>1, <1>5 DEF HostapdSetList
<1>6. ASSUME NEW n \in Names, usteer_local_node_req_cb(n) PROVE FollowInv(m)'
  BY <1>1, <1>6 DEF usteer_local_node_req_cb, outside
<1>7. ASSUME NEW n \in Names, netifd_status_cb(n) \/ NetifdStatus(n) PROVE FollowInv(m)'
  BY <1>1, <1>7 DEF netifd_status_cb, NetifdStatus, outside
<1>8. ASSUME Tick PROVE FollowInv(m)'
  BY <1>1, <1>8 DEF Tick, outside
<1>9. ASSUME UNCHANGED vars PROVE FollowInv(m)'
  BY <1>1, <1>9 DEF vars, outside
<1>10. ASSUME NEW n \in Names, Serve(n) PROVE FollowInv(m)'
  BY <1>2, <1>3, <1>4, <1>5, <1>6, <1>10, RrmFollow DEF Serve
<1>11. ASSUME NEW r \in Remotes, RemoteChanges(r) PROVE FollowInv(m)'
  BY <1>1, <1>11 DEF RemoteChanges
<1>12. QED
  BY <1>7, <1>8, <1>9, <1>10, <1>11, AddedFollow, RemovedFollow, RegisterFollow, RemoveFollow
     DEF Next, HandleUbus

\* local_node.c:74-81, 474-515: usteerd's nodes differ from hostapd's objects only while an
\* event about them is on its way, for any number of objects that are removed, replaced or
\* announced twice before usteerd gets to the events, and for any latencies.
THEOREM NodesKeepStep == Spec => []OutOfStepOnlyWithNews
<1> DEFINE Follow == \A n \in Names : FollowInv(n)
<1>1. Init => Follow
  <2> SUFFICES ASSUME Init, NEW n \in Names PROVE FollowInv(n)
    OBVIOUS
  <2>1. Len(queue) = 0 /\ obj[n] = 0 /\ ~live[n]
    BY DEF Init
  <2>2. QED
    BY <2>1 DEF FollowInv, NewestInv, InStep
<1>2. IInv /\ Follow /\ [Next]_vars => Follow'
  BY NextFollow
<1>3. Follow => OutOfStepOnlyWithNews
  BY DEF FollowInv, NoNews, OutOfStepOnlyWithNews
<1>4. QED
  BY <1>1, <1>2, <1>3, InvariantHolds, PTL DEF Spec
=============================================================================

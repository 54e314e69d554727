----------------------------- MODULE LocalNode -----------------------------
(***************************************************************************)
(* The life of usteerd's local nodes (local_node.c with the node handlers   *)
(* of nl80211.c and netifd.c): a node is made when a hostapd object is      *)
(* announced on ubus and freed when ubus tells of its removal or hostapd    *)
(* names an SSID that is not configured.  In between, the update timer      *)
(* starts a chain of asynchronous requests - get_clients, rrm_nr_set,       *)
(* rrm_nr_get_own - that share one struct ubus_request and are aborted when *)
(* the timer fires again.                                                   *)
(*                                                                         *)
(* hostapd and ubusd are external: ubus delivers announcements and removals *)
(* in order, and hostapd answers within MaxLatency.  What the answers do to *)
(* the station table is module StaTable, the kick of the update timer is    *)
(* NodeKick.  Remote nodes come and go with the messages of RemoteNodes.    *)
(* The survey timer re-arms itself, so only whether it is armed is kept.    *)
(***************************************************************************)
EXTENDS Integers, Sequences

CONSTANTS
  Names, Remotes,    \* the hostapd object names, the remote nodes
  Ssid,              \* Ssid[n]: what nl80211 finds
  BadSsid,           \* names whose SSID is at times not configured
  NoRrm,             \* names whose hostapd may refuse the rrm methods
  local_sta_update,  \* config
  MaxLatency,        \* how long hostapd takes at most, in milliseconds
  MaxId,             \* bound: object ids per name
  Flapping,          \* an object may go before usteerd has subscribed to it
  InterfaceFound,    \* whether nl80211 finds a network interface: {TRUE} or BOOLEAN
  InterfaceStays,    \* an interface that was found is found again
  WithNetifd         \* network.wireless may be on ubus

ASSUME LocalNodeAssumption ==
  /\ BadSsid \subseteq Names /\ NoRrm \subseteq Names
  /\ local_sta_update \in Nat \ {0}
  /\ MaxLatency \in Nat /\ MaxId \in Nat
  /\ Flapping \in BOOLEAN /\ InterfaceFound \subseteq BOOLEAN
  /\ InterfaceStays \in BOOLEAN /\ WithNetifd \in BOOLEAN
  /\ \A n \in Names : Ssid[n] # ""

NotArmed == -1
REQ_IDLE == 0
REQ_CLIENTS == 1
REQ_RRM_SET_LIST == 2
REQ_RRM_GET_OWN == 3
__REQ_MAX == 4

VARIABLES
  \* outside usteerd
  obj,          \* obj[n]: the id of the object on ubus, or 0
  ids,          \* ids[n]: how many ids the name has had
  queue,        \* what ubus has still to deliver
  list,         \* list[n]: the neighbours hostapd has been told of
  remote,       \* remote[r]: the SSID of a node in remote_nodes with rrm_nr, or ""
  \* struct usteer_local_node
  live,         \* live[n]: the node is in local_nodes
  obj_id, subs, \* the object requests go to; the objects subscribed to
  update, req_timer, req_state,
  req,          \* the request on the wire: none, sent or answered
  to, nbrs,     \* the object it went to, its list of neighbours
  waited,       \* how long it has waited (saturating)
  rrm_nr, ssid,
  present, nl_timer,                          \* nl80211.present, nl80211.update
  nf_pending, nf_req, nf_complete,  \* netifd: flag, the wire (as req), status_complete
  \* ghost
  unpolled,     \* time since the clients were last listed, while hostapd is there
  refused       \* refused[n]: its last node was freed for its SSID

outside == <<obj, ids, queue, list, remote>>
chain == <<update, req_timer, req_state, req, to, nbrs, waited>>
handlers == <<ssid, present, nl_timer, nf_pending, nf_req, nf_complete>>
vars == <<outside, live, obj_id, subs, chain, rrm_nr, handlers, unpolled, refused>>

Set(f, n, v) == [f EXCEPT ![n] = v]
Ssids == {Ssid[n] : n \in Names}
Reached(n) == live[n] /\ obj[n] # 0 /\ obj_id[n] = obj[n]

\* hostapd can answer the request.
Answerable(n) == req[n] = "sent" /\ obj[n] # 0 /\ to[n] = obj[n]

-----------------------------------------------------------------------------
(* Requests.                                                                *)

\* usteer_local_node_state_reset.  ubus_abort_request only forgets the request:
\* a list that is on its way may still reach hostapd.
usteer_local_node_state_reset(n) ==
  \/ /\ req_state[n] = REQ_IDLE
     /\ UNCHANGED <<req_state, req, to, nbrs, waited, list>>
  \/ /\ req_state[n] # REQ_IDLE
     /\ req_state' = Set(req_state, n, REQ_IDLE)
     /\ req' = Set(req, n, "none")
     /\ to' = Set(to, n, 0) /\ nbrs' = Set(nbrs, n, {}) /\ waited' = Set(waited, n, 0)
     /\ \/ list' = list
        \/ /\ Answerable(n) /\ req_state[n] = REQ_RRM_SET_LIST
           /\ list' = Set(list, n, nbrs[n])

\* usteer_add_rrm_data over remote_nodes.
RemoteNeighbours(n) == {r \in Remotes : remote[r] = ssid[n] /\ remote[r] # ""}

MNeighboursWithSelf(n) ==
  {m \in Names : live[m] /\ rrm_nr[m] /\ ssid[m] = ssid[n]} \cup RemoteNeighbours(n)

\* usteer_local_node_prepare_rrm_set, usteer_add_rrm_data.
Neighbours(n) ==
  {m \in Names \ {n} : live[m] /\ rrm_nr[m] /\ ssid[m] = ssid[n]} \cup RemoteNeighbours(n)

\* Both handlers abort the request only while req_pending is set, which the data has
\* cleared: a request whose status has still to come stays on the wire.
Unaborted(n) == IF nf_pending[n] THEN "none" ELSE nf_req[n]

\* netifd_update_node; ubus may not know network.wireless.
netifd_update_node(n, complete) ==
  \/ complete /\ nf_complete' = Set(nf_complete, n, TRUE) /\ UNCHANGED <<nf_pending, nf_req>>
  \/ /\ ~complete
     /\ nf_complete' = Set(nf_complete, n, FALSE)
     /\ \/ /\ nf_req' = Set(nf_req, n, Unaborted(n))
           /\ UNCHANGED nf_pending
        \/ /\ WithNetifd
           /\ nf_req' = Set(nf_req, n, "sent") /\ nf_pending' = Set(nf_pending, n, TRUE)

nl80211_free_node(n) == nl_timer' = IF present[n] THEN Set(nl_timer, n, FALSE) ELSE nl_timer

MNetifdFreeIfComplete(n) ==
  nf_req' = Set(nf_req, n, IF nf_complete[n] THEN "none" ELSE nf_req[n])

netifd_free_node(n) == nf_req' = Set(nf_req, n, Unaborted(n))

\* usteer_free_node, when ubus has still the rest to deliver.
usteer_free_node(n, rest) ==
  /\ nl80211_free_node(n) /\ netifd_free_node(n)
  /\ usteer_local_node_state_reset(n)
  /\ req_timer' = Set(req_timer, n, NotArmed) /\ update' = Set(update, n, NotArmed)
  /\ subs' = Set(subs, n, {}) /\ live' = Set(live, n, FALSE)
  /\ queue' = rest
  /\ rrm_nr' = Set(rrm_nr, n, FALSE) /\ unpolled' = Set(unpolled, n, 0)
  /\ obj_id' = Set(obj_id, n, 0) /\ ssid' = Set(ssid, n, "")
  /\ present' = Set(present, n, FALSE)
  /\ nf_pending' = Set(nf_pending, n, FALSE) /\ nf_complete' = Set(nf_complete, n, FALSE)
  /\ UNCHANGED <<obj, ids, remote>>

-----------------------------------------------------------------------------
(* hostapd and ubusd.                                                       *)

Init ==
  /\ obj = [n \in Names |-> 0] /\ ids = [n \in Names |-> 0] /\ queue = <<>>
  /\ list = [n \in Names |-> {}] /\ remote \in [Remotes -> Ssids \cup {""}]
  /\ live = [n \in Names |-> FALSE] /\ obj_id = [n \in Names |-> 0]
  /\ subs = [n \in Names |-> {}]
  /\ update = [n \in Names |-> NotArmed] /\ req_timer = [n \in Names |-> NotArmed]
  /\ req_state = [n \in Names |-> REQ_IDLE] /\ req = [n \in Names |-> "none"]
  /\ to = [n \in Names |-> 0] /\ nbrs = [n \in Names |-> {}] /\ waited = [n \in Names |-> 0]
  /\ rrm_nr = [n \in Names |-> FALSE] /\ ssid = [n \in Names |-> ""]
  /\ present = [n \in Names |-> FALSE] /\ nl_timer = [n \in Names |-> FALSE]
  /\ nf_pending = [n \in Names |-> FALSE] /\ nf_req = [n \in Names |-> "none"]
  /\ nf_complete = [n \in Names |-> FALSE]
  /\ unpolled = [n \in Names |-> 0] /\ refused = [n \in Names |-> FALSE]

\* An object that appears while usteerd starts is announced and looked up.
ObjectAdded(n) ==
  LET add == [type |-> "add", name |-> n, id |-> ids[n] + 1] IN
  /\ obj[n] = 0 /\ ids[n] < MaxId
  /\ obj' = Set(obj, n, ids[n] + 1) /\ ids' = Set(ids, n, ids[n] + 1)
  /\ \/ queue' = Append(queue, add)
     \/ ids[n] = 0 /\ queue' = queue \o <<add, add>>
  /\ list' = Set(list, n, {})
  /\ UNCHANGED <<remote, live, obj_id, subs, chain, rrm_nr, handlers, unpolled, refused>>

ObjectRemoved(n) ==
  /\ obj[n] # 0
  /\ Flapping \/ obj[n] \in subs[n]
  /\ obj' = Set(obj, n, 0)
  /\ queue' = IF obj[n] \in subs[n]
              THEN Append(queue, [type |-> "remove", name |-> n, id |-> obj[n]]) ELSE queue
  /\ unpolled' = Set(unpolled, n, 0)
  /\ UNCHANGED <<ids, list, remote, live, obj_id, subs, chain, rrm_nr, handlers, refused>>

\* Messages of other daemons add, change and drop remote nodes (remote.c).
RemoteChanges(r) ==
  /\ \E x \in (Ssids \cup {""}) \ {remote[r]} : remote' = Set(remote, r, x)
  /\ UNCHANGED <<obj, ids, queue, list, live, obj_id, subs, chain, rrm_nr, handlers, unpolled,
                 refused>>

-----------------------------------------------------------------------------
(* The handlers.                                                            *)

\* usteer_get_node: a new node is all zero, its first update due at once.
usteer_get_node(n) ==
  IF live[n]
  THEN UNCHANGED <<live, update>>
  ELSE live' = Set(live, n, TRUE) /\ update' = Set(update, n, 1)

\* nl80211_init_node, with whether the interface was found.
nl80211_init_node(n, found) ==
  /\ present' = Set(present, n, found)
  /\ nl_timer' = IF found THEN Set(nl_timer, n, TRUE) ELSE nl_timer
  /\ ssid' = IF found THEN Set(ssid, n, Ssid[n]) ELSE ssid

\* usteer_event_handler, node_list_cb, usteer_register_node, with ubus_subscribe,
\* which fails if the object has gone.
usteer_register_node ==
  /\ queue # <<>> /\ Head(queue).type = "add"
  /\ LET n == Head(queue).name
         id == Head(queue).id IN
     /\ queue' = Tail(queue)
     /\ usteer_get_node(n)
     /\ obj_id' = Set(obj_id, n, id)
     /\ subs' = IF obj[n] = id THEN Set(subs, n, subs[n] \cup {id}) ELSE subs
     /\ \E found \in InterfaceFound :
          /\ InterfaceStays /\ live[n] /\ present[n] => found
          /\ nl80211_init_node(n, found)
     /\ netifd_update_node(n, FALSE)                     \* netifd_init_node
     /\ unpolled' = Set(unpolled, n, 0) /\ refused' = Set(refused, n, FALSE)
  /\ UNCHANGED <<obj, ids, remote, list, req_timer, req_state, req, to, nbrs, waited, rrm_nr>>

MHandleRemoveIdleOnly ==
  /\ queue # <<>> /\ Head(queue).type = "remove"
  /\ LET n == Head(queue).name IN
     \/ req_state[n] = REQ_IDLE /\ usteer_free_node(n, Tail(queue)) /\ UNCHANGED refused
     \/ /\ req_state[n] # REQ_IDLE
        /\ queue' = Tail(queue)
        /\ UNCHANGED <<obj, ids, remote, list, live, obj_id, subs, chain, rrm_nr, handlers,
                       unpolled, refused>>

usteer_handle_remove ==
  /\ queue # <<>> /\ Head(queue).type = "remove"
  /\ usteer_free_node(Head(queue).name, Tail(queue))
  /\ UNCHANGED refused

MUpdateNoReset(n) ==
  /\ update[n] = 0
  /\ netifd_update_node(n, nf_complete[n])
  /\ req_timer' = Set(req_timer, n, 1)
  /\ update' = Set(update, n, local_sta_update)
  /\ UNCHANGED <<obj, ids, remote, queue, list, live, obj_id, subs, req_state, req, to,
                 nbrs, waited, rrm_nr, ssid, present, nl_timer, unpolled, refused>>

MUpdateWaits(n) ==
  /\ update[n] = 0
  /\ netifd_update_node(n, nf_complete[n])
  /\ req_timer' = IF req_state[n] = REQ_IDLE THEN Set(req_timer, n, 1) ELSE req_timer
  /\ update' = Set(update, n, local_sta_update)
  /\ UNCHANGED <<obj, ids, remote, queue, list, live, obj_id, subs, req_state, req, to,
                 nbrs, waited, rrm_nr, ssid, present, nl_timer, unpolled, refused>>

\* usteer_local_node_update.
usteer_local_node_update(n) ==
  /\ update[n] = 0
  /\ netifd_update_node(n, nf_complete[n])
  /\ usteer_local_node_state_reset(n)
  /\ req_timer' = Set(req_timer, n, 1)
  /\ update' = Set(update, n, local_sta_update)
  /\ UNCHANGED <<obj, ids, remote, queue, live, obj_id, subs, rrm_nr, ssid, present, nl_timer,
                 unpolled, refused>>

MStateNextNoWrap(n) ==
  /\ req_timer[n] = 0
  /\ req_timer' = Set(req_timer, n, NotArmed)
  /\ req_state' = Set(req_state, n, req_state[n] + 1)
  /\ req' = Set(req, n, "sent") /\ to' = Set(to, n, obj_id[n])
  /\ nbrs' = Set(nbrs, n, IF req_state'[n] = REQ_RRM_SET_LIST THEN Neighbours(n) ELSE {})
  /\ waited' = Set(waited, n, 0)
  /\ UNCHANGED <<outside, live, obj_id, subs, update, rrm_nr, handlers, unpolled, refused>>

usteer_local_node_state_next(n) ==
  LET next == (req_state[n] + 1) % __REQ_MAX IN
  /\ req_timer[n] = 0
  /\ req_timer' = Set(req_timer, n, NotArmed)
  /\ req_state' = Set(req_state, n, next)
  /\ \/ next = REQ_IDLE /\ UNCHANGED <<req, to, nbrs, waited>>
     \/ /\ next # REQ_IDLE
        /\ req' = Set(req, n, "sent") /\ to' = Set(to, n, obj_id[n])
        /\ nbrs' = Set(nbrs, n, IF next = REQ_RRM_SET_LIST THEN Neighbours(n) ELSE {})
        /\ waited' = Set(waited, n, 0)
  /\ UNCHANGED <<outside, live, obj_id, subs, update, rrm_nr, handlers, unpolled, refused>>

\* hostapd answers; the data callback of the request runs.
usteer_local_node_list_cb(n) ==
  /\ Answerable(n) /\ req_state[n] = REQ_CLIENTS
  /\ req' = Set(req, n, "answered")
  /\ unpolled' = Set(unpolled, n, 0)
  /\ UNCHANGED <<outside, live, obj_id, subs, update, req_timer, req_state, to, nbrs, waited,
                 rrm_nr, handlers, refused>>

HostapdSetList(n) ==
  /\ Answerable(n) /\ req_state[n] = REQ_RRM_SET_LIST
  /\ req' = Set(req, n, "answered")
  /\ list' = Set(list, n, nbrs[n])
  /\ UNCHANGED <<obj, ids, remote, queue, live, obj_id, subs, update, req_timer, req_state, to,
                 nbrs, waited, rrm_nr, handlers, unpolled, refused>>

\* usteer_is_valid_ssid has the last word.
usteer_local_node_rrm_nr_cb(n) ==
  /\ Answerable(n) /\ req_state[n] = REQ_RRM_GET_OWN
  /\ \/ /\ n \in BadSsid /\ usteer_free_node(n, queue)
        /\ refused' = Set(refused, n, TRUE)
     \/ /\ req' = Set(req, n, "answered")
        /\ rrm_nr' = Set(rrm_nr, n, TRUE)
        /\ UNCHANGED <<outside, live, obj_id, subs, update, req_timer, req_state, to, nbrs, waited,
                       handlers, unpolled, refused>>

\* usteer_local_node_req_cb: the answer is complete, or ubus reports an error.
usteer_local_node_req_cb(n) ==
  /\ \/ req[n] = "answered"
     \/ req[n] = "sent" /\ ~Answerable(n)
     \/ req[n] = "sent" /\ n \in NoRrm /\ req_state[n] # REQ_CLIENTS
  /\ req' = Set(req, n, "none")
  /\ to' = Set(to, n, 0) /\ nbrs' = Set(nbrs, n, {}) /\ waited' = Set(waited, n, 0)
  /\ req_timer' = Set(req_timer, n, 1)
  /\ UNCHANGED <<outside, live, obj_id, subs, update, req_state, rrm_nr, handlers, unpolled,
                 refused>>

\* The data of the answer; netifd may not list the interface.
netifd_status_cb(n) ==
  /\ nf_req[n] = "sent"
  /\ nf_req' = Set(nf_req, n, "answered")
  /\ nf_pending' = Set(nf_pending, n, FALSE)
  /\ \E found \in BOOLEAN : nf_complete' = Set(nf_complete, n, nf_complete[n] \/ found)
  /\ UNCHANGED <<outside, live, obj_id, subs, chain, rrm_nr, ssid, present, nl_timer, unpolled,
                 refused>>

\* The status that ends the request, or an error without data; nobody is called back.
NetifdStatus(n) ==
  /\ nf_req[n] # "none"
  /\ nf_req' = Set(nf_req, n, "none")
  /\ UNCHANGED <<outside, live, obj_id, subs, chain, rrm_nr, ssid, present, nl_timer,
                 nf_pending, nf_complete, unpolled, refused>>

\* uloop serves due timers first; hostapd answers and completes in time.
PollBound == local_sta_update + 1 + MaxLatency

Tick ==
  /\ \A n \in Names : /\ update[n] # 0 /\ req_timer[n] # 0
                      /\ req[n] # "none" /\ to[n] = obj[n] => waited[n] < MaxLatency
  /\ update' = [n \in Names |-> IF update[n] > 0 THEN update[n] - 1 ELSE update[n]]
  /\ req_timer' = [n \in Names |-> IF req_timer[n] > 0 THEN req_timer[n] - 1 ELSE req_timer[n]]
  /\ waited' = [n \in Names |-> IF req[n] # "none" /\ waited[n] < MaxLatency
                                THEN waited[n] + 1 ELSE waited[n]]
  /\ unpolled' = [n \in Names |-> IF Reached(n) /\ unpolled[n] <= PollBound + 1
                                  THEN unpolled[n] + 1 ELSE unpolled[n]]
  /\ UNCHANGED <<outside, live, obj_id, subs, req_state, req, to, nbrs, rrm_nr, handlers,
                 refused>>

HandleUbus == usteer_register_node \/ usteer_handle_remove
Serve(n) ==
  \/ usteer_local_node_update(n) \/ usteer_local_node_state_next(n)
  \/ usteer_local_node_list_cb(n) \/ HostapdSetList(n) \/ usteer_local_node_rrm_nr_cb(n)
  \/ usteer_local_node_req_cb(n)

Next ==
  \/ \E n \in Names : \/ ObjectAdded(n) \/ ObjectRemoved(n) \/ Serve(n)
                      \/ netifd_status_cb(n) \/ NetifdStatus(n)
  \/ \E r \in Remotes : RemoteChanges(r)
  \/ HandleUbus
  \/ Tick

Spec == Init /\ [][Next]_vars

\* uloop serves ubus and the timers, hostapd answers, time goes on.
FairSpec ==
  Spec /\ WF_vars(HandleUbus) /\ WF_vars(Tick) /\ \A n \in Names : WF_vars(Serve(n))

-----------------------------------------------------------------------------
TypeOK ==
  /\ obj \in [Names -> 0 .. MaxId] /\ ids \in [Names -> 0 .. MaxId]
  /\ queue \in Seq([type : {"add", "remove"}, name : Names, id : 1 .. MaxId])
  /\ list \in [Names -> SUBSET (Names \cup Remotes)]
  /\ nbrs \in [Names -> SUBSET (Names \cup Remotes)]
  /\ remote \in [Remotes -> Ssids \cup {""}]
  /\ live \in [Names -> BOOLEAN] /\ rrm_nr \in [Names -> BOOLEAN]
  /\ obj_id \in [Names -> 0 .. MaxId] /\ subs \in [Names -> SUBSET (1 .. MaxId)]
  /\ update \in [Names -> -1 .. local_sta_update] /\ req_timer \in [Names -> -1 .. 1]
  /\ req_state \in [Names -> 0 .. __REQ_MAX - 1]
  /\ req \in [Names -> {"none", "sent", "answered"}]
  /\ to \in [Names -> 0 .. MaxId] /\ waited \in [Names -> 0 .. MaxLatency]
  /\ ssid \in [Names -> Ssids \cup {""}]
  /\ \A n \in Names : ssid[n] \in {"", Ssid[n]}
  /\ present \in [Names -> BOOLEAN] /\ nl_timer \in [Names -> BOOLEAN]
  /\ nf_pending \in [Names -> BOOLEAN] /\ nf_req \in [Names -> {"none", "sent", "answered"}]
  /\ nf_complete \in [Names -> BOOLEAN]
  /\ unpolled \in [Names -> 0 .. PollBound + 2] /\ refused \in [Names -> BOOLEAN]

(* local_node.c:54-72, nl80211.c:226-234, netifd.c:136-143.  Once a node is *)
(* freed nothing calls back into it: no timer of it is armed, no request of *)
(* it can still bring data, ubus has nothing for its subscriber.  Whatever  *)
(* answers, aborts and errors came before.  One thing is left: a netifd     *)
(* request whose data has come and whose status has not is "answered", and  *)
(* nobody aborts it, since its data cleared req_pending (netifd.c:99, 141); *)
(* libubus keeps it in its list, in the memory of the freed node.           *)
FreedNodesAreSilent ==
  \A n \in Names : ~live[n] =>
    /\ update[n] = NotArmed /\ req_timer[n] = NotArmed /\ ~nl_timer[n]
    /\ req[n] = "none" /\ nf_req[n] # "sent"
    /\ subs[n] = {}
    /\ \A i \in 1 .. Len(queue) : queue[i].name = n => queue[i].type = "add"

(* local_node.c:371-427.  The request of a node is not used again while it  *)
(* is on the wire: the timer that starts the next one is armed only when    *)
(* the last one is complete or aborted.                                     *)
RequestIsNotReused == \A n \in Names : req_timer[n] # NotArmed => req[n] = "none"

(* local_node.c:371-427.  Whatever the other requests do, the clients of a  *)
(* node are listed at least every local_sta_update milliseconds, up to the  *)
(* time hostapd takes.                                                      *)
ClientsAreListed == \A n \in Names : unpolled[n] <= PollBound

\* usteerd has a node for n exactly if hostapd's object is there, and its requests
\* go to that object.  It may lack a node that it freed for its SSID, and keep one
\* whose object had gone before the subscription.
InStep(n) ==
  IF obj[n] = 0 THEN live[n] => obj_id[n] \notin subs[n]
  ELSE Reached(n) \/ (refused[n] /\ ~live[n])

(* local_node.c:74-81, 474-532.  usteerd is out of step with an object only *)
(* while ubus has an event about it to deliver: no removal, replacement or  *)
(* double announcement, however many follow before usteerd looks, leaves it *)
(* with a node it is never told about again.                                *)
OutOfStepOnlyWithNews ==
  \A n \in Names : (\A i \in 1 .. Len(queue) : queue[i].name # n) => InStep(n)

(* local_node.c:74-81, 474-532.  Once hostapd's objects stay as they are,   *)
(* usteerd gets into step with them and stays so.                           *)
NodesFollowHostapd == <>[](\A n \in Names : InStep(n))

(* local_node.c:295-369.  Once the nodes stay as they are, the remote ones  *)
(* among them, every hostapd is told of exactly the other local nodes of    *)
(* its SSID and the remote nodes of it.                                     *)
NeighboursConverge ==
  <>[][FALSE]_remote =>
  <>[](\A n \in Names \ (NoRrm \cup BadSsid) : Reached(n) =>
         list[n] = {m \in Names \ {n} : live[m] /\ m \notin NoRrm /\ ssid[m] = ssid[n]}
                     \cup {r \in Remotes : remote[r] = ssid[n]})
=============================================================================

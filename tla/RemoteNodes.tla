---------------------------- MODULE RemoteNodes ----------------------------
(***************************************************************************)
(* What one usteerd knows of another (remote.c).  The peer multicasts its   *)
(* node and the client's entry there every remote_update_interval, and at   *)
(* once when the entry is made; messages are lost, repeated and delayed.    *)
(* The receiver keeps a remote node per id and name, counts its own update  *)
(* intervals since the last message, and drops a node when there were too   *)
(* many.  A peer whose usteerd restarts has a new random id; one whose      *)
(* hostapd restarts keeps it, and its node returns without its entries.     *)
(*                                                                         *)
(* The peer's entry behaves as in StaTable: hostapd's events and polls set  *)
(* it, nl80211 refreshes it in every poll, its timer ends it.               *)
(***************************************************************************)
EXTENDS Integers, FiniteSets

CONSTANTS
  Ids,                       \* the ids the peer takes, one after the other: 1 .. n
  local_id,                  \* the receiver's own id
  remote_node_timeout, remote_update_interval, local_sta_timeout,     \* config
  remote_disabled, ValidSsid,             \* config; whether the peer's SSID is in it
  ReliableNl80211,           \* nl80211 refreshes the client's entry in every poll
  MaxLoss,                   \* how many messages in a row are lost
  MaxDelay, MaxNet,          \* how long messages take, and how many are on the way
  HostapdStops               \* bound: the ids under which the peer's hostapd may stop

ASSUME RemoteAssumption ==
  /\ IsFiniteSet(Ids) /\ Ids # {} /\ Ids = 1 .. Cardinality(Ids)
  /\ remote_node_timeout \in Nat /\ remote_update_interval \in Nat \ {0}
  /\ local_sta_timeout \in Nat \ {0}
  /\ remote_disabled \in BOOLEAN /\ ValidSsid \in BOOLEAN /\ ReliableNl80211 \in BOOLEAN
  /\ MaxLoss \in Nat /\ MaxDelay \in Nat /\ MaxNet \in Nat

Absent == [here |-> FALSE, connected |-> FALSE, timer |-> -1]
Unseen == local_sta_timeout
Sat(k, max) == IF k > max THEN max ELSE k

VARIABLES
  \* the peer
  up, id, sendTimer,
  node,           \* it has a local node: its hostapd runs
  sta, seen,      \* the client's entry, and the time since it was seen (saturating)
  away,           \* ghost: since when there is an entry that is not associated (saturating)
  cut,            \* ghost: the node took the entry with it, and no new one was made since
  \* the network
  net,            \* the messages on the way, with their age
  lost,           \* how many were lost since one arrived
  \* the receiver
  checkTimer,
  check,          \* check[i]: the counter of the node of id i, or -1: no such node
  entry,          \* entry[i]: the client's entry at that node
  silence         \* ghost: time since a message of id i arrived (saturating)

peer == <<up, id, sendTimer, node, sta, seen, away, cut>>
receiver == <<checkTimer, check, entry, silence>>
vars == <<peer, net, lost, receiver>>

SilenceBound == remote_node_timeout + 2 * remote_update_interval
StaleBound == 2 * MaxDelay + (MaxLoss + 1) * remote_update_interval

-----------------------------------------------------------------------------
(* The peer.                                                                *)

MMessageAddsAge(s, seenAge) ==
  [id |-> id, age |-> 0, here |-> s.here, connected |-> s.connected,
   timeout |-> IF s.here THEN local_sta_timeout + seenAge ELSE 0]

\* usteer_send_sta_info: the time left is computed from seen, not from the timer.
Message(s, seenAge) ==
  [id |-> id, age |-> 0, here |-> s.here, connected |-> s.connected,
   timeout |-> IF s.here THEN local_sta_timeout - seenAge ELSE 0]

\* usteer_send_node, usteer_update_send, interface_send_msg.
Send(s, seenAge) ==
  net' = IF remote_disabled THEN net ELSE net \cup {Message(s, seenAge)}

Init ==
  /\ up = TRUE /\ id = 1 /\ sendTimer \in 0 .. remote_update_interval
  /\ node = TRUE /\ sta = Absent /\ seen = Unseen /\ away = Unseen /\ cut = FALSE
  /\ net = {} /\ lost = 0
  /\ checkTimer \in 0 .. remote_update_interval
  /\ check = [i \in Ids |-> -1] /\ entry = [i \in Ids |-> Absent]
  /\ silence = [i \in Ids |-> 0]

\* usteer_send_update_timer of the peer (its own check of the receiver is alike).
UpdateTimer ==
  /\ up /\ sendTimer = 0 /\ Cardinality(net) < MaxNet
  /\ sendTimer' = remote_update_interval
  /\ IF node THEN Send(sta, seen) ELSE net' = net
  /\ UNCHANGED <<up, id, node, sta, seen, away, cut, lost, receiver>>

\* usteer_handle_sta_event at the peer; a new entry is told at once.
Heard ==
  LET s == [here |-> TRUE, connected |-> sta.connected,
            timer |-> IF sta.connected THEN -1 ELSE local_sta_timeout] IN
  /\ up /\ node /\ Cardinality(net) < MaxNet
  /\ sta' = s /\ seen' = 0
  /\ IF sta.here THEN net' = net ELSE Send(s, 0)
  /\ away' = IF sta.here THEN away ELSE 0
  /\ cut' = FALSE
  /\ UNCHANGED <<up, id, sendTimer, node, lost, receiver>>

\* usteer_local_node_set_assoc at the peer: associated.
Associate ==
  /\ up /\ node /\ ~sta.connected
  /\ sta' = [here |-> TRUE, connected |-> TRUE,
             timer |-> IF ReliableNl80211 THEN local_sta_timeout ELSE sta.timer]
  /\ seen' = IF ReliableNl80211 THEN 0 ELSE seen
  /\ away' = 0 /\ cut' = FALSE
  /\ UNCHANGED <<up, id, sendTimer, node, net, lost, receiver>>

\* usteer_local_node_set_assoc at the peer: not listed any more.
Leave ==
  /\ up /\ sta.connected
  /\ sta' = [here |-> TRUE, connected |-> FALSE, timer |-> local_sta_timeout]
  /\ away' = 0
  /\ UNCHANGED <<up, id, sendTimer, node, seen, cut, net, lost, receiver>>

\* The client's entry is deleted at the peer.
NoEntry == sta' = Absent /\ seen' = Unseen /\ away' = Unseen

\* usteer_sta_info_timeout at the peer.
Expire ==
  /\ up /\ sta.timer = 0
  /\ NoEntry
  /\ UNCHANGED <<up, id, sendTimer, node, cut, net, lost, receiver>>

\* hostapd stops at the peer: usteer_free_node, with the entries; usteerd goes on.
NodeGone ==
  /\ up /\ node /\ id \in HostapdStops
  /\ node' = FALSE /\ cut' = TRUE
  /\ NoEntry
  /\ UNCHANGED <<up, id, sendTimer, net, lost, receiver>>

\* hostapd is back: usteer_register_node, of the same name and under the same id.
NodeBack ==
  /\ up /\ ~node
  /\ node' = TRUE
  /\ UNCHANGED <<up, id, sendTimer, sta, seen, away, cut, net, lost, receiver>>

\* usteerd stops at the peer.
Stop ==
  /\ up
  /\ up' = FALSE
  /\ NoEntry
  /\ UNCHANGED <<id, sendTimer, node, cut, net, lost, receiver>>

\* usteerd starts again: usteer_init_local_id gives it a new id.
Restart ==
  /\ ~up /\ id + 1 \in Ids
  /\ up' = TRUE /\ id' = id + 1 /\ sendTimer' = 0 /\ node' = TRUE /\ cut' = FALSE
  /\ UNCHANGED <<sta, seen, away, net, lost, receiver>>

-----------------------------------------------------------------------------
(* The receiver.                                                            *)

MAddStationNoCancel(m) ==
  IF m.here /\ m.timeout > 0
  THEN [here |-> TRUE, connected |-> entry[m.id].connected \/ m.connected,
        timer |-> IF m.connected THEN -1 ELSE m.timeout]
  ELSE entry[m.id]

\* interface_add_station, usteer_sta_info_update_timeout: expired entries are refused.
interface_add_station(m) ==
  IF m.here /\ m.timeout > 0
  THEN [here |-> TRUE, connected |-> m.connected,
        timer |-> IF m.connected THEN -1 ELSE m.timeout]
  ELSE entry[m.id]

MRecvByNameOnly(m) ==
  /\ m.id # local_id /\ ValidSsid
  /\ check' = [i \in Ids |-> IF i = m.id \/ check[i] >= 0 THEN 0 ELSE -1]
  /\ entry' = [entry EXCEPT ![m.id] = interface_add_station(m)]
  /\ silence' = [silence EXCEPT ![m.id] = 0]

\* interface_recv_msg, interface_add_node, interface_get_node.
interface_recv_msg(m) ==
  /\ m.id # local_id /\ ValidSsid
  /\ check' = [check EXCEPT ![m.id] = 0]
  /\ entry' = [entry EXCEPT ![m.id] = interface_add_station(m)]
  /\ silence' = [silence EXCEPT ![m.id] = 0]

\* A message arrives; the network may keep a copy.
Deliver(m) ==
  /\ ~remote_disabled
  /\ interface_recv_msg(m)
  /\ \E copy \in BOOLEAN : net' = IF copy THEN net ELSE net \ {m}
  /\ lost' = 0
  /\ UNCHANGED <<peer, checkTimer>>

Lose(m) ==
  /\ lost < MaxLoss
  /\ net' = net \ {m} /\ lost' = lost + 1
  /\ UNCHANGED <<peer, receiver>>

MCheckTimeoutEarly(i) == check[i] >= remote_node_timeout \div remote_update_interval

\* usteer_check_timeout: integer division, then the counter is compared and counted.
TimedOut(i) == check[i] > remote_node_timeout \div remote_update_interval

MCheckTimerNoCleanup ==
  /\ checkTimer = 0
  /\ checkTimer' = remote_update_interval
  /\ check' = [i \in Ids |-> IF check[i] < 0 \/ TimedOut(i) THEN -1 ELSE check[i] + 1]
  /\ silence' = [i \in Ids |-> IF TimedOut(i) THEN 0 ELSE silence[i]]
  /\ UNCHANGED <<peer, net, lost, entry>>

\* usteer_send_update_timer of the receiver; remote_node_free with the entries.
CheckTimer ==
  /\ checkTimer = 0
  /\ checkTimer' = remote_update_interval
  /\ check' = [i \in Ids |-> IF check[i] < 0 \/ TimedOut(i) THEN -1 ELSE check[i] + 1]
  /\ entry' = [i \in Ids |-> IF TimedOut(i) THEN Absent ELSE entry[i]]
  /\ silence' = [i \in Ids |-> IF TimedOut(i) THEN 0 ELSE silence[i]]
  /\ UNCHANGED <<peer, net, lost>>

\* usteer_sta_info_timeout at the receiver.
EntryTimeout(i) ==
  /\ entry[i].timer = 0
  /\ entry' = [entry EXCEPT ![i] = Absent]
  /\ UNCHANGED <<peer, net, lost, checkTimer, check, silence>>

-----------------------------------------------------------------------------
Down(t) == IF t > 0 THEN t - 1 ELSE t

Due ==
  \/ up /\ (sendTimer = 0 \/ sta.timer = 0)
  \/ checkTimer = 0
  \/ \E i \in Ids : entry[i].timer = 0
  \/ \E m \in net : m.age >= MaxDelay

\* Time passes.  In every interval a poll of the peer refreshes an associated client.
Tick ==
  /\ ~Due
  /\ sendTimer' = Down(sendTimer) /\ checkTimer' = Down(checkTimer)
  /\ IF ReliableNl80211 /\ sta.connected
     THEN sta' = [sta EXCEPT !.timer = local_sta_timeout] /\ seen' = 0
     ELSE sta' = [sta EXCEPT !.timer = Down(@)] /\ seen' = Sat(seen + 1, Unseen)
  /\ away' = IF sta.connected THEN 0 ELSE Sat(away + 1, Unseen)
  /\ net' = {[m EXCEPT !.age = @ + 1] : m \in net}
  /\ entry' = [i \in Ids |-> [entry[i] EXCEPT !.timer = Down(@)]]
  /\ silence' = [i \in Ids |-> IF check[i] >= 0 THEN Sat(silence[i] + 1, SilenceBound + 1) ELSE 0]
  /\ UNCHANGED <<up, id, node, cut, lost, check>>

Next ==
  \/ UpdateTimer \/ Heard \/ Associate \/ Leave \/ Expire
  \/ NodeGone \/ NodeBack \/ Stop \/ Restart
  \/ \E m \in net : Deliver(m) \/ Lose(m)
  \/ CheckTimer \/ \E i \in Ids : EntryTimeout(i)
  \/ Tick

Spec == Init /\ [][Next]_vars

\* The network is done with message m.
Settle(m) == (Deliver(m) \/ Lose(m)) /\ net' = net \ {m}

\* Timers are served, time goes on, and no message stays on the way for ever, or longer
\* than MaxDelay.  The peer's timer waits for nothing but the bound MaxNet.
FairSpec ==
  Spec /\ SF_vars(UpdateTimer) /\ WF_vars(Expire) /\ WF_vars(CheckTimer) /\ WF_vars(Tick)
       /\ WF_vars(\E i \in Ids : EntryTimeout(i))
       /\ WF_vars(\E m \in net : Settle(m))
       /\ WF_vars(\E m \in net : m.age >= MaxDelay /\ Settle(m))

-----------------------------------------------------------------------------
TypeOK ==
  /\ up \in BOOLEAN /\ id \in Ids
  /\ sendTimer \in 0 .. remote_update_interval /\ checkTimer \in 0 .. remote_update_interval
  /\ sta \in [here : BOOLEAN, connected : BOOLEAN, timer : -1 .. local_sta_timeout]
  /\ node \in BOOLEAN /\ cut \in BOOLEAN
  /\ seen \in 0 .. Unseen /\ away \in 0 .. Unseen
  /\ net \subseteq [id : Ids, age : 0 .. MaxDelay, here : BOOLEAN, connected : BOOLEAN,
                    timeout : 0 .. local_sta_timeout]
  /\ lost \in 0 .. MaxLoss
  /\ check \in [Ids -> -1 .. remote_node_timeout \div remote_update_interval + 2]
  /\ entry \in [Ids -> [here : BOOLEAN, connected : BOOLEAN, timer : -1 .. local_sta_timeout]]
  /\ silence \in [Ids -> 0 .. SilenceBound + 1]

(* remote.c:441-451.  The receiver counts intervals, not milliseconds, and  *)
(* rounds; still a node is dropped only if its peer was not heard of for    *)
(* more than remote_node_timeout.                                           *)
DroppedAfterSilence ==
  [][\A i \in Ids : check[i] >= 0 /\ check'[i] < 0 => silence[i] > remote_node_timeout]_vars

(* remote.c:441-451.  The node of a peer that is gone, or that has a new id *)
(* since it restarted, is dropped two intervals after remote_node_timeout   *)
(* at the latest.                                                           *)
SilentAreDropped == \A i \in Ids : check[i] >= 0 => silence[i] <= SilenceBound

\* Id i is the peer's, and its node is there.
Current(i) == up /\ node /\ id = i

(* remote.c:154-184, 385-397.  A client that has left its access point is   *)
(* not taken for associated there by the other daemons for ever: although   *)
(* the entry of an associated client has no timer, later messages or the    *)
(* end of the node correct it.  Not so when its hostapd restarts: the node  *)
(* comes back under the same id, which sets check to 0 (remote.c:239), and  *)
(* says nothing of the client, so that nothing corrects the entry until the *)
(* client is heard there again.  That case, cut, has no bound in the code.  *)
LeftClientsAreForgotten ==
  \A i \in Ids : (entry[i].connected /\ ~(Current(i) /\ sta.connected))
                   ~> (~entry[i].connected \/ (Current(i) /\ (sta.connected \/ cut)))

(* remote.c:154-184, 385-397.  How long that takes: if nl80211 answers for  *)
(* the clients and entries outlive the loss and delay of messages, a client *)
(* is taken for associated no longer than StaleBound after the peer noticed *)
(* that it left, however often it is heard there since and whatever old     *)
(* messages arrive after newer ones; and no longer than the node lasts, if  *)
(* the peer has stopped, or sends nothing of the node as hostapd is gone.   *)
(* There is no bound after a restart of hostapd alone (cut, see above).     *)
ForgottenInTime ==
  (ReliableNl80211 /\ StaleBound < local_sta_timeout) =>
    \A i \in Ids : entry[i].connected /\ ~(Current(i) /\ sta.connected) =>
      IF Current(i) THEN cut \/ (sta.here /\ away <= StaleBound)
      ELSE check[i] >= 0 /\ silence[i] <= SilenceBound
=============================================================================

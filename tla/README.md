# A TLA+ model of usteer

usteer is a daemon that runs on every access point of a wireless network.  It
learns from hostapd, the kernel and the other daemons which client was heard
where, answers hostapd's question whether a client's request is to be answered,
and kicks clients that are better off elsewhere.  The daemon is one thread with
an event loop (libubox uloop): handlers run to their end, one after the other.
There is one exception: while a handler waits in a synchronous `ubus_invoke` (a
kick, a notice, the lookup of netifd), libubus may handle an answer to one of the
asynchronous requests.  The modules have such an answer before or after the
handler it came in, not in the middle of it.
What is hard about it is the order in which handlers run, the age of what they
read, timers over a wrapping clock, asynchronous requests that are aborted and
repeated, and messages that get lost.

Paths and line numbers are those of the repository; the modules are in this
directory.  `PROJECT.json` lists the runs, the lines each definition models, the
findings, the hazards and the theorems.

## The system's parts

| part | state | operations | talks to |
|---|---|---|---|
| timeout queue (`timeout.c`) | AVL tree of timers with 32-bit deadlines, one uloop timer | set, cancel, flush, the callback pass | station table, fakeap |
| station table (`sta.c`) | stations, an entry (`sta_info`) per station and node, its association, timeout, signal, counters | get/create, delete, timeout, node cleanup, event | everything |
| request admission (`local_node.c:83`, `sta.c:165`, `policy.c:200`) | per entry and request type: refusals, time of the last one | probe, auth, assoc request | hostapd (the answer), candidate search |
| candidate search (`policy.c:24-184`) | none; reads client counts, loads, signals, beacon reports | `find_better_candidate` | admission, kick turn |
| kick turn (`policy.c:252-533`) | per entry: roam state, tries, times; per node: overload counter | one turn per `local_sta_update`: roam state machine, SNR kick, load kick | hostapd (`del_client`, notices, scan triggers) |
| local nodes (`local_node.c`) | per hostapd object: update timer, request timer, request state, one `ubus_request`, neighbour report | register, remove, update, request chain | ubusd, hostapd, node handlers |
| node handlers (`nl80211.c`, `netifd.c`) | survey timer and `present`; pending status request | init, update, free | kernel, netifd |
| remote nodes (`remote.c`) | remote nodes by id and name, silence counter, entries; socket and interface list | send, receive, time out, reload | other daemons (UDP multicast) |
| hearing map (`hearing_map.c`) | per entry: beacon reports, the band that is due, unanswered rounds | request in every poll, report, cleanup | hostapd, candidate search |
| ubus object (`ubus.c`) | configuration, SSID list | set/get config, queries, client calls | everything |
| message format, main, monitor, fakeap, scripts | - | parsing, start-up, test tools | - |

The interactions that matter: hostapd's polls and events, remote messages, the
candidate search and kicks all write the same entries; the timer of an entry is
set, cancelled or left alone depending on what `connected` happens to be at that
moment; the kick turn reads what the last poll left; every update of a node
aborts the requests of the one before; and each daemon decides about a client on
what it last heard of the others.

What makes each part correct:

* timeout queue: nothing fires early or out of order, nothing due is forgotten,
  whatever the 32-bit clock does;
* station table: stations, entries, timers and nodes refer to each other
  consistently; associated clients stay, clients that left go;
* admission: refusals are bounded, and urgency is earned;
* candidate search: it does not bounce clients, does not lead round in a
  circle, and comes to rest;
* kick turn: kicks are announced, not repeated, as patient as configured, and
  do not come in bursts;
* local nodes: freed nodes are silent, requests are not reused on the wire,
  nodes and neighbour lists follow hostapd;
* remote nodes: dropped neither early nor late; departures become known;
* hearing map: every band is asked about, clients are not flooded, old reports
  go, silent clients that answer again are asked to measure again;
* all daemons together: no client is refused by everybody for ever.

## Modules

Each component has a module with its state, one action per handler and its
properties; a module `MC...` with the values TLC needs; and, where something is
proved, a module `...Proofs`.  Definitions whose names begin with `M` and stand
before a definition of the code are wrong variants of it: each property is
confirmed to fail when the variant takes the place of the code's definition.

* **TimerSpec**: what the queue promises: a set of timers with the true time
  left, each called only when due and when none is due before it.
* **TimeoutQueue** (`timeout.c`).  Deadlines are taken modulo `W = 2 * H` (the
  code's 2^32).  `usteer_timeout_cb` is split at its callbacks, because they
  take time and change the tree: `CbEnter`, `CbFire`, `CbAgain`, `CbLeave`.  The
  AVL tree is external (libubox) and modelled by the order of its elements.
  True time appears only as the ghost distances `rem` and `passAge`, so the clock
  wraps for ever in a finite state space.
* **StaTable** (`sta.c` and its writers).  An entry is a pair of a station and a
  node.  A poll is one action, the intermediate value 2 of `connected` included
  in its effect: the station query arms the timer of every client it finds,
  since nobody is `connected == 1` at that point.  Deadlines follow TimerSpec.
* **Admission**: `usteer_handle_sta_event` and `usteer_check_request` for one
  client at one node, with `current_time` modulo the width of the counters.
  Whether there is a better candidate is an input.
* **Steering**: the comparison of nodes and `find_better_candidate` as
  operators; the one movement that follows from them is `Steer`.  `Observe` and
  `LoadChanges` stand for everything that changes what is known.  The code takes
  the first match of a list; the model allows each match to be the first.
* **NodeKick**: `usteer_local_node_kick` as one action.  One unit of time is one
  turn; time stamps are saturating ages.  Signals, activity and candidates of a
  turn are inputs.  Polls, probe requests, expiry of entries (of connected ones,
  too, when nl80211 does not answer) and a reconfiguration happen between turns.
* **LocalNode**: registration and removal of hostapd objects, the update timer,
  the chain `get_clients`, `rrm_nr_set`, `rrm_nr_get_own`, and the life of what the
  two node handlers keep.  hostapd and ubusd are external: ubus delivers in
  order, hostapd answers within `MaxLatency`.  Data and status of an answer are two
  steps, for the chain and for netifd: the data of netifd's answer clears
  `req_pending`, and from then on nobody aborts the request.  The list for
  `rrm_nr_set` has the local nodes and the remote ones; these come, go and change
  their SSID in `RemoteChanges`.
* **RemoteNodes**: a peer that sends and a receiver, with a network between
  them that loses, repeats and reorders messages.  When the peer's usteerd restarts
  (`Stop`, `Restart`) it has a new id; when only its hostapd does (`NodeGone`,
  `NodeBack`), the node's entries are deleted and the node returns under the same id
  and name.  `away` measures how long an entry has not been associated, probes or
  not, and `cut` marks that the client's entry went with its node.

* **HearingMap** (`hearing_map.c`): the poll of one client's node with
  `usteer_beacon_request_check`, reports, and local nodes that come, go and change
  channel.  Ages are in poll intervals; the floating-point interval of the
  requests is compared without division (`TooSoon`).  Channel and operating
  class follow from the band and are left out.
* **Roaming**: several daemons, one local node each, and one client.  The
  decision is `usteer_check_request` of Admission, the candidate
  `find_better_candidate` of Steering evaluated on what the daemon holds
  (`Daemon(d)`, `Decision` instantiate the two modules).  Messages carry node and
  entry; entries age, time out and go with their node.  The socket of a daemon
  may fail: after a receive error it stays bound without being listened to
  (`orphan`), which no reload repairs; an interface that was made anew, or a
  failed reload, is repaired by the next `set_config`.

LocalNode, StaTable, NodeKick and RemoteNodes describe the same daemon from
different sides.  They meet in these actions: `usteer_local_node_list_cb` of
LocalNode is `Poll` of StaTable, NodeKick and Admission;
`usteer_local_node_update` of LocalNode is `Turn` of NodeKick; `Event` of
StaTable is `HandleEvent` of Admission, `Probe` of NodeKick and `Heard` of
RemoteNodes; `find_better_candidate` of Steering is the input `better` of
Admission and `candidate` of NodeKick, and Roaming closes that loop; `Poll` of
HearingMap is again `usteer_local_node_list_cb`, and its reports are `reported`
of Steering.

## What the runs check

Runs that pass:

| run | checks | bounds, and why they are enough |
|---|---|---|
| `queue` | order, wake-ups, refinement of TimerSpec, due timers are served | 2 timers, clock of 14 values, timeouts up to 4, lag 2: insertion in front and behind, re-insertion by the callback, every deadline wraps; any number of timers is covered by the proofs |
| `sta_table` | consistency, associated clients kept, entries without a timer accounted for, entries of departed clients end | 2 stations, a local and a remote node: a station outlives one of two entries; nl80211 may fail to answer, kicks and candidate searches happen |
| `admission` | bounded bursts, earned urgency | clock of 6 values with `sta_block_timeout` 2 and 2 retries: expired, unexpired and wrapped differences |
| `steering` | nobody is sent back, some node that hears a client has no better candidate, every move pays off, clients move finitely often | 4 clients, 3 nodes in 2 bands, changing views and loads, thresholds 3 and 1 (the smallest that are `Balanced` with both in use); one node is full with 3 clients and overloaded with 2, so that clients leave a full node and come back |
| `node_roam` | kicks are announced, load kicks keep their distance, the scan phase ends | 1 client, 6 kinds of measurement, all delays at least 1 turn, reconfiguration |
| `node_kick` | no double kick, patience | 2 clients, both needed for a load kick, all three rules in one turn |
| `local_node` | silence after free, request reuse, regular polls, in step with hostapd or about to be told, nodes follow hostapd | 1 name with 3 ids (an object comes back twice), refusals, SSID removal, flapping, netifd |
| `local_node_rrm` | neighbour lists converge | 2 names and a remote node that comes, goes and changes its SSID; update interval 4 with latency 0, see below |
| `remote_nodes` | silent nodes dropped in time, not before; departures become known, and in time | 2 ids, interval 2 with timeout 1 so that the division rounds (to 0), 1 message in a row lost, 2 on the way; entries live 7, one more than `StaleBound`; hostapd stops under the first id (`HostapdStops`), so that usteerd's restart follows in both orders |
| `hearing_map` | bounded requests in a row, every band asked, old reports go, the mode recovers | 4 nodes in 3 bands, so that a band can stand between two nodes of another; two nodes change channel, two come and go; requests every 2 or 3 intervals, polls 1 or 2 apart; the failure counter wraps at 10, above the limits 3, 5 and 7 that the code compares it with |
| `roaming` | all refuse only on old information; nobody is locked out | 2 daemons in 2 bands, signals 10 dB apart against a threshold of 6, 0 or 3 clients against a threshold of 2 and the load limit: the three criteria agree and contradict each other; every message may be lost; one daemon's socket may fail |

Deadlock is checked in every run.

`local_node_rrm` sits on a boundary: with latency `L` the three requests of a
chain and the 1 ms timers between them need `3 L + 4` ms.  With an interval of 3
instead of 4 the run fails, because every update aborts `rrm_nr_get_own`.

### Where text and code differ

The run `admission_retries` (`RetriesAreBounded`) ends in a counterexample: the
reversed time difference restarts the count of refusals, so that spaced retries
are never treated with urgency, against `readme.md:25`.  `BurstIsBounded` is what does
hold, and `NobodyIsLockedOut` says why it seldom matters.

More are seen from how the properties that hold had to be stated, or from the
modules; they have no run of their own:

* `ScanPhaseEnds` excludes clients with a better candidate.  Such a candidate
  takes the roam state machine from SCAN to SCAN_DONE without a scan by the
  client; SCAN_DONE finds the last scan too old and goes back, with the tries
  reset, so the attempts of `readme.md:35` are never used up.
* `EntriesAgeOut` excludes `orphans`.  A probe request cancels the timer of an
  associated client's entry, a kick right after it clears `connected` without
  arming it, and the entry stays, against `readme.md:23`.  A candidate search or a
  poll without nl80211 leaves such entries too.
* `readme.md:44` says that with fewer than `load_kick_min_clients` connected clients
  "no clients will be kicked".  `LoadKickDue` compares `n_assoc`, the count of the last
  poll (`policy.c:491`); clients that were kicked, or whose entries expired, since then
  are still in it, and a load kick can leave fewer.  No property says otherwise.
* `LeftClientsAreForgotten` and `ForgottenInTime` exclude `cut`.  When the peer's hostapd
  restarts, its usteerd deletes the entries of the node (`local_node.c:66`) and goes on
  under the same id; the messages of the returned node set the receiver's `check`
  to 0 (`remote.c:239`) and do not name a client that did not come back.  The
  receiver's entry of that client is connected and has no timer (`sta.c:121`): it
  stays until the client is heard at that node again.
* `FreedNodesAreSilent` allows one thing.  The data of a netifd status request clears
  `req_pending` (`netifd.c:99`) while the request is outstanding until its status.  A node
  that is freed in between does not abort it (`netifd.c:141`), and libubus keeps the
  request, in freed memory, in its list; an update in between sends the same struct
  again (`netifd.c:114-123`).
* `SteeringSettles` excludes thresholds that are not `Balanced` and moves away
  from full nodes.  Let `load_balancing_threshold` be 2 and `signal_diff_threshold` 6,
  and let three nodes have 1, 2 and 1 clients.  A client of the first that hears
  them at -57, -50 and -54 dBm goes to the second for the signal, to the third for
  the count (3 against 1), to the first for the count (2 against 0), and so on for
  ever; no single step is a way back, so `NoReturn` holds.  And a node that is full
  and overloaded gives a client away for the count, since a full node is not
  compared the other way round, and as the overloaded node gets it back at once.
  The property says that clients move finitely often, not that all have moved: a
  candidate refuses requests and picks victims of kicks, but nothing moves an
  associated client that is neither weak nor load-kicked.

Other differences follow from the operators and guards of the modules and are
noted with their hazards, without a run: the 8-bit `roam_tries` cannot reach a
larger `roam_scan_tries`; the overload counter survives while
load kicks are off; beacon reports bypass `seen_policy_timeout`, and their signal
threshold is 0; without nl80211 at the peer, a departed client stays associated
in the eyes of the others; `has_better_load` prefers the loaded node; a receive
error leaves a daemon deaf; a node refuses a client in favour of one that it is
too weak for.

### Assumptions

* `MaxMsecs + MaxLag < H` (TimeoutQueue): timeouts and delays of the loop stay
  below 2^31 ms.  Larger ones cannot be told from the past, by design.
* `MinRepeat` 1 (`queue`): a callback that sets its own timer to 0 ms
  keeps `usteer_timeout_cb` in its loop; the daemon has no such callback.
* `local_sta_timeout > 0`: with 0, `usteer_sta_info_update_timeout` deletes the
  entry its caller is using.
* `InterfaceStays` (`local_node`, and the theorem `FreedNodesStaySilent`): an interface that was found is found when
  the node is registered again.  Otherwise `nl80211_init_node` clears `present`, and
  `nl80211_free_node` leaves the survey timer armed.
* `MaxLatency + 1 < local_sta_update` (`local_node`, and the theorem
  `ClientsAreListedInTime`): hostapd answers before the next update.  Otherwise
  every update aborts the `get_clients` of the one before, and the clients are never
  listed.
* `Flapping = FALSE` (`local_node_rrm` only): an object does not vanish before
  it was subscribed to.  Otherwise its node stays without an object, as
  `NodesFollowHostapd` says.
* `Reconfigure = FALSE` (`node_kick`, and the theorem `LoadKicksArePatient`):
  `load_kick_enabled` does not change.
* `roam_scan_tries < TriesMod` (NodeKick runs): the limit is below the wrap of
  the 8-bit counter.
* `ReliableNl80211 = TRUE` (`remote_nodes`, and stated in `ForgottenInTime`): the
  peer's nl80211 refreshes an associated client in every poll.
* `StaleBound < local_sta_timeout` (stated in `ForgottenInTime`): an entry outlives
  the messages that can be lost or late in a row, so that the peer still tells of a
  client that has left when such a message gets through.
* `Balanced` (stated in `EveryMovePaysOff` and `SteeringSettles`):
  `load_balancing_threshold` at least 2, and `signal_diff_threshold` 0 (the default) or
  more than one below it.  The bound is exact: for 2 and 1 the three nodes above
  exist with signals 1 dB apart.
* `load_balancing_threshold >= 2` (stated in `NoReturn`): with less, moving a
  client can make the node it left the better one.
* `Contiguous` (stated in the HearingMap properties): local nodes of one band
  are neighbours in `local_nodes`.  With bands A, B, A, C the rotation alternates
  between A and B.  The comment at `hearing_map.c:205` assumes that no two nodes
  share a band, which is more.
* `StrongEnough` at every node (stated in `NobodyIsLockedOut` and
  `RefusedByAllOnlyWhenStale`): the candidate
  search does not look at `min_connect_snr`.  With `signal_diff_threshold` 0 and the
  client strong at one of two nodes only, the property fails.
* No beacon reports in Roaming: their comparison has a threshold of 0 and no
  age, and nothing like `SomeNodeIsBest` is claimed for it.
* `INT_MAX` (Steering): signals are C ints.
* `HostapdStops` (`remote_nodes`): a bound, the ids under which the peer's hostapd may
  stop; the proofs hold for any.
* `MaxLoss`, `MaxDelay` (RemoteNodes): departures become known only if the
  messages sent during `local_sta_timeout` are not all lost or overtaken.

### Fairness

uloop serves every timer that is due and every message that waits, and time goes
on: weak fairness of the clock and of the served handlers.  NodeKick needs only
the turns (the update timer re-arms itself).  LocalNode assumes per node that
requests are answered or fail, which ubus guarantees (an object that goes ends
its requests).  Steering assumes no fairness.  RemoteNodes assumes strong fairness of the
peer's update timer, because `MaxNet`, a bound of the model, is the only thing that
it can wait for, and that no message stays on the way for ever, nor longer than
`MaxDelay`.  HearingMap assumes that the client's node is polled
again and again.  Roaming assumes that the client keeps asking at each node and
that what a daemon holds of another is refreshed or times out, but not which.
No fairness is assumed otherwise of clients, hostapd objects, kicks
or configuration.

## What is proved

TLAPS checks these for every value of the constants that satisfies the named
assumptions (`QueueAssumption`, `EndAssumption`, `KickAssumption`,
`TableAssumption`, `SteeringAssumption`, `AdmissionAssumption`,
`RemoteAssumption`, `LocalNodeAssumption`, `HearingAssumption`; for Roaming `ConstantsOK`,
which its `RoamingAssumption` states).  Every theorem rests on
`InvariantHolds`, `Spec => []IInv`, in its module, with one lemma per action; the two
about Roaming rest on its types.

* **TimeoutQueueProofs**: `TypeCorrect`, `OrderCorrect`, `WakeupCorrect` and
  `Refinement` (the queue implements TimerSpec).  The invariant says that a key is
  the true deadline modulo the clock (`KeyInv`), that the tree order is total
  (`TotalInv`), how old the time of a pass is (`PassInv`), and that whatever stands
  left of the iterator is not overdue at that time (`CurInv`).  `CurInv` is what makes
  the refinement go through: it shows that the timer that fires is the first
  due one although callbacks insert timers during the pass.  The lemmas
  `DeltaIsDistance` and `CmpIsDistance` reduce 32-bit differences to true distances.
* **NodeKickProofs**: `TypeCorrect`, `KicksAreAnnounced`, `KicksAreNotRepeated`,
  `LoadKicksKeepDistance` and, if the configuration does not change,
  `LoadKicksArePatient`.  `NoticeInv` ties
  the age of the notice to the roam event that is overwritten on every change;
  `KickedInv` says that whoever was kicked since the poll is not connected;
  `LoadInv` bounds the counter by the turns of overload, and `SpaceInv` by the turns since
  the last load kick, which reset it.
* **StaTableProofs**: `TypeCorrect`, `TableIsConsistent`, `AssociatedAreKept`,
  `UntimedEntries`.
  `AgeInv` says that a local timer and the time since the last confirmation add
  up to at least `local_sta_timeout`; `RemoteInv` that associated remote entries have no
  timer.  `UntimedEntries` is the safety half of `EntriesAgeOut`: every way to lose a
  timer without an association is one of the three that make an orphan.
* **SteeringProofs**: `TypeCorrect`, `NobodyIsSteeredBack`,
  `NobodyIsRefusedByAll`, `MovesPayOff`; of Roaming `RoamingTypeCorrect` and
  `RefusedByAllOnlyWhenStale`.  The counts are the
  cardinalities of the sets of clients (`CountInv`); the main lemma shows that
  after a move by entries none of the three criteria holds in the other
  direction without contradicting that the move was allowed.
  `NobodyIsRefusedByAll` needs that "better" has no circle, although counts and
  signals are compared with thresholds of their own.  A full node is nobody's
  better candidate, and an overloaded one is never given up for one that is not
  (`has_better_load`), so the best node is sought among the overloaded nodes with
  room, or else among all with room.  There the weighted sum `Cost` of
  `signal_diff_threshold` times the count and `load_balancing_threshold` times the
  missing signal does not grow towards a better node (`BetterIsCheaper`), and the
  node where it is least is best (`CheapestNode`).  These lemmas are about any
  counts, loads and signals, so that they hold of the daemons of Roaming, too: the
  best node by what the nodes themselves measure finds no better one whatever part
  of the others it knows of, as long as what it knows is up to date
  (`SomeDaemonHasNoBetter`), and a daemon without a better candidate grants.
  `MovesPayOff` is the measure behind `SteeringSettles`.  Between nodes of the same
  kind a move lowers `Price`, in which the mover counts itself.  Summed up, the
  change of `Price` is the change of one quantity of the whole network (the sum of
  `(signal_diff_threshold + 1) * r * (r + 1) / 2` over the ranks `r` of the nodes, less
  `load_balancing_threshold` times the signals of all clients), and the other moves
  raise the number of clients above `load_kick_min_clients - 1` at loaded nodes,
  which no move lowers.  So there is no infinite sequence of moves.  The theorem is
  about the single move; the sums are over sets and stay outside the prover.
* **AdmissionProofs**: `TypeCorrect`, `BurstsAreBounded`, `UrgencyCorrect`.
  `BurstIsCounted` ties a burst to the counter and the clock, `CountIsEarned` the
  counter to the refusals in a row.
* **RemoteNodesProofs**: `TypeCorrect`, `SilentNodesAreDropped`,
  `NodesAreNotDroppedEarly`, `LeftClientsAreForgottenInTime`.  The receiver only counts turns of its timer.
  `SilenceInv` says what a count means in time: a node whose counter stands at `c`
  was silent for at least `c` and at most `c + 1` intervals, less what is left of the
  current one.  A node is dropped above `remote_node_timeout \div
  remote_update_interval`, and `Rounding` says what the division loses; both bounds
  follow, also for intervals that do not divide the timeout.
  `LeftClientsAreForgottenInTime` bounds what `LeftClientsAreForgotten` only promises:
  the receiver is wrong about a client for at most `StaleBound`, two delays and one
  interval more than can be lost, after the peer noticed that the client left,
  although it may be heard there again and again, messages overtake each other and
  `seq` is not compared.  What `cut` excludes is described above.  `StaleInv` has four
  parts: that the peer's entry lives at least `local_sta_timeout` after the client left
  (`PeerInv`); that messages are of ids the peer has had (`OrderInv`); which messages on
  the way are from before and after the client left (`SentInv`); and, while the
  receiver is wrong, that there were as many corrections lost or on the way as
  there were intervals (`CorrectedInv`), of which only `MaxLoss` in a row can be lost.
  The bound is reached, for instance with an interval and a delay of 1.
* **LocalNodeProofs**: `TypeCorrect`, `RequestsAreNotReused`, `NodesKeepStep` and, each with its
  hypothesis (see the assumptions above), `FreedNodesStaySilent` and
  `ClientsAreListedInTime`.  That a freed node has nothing left on ubus follows from
  the order of delivery: a removal on its way is the only one for its node and is
  about the one object that is subscribed to (`RemoveInv`), without one the node has
  subscribed to the present object at most (`SubInv`), and ids only grow (`IdInv`).
  So when an answer of the present object frees the node because of its SSID, no
  removal is on its way.  What the two handlers test before they cancel covers
  what there is to cancel (`HandlerInv`), but for a netifd request that has its data.  The request is free whenever the chain is
  idle or its timer is armed (`ReqInv`), which is what each step needs to send again.
  For the time of a poll, `LeadInv` says that the answer comes before the update
  timer can abort the request, and `PollInv` that the time since the last list and
  the time the chain still needs (`Left`) stay within one interval and one request
  together, through aborts, re-registrations and replaced objects.
  `NodesKeepStep` is the safety half of `NodesFollowHostapd`: without an event about it
  in the queue, a node agrees with its object.  `FollowInv` says why: the newest event
  about an object that is there announces just that object, and the newest about one
  that has gone is its removal or an announcement whose subscription will fail.
* **HearingMapProofs**: `TypeCorrect` and `ClientsAreNotFlooded`.  `NotFlooded` bounds a
  count by a number of bands that changes as nodes come and go, and says nothing
  of where the rotation stands.  `TurnInv` adds that: the requests made so far and
  the bands the rotation has still to pass before it is back at the own one
  (`Ahead`) are together no more than there are bands.  Each request uses up its band,
  and what is left behind the next band was left before (`RotationAdvances`); this is
  where the nodes of one band have to be neighbours.  After a change of the nodes
  the rotation may stand anywhere, also on a band that is gone, and the first
  request still leaves all but the own band (`FirstTurn`).

Only model-checked: all liveness properties (`DueTimersAreServed`, `EntriesAgeOut`,
`SteeringSettles`, `ScanPhaseEnds`, `NodesFollowHostapd`, `NeighboursConverge`,
`LeftClientsAreForgotten`, `EveryBandIsAsked`, `ExpiredReportsGo`,
`AnsweringClientsRecover`, `NobodyIsLockedOut`), which are out of the prover's reach.
For five of these a theorem states the safety that they rest on: `UntimedEntries`,
`MovesPayOff`, `NodesKeepStep`, `LeftClientsAreForgottenInTime` and
`RefusedByAllOnlyWhenStale`.  Every invariant and every action property of the runs
is proved.  The type invariants of StaTable, Steering, Admission and Roaming are
proved for every instance and not checked by the runs as well.

## What is not modelled

Parsing and formatting (`parse.c`, the query methods of `ubus.c`, the contents of
requests and notices to hostapd, `monitor.c`), start-up and logging (`main.c`,
scripts), the test program `fakeap.c`, netlink message decoding, scans and
frequency lists of `nl80211.c`, the vendor element of `remote.c` and its tree of nodes
by id, and the byte counters behind `is_active_client` (their outcome is an input of
NodeKick).  Of `set_config`, which writes one field after the other, only the fields
with an effect of their own are modelled: `load_kick_enabled`, `ssid`, `interfaces`.

## Plan

1. (done) TimeoutQueue with its contract; StaTable; NodeKick; Steering;
   Admission; LocalNode; RemoteNodes; the proofs of the first five.
2. (done) HearingMap; Roaming, which composes Admission, Steering and the
   messages between daemons; the spacing of load kicks and the absence of
   circles, with proofs.
3. (done) The proofs of RemoteNodes.
4. (done) The proofs of LocalNode and HearingMap.
5. (done) The safety behind the liveness properties: Roaming's types and refusals,
   entries without timers, the time until departures are known, nodes in step with
   hostapd, moves that pay off.
6. The byte counters of `usteer_update_client_active_bytes` and their restart after
   a new association.

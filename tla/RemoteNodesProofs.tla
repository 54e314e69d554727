------------------------- MODULE RemoteNodesProofs -------------------------
(***************************************************************************)
(* RemoteNodes for every timeout, interval, delay, loss and number of       *)
(* restarts: a node is dropped after remote_node_timeout of silence, not    *)
(* earlier, and at most two intervals later; and a client that has left its *)
(* access point is not taken for associated there for longer than messages  *)
(* can be lost and delayed.                                                 *)
(***************************************************************************)
EXTENDS RemoteNodes, FiniteSetTheorems, FunctionTheorems, TLAPS

I == remote_update_interval
T == remote_node_timeout \div remote_update_interval

\* How long c turns of the receiver's timer take.
Turns(c) == c * remote_update_interval

-----------------------------------------------------------------------------
(* The inductive invariant.                                                 *)

\* A counter that stands at c has seen c turns of the receiver's timer since the last
\* message: that was more than c - 1 intervals ago, and less than c + 1.
SilenceInv ==
  \A i \in Ids : check[i] >= 0 =>
    /\ check[i] <= T + 1
    /\ silence[i] <= Turns(check[i]) + I - checkTimer
    /\ check[i] > 0 => silence[i] >= Turns(check[i]) - checkTimer

IInv == TypeOK /\ SilenceInv

-----------------------------------------------------------------------------
(* Arithmetic.                                                              *)

\* The division of usteer_check_timeout rounds down (remote.c:445).
LEMMA Rounding ==
  /\ I \in Nat \ {0} /\ T \in Nat
  /\ Turns(T) <= remote_node_timeout
  /\ remote_node_timeout < Turns(T) + I
BY RemoteAssumption DEF I, T, Turns

\* One more interval.
LEMMA OneMore ==
  ASSUME NEW c \in Nat
  PROVE  /\ Turns(0) = 0 /\ Turns(c) \in Nat /\ Turns(c + 1) = Turns(c) + I
         /\ \A d \in Nat : c <= d => Turns(c) <= Turns(d)
BY RemoteAssumption DEF I, Turns

\* At most T + 1 turns, so that the ghost does not saturate.
LEMMA Bounded ==
  ASSUME NEW c \in Nat, c <= T + 1
  PROVE  Turns(c) + I <= SilenceBound
<1>1. Turns(T + 1) = Turns(T) + I /\ Turns(c) <= Turns(T + 1)
  BY Rounding, OneMore
<1>2. Turns(c) \in Nat /\ Turns(T) \in Nat
  BY Rounding, OneMore
<1>3. SilenceBound = remote_node_timeout + 2 * I
  BY DEF SilenceBound, I
<1>4. QED
  BY <1>1, <1>2, <1>3, Rounding, RemoteAssumption

-----------------------------------------------------------------------------
(* Types.                                                                   *)

Entries == [here : BOOLEAN, connected : BOOLEAN, timer : -1 .. local_sta_timeout]
Messages == [id : Ids, age : 0 .. MaxDelay, here : BOOLEAN, connected : BOOLEAN,
             timeout : 0 .. local_sta_timeout]

PeerType ==
  /\ up \in BOOLEAN /\ id \in Ids /\ sendTimer \in 0 .. remote_update_interval
  /\ node \in BOOLEAN /\ cut \in BOOLEAN
  /\ sta \in Entries /\ seen \in 0 .. Unseen /\ away \in 0 .. Unseen
NetType == net \subseteq Messages /\ lost \in 0 .. MaxLoss
ReceiverType ==
  /\ checkTimer \in 0 .. remote_update_interval
  /\ check \in [Ids -> -1 .. T + 2]
  /\ entry \in [Ids -> Entries]
  /\ silence \in [Ids -> 0 .. SilenceBound + 1]

\* The type invariant by its parts.
LEMMA TypeParts ==
  /\ TypeOK <=> PeerType /\ NetType /\ ReceiverType
  /\ TypeOK' <=> PeerType' /\ NetType' /\ ReceiverType'
BY DEF TypeOK, PeerType, NetType, ReceiverType, Entries, Messages, T

\* A timer that counts down stays in its range.
LEMMA DownType ==
  ASSUME NEW n \in Nat
  PROVE  /\ \A t \in 0 .. n : Down(t) \in 0 .. n
         /\ \A t \in -1 .. n : Down(t) \in -1 .. n
BY DEF Down

\* The values that entries are set to.
LEMMA EntryValues ==
  /\ Absent \in Entries
  /\ \A b, c \in BOOLEAN, t \in -1 .. local_sta_timeout :
       [here |-> b, connected |-> c, timer |-> t] \in Entries
  /\ \A e \in Entries : [e EXCEPT !.timer = Down(@)] \in Entries
  /\ \A e \in Entries : [e EXCEPT !.timer = local_sta_timeout] \in Entries
BY DownType, RemoteAssumption DEF Absent, Entries

\* What is sent is a message (remote.c:385-397).
LEMMA SendType ==
  ASSUME PeerType, NetType, NEW s \in Entries, NEW a \in 0 .. Unseen, Send(s, a)
  PROVE  net' \subseteq Messages
<1>1. id \in Ids /\ s.here \in BOOLEAN /\ s.connected \in BOOLEAN
  BY DEF PeerType, Entries
<1>2. (IF s.here THEN local_sta_timeout - a ELSE 0) \in 0 .. local_sta_timeout
  BY RemoteAssumption DEF Unseen
<1>3. Message(s, a) \in Messages
  BY <1>1, <1>2, RemoteAssumption DEF Message, Messages
<1>4. QED
  BY <1>3 DEF Send, NetType

\* Steps of the peer leave the receiver alone and keep the types.
LEMMA PeerSteps ==
  ASSUME PeerType, NetType,
         \/ UpdateTimer \/ Heard \/ Associate \/ Leave \/ Expire
         \/ NodeGone \/ NodeBack \/ Stop \/ Restart
  PROVE  PeerType' /\ NetType' /\ UNCHANGED receiver
<1>1. UNCHANGED receiver /\ UNCHANGED lost
  BY DEF UpdateTimer, Heard, Associate, Leave, Expire, NodeGone, NodeBack, Stop, Restart, receiver
<1>2. /\ 0 \in 0 .. remote_update_interval /\ 0 \in 0 .. Unseen
      /\ remote_update_interval \in 0 .. remote_update_interval
      /\ Unseen \in 0 .. Unseen
      /\ local_sta_timeout \in -1 .. local_sta_timeout /\ -1 \in -1 .. local_sta_timeout
  BY RemoteAssumption DEF Unseen
<1>3. sta.connected \in BOOLEAN /\ sta.timer \in -1 .. local_sta_timeout
  BY DEF PeerType, Entries
<1>4. CASE UpdateTimer
  <2>1. net' \subseteq Messages
    BY <1>4, SendType DEF UpdateTimer, PeerType, NetType
  <2>2. QED
    BY <1>1, <1>2, <1>4, <2>1 DEF UpdateTimer, PeerType, NetType
<1>5. CASE Heard
  <2> DEFINE s == [here |-> TRUE, connected |-> sta.connected,
                   timer |-> IF sta.connected THEN -1 ELSE local_sta_timeout]
  <2>1. s \in Entries
    BY <1>2, <1>3, EntryValues
  <2>2. sta' = s /\ seen' = 0 /\ (net' = net \/ Send(s, 0)) /\ UNCHANGED <<up, id, sendTimer, node>>
        /\ away' \in {away, 0} /\ cut' = FALSE
    BY <1>5 DEF Heard
  <2>3. net' \subseteq Messages
    BY <1>2, <2>1, <2>2, SendType DEF NetType
  <2>4. QED
    BY <1>1, <1>2, <2>1, <2>2, <2>3 DEF PeerType, NetType
<1>6. CASE Associate
  <2>1. sta' \in Entries
    BY <1>2, <1>3, <1>6, EntryValues DEF Associate
  <2>2. QED
    BY <1>1, <1>2, <1>6, <2>1 DEF Associate, PeerType, NetType
<1>7. CASE Leave
  <2>1. sta' \in Entries
    BY <1>2, <1>7, EntryValues DEF Leave
  <2>2. QED
    BY <1>1, <1>2, <1>7, <2>1 DEF Leave, PeerType, NetType
<1>8. CASE Expire \/ NodeGone \/ Stop
  BY <1>1, <1>2, <1>8, EntryValues DEF Expire, NodeGone, Stop, NoEntry, PeerType, NetType
<1>9. CASE NodeBack \/ Restart
  BY <1>1, <1>2, <1>9 DEF NodeBack, Restart, PeerType, NetType
<1>10. QED
  BY <1>4, <1>5, <1>6, <1>7, <1>8, <1>9

-----------------------------------------------------------------------------
(* The steps of the receiver and of time.                                   *)

\* A message sets counter and silence to 0 (remote.c:257-286).
LEMMA DeliverInv ==
  ASSUME IInv, NEW m \in net, Deliver(m)
  PROVE  IInv'
<1>1. PeerType /\ NetType /\ ReceiverType /\ SilenceInv
  BY TypeParts DEF IInv
<1>2. m \in Messages
  BY <1>1 DEF NetType
<1>3. m.id \in Ids /\ m.connected \in BOOLEAN /\ m.timeout \in 0 .. local_sta_timeout
  BY <1>2 DEF Messages
<1>4. interface_add_station(m) \in Entries
  <2>1. (IF m.connected THEN -1 ELSE m.timeout) \in -1 .. local_sta_timeout
    BY <1>3, RemoteAssumption
  <2>2. entry[m.id] \in Entries
    BY <1>1, <1>3 DEF ReceiverType
  <2>3. QED
    BY <1>3, <2>1, <2>2, EntryValues DEF interface_add_station
<1>5. /\ check' = [check EXCEPT ![m.id] = 0]
      /\ entry' = [entry EXCEPT ![m.id] = interface_add_station(m)]
      /\ silence' = [silence EXCEPT ![m.id] = 0]
      /\ net' \subseteq net /\ lost' = 0
      /\ UNCHANGED <<up, id, sendTimer, node, sta, seen, away, cut, checkTimer>>
  BY DEF Deliver, interface_recv_msg, peer
<1>6. PeerType' /\ NetType'
  BY <1>1, <1>5, RemoteAssumption DEF PeerType, NetType
<1>7. ReceiverType'
  <2>1. 0 \in -1 .. T + 2 /\ 0 \in 0 .. SilenceBound + 1
    BY Rounding, RemoteAssumption DEF SilenceBound
  <2>2. QED
    BY <1>1, <1>3, <1>4, <1>5, <2>1 DEF ReceiverType
<1>8. SilenceInv'
  <2> SUFFICES ASSUME NEW i \in Ids, check'[i] >= 0
               PROVE  /\ check'[i] <= T + 1
                      /\ silence'[i] <= Turns(check'[i]) + I - checkTimer'
                      /\ check'[i] > 0 => silence'[i] >= Turns(check'[i]) - checkTimer'
    BY DEF SilenceInv
  <2>1. CASE i = m.id
    <3>1. check'[i] = 0 /\ silence'[i] = 0
      BY <1>1, <1>5, <2>1 DEF ReceiverType
    <3>2. checkTimer' \in 0 .. I
      BY <1>1, <1>5 DEF ReceiverType, I
    <3>3. Turns(check'[i]) = 0
      BY <3>1, OneMore
    <3>4. QED
      BY <3>1, <3>2, <3>3, Rounding
  <2>2. CASE i # m.id
    BY <1>1, <1>5, <2>2 DEF SilenceInv, ReceiverType
  <2>3. QED
    BY <2>1, <2>2
<1>9. QED
  BY <1>6, <1>7, <1>8, TypeParts DEF IInv

\* usteer_check_timeout counts one turn or drops the node (remote.c:441-451).
LEMMA CheckInv ==
  ASSUME IInv, CheckTimer
  PROVE  IInv'
<1>1. PeerType /\ NetType /\ ReceiverType /\ SilenceInv
  BY TypeParts DEF IInv
<1>2. /\ checkTimer = 0 /\ checkTimer' = I
      /\ check' = [i \in Ids |-> IF check[i] < 0 \/ TimedOut(i) THEN -1 ELSE check[i] + 1]
      /\ entry' = [i \in Ids |-> IF TimedOut(i) THEN Absent ELSE entry[i]]
      /\ silence' = [i \in Ids |-> IF TimedOut(i) THEN 0 ELSE silence[i]]
      /\ UNCHANGED <<up, id, sendTimer, node, sta, seen, away, cut, net, lost>>
  BY DEF CheckTimer, peer, I
<1>3. PeerType' /\ NetType'
  BY <1>1, <1>2 DEF PeerType, NetType
<1>4. \A i \in Ids : TimedOut(i) <=> check[i] > T
  BY DEF TimedOut, T
<1>5. ReceiverType'
  <2>1. check' \in [Ids -> -1 .. T + 2]
    BY <1>1, <1>2, <1>4, Rounding DEF ReceiverType
  <2>2. entry' \in [Ids -> Entries]
    BY <1>1, <1>2, EntryValues DEF ReceiverType
  <2>3. silence' \in [Ids -> 0 .. SilenceBound + 1]
    BY <1>1, <1>2, RemoteAssumption DEF ReceiverType, SilenceBound
  <2>4. checkTimer' \in 0 .. remote_update_interval
    BY <1>2, RemoteAssumption DEF I
  <2>5. QED
    BY <2>1, <2>2, <2>3, <2>4 DEF ReceiverType
<1>6. SilenceInv'
  <2> SUFFICES ASSUME NEW i \in Ids, check'[i] >= 0
               PROVE  /\ check'[i] <= T + 1
                      /\ silence'[i] <= Turns(check'[i]) + I - checkTimer'
                      /\ check'[i] > 0 => silence'[i] >= Turns(check'[i]) - checkTimer'
    BY DEF SilenceInv
  <2>1. check[i] \in -1 .. T + 2 /\ silence[i] \in Nat
    BY <1>1, RemoteAssumption DEF ReceiverType, SilenceBound
  <2>2. /\ ~TimedOut(i) /\ check[i] \in Nat /\ check[i] <= T
        /\ check'[i] = check[i] + 1 /\ silence'[i] = silence[i]
    BY <1>2, <1>4, <2>1, Rounding
  <2>3. /\ silence[i] <= Turns(check[i]) + I
        /\ check[i] > 0 => silence[i] >= Turns(check[i])
    <3>1. Turns(check[i]) \in Nat
      BY <2>2, OneMore
    <3>2. /\ silence[i] <= Turns(check[i]) + I - 0
          /\ check[i] > 0 => silence[i] >= Turns(check[i]) - 0
      BY <1>1, <1>2, <2>2 DEF SilenceInv
    <3>3. QED
      BY <2>1, <3>1, <3>2, Rounding
  <2>4. Turns(check[i]) \in Nat /\ Turns(check[i] + 1) = Turns(check[i]) + I
    BY <2>2, OneMore
  <2>5. check[i] = 0 => Turns(check[i]) = 0
    BY OneMore
  <2>6. QED
    BY <1>2, <2>1, <2>2, <2>3, <2>4, <2>5, Rounding
<1>7. QED
  BY <1>3, <1>5, <1>6, TypeParts DEF IInv

\* Time passes only while no timer and no message is due.
LEMMA TickInv ==
  ASSUME IInv, Tick
  PROVE  IInv'
<1>1. PeerType /\ NetType /\ ReceiverType /\ SilenceInv
  BY TypeParts DEF IInv
<1>2. checkTimer # 0 /\ \A m \in net : ~(m.age >= MaxDelay)
  BY DEF Tick, Due
<1>3. PeerType'
  <2>1. sendTimer' \in 0 .. remote_update_interval
    BY <1>1, DownType, RemoteAssumption DEF Tick, PeerType
  <2>2. sta' \in Entries
    BY <1>1, EntryValues DEF Tick, PeerType
  <2>3. seen' \in 0 .. Unseen
    BY <1>1, RemoteAssumption DEF Tick, PeerType, Sat, Unseen
  <2>4. UNCHANGED <<up, id, node, cut>>
    BY DEF Tick
  <2>5. away' \in 0 .. Unseen
    BY <1>1, RemoteAssumption DEF Tick, PeerType, Sat, Unseen
  <2>6. QED
    BY <1>1, <2>1, <2>2, <2>3, <2>4, <2>5 DEF PeerType
<1>4. NetType'
  <2>1. \A m \in net : [m EXCEPT !.age = @ + 1] \in Messages
    BY <1>1, <1>2, RemoteAssumption DEF NetType, Messages
  <2>2. QED
    BY <1>1, <2>1 DEF Tick, NetType
<1>5. /\ checkTimer' = checkTimer - 1 /\ checkTimer \in 1 .. I
      /\ check' = check
      /\ silence' = [i \in Ids |-> IF check[i] >= 0 THEN Sat(silence[i] + 1, SilenceBound + 1)
                                   ELSE 0]
  BY <1>1, <1>2, Rounding DEF Tick, Down, ReceiverType, I
<1>6. SilenceBound \in Nat
  BY RemoteAssumption DEF SilenceBound
<1>7. ReceiverType'
  <2>1. silence' \in [Ids -> 0 .. SilenceBound + 1]
    BY <1>1, <1>5, <1>6 DEF ReceiverType, Sat
  <2>2. entry' \in [Ids -> Entries]
    <3>1. \A i \in Ids : [entry[i] EXCEPT !.timer = Down(@)] \in Entries
      BY <1>1, EntryValues DEF ReceiverType
    <3>2. entry' = [i \in Ids |-> [entry[i] EXCEPT !.timer = Down(@)]]
      BY DEF Tick
    <3>3. QED
      BY <3>1, <3>2
  <2>3. checkTimer' \in 0 .. I
    BY <1>5, Rounding
  <2>4. QED
    BY <1>1, <1>5, <2>1, <2>2, <2>3 DEF ReceiverType, I
<1>8. SilenceInv'
  <2> SUFFICES ASSUME NEW i \in Ids, check[i] >= 0
               PROVE  /\ check[i] <= T + 1
                      /\ silence'[i] <= Turns(check[i]) + I - checkTimer'
                      /\ check[i] > 0 => silence'[i] >= Turns(check[i]) - checkTimer'
    BY <1>5 DEF SilenceInv
  <2>1. check[i] \in Nat /\ silence[i] \in Nat
    BY <1>1, <1>6, Rounding DEF ReceiverType
  <2>2. /\ check[i] <= T + 1
        /\ silence[i] <= Turns(check[i]) + I - checkTimer
        /\ check[i] > 0 => silence[i] >= Turns(check[i]) - checkTimer
    BY <1>1 DEF SilenceInv
  <2>3. Turns(check[i]) \in Nat /\ Turns(check[i]) + I <= SilenceBound
    BY <2>1, <2>2, OneMore, Bounded
  <2>4. silence'[i] = silence[i] + 1
    BY <1>5, <1>6, <2>1, <2>2, <2>3, Rounding DEF Sat
  <2>5. QED
    BY <1>5, <2>1, <2>2, <2>3, <2>4, Rounding
<1>9. QED
  BY <1>3, <1>4, <1>7, <1>8, TypeParts DEF IInv

-----------------------------------------------------------------------------
(* The theorems.                                                            *)

\* At the start the receiver knows no node.
LEMMA InitInv == Init => IInv
<1> SUFFICES ASSUME Init PROVE IInv
  OBVIOUS
<1>1. PeerType
  <2>1. 1 \in Ids
    <3>1. Cardinality(Ids) \in Nat
      BY FS_CardinalityType, RemoteAssumption
    <3>2. QED
      BY <3>1, RemoteAssumption
  <2>2. local_sta_timeout \in 0 .. local_sta_timeout
    BY RemoteAssumption
  <2>3. QED
    BY <2>1, <2>2, EntryValues DEF Init, PeerType, Unseen
<1>2. NetType
  BY RemoteAssumption DEF Init, NetType
<1>3. ReceiverType
  <2>1. -1 \in -1 .. T + 2 /\ 0 \in 0 .. SilenceBound + 1
    BY Rounding, RemoteAssumption DEF SilenceBound
  <2>2. QED
    BY <2>1, EntryValues DEF Init, ReceiverType
<1>4. SilenceInv
  BY DEF Init, SilenceInv
<1>5. QED
  BY <1>1, <1>2, <1>3, <1>4, TypeParts DEF IInv

\* Steps that leave the receiver's counters and timer alone.
LEMMA OtherInv ==
  ASSUME IInv, PeerType', NetType', ReceiverType', UNCHANGED <<checkTimer, check, silence>>
  PROVE  IInv'
<1>1. SilenceInv'
  BY DEF IInv, SilenceInv
<1>2. QED
  BY <1>1, TypeParts DEF IInv

LEMMA NextInv == IInv /\ [Next]_vars => IInv'
<1> SUFFICES ASSUME IInv, [Next]_vars PROVE IInv'
  OBVIOUS
<1>1. PeerType /\ NetType /\ ReceiverType
  BY TypeParts DEF IInv
<1>2. CASE \/ UpdateTimer \/ Heard \/ Associate \/ Leave \/ Expire
           \/ NodeGone \/ NodeBack \/ Stop \/ Restart
  <2>1. PeerType' /\ NetType' /\ UNCHANGED receiver
    BY <1>1, <1>2, PeerSteps
  <2>2. QED
    BY <1>1, <2>1, OtherInv DEF receiver, ReceiverType
<1>3. ASSUME NEW m \in net, Deliver(m) PROVE IInv'
  BY <1>3, DeliverInv
<1>4. ASSUME NEW m \in net, Lose(m) PROVE IInv'
  <2>1. NetType'
    BY <1>1, <1>4, RemoteAssumption DEF Lose, NetType
  <2>2. UNCHANGED <<up, id, sendTimer, node, sta, seen, away, cut, checkTimer, check, entry, silence>>
    BY <1>4 DEF Lose, peer, receiver
  <2>3. QED
    BY <1>1, <2>1, <2>2, OtherInv DEF PeerType, ReceiverType
<1>5. ASSUME NEW i \in Ids, EntryTimeout(i) PROVE IInv'
  <2>1. UNCHANGED <<up, id, sendTimer, node, sta, seen, away, cut, net, lost, checkTimer,
                  check, silence>>
    BY <1>5 DEF EntryTimeout, peer
  <2>2. entry' \in [Ids -> Entries]
    BY <1>1, <1>5, EntryValues DEF EntryTimeout, ReceiverType
  <2>3. QED
    BY <1>1, <2>1, <2>2, OtherInv DEF PeerType, NetType, ReceiverType
<1>6. CASE UNCHANGED vars
  BY <1>1, <1>6, OtherInv DEF vars, peer, receiver, PeerType, NetType, ReceiverType
<1>7. QED
  BY <1>2, <1>3, <1>4, <1>5, <1>6, CheckInv, TickInv DEF Next

\* remote.c:194-500: the inductive invariant always holds.
THEOREM InvariantHolds == Spec => []IInv
<1>1. IInv /\ [Next]_vars => IInv'
  BY NextInv
<1>2. QED
  BY <1>1, InitInv, PTL DEF Spec

\* Types of peer, network and receiver, among them that what is said to be left of an
\* entry's time is never more than local_sta_timeout (remote.c:385-397).
THEOREM TypeCorrect == Spec => []TypeOK
<1>1. IInv => TypeOK
  BY DEF IInv
<1>2. QED
  BY <1>1, InvariantHolds, PTL

\* remote.c:441-451: for every timeout and interval, a silent node is dropped two
\* intervals after remote_node_timeout at the latest.
THEOREM SilentNodesAreDropped == Spec => []SilentAreDropped
<1>1. IInv => SilentAreDropped
  <2> SUFFICES ASSUME IInv, NEW i \in Ids, check[i] >= 0 PROVE silence[i] <= SilenceBound
    BY DEF SilentAreDropped
  <2>1. ReceiverType /\ SilenceInv
    BY TypeParts DEF IInv
  <2>2. check[i] \in Nat /\ silence[i] \in Int /\ checkTimer \in Nat
    BY <2>1, Rounding, RemoteAssumption DEF ReceiverType
  <2>3. Turns(check[i]) \in Nat /\ Turns(check[i]) + I <= SilenceBound
    BY <2>1, <2>2, OneMore, Bounded DEF SilenceInv
  <2>4. QED
    BY <2>1, <2>2, <2>3, Rounding, RemoteAssumption DEF SilenceInv, SilenceBound
<1>2. QED
  BY <1>1, InvariantHolds, PTL

\* remote.c:441-451: in spite of the rounding, a node is dropped only after more than
\* remote_node_timeout without a message.
THEOREM NodesAreNotDroppedEarly == Spec => DroppedAfterSilence
<1>1. IInv /\ [Next]_vars =>
        [\A i \in Ids : check[i] >= 0 /\ check'[i] < 0 => silence[i] > remote_node_timeout]_vars
  <2> SUFFICES ASSUME IInv, Next, NEW i \in Ids, check[i] >= 0, check'[i] < 0
               PROVE  silence[i] > remote_node_timeout
    OBVIOUS
  <2>1. ReceiverType /\ NetType /\ SilenceInv
    BY TypeParts DEF IInv
  <2>2. ~(check' = check) /\ \A m \in net : ~Deliver(m)
    <3>1. \A m \in net : m.id \in Ids
      BY <2>1 DEF NetType, Messages
    <3>2. QED
      BY <2>1, <3>1 DEF Deliver, interface_recv_msg, ReceiverType
  <2>3. CheckTimer
    BY <2>2 DEF Next, UpdateTimer, Heard, Associate, Leave, Expire, NodeGone, NodeBack, Stop,
                Restart, Lose, EntryTimeout, Tick, receiver
  <2>4. check[i] \in Nat /\ silence[i] \in Int /\ check[i] > T /\ checkTimer = 0
    <3>1. check[i] \in Nat /\ silence[i] \in Int
      BY <2>1, Rounding, RemoteAssumption DEF ReceiverType, SilenceBound
    <3>2. QED
      BY <2>3, <3>1, Rounding DEF CheckTimer, TimedOut, T
  <2>5. Turns(T + 1) = Turns(T) + I /\ Turns(T + 1) <= Turns(check[i]) /\ Turns(check[i]) \in Nat
    <3>1. T \in Nat /\ T + 1 \in Nat /\ T + 1 <= check[i]
      BY <2>4, Rounding
    <3>2. QED
      BY <2>4, <3>1, OneMore
  <2>6. silence[i] >= Turns(check[i])
    BY <2>1, <2>4, <2>5, Rounding DEF SilenceInv
  <2>7. QED
    <3>1. Turns(T) \in Nat
      BY Rounding, OneMore
    <3>2. QED
      BY <2>4, <2>5, <2>6, <3>1, Rounding, RemoteAssumption
<1>2. QED
  BY <1>1, InvariantHolds, PTL DEF Spec, DroppedAfterSilence

-----------------------------------------------------------------------------
(* Clients that have left.  Messages may overtake each other, but from      *)
(* MaxDelay after the peer noticed that the client left, every message on   *)
(* the way was sent since then and corrects the receiver.  The peer sends   *)
(* one in every interval, and of MaxLoss + 1 of them one arrives.           *)

Timely == ReliableNl80211 /\ StaleBound < local_sta_timeout

\* The peer has an entry of the client, which is not associated any more.
Departed == up /\ sta.here /\ ~sta.connected

\* The receiver takes it for associated.
Deceived == Departed /\ entry[id].connected

\* The time by which MaxLoss + 1 corrections have been sent, and those of them that
\* are on the way.
Window == MaxDelay + Turns(MaxLoss + 1)
Corrections == {m \in net : MaxDelay < away - m.age /\ away - m.age <= Window}

\* There are entries only with a node, and they live at least local_sta_timeout after
\* the client left: longer if it is heard again.
PeerInv ==
  /\ sta.connected => sta.here /\ seen = 0 /\ away = 0 /\ sta.timer # 0
  /\ ~sta.here => sta = Absent /\ away = Unseen
  /\ sta.here => up /\ node /\ ~cut
  /\ Departed => seen <= away /\ local_sta_timeout - away <= sta.timer

\* Messages and entries are of ids the peer has had.
OrderInv ==
  /\ IsFiniteSet(net)
  /\ \A m \in net : m.id <= id
  /\ \A i \in Ids : i > id => entry[i] = Absent
  /\ \A i \in Ids : entry[i].connected => check[i] >= 0 /\ ~remote_disabled

\* What was sent before and after the client left.
SentInv ==
  /\ up => \A m \in net : m.id = id /\ m.connected => sta.connected \/ cut \/ m.age >= away
  /\ Departed => \A m \in net : m.age < away =>
       /\ m.id = id /\ m.here /\ ~m.connected
       /\ away < local_sta_timeout => m.timeout >= local_sta_timeout - (away - m.age)
       /\ m.age >= I - sendTimer

\* While the receiver is wrong, as many corrections were lost or are on the way as
\* there were intervals.  Only an entry that went with its node is not corrected first.
CorrectedInv ==
  /\ up /\ ~sta.here => cut \/ ~entry[id].connected
  /\ Deceived /\ MaxDelay < away /\ away <= Window =>
       away + sendTimer <= MaxDelay + Turns(lost + 1 + Cardinality(Corrections))
  /\ Deceived /\ Window < away => MaxLoss < lost + Cardinality(Corrections)

StaleInv == PeerInv /\ OrderInv /\ SentInv /\ CorrectedInv

\* The types that the arithmetic needs.
LEMMA Numbers ==
  ASSUME TypeOK
  PROVE  /\ I \in Nat \ {0} /\ MaxDelay \in Nat /\ MaxLoss \in Nat
         /\ Turns(MaxLoss + 1) \in Nat /\ I <= Turns(MaxLoss + 1)
         /\ Window \in Nat /\ StaleBound = Window + MaxDelay
         /\ local_sta_timeout \in Nat \ {0} /\ Unseen = local_sta_timeout
         /\ seen \in Nat /\ away \in Nat /\ away <= local_sta_timeout
         /\ sendTimer \in Nat /\ sendTimer <= I /\ lost \in Nat /\ lost <= MaxLoss
         /\ id \in Ids /\ id \in Nat /\ Ids \subseteq Nat
         /\ \A m \in net : /\ m \in Messages /\ m.id \in Ids /\ m.id \in Nat /\ m.age \in Nat
                            /\ m.age <= MaxDelay /\ m.timeout \in Nat
<1>1. PeerType /\ NetType
  BY TypeParts
<1>2. /\ I \in Nat \ {0} /\ MaxDelay \in Nat /\ MaxLoss \in Nat
      /\ local_sta_timeout \in Nat \ {0} /\ Unseen = local_sta_timeout
  BY RemoteAssumption DEF I, Unseen
<1>3. Turns(MaxLoss + 1) \in Nat /\ I <= Turns(MaxLoss + 1)
  <2>1. Turns(MaxLoss) \in Nat /\ Turns(MaxLoss + 1) = Turns(MaxLoss) + I
    BY <1>2, OneMore
  <2>2. QED
    BY <1>2, <2>1
<1>4. Window \in Nat /\ StaleBound = Window + MaxDelay
  BY <1>2, <1>3 DEF Window, StaleBound, Turns
<1>5. Ids \subseteq Nat
  <2>1. Cardinality(Ids) \in Nat
    BY FS_CardinalityType, RemoteAssumption
  <2>2. QED
    BY <2>1, RemoteAssumption
<1>6. /\ seen \in Nat /\ away \in Nat /\ away <= local_sta_timeout /\ id \in Ids
      /\ sendTimer \in Nat /\ sendTimer <= I /\ lost \in Nat /\ lost <= MaxLoss
  BY <1>1, <1>2 DEF PeerType, NetType, I
<1>7. ASSUME NEW m \in net
      PROVE  m \in Messages /\ m.id \in Ids /\ m.age \in Nat /\ m.age <= MaxDelay /\ m.timeout \in Nat
  BY <1>1, <1>2 DEF NetType, Messages
<1>8. QED
  BY <1>2, <1>3, <1>4, <1>5, <1>6, <1>7

\* Corrections are finitely many.
LEMMA CorrectionCount ==
  ASSUME OrderInv
  PROVE  IsFiniteSet(Corrections) /\ Cardinality(Corrections) \in Nat
<1>1. IsFiniteSet(net) /\ Corrections \subseteq net
  BY DEF OrderInv, Corrections
<1>2. QED
  BY <1>1, FS_Subset, FS_CardinalityType

\* A receiver that is wrong will be corrected by one of the messages on the way.
LEMMA DeceivedBound ==
  ASSUME TypeOK, OrderInv, CorrectedInv, Deceived
  PROVE  away <= StaleBound
<1>1. CASE away <= Window
  BY <1>1, Numbers
<1>2. CASE Window < away
  <2>1. Cardinality(Corrections) \in Nat /\ MaxLoss < lost + Cardinality(Corrections)
    BY <1>2, CorrectionCount DEF CorrectedInv
  <2>2. Cardinality(Corrections) # 0
    BY <2>1, Numbers
  <2>3. Corrections # {}
    BY <2>2, FS_EmptySet
  <2>4. PICK m \in net : away - m.age <= Window
    BY <2>3 DEF Corrections
  <2>5. QED
    BY <2>4, Numbers
<1>3. QED
  BY <1>1, <1>2, Numbers

\* usteer_send_update_timer: one more correction is on the way.
LEMMA UpdateStale ==
  ASSUME Timely, TypeOK, StaleInv, UpdateTimer
  PROVE  StaleInv'
<1> DEFINE n == Message(sta, seen)
<1>1. /\ up /\ sendTimer = 0 /\ sendTimer' = I
      /\ net' = IF remote_disabled \/ ~node THEN net ELSE net \cup {n}
      /\ UNCHANGED <<up, id, node, sta, seen, away, cut, lost, check, entry>>
  BY DEF UpdateTimer, Send, I, receiver
<1>2. /\ n.id = id /\ n.age = 0 /\ n.here = sta.here /\ n.connected = sta.connected
      /\ sta.here => n.timeout = local_sta_timeout - seen
  BY DEF Message
<1> HIDE DEF n
<1>3. PeerInv'
  BY <1>1 DEF StaleInv, PeerInv, Departed, Unseen, Absent
<1>4. OrderInv'
  <2>1. IsFiniteSet(net')
    BY <1>1, FS_AddElement DEF StaleInv, OrderInv
  <2>2. \A m \in net' : m.id <= id
    BY <1>1, <1>2, Numbers DEF StaleInv, OrderInv
  <2>3. QED
    BY <1>1, <2>1, <2>2 DEF StaleInv, OrderInv
<1>5. SentInv'
  <2>1. ASSUME NEW m \in net', m.id = id, m.connected
        PROVE  sta.connected \/ cut \/ m.age >= away
    BY <1>1, <1>2, <2>1 DEF StaleInv, SentInv
  <2>2. ASSUME Departed, NEW m \in net', m.age < away
        PROVE  /\ m.id = id /\ m.here /\ ~m.connected
               /\ away < local_sta_timeout => m.timeout >= local_sta_timeout - (away - m.age)
               /\ m.age >= I - I
    <3>1. CASE m \in net
      BY <2>2, <3>1, Numbers DEF StaleInv, SentInv
    <3>2. CASE m = n
      <4>1. m.id = id /\ m.here /\ ~m.connected
        BY <1>2, <2>2, <3>2, Zenon DEF Departed
      <4>2. m.age = 0 /\ m.timeout = local_sta_timeout - seen /\ seen <= away
        BY <1>2, <2>2, <3>2 DEF Departed, StaleInv, PeerInv
      <4>3. QED
        BY <4>1, <4>2, Numbers
    <3>3. QED
      BY <1>1, <3>1, <3>2
  <2>3. QED
    BY <1>1, <2>1, <2>2 DEF SentInv, Departed
<1>6. CorrectedInv'
  <2>1. up' /\ ~sta'.here => cut' \/ ~entry'[id'].connected
    BY <1>1 DEF StaleInv, CorrectedInv
  <2>2. CASE ~(Deceived /\ MaxDelay < away)
    <3>1. ~(Deceived' /\ MaxDelay < away')
      BY <1>1, <2>2 DEF Deceived, Departed
    <3>2. Window < away' => MaxDelay < away'
      BY <1>1, Numbers DEF Window
    <3>3. Window' = Window
      BY DEF Window
    <3>4. QED
      BY <2>1, <3>1, <3>2, <3>3 DEF CorrectedInv
  <2>3. CASE Deceived /\ MaxDelay < away
    <3>1. ~remote_disabled /\ net' = net \cup {n}
      BY <1>1, <2>3, Numbers DEF StaleInv, OrderInv, PeerInv, Deceived, Departed
    <3>2. n \notin net
      <4>1. ASSUME n \in net PROVE FALSE
        <5>1. n.age >= I - sendTimer
          BY <1>2, <2>3, <4>1, Numbers DEF StaleInv, SentInv, Deceived
        <5>2. QED
          BY <1>1, <1>2, <5>1, Numbers
      <4>2. QED
        BY <4>1
    <3>3. IsFiniteSet(Corrections) /\ Cardinality(Corrections) \in Nat
      BY CorrectionCount DEF StaleInv
    <3>4. Corrections' = {m \in net' : MaxDelay < away - m.age /\ away - m.age <= Window}
      BY <1>1 DEF Corrections, Window
    <3>5. CASE away <= Window
      <4>1. Corrections' = Corrections \cup {n} /\ n \notin Corrections
        BY <1>2, <2>3, <3>1, <3>2, <3>4, <3>5, Numbers DEF Corrections
      <4>2. Cardinality(Corrections') = Cardinality(Corrections) + 1
        BY <3>3, <4>1, FS_AddElement
      <4>3. away + 0 <= MaxDelay + Turns(lost + 1 + Cardinality(Corrections))
        BY <1>1, <2>3, <3>5 DEF StaleInv, CorrectedInv
      <4> DEFINE k == lost + 1 + Cardinality(Corrections)
      <4>4. k \in Nat /\ lost + 1 + Cardinality(Corrections') = k + 1
        BY <3>3, <4>2, Numbers
      <4>5. Turns(k) \in Nat /\ Turns(k + 1) = Turns(k) + I
        BY <4>4, OneMore
      <4> HIDE DEF k
      <4>6. away + I <= MaxDelay + Turns(k + 1)
        BY <4>3, <4>5, Numbers DEF k
      <4>7. away' + sendTimer' <= MaxDelay + Turns(lost' + 1 + Cardinality(Corrections'))
        BY <1>1, <4>4, <4>6
      <4>8. ~(Window' < away')
        BY <1>1, <3>5, Numbers DEF Window
      <4>9. QED
        BY <2>1, <4>7, <4>8 DEF CorrectedInv
    <3>6. CASE Window < away
      <4>1. Corrections' = Corrections
        BY <1>2, <3>1, <3>4, <3>6, Numbers DEF Corrections
      <4>2. MaxLoss < lost + Cardinality(Corrections)
        BY <2>3, <3>6 DEF StaleInv, CorrectedInv
      <4>3. ~(away' <= Window')
        BY <1>1, <3>6, Numbers DEF Window
      <4>4. QED
        BY <1>1, <2>1, <4>1, <4>2, <4>3 DEF CorrectedInv
    <3>7. QED
      BY <3>5, <3>6, Numbers
  <2>4. QED
    BY <2>2, <2>3
<1>7. QED
  BY <1>3, <1>4, <1>5, <1>6 DEF StaleInv

\* A client that left is heard again: its entry at the peer lives longer, and what the
\* peer says of it is the same.
LEMMA HeardStale ==
  ASSUME Timely, TypeOK, StaleInv, Heard, Departed
  PROVE  StaleInv'
<1>1. /\ seen' = 0 /\ UNCHANGED <<up, id, node, away, net, lost, check, entry, sendTimer>>
      /\ ~cut /\ ~cut'
      /\ sta'.here /\ ~sta'.connected /\ sta'.timer = local_sta_timeout
  BY DEF Heard, Departed, StaleInv, PeerInv, receiver
<1>2. Departed' = Departed /\ Deceived' = Deceived
  BY <1>1 DEF Departed, Deceived
<1>3. Corrections' = Corrections /\ Window' = Window
  BY <1>1 DEF Corrections, Window
<1>4. PeerInv'
  BY <1>1, Numbers DEF StaleInv, PeerInv, Departed
<1>5. OrderInv'
  BY <1>1 DEF StaleInv, OrderInv, Absent
<1>6. SentInv'
  BY <1>1, <1>2 DEF StaleInv, SentInv, Departed
<1>7. CorrectedInv'
  BY <1>1, <1>2, <1>3 DEF StaleInv, CorrectedInv
<1>8. QED
  BY <1>4, <1>5, <1>6, <1>7 DEF StaleInv

\* The client is heard for the first time, joins or leaves.
LEMMA SeenStale ==
  ASSUME Timely, TypeOK, StaleInv, Heard \/ Associate \/ Leave, ~(Heard /\ Departed)
  PROVE  StaleInv'
<1>1. /\ up /\ node' /\ ~cut' /\ sta'.here /\ seen' = 0 /\ away' = 0
      /\ UNCHANGED <<up, id, lost, check, entry, sendTimer>>
      /\ sta'.connected => sta'.timer # 0
      /\ ~sta'.connected => sta'.timer = local_sta_timeout
  BY RemoteAssumption DEF Timely, StaleInv, PeerInv, Heard, Associate, Leave, Departed, receiver
<1>2. IsFiniteSet(net') /\ \A m \in net' : m \in net \/ m.id = id
  <2>1. CASE net' = net
    BY <2>1 DEF StaleInv, OrderInv
  <2>2. CASE \E s, a : Send(s, a)
    <3>1. PICK s, a : net' = net \/ net' = net \cup {Message(s, a)}
      BY <2>2 DEF Send
    <3>2. Message(s, a).id = id
      BY DEF Message
    <3> HIDE DEF Message
    <3>3. QED
      BY <3>1, <3>2, FS_AddElement DEF StaleInv, OrderInv
  <2>3. QED
    BY <2>1, <2>2 DEF Heard, Associate, Leave
<1>3. PeerInv'
  BY <1>1, Numbers DEF PeerInv, Departed
<1>4. OrderInv'
  BY <1>1, <1>2, Numbers DEF StaleInv, OrderInv
<1>5. SentInv'
  <2>1. \A m \in net' : m.age >= 0 /\ ~(m.age < 0)
    <3>1. TypeOK'
      <4>1. PeerType' /\ NetType' /\ ReceiverType'
        BY TypeParts, PeerSteps DEF receiver, ReceiverType
      <4>2. QED
        BY <4>1, TypeParts
    <3>2. \A m \in net' : m.age \in 0 .. MaxDelay
      BY <3>1 DEF TypeOK
    <3>3. QED
      BY <3>2, Numbers
  <2>2. QED
    BY <1>1, <2>1 DEF SentInv
<1>6. CorrectedInv'
  <2>1. ~(MaxDelay < away') /\ ~(Window < away') /\ Window' = Window
    BY <1>1, Numbers DEF Window
  <2>2. QED
    BY <1>1, <2>1 DEF CorrectedInv
<1>7. QED
  BY <1>3, <1>4, <1>5, <1>6 DEF StaleInv

\* usteer_sta_info_timeout at the peer: by then the receiver has been corrected.
LEMMA ExpireStale ==
  ASSUME Timely, TypeOK, StaleInv, Expire
  PROVE  StaleInv'
<1>1. /\ up /\ sta.timer = 0 /\ sta' = Absent /\ away' = Unseen
      /\ UNCHANGED <<up, id, node, cut, sendTimer, net, lost, check, entry>>
  BY DEF Expire, NoEntry, receiver
<1>2. ~sta'.here /\ ~sta'.connected /\ Absent.timer # 0
  BY <1>1 DEF Absent
<1>3. Departed /\ away = local_sta_timeout
  <2>1. sta.here /\ ~sta.connected
    BY <1>1, <1>2 DEF StaleInv, PeerInv
  <2>2. local_sta_timeout - away <= sta.timer
    BY <1>1, <2>1 DEF StaleInv, PeerInv, Departed
  <2>3. QED
    BY <1>1, <2>1, <2>2, Numbers DEF Departed
<1>4. ~entry[id].connected
  <2>1. ASSUME entry[id].connected PROVE FALSE
    <3>1. away <= StaleBound
      BY <1>3, <2>1, DeceivedBound DEF StaleInv, Deceived
    <3>2. QED
      BY <1>3, <3>1, Numbers DEF Timely
  <2>2. QED
    BY <2>1
<1>5. PeerInv'
  BY <1>1, <1>2 DEF PeerInv, Departed, Absent, Unseen
<1>6. OrderInv'
  BY <1>1 DEF StaleInv, OrderInv, Absent
<1>7. SentInv'
  BY <1>1, <1>2, <1>3 DEF StaleInv, SentInv, Departed, Unseen
<1>8. CorrectedInv'
  BY <1>1, <1>2, <1>4 DEF CorrectedInv, Deceived, Departed
<1>9. QED
  BY <1>5, <1>6, <1>7, <1>8 DEF StaleInv

\* The node goes, with the client's entry, and comes back; usteerd stops, or starts with
\* an id that nobody knows.
LEMMA RestartStale ==
  ASSUME Timely, TypeOK, StaleInv, NodeGone \/ NodeBack \/ Stop \/ Restart
  PROVE  StaleInv'
<1>1. CASE Stop
  <2>1. /\ ~up' /\ sta' = Absent /\ away' = Unseen
        /\ UNCHANGED <<id, sendTimer, net, lost, check, entry>>
    BY <1>1 DEF Stop, NoEntry, receiver
  <2>2. ~sta'.here /\ ~sta'.connected
    BY <2>1 DEF Absent
  <2>3. PeerInv' /\ OrderInv'
    BY <2>1, <2>2 DEF StaleInv, PeerInv, OrderInv, Departed, Absent, Unseen
  <2>4. SentInv' /\ CorrectedInv'
    BY <2>1 DEF SentInv, CorrectedInv, Deceived, Departed
  <2>5. QED
    BY <2>3, <2>4 DEF StaleInv
<1>2. CASE Restart
  <2>1. /\ ~up /\ id + 1 \in Ids /\ up' /\ id' = id + 1
        /\ UNCHANGED <<sta, away, net, lost, check, entry>>
    BY <1>2 DEF Restart, receiver
  <2>2. ~sta.here /\ sta = Absent /\ away = Unseen /\ ~sta.connected
    BY <2>1 DEF StaleInv, PeerInv, Absent
  <2>3. (\A m \in net : m.id <= id) /\ id + 1 > id /\ entry[id + 1] = Absent
    BY <2>1, Numbers DEF StaleInv, OrderInv
  <2>4. PeerInv'
    BY <2>1, <2>2 DEF StaleInv, PeerInv, Departed, Absent, Unseen
  <2>5. OrderInv'
    BY <2>1, <2>3, Numbers DEF StaleInv, OrderInv, Absent
  <2>6. SentInv'
    <3>1. \A m \in net : m.id # id + 1
      BY <2>3, Numbers
    <3>2. QED
      BY <2>1, <2>2, <3>1 DEF SentInv, Departed
  <2>7. CorrectedInv'
    <3>1. ~entry'[id'].connected
      BY <2>1, <2>3 DEF Absent
    <3>2. QED
      BY <2>1, <2>2, <3>1 DEF CorrectedInv, Deceived, Departed
  <2>8. QED
    BY <2>4, <2>5, <2>6, <2>7 DEF StaleInv
<1>3. CASE NodeGone
  <2>1. /\ cut' /\ sta' = Absent /\ away' = Unseen
        /\ UNCHANGED <<up, id, sendTimer, net, lost, check, entry>>
    BY <1>3 DEF NodeGone, NoEntry, receiver
  <2>2. ~sta'.here /\ ~sta'.connected
    BY <2>1 DEF Absent
  <2>3. PeerInv' /\ OrderInv'
    BY <2>1, <2>2 DEF StaleInv, PeerInv, OrderInv, Departed, Absent, Unseen
  <2>4. SentInv' /\ CorrectedInv'
    BY <2>1, <2>2 DEF SentInv, CorrectedInv, Deceived, Departed
  <2>5. QED
    BY <2>3, <2>4 DEF StaleInv
<1>4. CASE NodeBack
  <2>1. /\ ~node /\ node'
        /\ UNCHANGED <<up, id, sendTimer, sta, seen, away, cut, net, lost, check, entry>>
    BY <1>4 DEF NodeBack, receiver
  <2>2. ~sta.here
    BY <2>1 DEF StaleInv, PeerInv
  <2>3. PeerInv' /\ OrderInv'
    BY <2>1, <2>2 DEF StaleInv, PeerInv, OrderInv, Departed, Absent, Unseen
  <2>4. SentInv' /\ CorrectedInv'
    BY <2>1, <2>2 DEF StaleInv, SentInv, CorrectedInv, Deceived, Departed
  <2>5. QED
    BY <2>3, <2>4 DEF StaleInv
<1>5. QED
  BY <1>1, <1>2, <1>3, <1>4

\* A message arrives (remote.c:154-184).  From MaxDelay on it can only be a correction,
\* and one that has not expired.
LEMMA DeliverStale ==
  ASSUME Timely, TypeOK, StaleInv, NEW m \in net, Deliver(m)
  PROVE  StaleInv'
<1> DEFINE e == interface_add_station(m)
<1>1. /\ ~remote_disabled /\ net' \subseteq net
      /\ check' = [check EXCEPT ![m.id] = 0] /\ entry' = [entry EXCEPT ![m.id] = e]
      /\ UNCHANGED <<up, id, sendTimer, node, sta, seen, away, cut>>
  BY DEF Deliver, interface_recv_msg, peer
<1>2. m.id \in Ids /\ m.id \in Nat /\ m.id <= id /\ m.age \in Nat /\ m.age <= MaxDelay
  BY Numbers DEF StaleInv, OrderInv
<1>3. /\ \A i \in Ids : check'[i] = IF i = m.id THEN 0 ELSE check[i]
      /\ \A i \in Ids : entry'[i] = IF i = m.id THEN e ELSE entry[i]
  BY <1>1, <1>2, TypeParts DEF ReceiverType
<1>4. /\ e.connected => entry[m.id].connected \/ m.connected
      /\ m.here /\ m.timeout > 0 => (e.connected <=> m.connected)
      /\ ~(m.here /\ m.timeout > 0) => e = entry[m.id]
  BY DEF interface_add_station
<1> HIDE DEF e
<1>5. PeerInv'
  BY <1>1 DEF StaleInv, PeerInv, Departed, Unseen, Absent
<1>6. OrderInv'
  <2>1. IsFiniteSet(net')
    BY <1>1, FS_Subset DEF StaleInv, OrderInv
  <2>2. \A i \in Ids : i > id => entry'[i] = Absent
    BY <1>2, <1>3, Numbers DEF StaleInv, OrderInv
  <2>3. \A i \in Ids : entry'[i].connected => check'[i] >= 0 /\ ~remote_disabled
    BY <1>1, <1>3 DEF StaleInv, OrderInv
  <2>4. QED
    BY <1>1, <2>1, <2>2, <2>3 DEF StaleInv, OrderInv, Absent
<1>7. SentInv'
  BY <1>1 DEF StaleInv, SentInv, Departed
<1>8. ASSUME up, ~sta.here, ~cut PROVE ~entry'[id].connected
  <2>1. away = local_sta_timeout /\ ~sta.connected /\ ~entry[id].connected
    BY <1>8, Numbers DEF StaleInv, PeerInv, CorrectedInv
  <2>2. MaxDelay < local_sta_timeout
    BY Numbers DEF Timely
  <2>3. m.id = id => ~m.connected
    BY <1>2, <1>8, <2>1, <2>2, Numbers DEF StaleInv, SentInv
  <2>4. QED
    BY <1>3, <1>4, <2>1, <2>3, Numbers
<1>9. ASSUME Deceived', MaxDelay < away PROVE FALSE
  <2>1. Departed
    BY <1>1, <1>9 DEF Deceived, Departed
  <2>2. /\ m.id = id /\ m.here /\ ~m.connected
        /\ away < local_sta_timeout => m.timeout >= local_sta_timeout - (away - m.age)
    BY <1>2, <1>9, <2>1, Numbers DEF StaleInv, SentInv
  <2>3. e.connected
    BY <1>1, <1>3, <1>9, <2>2, Numbers DEF Deceived
  <2>4. ~(m.timeout > 0) /\ entry[id].connected
    BY <1>4, <2>2, <2>3
  <2>5. away <= StaleBound
    BY <2>1, <2>4, DeceivedBound DEF StaleInv, Deceived
  <2>6. QED
    BY <1>2, <2>2, <2>4, <2>5, Numbers DEF Timely
<1>10. CorrectedInv'
  <2>1. Window' = Window /\ (Window < away => MaxDelay < away)
    BY Numbers DEF Window
  <2>2. QED
    BY <1>1, <1>8, <1>9, <2>1 DEF CorrectedInv
<1>11. QED
  BY <1>5, <1>6, <1>7, <1>10 DEF StaleInv

\* A message is lost: one correction less on the way, one more lost.
LEMMA LoseStale ==
  ASSUME Timely, TypeOK, StaleInv, NEW m \in net, Lose(m)
  PROVE  StaleInv'
<1>1. /\ net' = net \ {m} /\ lost' = lost + 1
      /\ UNCHANGED <<up, id, sendTimer, node, sta, seen, away, cut, check, entry>>
  BY DEF Lose, peer, receiver
<1>2. PeerInv' /\ SentInv'
  BY <1>1 DEF StaleInv, PeerInv, SentInv, Departed, Unseen, Absent
<1>3. OrderInv'
  BY <1>1, FS_RemoveElement DEF StaleInv, OrderInv, Absent
<1>4. CorrectedInv'
  <2>1. IsFiniteSet(Corrections) /\ Cardinality(Corrections) \in Nat
    BY CorrectionCount DEF StaleInv
  <2>2. Corrections' = Corrections \ {m} /\ Window' = Window
    BY <1>1 DEF Corrections, Window
  <2>3. /\ Cardinality(Corrections') \in Nat
        /\ lost + Cardinality(Corrections) <= lost' + Cardinality(Corrections')
    <3>1. Cardinality(Corrections') \in {Cardinality(Corrections), Cardinality(Corrections) - 1}
          /\ Cardinality(Corrections') \in Nat
      <4>1. IsFiniteSet(Corrections')
        BY <2>1, <2>2, FS_RemoveElement
      <4>2. QED
        BY <2>1, <2>2, <4>1, FS_RemoveElement, FS_CardinalityType
    <3>2. QED
      BY <1>1, <2>1, <3>1, Numbers
  <2>4. Turns(lost + 1 + Cardinality(Corrections)) <= Turns(lost' + 1 + Cardinality(Corrections'))
        /\ Turns(lost + 1 + Cardinality(Corrections)) \in Nat
        /\ Turns(lost' + 1 + Cardinality(Corrections')) \in Nat
    <3> DEFINE j == lost + 1 + Cardinality(Corrections)
               k == lost' + 1 + Cardinality(Corrections')
    <3>1. j \in Nat /\ k \in Nat /\ j <= k
      BY <1>1, <2>1, <2>3, Numbers
    <3> HIDE DEF j, k
    <3>2. Turns(j) <= Turns(k) /\ Turns(j) \in Nat /\ Turns(k) \in Nat
      BY <3>1, OneMore
    <3>3. QED
      BY <3>2 DEF j, k
  <2>5. Deceived' = Deceived /\ away' = away /\ sendTimer' = sendTimer
    BY <1>1 DEF Deceived, Departed
  <2>6. Deceived' /\ MaxDelay < away' /\ away' <= Window' =>
          away' + sendTimer' <= MaxDelay + Turns(lost' + 1 + Cardinality(Corrections'))
    BY <2>2, <2>4, <2>5, Numbers DEF StaleInv, CorrectedInv
  <2>7. Deceived' /\ Window' < away' => MaxLoss < lost' + Cardinality(Corrections')
    BY <1>1, <2>1, <2>2, <2>3, <2>5, Numbers DEF StaleInv, CorrectedInv
  <2>8. QED
    BY <1>1, <2>6, <2>7 DEF StaleInv, CorrectedInv
<1>5. QED
  BY <1>2, <1>3, <1>4 DEF StaleInv

\* The receiver drops nodes and entries.
LEMMA ForgetStale ==
  ASSUME Timely, TypeOK, StaleInv, CheckTimer \/ \E i \in Ids : EntryTimeout(i)
  PROVE  StaleInv'
<1>1. /\ \A i \in Ids : entry'[i] \in {entry[i], Absent}
      /\ \A i \in Ids : entry'[i].connected => entry[i].connected /\ (check[i] >= 0 => check'[i] >= 0)
      /\ UNCHANGED <<up, id, sendTimer, node, sta, seen, away, cut, net, lost>>
  <2>1. ~Absent.connected
    BY DEF Absent
  <2>2. ReceiverType
    BY TypeParts
  <2>3. CASE CheckTimer
    <3>1. /\ \A i \in Ids : check'[i] = IF check[i] < 0 \/ TimedOut(i) THEN -1 ELSE check[i] + 1
          /\ \A i \in Ids : entry'[i] = IF TimedOut(i) THEN Absent ELSE entry[i]
          /\ UNCHANGED <<up, id, sendTimer, node, sta, seen, away, cut, net, lost>>
      BY <2>3 DEF CheckTimer, peer
    <3>2. \A i \in Ids : check[i] \in Int
      BY <2>2, Rounding DEF ReceiverType
    <3>3. QED
      BY <2>1, <3>1, <3>2
  <2>4. ASSUME NEW j \in Ids, EntryTimeout(j)
        PROVE  /\ \A i \in Ids : entry'[i] = IF i = j THEN Absent ELSE entry[i]
               /\ UNCHANGED <<up, id, sendTimer, node, sta, seen, away, cut, net, lost, check>>
    BY <2>2, <2>4 DEF EntryTimeout, peer, ReceiverType
  <2>5. QED
    BY <2>1, <2>3, <2>4
<1>2. PeerInv' /\ SentInv'
  BY <1>1 DEF StaleInv, PeerInv, SentInv, Departed, Unseen, Absent
<1>3. OrderInv'
  BY <1>1 DEF StaleInv, OrderInv, Absent
<1>4. CorrectedInv'
  <2>1. Corrections' = Corrections /\ Window' = Window /\ (Deceived' => Deceived)
    BY <1>1, Numbers DEF Corrections, Window, Deceived, Departed
  <2>2. QED
    BY <1>1, <2>1, Numbers DEF StaleInv, CorrectedInv
<1>5. QED
  BY <1>2, <1>3, <1>4 DEF StaleInv

\* What a tick does to the peer and its messages.
LEMMA TickParts ==
  ASSUME Timely, TypeOK, PeerInv, Tick
  PROVE  /\ UNCHANGED <<up, id, node, cut, lost, check>>
         /\ net' = {[m EXCEPT !.age = m.age + 1] : m \in net}
         /\ \A i \in Ids : entry'[i].connected = entry[i].connected
         /\ \A i \in Ids : entry[i] = Absent => entry'[i] = Absent
         /\ sta'.here = sta.here /\ sta'.connected = sta.connected
         /\ up => sendTimer # 0 /\ sendTimer' = sendTimer - 1
         /\ sta.connected => seen' = 0 /\ away' = 0 /\ sta'.timer # 0
         /\ ~sta.here => sta' = Absent /\ away' = Unseen
         /\ Departed => seen' <= away' /\ local_sta_timeout - away' <= sta'.timer
         /\ ~sta.connected => away' = IF away < local_sta_timeout THEN away + 1 ELSE away
<1>1. ~Due /\ UNCHANGED <<up, id, node, cut, lost, check>> /\ sendTimer' = Down(sendTimer)
  BY DEF Tick
<1>2. net' = {[m EXCEPT !.age = m.age + 1] : m \in net}
  BY DEF Tick
<1>3. \A x \in Entries : x = Absent => [x EXCEPT !.timer = Down(@)] = Absent
  BY DEF Entries, Absent, Down
<1>4. ASSUME NEW i \in Ids
      PROVE  entry'[i].connected = entry[i].connected /\ (entry[i] = Absent => entry'[i] = Absent)
  <2>1. entry[i] \in Entries /\ entry'[i] = [entry[i] EXCEPT !.timer = Down(@)]
    BY TypeParts DEF Tick, ReceiverType
  <2>2. QED
    BY <1>3, <2>1 DEF Entries
<1>5. sta \in Entries /\ sendTimer \in 0 .. remote_update_interval
  BY TypeParts DEF PeerType
<1>6. up => sendTimer # 0 /\ sendTimer' = sendTimer - 1
  BY <1>1, <1>5, RemoteAssumption DEF Due, Down
<1>7. CASE sta.connected
  <2>1. sta' = [sta EXCEPT !.timer = local_sta_timeout] /\ seen' = 0 /\ away' = 0
    BY <1>7 DEF Tick, Timely
  <2>2. /\ sta'.here = sta.here /\ sta'.connected = sta.connected
        /\ sta'.timer = local_sta_timeout
    BY <1>5, <2>1 DEF Entries
  <2>3. sta.here /\ local_sta_timeout # 0
    BY <1>7, RemoteAssumption DEF PeerInv
  <2>4. QED
    BY <1>1, <1>2, <1>4, <1>6, <1>7, <2>1, <2>2, <2>3 DEF Departed
<1>8. CASE ~sta.connected
  <2>1. /\ sta' = [sta EXCEPT !.timer = Down(@)]
        /\ seen' = Sat(seen + 1, Unseen) /\ away' = Sat(away + 1, Unseen)
    BY <1>8 DEF Tick
  <2>2. /\ sta'.here = sta.here /\ sta'.connected = sta.connected
        /\ sta'.timer = Down(sta.timer)
    BY <1>5, <2>1 DEF Entries
  <2>3. ~sta.here => sta' = Absent /\ away' = Unseen
    BY <1>3, <1>5, <2>1, Numbers DEF PeerInv, Sat
  <2>4. away' = IF away < local_sta_timeout THEN away + 1 ELSE away
    BY <2>1, Numbers DEF Sat
  <2>5. ASSUME Departed PROVE seen' <= away' /\ local_sta_timeout - away' <= sta'.timer
    <3>1. /\ seen <= away /\ local_sta_timeout - away <= sta.timer
          /\ sta.timer # 0 /\ sta.timer \in Int
      BY <1>1, <1>5, <2>5 DEF PeerInv, Due, Departed, Entries
    <3>2. seen' <= away'
      BY <2>1, <3>1, Numbers DEF Sat
    <3>3. sta.timer >= 1
      BY <3>1, Numbers
    <3>4. sta'.timer = sta.timer - 1
      BY <2>2, <3>1, <3>3 DEF Down
    <3>5. QED
      BY <2>4, <3>1, <3>2, <3>3, <3>4, Numbers
  <2>6. QED
    BY <1>1, <1>2, <1>4, <1>6, <1>8, <2>2, <2>3, <2>4, <2>5
<1>9. QED
  BY <1>7, <1>8

\* Messages and the time since the client left grow older together.
LEMMA TickCorrections ==
  ASSUME TypeOK, OrderInv, away' = away + 1,
         net' = {[m EXCEPT !.age = m.age + 1] : m \in net}
  PROVE  Cardinality(Corrections') = Cardinality(Corrections)
<1> DEFINE Older(m) == [m EXCEPT !.age = m.age + 1]
           f == [m \in Corrections |-> Older(m)]
<1>1. IsFiniteSet(Corrections)
  BY CorrectionCount
<1>2. ASSUME NEW m \in net
      PROVE  Older(m).age = m.age + 1 /\ away' - Older(m).age = away - m.age
  BY <1>2, Numbers DEF Messages
<1>3. ASSUME NEW m \in net, NEW n \in net, Older(m) = Older(n) PROVE m = n
  <2>1. m \in Messages /\ n \in Messages
    BY Numbers
  <2>2. /\ m.id = n.id /\ m.here = n.here /\ m.connected = n.connected
        /\ m.timeout = n.timeout
    <3>1. /\ Older(m).id = m.id /\ Older(m).here = m.here /\ Older(m).connected = m.connected
          /\ Older(m).timeout = m.timeout
          /\ Older(n).id = n.id /\ Older(n).here = n.here /\ Older(n).connected = n.connected
          /\ Older(n).timeout = n.timeout
      BY <2>1 DEF Messages
    <3> HIDE DEF Older
    <3>2. QED
      BY <1>3, <3>1
  <2>3. m.age = n.age
    <3>1. m.age + 1 = n.age + 1 /\ m.age \in Nat /\ n.age \in Nat
      BY <1>2, <1>3, Numbers
    <3>2. QED
      BY <3>1
  <2>4. QED
    BY <2>1, <2>2, <2>3 DEF Messages
<1>4. net' = {Older(m) : m \in net}
  OBVIOUS
<1> HIDE DEF Older
<1>5. Corrections' = {Older(m) : m \in Corrections}
  <2>1. Corrections' = {n \in net' : MaxDelay < away' - n.age /\ away' - n.age <= Window}
    BY DEF Corrections, Window
  <2>2. QED
    BY <1>2, <1>4, <2>1 DEF Corrections
<1>6. f \in Bijection(Corrections, Corrections')
  <2>1. f \in [Corrections -> Corrections']
    BY <1>5
  <2>2. \A m, n \in Corrections : f[m] = f[n] => m = n
    BY <1>3 DEF Corrections
  <2>3. \A y \in Corrections' : \E m \in Corrections : f[m] = y
    BY <1>5
  <2> HIDE DEF f
  <2>4. QED
    BY <2>1, <2>2, <2>3, Fun_IsBij
<1>7. ExistsBijection(Corrections, Corrections')
  BY <1>6 DEF ExistsBijection
<1>8. QED
  BY <1>1, <1>7, FS_Bijection

\* The count of corrections keeps up with the time.
LEMMA TickCount ==
  ASSUME Timely, TypeOK, StaleInv, Tick, Deceived, MaxDelay < away'
  PROVE  /\ away' <= Window =>
              away' + sendTimer' <= MaxDelay + Turns(lost + 1 + Cardinality(Corrections'))
         /\ Window < away' => MaxLoss < lost + Cardinality(Corrections')
<1> DEFINE c == Cardinality(Corrections)
<1>1. /\ away' = away + 1 /\ sendTimer' = sendTimer - 1 /\ sendTimer # 0
      /\ net' = {[m EXCEPT !.age = m.age + 1] : m \in net}
  <2>1. away < local_sta_timeout
    BY DeceivedBound, Numbers DEF StaleInv, Timely
  <2>2. QED
    BY <2>1, TickParts DEF StaleInv, Deceived, Departed
<1>2. c \in Nat /\ Cardinality(Corrections') = c
  BY <1>1, CorrectionCount, TickCorrections DEF StaleInv
<1>3. /\ Turns(lost + 1 + c) \in Nat /\ Turns(1) <= Turns(lost + 1 + c) /\ Turns(1) = I
      /\ MaxLoss + 1 >= lost + 1 + c => Turns(MaxLoss + 1) >= Turns(lost + 1 + c)
  <2>1. lost + 1 + c \in Nat /\ 1 <= lost + 1 + c /\ MaxLoss + 1 \in Nat
    BY <1>2, Numbers
  <2>2. Turns(1) = I
    BY Numbers DEF Turns, I
  <2> HIDE DEF c
  <2>3. QED
    BY <2>1, <2>2, OneMore
<1>4. /\ MaxDelay < away /\ away <= Window => away + sendTimer <= MaxDelay + Turns(lost + 1 + c)
      /\ Window < away => MaxLoss < lost + c
  BY DEF StaleInv, CorrectedInv
<1> HIDE DEF c
<1>5. CASE away = MaxDelay
  BY <1>1, <1>2, <1>3, <1>5, Numbers DEF Window
<1>6. CASE MaxDelay < away /\ away < Window
  BY <1>1, <1>2, <1>3, <1>4, <1>6, Numbers
<1>7. CASE MaxDelay < away /\ away = Window
  <2>1. Turns(MaxLoss + 1) + sendTimer <= Turns(lost + 1 + c)
    BY <1>3, <1>4, <1>7, Numbers DEF Window
  <2>2. ~(MaxLoss + 1 >= lost + 1 + c)
    <3>1. sendTimer > 0 /\ sendTimer \in Nat /\ Turns(MaxLoss + 1) \in Nat
      BY <1>1, Numbers
    <3>2. QED
      BY <1>3, <2>1, <3>1
  <2>3. QED
    BY <1>1, <1>2, <1>7, <2>2, Numbers
<1>8. CASE Window < away
  BY <1>1, <1>2, <1>4, <1>8, Numbers
<1>9. QED
  BY <1>1, <1>5, <1>6, <1>7, <1>8, Numbers

\* Time passes.
LEMMA TickStale ==
  ASSUME Timely, TypeOK, StaleInv, Tick
  PROVE  StaleInv'
<1>1. /\ UNCHANGED <<up, id, node, cut, lost, check>>
      /\ net' = {[m EXCEPT !.age = m.age + 1] : m \in net}
      /\ \A i \in Ids : entry'[i].connected = entry[i].connected
      /\ \A i \in Ids : entry[i] = Absent => entry'[i] = Absent
      /\ sta'.here = sta.here /\ sta'.connected = sta.connected
      /\ up => sendTimer # 0 /\ sendTimer' = sendTimer - 1
      /\ sta.connected => seen' = 0 /\ away' = 0 /\ sta'.timer # 0
      /\ ~sta.here => sta' = Absent /\ away' = Unseen
      /\ Departed => seen' <= away' /\ local_sta_timeout - away' <= sta'.timer
      /\ ~sta.connected => away' = IF away < local_sta_timeout THEN away + 1 ELSE away
  BY TickParts DEF StaleInv
<1>2. Departed' = Departed /\ Deceived' = Deceived
  BY <1>1, Numbers DEF Departed, Deceived
<1>3. ASSUME NEW n \in net'
      PROVE  \E m \in net : /\ n.id = m.id /\ n.age = m.age + 1 /\ n.here = m.here
                             /\ n.connected = m.connected /\ n.timeout = m.timeout
  <2>1. PICK m \in net : n = [m EXCEPT !.age = m.age + 1]
    BY <1>1, <1>3
  <2>2. m \in Messages
    BY Numbers
  <2>3. QED
    BY <2>1, <2>2 DEF Messages
<1>4. PeerInv'
  BY <1>1, <1>2 DEF StaleInv, PeerInv, Unseen, Absent
<1>5. OrderInv'
  <2>1. IsFiniteSet(net')
    <3> DEFINE f == [m \in net |-> [m EXCEPT !.age = m.age + 1]]
    <3>1. f \in Surjection(net, net')
      BY <1>1 DEF Surjection
    <3>2. QED
      BY <3>1, FS_Surjection DEF StaleInv, OrderInv
  <2>2. \A n \in net' : n.id <= id
    BY <1>3 DEF StaleInv, OrderInv
  <2>3. QED
    BY <1>1, <2>1, <2>2 DEF StaleInv, OrderInv, Absent
<1>6. SentInv'
  <2>1. ASSUME up, NEW n \in net', n.id = id, n.connected, ~sta.connected, ~cut
        PROVE  n.age >= away'
    <3>1. PICK m \in net : n.id = m.id /\ n.age = m.age + 1 /\ n.connected = m.connected
      BY <1>3
    <3>2. m.age >= away
      BY <2>1, <3>1 DEF StaleInv, SentInv
    <3>3. away' \in Nat
      BY <1>1, <2>1, Numbers DEF StaleInv, PeerInv, Departed
    <3>4. QED
      BY <1>1, <2>1, <3>1, <3>2, <3>3, Numbers
  <2>2. ASSUME Departed, NEW n \in net', n.age < away'
        PROVE  /\ n.id = id /\ n.here /\ ~n.connected
               /\ away' < local_sta_timeout => n.timeout >= local_sta_timeout - (away' - n.age)
               /\ n.age >= I - sendTimer'
    <3>1. PICK m \in net : /\ n.id = m.id /\ n.age = m.age + 1 /\ n.here = m.here
                           /\ n.connected = m.connected /\ n.timeout = m.timeout
      BY <1>3
    <3>2. /\ m.age < away /\ up /\ sendTimer' = sendTimer - 1
          /\ away' < local_sta_timeout => away' = away + 1 /\ away < local_sta_timeout
      BY <1>1, <2>2, <3>1, Numbers DEF Departed
    <3>3. /\ m.id = id /\ m.here /\ ~m.connected
          /\ away < local_sta_timeout => m.timeout >= local_sta_timeout - (away - m.age)
          /\ m.age >= I - sendTimer
      BY <2>2, <3>2 DEF StaleInv, SentInv
    <3>4. n.id = id /\ n.here /\ ~n.connected
      BY <3>1, <3>3, Zenon
    <3>5. QED
      BY <3>1, <3>2, <3>3, <3>4, Numbers
  <2>3. QED
    BY <1>1, <1>2, <2>1, <2>2 DEF SentInv
<1>7. CorrectedInv'
  <2>1. up' /\ ~sta'.here => cut' \/ ~entry'[id'].connected
    BY <1>1, Numbers DEF StaleInv, CorrectedInv
  <2>2. Window' = Window
    BY DEF Window
  <2>3. Deceived /\ Window < away' => MaxDelay < away'
    BY <1>1, Numbers DEF Window, Deceived
  <2>4. QED
    BY <1>1, <1>2, <2>1, <2>2, <2>3, TickCount DEF CorrectedInv
<1>8. QED
  BY <1>4, <1>5, <1>6, <1>7 DEF StaleInv

\* At the start nothing is on the way and nobody is known.
LEMMA InitStale ==
  ASSUME Timely, TypeOK, Init
  PROVE  StaleInv
<1>1. /\ up /\ node /\ id = 1 /\ sta = Absent /\ away = Unseen /\ net = {}
      /\ \A i \in Ids : entry[i] = Absent
  BY DEF Init
<1>2. ~Absent.here /\ ~Absent.connected
  BY DEF Absent
<1>3. IsFiniteSet(net)
  BY <1>1, FS_EmptySet
<1>4. PeerInv /\ OrderInv /\ SentInv
  BY <1>1, <1>2, <1>3 DEF PeerInv, OrderInv, SentInv, Departed
<1>5. CorrectedInv
  BY <1>1, <1>2, Numbers DEF CorrectedInv, Deceived, Departed
<1>6. QED
  BY <1>4, <1>5 DEF StaleInv

LEMMA NextStale ==
  ASSUME Timely, TypeOK, StaleInv, [Next]_vars
  PROVE  StaleInv'
<1>1. CASE UNCHANGED vars
  BY <1>1 DEF vars, peer, receiver, StaleInv, PeerInv, OrderInv, SentInv, CorrectedInv, Deceived,
     Departed, Corrections, Window
<1>2. QED
  BY <1>1, UpdateStale, HeardStale, SeenStale, ExpireStale, RestartStale, DeliverStale, LoseStale, ForgetStale,
     TickStale DEF Next

\* remote.c:154-184, 385-397: however messages are lost, repeated, delayed and
\* overtaken, and however often it is heard since, a client that has left is taken for
\* associated for no longer than messages can be lost and delayed, if entries live
\* longer than that; and where the peer or its node is gone, no longer than the node
\* lasts at the receiver.  Only what a restart of hostapd cut off has no bound.
THEOREM LeftClientsAreForgottenInTime == Spec => []ForgottenInTime
<1>1. CASE Timely
  <2>1. TypeOK /\ Init => StaleInv
    BY <1>1, InitStale
  <2>2. TypeOK /\ StaleInv /\ [Next]_vars => StaleInv'
    BY <1>1, NextStale
  <2>3. TypeOK /\ SilentAreDropped /\ StaleInv => ForgottenInTime
    <3> SUFFICES ASSUME TypeOK, SilentAreDropped, StaleInv, NEW i \in Ids, entry[i].connected,
                        ~(Current(i) /\ sta.connected)
                 PROVE  IF Current(i) THEN cut \/ (sta.here /\ away <= StaleBound)
                        ELSE check[i] >= 0 /\ silence[i] <= SilenceBound
      BY DEF ForgottenInTime
    <3>1. CASE Current(i) /\ ~cut
      <4>1. up /\ id = i /\ sta.here /\ ~sta.connected
        BY <3>1 DEF StaleInv, CorrectedInv, Current
      <4>2. away <= StaleBound
        BY <3>1, <4>1, DeceivedBound DEF StaleInv, Deceived, Departed
      <4>3. QED
        BY <3>1, <4>1, <4>2
    <3>2. CASE ~Current(i)
      BY <3>2 DEF StaleInv, OrderInv, SilentAreDropped
    <3>3. QED
      BY <3>1, <3>2
  <2>4. QED
    BY <2>1, <2>2, <2>3, TypeCorrect, SilentNodesAreDropped, PTL DEF Spec
<1>2. CASE ~Timely
  <2>1. ForgottenInTime
    BY <1>2 DEF Timely, ForgottenInTime
  <2>2. QED
    BY <2>1, PTL
<1>3. QED
  BY <1>1, <1>2
=============================================================================

--------------------------- MODULE NodeKickProofs ---------------------------
(***************************************************************************)
(* NodeKick for every number of clients, every configuration and every set *)
(* of measurements: a roam kick is announced, nobody is kicked twice       *)
(* between two polls, load kicks are patient as long as load kicks are not *)
(* switched on and off, and they do not come in a burst.                   *)
(***************************************************************************)
EXTENDS NodeKick, FiniteSetTheorems, TLAPS

-----------------------------------------------------------------------------
(* The inductive invariant.                                                 *)

\* The age of the announcement is the age of the roam event that made it.
NoticeInv ==
  \A s \in Sta : /\ roam_state[s] = "NOTIFY_KICK" => age_notify[s] = age_event[s]
                 /\ roam_state[s] = "KICK" => age_notify[s] >= KickDelay

\* Whoever was kicked since the last poll is not connected.
KickedInv ==
  \A s \in Sta : kicks_since_poll[s] <= 1 /\ (s \in connected => kicks_since_poll[s] = 0)

IInv == TypeOK /\ NoticeInv /\ RoamKickIsAnnounced /\ KickedInv

-----------------------------------------------------------------------------
(* The operators a turn is made of.                                         *)

\* A set of clients has at most NSta elements.
LEMMA CardBound ==
  ASSUME NEW S, S \subseteq Sta
  PROVE  Cardinality(S) \in 0 .. NSta
<1>1. IsFiniteSet(Sta) /\ Cardinality(Sta) = NSta
  BY FS_Interval, KickAssumption DEF Sta
<1>2. IsFiniteSet(S) /\ Cardinality(S) <= Cardinality(Sta)
  BY <1>1, FS_Subset
<1>3. Cardinality(S) \in Nat
  BY <1>2, FS_CardinalityType
<1>4. QED
  BY <1>1, <1>2, <1>3, KickAssumption

\* Ages stay in their range and grow until they saturate.
LEMMA OlderType ==
  ASSUME NEW a \in 0 .. AgeCap
  PROVE  /\ Older(a) \in 0 .. AgeCap
         /\ Older(a) >= a
BY KickAssumption DEF Older

\* The three victims of a turn are connected clients.
LEMMA VictimsConnected ==
  ASSUME TypeOK, NEW m, NEW conn, NEW count
  PROVE  /\ RoamVictim(m) \subseteq connected
         /\ SnrVictim(conn, m) \subseteq conn
         /\ LoadVictim(conn, m, count) \subseteq conn
BY DEF RoamVictim, Eligible, SnrVictim, LoadVictim, First

\* usteer_roam_trigger_sm yields a state or leaves it alone.
LEMMA TriggerType ==
  ASSUME TypeOK, NEW s \in Sta, NEW m
  PROVE  usteer_roam_trigger_sm(s, m) \in RoamStates \cup {Stay}
BY DEF TypeOK, usteer_roam_trigger_sm, RoamStates, Stay

\* So does the whole roam check.
LEMMA NewRoamStateType ==
  ASSUME TypeOK, NEW s \in Sta, NEW m
  PROVE  NewRoamState(s, m) \in RoamStates \cup {Stay}
BY TriggerType DEF NewRoamState, RoamStates, Stay

\* The only ways into and out of the last two states of the state machine.
LEMMA TriggerSteps ==
  ASSUME TypeOK, NEW s \in Sta, NEW m
  PROVE  /\ NewRoamState(s, m) = "KICK" =>
              roam_state[s] = "NOTIFY_KICK" /\ Older(age_event[s]) >= KickDelay
         /\ NewRoamState(s, m) = "NOTIFY_KICK" => roam_state[s] = "WAIT_KICK"
         /\ NewRoamState(s, m) \in {Stay, "IDLE"} \/ roam_state[s] # "KICK"
         /\ NewRoamState(s, m) \in {Stay, "IDLE", "KICK"} \/ roam_state[s] # "NOTIFY_KICK"
         /\ s \in RoamVictim(m) => roam_state[s] = "KICK" /\ NewRoamState(s, m) = "IDLE"
<1>1. roam_state[s] \in RoamStates /\ age_event[s] \in 0 .. AgeCap
  BY DEF TypeOK
<1>2. Older(age_event[s]) \in Int
  BY <1>1, OlderType
<1>3. /\ usteer_roam_trigger_sm(s, m) = "KICK" =>
           roam_state[s] = "NOTIFY_KICK" /\ Older(age_event[s]) >= KickDelay
      /\ usteer_roam_trigger_sm(s, m) = "NOTIFY_KICK" => roam_state[s] = "WAIT_KICK"
      /\ roam_state[s] = "KICK" => usteer_roam_trigger_sm(s, m) = "IDLE"
      /\ roam_state[s] = "NOTIFY_KICK" => usteer_roam_trigger_sm(s, m) \in {Stay, "KICK"}
  BY <1>1, <1>2, KickAssumption DEF usteer_roam_trigger_sm, RoamStates, Stay
<1>4. /\ NewRoamState(s, m) = "KICK" =>
              roam_state[s] = "NOTIFY_KICK" /\ Older(age_event[s]) >= KickDelay
      /\ NewRoamState(s, m) = "NOTIFY_KICK" => roam_state[s] = "WAIT_KICK"
      /\ NewRoamState(s, m) \in {Stay, "IDLE"} \/ roam_state[s] # "KICK"
      /\ NewRoamState(s, m) \in {Stay, "IDLE", "KICK"} \/ roam_state[s] # "NOTIFY_KICK"
  BY <1>3 DEF NewRoamState, Stay
<1>5. ASSUME s \in RoamVictim(m)
      PROVE  roam_state[s] = "KICK" /\ NewRoamState(s, m) = "IDLE"
  <2>1. /\ RoamCheckOn /\ Eligible(s, m) /\ roam_state[s] = "KICK"
        /\ \A k \in RoamVictim(m) : s <= k /\ k \in Int
    BY <1>5 DEF RoamVictim, First, Sta
  <2>2. ~\E k \in RoamVictim(m) : k < s
    BY <2>1 DEF Sta
  <2>3. QED
    BY <1>3, <2>1, <2>2 DEF NewRoamState
<1>6. QED
  BY <1>4, <1>5

-----------------------------------------------------------------------------
(* A turn, with names for the parts of usteer_local_node_kick.              *)

\* What the rest of the proof uses of a turn.
TurnFacts(new, roam, all) ==
  /\ new \in [Sta -> RoamStates \cup {Stay}]
  /\ roam \subseteq all /\ all \subseteq connected
  /\ usteer_roam_set_state(new)
  /\ usteer_ubus_kick_client(all)
  /\ age_notify' = [s \in Sta |->
       IF s \notin roam /\ "IDLE" \in {new[s], roam_state[s]} THEN -1
       ELSE IF new[s] = "NOTIFY_KICK" THEN 0
       ELSE IF age_notify[s] < 0 THEN -1 ELSE Older(age_notify[s])]
  /\ kicks_since_poll' = [s \in Sta |-> IF s \in all /\ kicks_since_poll[s] < 2
                                        THEN kicks_since_poll[s] + 1
                                        ELSE kicks_since_poll[s]]
  /\ kicked'.roam = roam
  /\ \A s \in Sta :
       /\ new[s] = "KICK" => roam_state[s] = "NOTIFY_KICK" /\ Older(age_event[s]) >= KickDelay
       /\ new[s] = "NOTIFY_KICK" => roam_state[s] = "WAIT_KICK"
       /\ new[s] \in {Stay, "IDLE"} \/ roam_state[s] # "KICK"
       /\ new[s] \in {Stay, "IDLE", "KICK"} \/ roam_state[s] # "NOTIFY_KICK"
       /\ s \in roam => roam_state[s] = "KICK" /\ new[s] = "IDLE"

\* usteer_local_node_kick, seen through TurnFacts, and the types it keeps.
LEMMA TurnParts ==
  ASSUME TypeOK, NEW m, NEW over \in BOOLEAN, usteer_local_node_kick(m, over)
  PROVE  /\ TypeOK'
         /\ \E new, roam, all : TurnFacts(new, roam, all)
<1> DEFINE new   == [s \in Sta |-> NewRoamState(s, m)]
           roam  == RoamVictim(m)
           conn1 == connected \ roam
           snr   == SnrVictim(conn1, m)
           count == [s \in Sta |-> IF s \in snr /\ kick_count[s] < MaxKicks
                                   THEN kick_count[s] + 1 ELSE kick_count[s]]
           conn2 == conn1 \ snr
           load  == IF LoadKickDue(over) THEN LoadVictim(conn2, m, count) ELSE {}
           all   == roam \cup snr \cup load
<1>1. roam \subseteq connected /\ snr \subseteq conn1 /\ load \subseteq conn2
  BY VictimsConnected
<1>2. all \subseteq connected /\ connected \subseteq Sta
  BY <1>1 DEF TypeOK
<1>3. new \in [Sta -> RoamStates \cup {Stay}]
  BY NewRoamStateType
<1>4. count \in [Sta -> 0 .. MaxKicks]
  BY KickAssumption DEF TypeOK
<1> HIDE DEF new, roam, snr, count, load
<1>5. /\ usteer_roam_set_state(new)
      /\ usteer_ubus_kick_client(all)
      /\ age_kick' = [s \in Sta |-> IF s \in all THEN 0 ELSE Older(age_kick[s])]
      /\ age_done' = [s \in Sta |-> Older(age_done[s])]
      /\ kick_count' = [s \in Sta |-> IF s \in load /\ count[s] < MaxKicks
                                      THEN count[s] + 1 ELSE count[s]]
      /\ load_thr_count' = LoadCount(over)
      /\ uptime' = Older(uptime)
      /\ age_notify' = [s \in Sta |->
           IF s \notin roam /\ "IDLE" \in {new[s], roam_state[s]} THEN -1
           ELSE IF new[s] = "NOTIFY_KICK" THEN 0
           ELSE IF age_notify[s] < 0 THEN -1 ELSE Older(age_notify[s])]
      /\ over_turns' = IF over THEN (IF over_turns <= LoadDelay THEN over_turns + 1
                                     ELSE over_turns)
                       ELSE 0
      /\ since_load' = IF load # {} THEN 0
                       ELSE IF since_load <= LoadDelay THEN since_load + 1 ELSE since_load
      /\ kicks_since_poll' = [s \in Sta |-> IF s \in all /\ kicks_since_poll[s] < 2
                                            THEN kicks_since_poll[s] + 1
                                            ELSE kicks_since_poll[s]]
      /\ kicked' = [roam |-> roam, snr |-> snr, load |-> load,
                    offered |-> {s \in Sta : m[s].candidate}]
      /\ UNCHANGED <<n_assoc, load_kick_enabled>>
  BY DEF usteer_local_node_kick, new, roam, snr, count, load
<1>6. TypeOK'
  <2>1. \A a \in 0 .. AgeCap : Older(a) \in 0 .. AgeCap
    BY OlderType
  <2>2. connected' \subseteq Sta /\ n_assoc' \in 0 .. NSta
    BY <1>2, <1>5 DEF TypeOK, usteer_ubus_kick_client
  <2>3. /\ roam_state' \in [Sta -> RoamStates]
        /\ age_event' \in [Sta -> 0 .. AgeCap]
    BY <1>3, <1>5, <2>1, KickAssumption DEF TypeOK, usteer_roam_set_state
  <2>4. roam_tries' \in [Sta -> 0 .. TriesMod - 1]
    BY <1>3, <1>5, KickAssumption DEF TypeOK, usteer_roam_set_state
  <2>5. scanned' \in [Sta -> BOOLEAN]
    BY <1>5 DEF usteer_roam_set_state
  <2>6. age_kick' \in [Sta -> 0 .. AgeCap] /\ age_done' \in [Sta -> 0 .. AgeCap]
    BY <1>5, <2>1, KickAssumption DEF TypeOK
  <2>7. kick_count' \in [Sta -> 0 .. MaxKicks]
    BY <1>4, <1>5, KickAssumption
  <2>8. /\ load_thr_count' \in 0 .. LoadDelay /\ over_turns' \in 0 .. LoadDelay + 1
        /\ since_load' \in 0 .. LoadDelay + 1
    BY <1>5, KickAssumption DEF TypeOK, LoadCount
  <2>9. load_kick_enabled' \in BOOLEAN
    BY <1>5 DEF TypeOK
  <2>10. uptime' \in 0 .. AgeCap
    BY <1>5, <2>1 DEF TypeOK
  <2>11. age_notify' \in [Sta -> -1 .. AgeCap]
    BY <1>5, <2>1, KickAssumption DEF TypeOK
  <2>12. kicks_since_poll' \in [Sta -> 0 .. 2]
    BY <1>5 DEF TypeOK
  <2>13. kicked' \in [roam : SUBSET Sta, snr : SUBSET Sta, load : SUBSET Sta,
                      offered : SUBSET Sta]
    BY <1>1, <1>2, <1>5
  <2>14. QED
    BY <2>2, <2>3, <2>4, <2>5, <2>6, <2>7, <2>8, <2>9, <2>10, <2>11, <2>12, <2>13
       DEF TypeOK
<1>7. \A s \in Sta :
        /\ new[s] = "KICK" => roam_state[s] = "NOTIFY_KICK" /\ Older(age_event[s]) >= KickDelay
        /\ new[s] = "NOTIFY_KICK" => roam_state[s] = "WAIT_KICK"
        /\ new[s] \in {Stay, "IDLE"} \/ roam_state[s] # "KICK"
        /\ new[s] \in {Stay, "IDLE", "KICK"} \/ roam_state[s] # "NOTIFY_KICK"
        /\ s \in roam => roam_state[s] = "KICK" /\ new[s] = "IDLE"
  BY TriggerSteps DEF new, roam
<1>8. TurnFacts(new, roam, all)
  BY <1>2, <1>3, <1>5, <1>7 DEF TurnFacts
<1>9. QED
  BY <1>6, <1>8

\* A turn keeps the invariant.
LEMMA TurnInv ==
  ASSUME IInv, NEW m, NEW over \in BOOLEAN, usteer_local_node_kick(m, over)
  PROVE  IInv'
<1> USE DEF IInv
<1>1. TypeOK'
  BY TurnParts
<1>2. PICK new, roam, all : TurnFacts(new, roam, all)
  BY TurnParts
<1>3. NoticeInv'
  <2> SUFFICES ASSUME NEW s \in Sta
               PROVE  /\ roam_state'[s] = "NOTIFY_KICK" => age_notify'[s] = age_event'[s]
                      /\ roam_state'[s] = "KICK" => age_notify'[s] >= KickDelay
    BY DEF NoticeInv
  <2>1. /\ roam_state'[s] = IF new[s] = Stay THEN roam_state[s] ELSE new[s]
        /\ age_event'[s] = IF new[s] = Stay THEN Older(age_event[s]) ELSE 0
        /\ age_notify'[s] = IF s \notin roam /\ "IDLE" \in {new[s], roam_state[s]} THEN -1
                            ELSE IF new[s] = "NOTIFY_KICK" THEN 0
                            ELSE IF age_notify[s] < 0 THEN -1 ELSE Older(age_notify[s])
        /\ new[s] = "KICK" => roam_state[s] = "NOTIFY_KICK" /\ Older(age_event[s]) >= KickDelay
        /\ new[s] = "NOTIFY_KICK" => roam_state[s] = "WAIT_KICK"
        /\ new[s] \in {Stay, "IDLE"} \/ roam_state[s] # "KICK"
        /\ new[s] \in {Stay, "IDLE", "KICK"} \/ roam_state[s] # "NOTIFY_KICK"
        /\ s \in roam => roam_state[s] = "KICK" /\ new[s] = "IDLE"
    BY <1>2 DEF TurnFacts, usteer_roam_set_state
  <2>2. /\ age_event[s] \in 0 .. AgeCap /\ age_notify[s] \in -1 .. AgeCap
        /\ roam_state[s] = "NOTIFY_KICK" => age_notify[s] = age_event[s]
        /\ roam_state[s] = "KICK" => age_notify[s] >= KickDelay
    BY DEF TypeOK, NoticeInv
  <2>3. \A a \in 0 .. AgeCap : Older(a) \in 0 .. AgeCap /\ Older(a) >= a
    BY OlderType
  <2>4. CASE roam_state'[s] = "NOTIFY_KICK"
    <3>1. CASE new[s] = Stay
      BY <2>1, <2>2, <2>3, <2>4, <3>1, KickAssumption DEF Stay
    <3>2. CASE new[s] = "NOTIFY_KICK"
      BY <2>1, <2>4, <3>2 DEF Stay
    <3>3. QED
      BY <2>1, <2>4, <3>1, <3>2
  <2>5. CASE roam_state'[s] = "KICK"
    <3>1. CASE new[s] = Stay
      BY <2>1, <2>2, <2>3, <2>5, <3>1, KickAssumption DEF Stay
    <3>2. CASE new[s] = "KICK"
      BY <2>1, <2>2, <2>3, <2>5, <3>2, KickAssumption DEF Stay
    <3>3. QED
      BY <2>1, <2>5, <3>1, <3>2
  <2>6. QED
    BY <2>4, <2>5
<1>4. RoamKickIsAnnounced'
  <2> SUFFICES ASSUME NEW s \in roam PROVE age_notify'[s] > KickDelay
    BY <1>2 DEF RoamKickIsAnnounced, TurnFacts
  <2>1. s \in Sta /\ roam_state[s] = "KICK" /\ new[s] = "IDLE"
    BY <1>2 DEF TurnFacts, TypeOK
  <2>2. age_notify[s] \in 0 .. AgeCap /\ age_notify[s] >= KickDelay
    BY <2>1, KickAssumption DEF NoticeInv, TypeOK
  <2>3. age_notify'[s] = Older(age_notify[s])
    BY <1>2, <2>1, <2>2 DEF TurnFacts
  <2>4. Older(age_notify[s]) > KickDelay
    BY <2>2, KickAssumption DEF Older
  <2>5. QED
    BY <2>3, <2>4
<1>5. KickedInv'
  BY <1>2 DEF TurnFacts, KickedInv, usteer_ubus_kick_client, TypeOK
<1>6. QED
  BY <1>1, <1>3, <1>4, <1>5

-----------------------------------------------------------------------------
(* The other steps.                                                         *)

\* usteerd starts with no client and no announcement.
LEMMA InitInv == Init => IInv
<1> SUFFICES ASSUME Init PROVE IInv
  OBVIOUS
<1>1. TypeOK
  <2>1. load_kick_enabled \in BOOLEAN /\ scanned \in [Sta -> BOOLEAN]
    BY DEF Init
  <2>2. kicked \in [roam : SUBSET Sta, snr : SUBSET Sta, load : SUBSET Sta, offered : SUBSET Sta]
    BY KickAssumption DEF Init, Nothing
  <2>3. QED
    BY <2>1, <2>2, KickAssumption DEF Init, TypeOK, RoamStates
<1>2. NoticeInv /\ RoamKickIsAnnounced /\ KickedInv
  BY DEF Init, NoticeInv, RoamKickIsAnnounced, KickedInv, Nothing
<1>3. QED
  BY <1>1, <1>2 DEF IInv

\* The record of a step that kicks nobody.
LEMMA NothingType ==
  /\ Nothing \in [roam : SUBSET Sta, snr : SUBSET Sta, load : SUBSET Sta, offered : SUBSET Sta]
  /\ Nothing.roam = {} /\ Nothing.load = {}
BY KickAssumption DEF Nothing

\* A poll, a probe, the expiry of an entry and a reconfiguration keep the invariant.
LEMMA OtherInv ==
  ASSUME IInv,
         \/ \E listed \in SUBSET Sta : Poll(listed)
         \/ \E s \in Sta : Probe(s) \/ Forget(s)
         \/ SetLoadKick
  PROVE  IInv'
<1> USE DEF IInv
<1>1. ASSUME NEW listed \in SUBSET Sta, Poll(listed) PROVE IInv'
  <2>1. n_assoc' \in 0 .. NSta
    BY <1>1, CardBound DEF Poll
  <2>2. QED
    BY <1>1, <2>1, NothingType
       DEF Poll, roamVars, TypeOK, NoticeInv, RoamKickIsAnnounced, KickedInv
<1>2. ASSUME NEW s \in Sta, Probe(s) PROVE IInv'
  <2>1. scanned' \in [Sta -> BOOLEAN]
    BY <1>2 DEF Probe, TypeOK
  <2>2. age_done' \in [Sta -> 0 .. AgeCap]
    BY <1>2, KickAssumption DEF Probe, TypeOK
  <2>3. QED
    BY <1>2, <2>1, <2>2, NothingType
       DEF Probe, TypeOK, NoticeInv, RoamKickIsAnnounced, KickedInv
<1>3. ASSUME NEW s \in Sta, Forget(s) PROVE IInv'
  <2>1. scanned' \in [Sta -> BOOLEAN]
    BY <1>3 DEF Forget, TypeOK
  <2>2. /\ roam_state' \in [Sta -> RoamStates]
        /\ roam_tries' \in [Sta -> 0 .. TriesMod - 1]
        /\ age_event' \in [Sta -> 0 .. AgeCap] /\ age_kick' \in [Sta -> 0 .. AgeCap]
        /\ age_done' \in [Sta -> 0 .. AgeCap] /\ age_notify' \in [Sta -> -1 .. AgeCap]
        /\ kick_count' \in [Sta -> 0 .. MaxKicks]
    BY <1>3, KickAssumption DEF Forget, TypeOK, RoamStates
  <2>3. TypeOK'
    BY <1>3, <2>1, <2>2, NothingType DEF Forget, TypeOK
  <2>4. NoticeInv' /\ RoamKickIsAnnounced' /\ KickedInv'
    BY <1>3, NothingType DEF Forget, TypeOK, NoticeInv, RoamKickIsAnnounced, KickedInv
  <2>5. QED
    BY <2>3, <2>4
<1>4. CASE SetLoadKick
  <2>1. load_kick_enabled' \in BOOLEAN
    BY <1>4 DEF SetLoadKick
  <2>2. QED
    BY <1>4, <2>1, NothingType
       DEF SetLoadKick, roamVars, TypeOK, NoticeInv, RoamKickIsAnnounced, KickedInv
<1>5. QED
  BY <1>1, <1>2, <1>3, <1>4

\* The invariant is inductive.
LEMMA NextInv == IInv /\ [Next]_vars => IInv'
<1> SUFFICES ASSUME IInv, [Next]_vars PROVE IInv'
  OBVIOUS
<1>1. CASE Turn
  BY <1>1, TurnInv DEF Turn
<1>2. CASE \/ \E listed \in SUBSET Sta : Poll(listed)
           \/ \E s \in Sta : Probe(s) \/ Forget(s)
           \/ SetLoadKick
  BY <1>2, OtherInv
<1>3. CASE UNCHANGED vars
  BY <1>3 DEF vars, roamVars, IInv, TypeOK, NoticeInv, RoamKickIsAnnounced, KickedInv
<1>4. QED
  BY <1>1, <1>2, <1>3 DEF Next

\* policy.c:292-533: the inductive invariant always holds.
THEOREM InvariantHolds == Spec => []IInv
<1>1. Init => IInv
  BY InitInv
<1>2. IInv /\ [Next]_vars => IInv'
  BY NextInv
<1>3. QED
  BY <1>1, <1>2, PTL DEF Spec

\* The types of the kick turn's state, among them that load_thr_count never
\* exceeds the delay it counts up to (policy.c:479-490).
THEOREM TypeCorrect == Spec => []TypeOK
<1>1. IInv => TypeOK
  BY DEF IInv
<1>2. QED
  BY <1>1, InvariantHolds, PTL

\* policy.c:372-388: for every configuration, the state machine kicks only
\* whom it told to leave more than roam_kick_delay ago.
THEOREM KicksAreAnnounced == Spec => []RoamKickIsAnnounced
<1>1. IInv => RoamKickIsAnnounced
  BY DEF IInv
<1>2. QED
  BY <1>1, InvariantHolds, PTL

\* ubus.c:516-531: nobody is kicked twice between two polls.
THEOREM KicksAreNotRepeated == Spec => []KickedOncePerPoll
<1>1. IInv => KickedOncePerPoll
  BY DEF IInv, KickedInv, KickedOncePerPoll
<1>2. QED
  BY <1>1, InvariantHolds, PTL

-----------------------------------------------------------------------------
(* Load kicks, while nobody switches them on and off.                       *)

\* The counter counts only turns that were over the threshold.
LoadInv ==
  /\ load_thr_count <= over_turns
  /\ ~load_kick_enabled => load_thr_count = 0
  /\ LoadKickIsPatient

\* A turn counts and kicks patiently (policy.c:468-490).
LEMMA LoadTurn ==
  ASSUME TypeOK, LoadInv, NEW m, NEW over \in BOOLEAN, usteer_local_node_kick(m, over)
  PROVE  LoadInv'
<1>1. /\ load_thr_count' = LoadCount(over)
      /\ over_turns' = IF over THEN (IF over_turns <= LoadDelay THEN over_turns + 1
                                     ELSE over_turns)
                       ELSE 0
      /\ kicked'.load # {} => LoadKickDue(over)
      /\ UNCHANGED load_kick_enabled
  BY DEF usteer_local_node_kick
<1>2. /\ load_thr_count \in 0 .. LoadDelay /\ over_turns \in 0 .. LoadDelay + 1
      /\ load_kick_enabled \in BOOLEAN
  BY DEF TypeOK
<1>3. load_thr_count' <= over_turns'
  BY <1>1, <1>2, KickAssumption DEF LoadInv, LoadCount
<1>4. ~load_kick_enabled' => load_thr_count' = 0
  BY <1>1 DEF LoadInv, LoadCount
<1>5. LoadKickIsPatient'
  BY <1>1, <1>2, KickAssumption DEF LoadInv, LoadKickIsPatient, LoadKickDue
<1>6. QED
  BY <1>3, <1>4, <1>5 DEF LoadInv

\* policy.c:468-490: if load_kick_enabled is not reconfigured, a client is
\* load-kicked only after a long enough unbroken run of overloaded turns.
THEOREM LoadKicksArePatient ==
  ASSUME ~Reconfigure
  PROVE  Spec => []LoadKickIsPatient
<1>1. Init => LoadInv
  BY DEF Init, LoadInv, LoadKickIsPatient, Nothing
<1>2. IInv /\ LoadInv /\ [Next]_vars => LoadInv'
  <2> SUFFICES ASSUME IInv, LoadInv, [Next]_vars PROVE LoadInv'
    OBVIOUS
  <2>1. CASE Turn
    BY <2>1, LoadTurn DEF Turn, IInv
  <2>2. ASSUME NEW listed, Poll(listed) PROVE LoadInv'
    BY <2>2, NothingType DEF Poll, LoadInv, LoadKickIsPatient
  <2>3. ASSUME NEW s \in Sta, Probe(s) \/ Forget(s) PROVE LoadInv'
    BY <2>3, NothingType DEF Probe, Forget, LoadInv, LoadKickIsPatient
  <2>4. ~SetLoadKick
    BY DEF SetLoadKick
  <2>5. CASE UNCHANGED vars
    BY <2>5 DEF vars, LoadInv, LoadKickIsPatient
  <2>6. QED
    BY <2>1, <2>2, <2>3, <2>4, <2>5 DEF Next
<1>3. LoadInv => LoadKickIsPatient
  BY DEF LoadInv
<1>4. QED
  BY <1>1, <1>2, <1>3, InvariantHolds, PTL DEF Spec

-----------------------------------------------------------------------------
(* The distance of load kicks, whatever is reconfigured.                    *)

\* The counter counts only turns since the last load kick.
SpaceInv == load_thr_count <= since_load

\* A turn keeps that, and a load kick in it is far enough from the last one.
LEMMA SpaceTurn ==
  ASSUME TypeOK, SpaceInv, NEW m, NEW over \in BOOLEAN, usteer_local_node_kick(m, over)
  PROVE  SpaceInv' /\ (kicked'.load # {} => since_load >= LoadDelay)
<1>1. /\ load_thr_count' = LoadCount(over)
      /\ since_load' = IF kicked'.load # {} THEN 0
                       ELSE IF since_load <= LoadDelay THEN since_load + 1 ELSE since_load
      /\ kicked'.load # {} => LoadKickDue(over)
  BY DEF usteer_local_node_kick
<1>2. load_thr_count \in 0 .. LoadDelay /\ since_load \in 0 .. LoadDelay + 1
  BY DEF TypeOK
<1>3. kicked'.load # {} => since_load >= LoadDelay /\ load_thr_count' = 0
  BY <1>1, <1>2, KickAssumption DEF SpaceInv, LoadKickDue, LoadCount
<1>4. SpaceInv'
  BY <1>1, <1>2, <1>3, KickAssumption DEF SpaceInv, LoadCount
<1>5. QED
  BY <1>3, <1>4

\* What the other steps do to the counter and to the last turn's record.
LEMMA SpaceOther ==
  ASSUME SpaceInv,
         \/ \E listed \in SUBSET Sta : Poll(listed)
         \/ \E s \in Sta : Probe(s) \/ Forget(s)
         \/ SetLoadKick
  PROVE  SpaceInv' /\ kicked'.load = {}
<1>1. UNCHANGED <<load_thr_count, since_load>> /\ kicked' = Nothing
  BY DEF Poll, Probe, Forget, SetLoadKick
<1>2. QED
  BY <1>1, NothingType DEF SpaceInv

\* policy.c:472-490: two load kicks of a node are more than load_kick_delay apart, for
\* every number of clients and every sequence of polls, kicks and reconfigurations.
THEOREM LoadKicksKeepDistance == Spec => LoadKicksAreSpaced
<1>1. Init => SpaceInv
  BY KickAssumption DEF Init, SpaceInv
<1>2. IInv /\ SpaceInv /\ [Next]_vars
        => SpaceInv' /\ [kicked'.load # {} => since_load >= LoadDelay]_vars
  <2> SUFFICES ASSUME IInv, SpaceInv, [Next]_vars
               PROVE  SpaceInv' /\ [kicked'.load # {} => since_load >= LoadDelay]_vars
    OBVIOUS
  <2>1. CASE Turn
    BY <2>1, SpaceTurn DEF Turn, IInv
  <2>2. CASE \/ \E listed \in SUBSET Sta : Poll(listed)
             \/ \E s \in Sta : Probe(s) \/ Forget(s)
             \/ SetLoadKick
    BY <2>2, SpaceOther
  <2>3. CASE UNCHANGED vars
    BY <2>3 DEF vars, SpaceInv
  <2>4. QED
    BY <2>1, <2>2, <2>3 DEF Next
<1>3. QED
  BY <1>1, <1>2, InvariantHolds, PTL DEF Spec, LoadKicksAreSpaced
=============================================================================

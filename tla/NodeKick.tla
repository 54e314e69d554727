------------------------------ MODULE NodeKick ------------------------------
(***************************************************************************)
(* The kick turn of one local node: usteer_local_node_kick of policy.c,     *)
(* which usteer_local_node_update runs every config.local_sta_update ms.    *)
(* A turn walks the roam state machine of every client, kicks at most one   *)
(* client for its SNR and at most one for the load of the access point.     *)
(*                                                                         *)
(* One unit of time is one turn.  Times are kept as saturating ages, so     *)
(* that the model needs no bound on time.  What the radio measures (signal, *)
(* activity, load) and whether find_better_candidate has an answer are the  *)
(* inputs of a turn: polls and messages change them between two turns.      *)
(***************************************************************************)
EXTENDS Integers, FiniteSets

CONSTANTS
  NSta,              \* clients 1..NSta, in the order of the node's list
  Measurements,      \* what a turn can find of a client
  noise,             \* node->noise, or the -95 that stands for it
  roam_scan_snr, roam_trigger_snr, min_snr,           \* config, in dB
  roam_scan_tries,                                    \* config
  roam_scan_interval, roam_trigger_interval,          \* config, in turns
  KickDelay,         \* config.roam_kick_delay * 100, in turns
  TriesMod,          \* 2^8: roam_tries is a uint8_t
  load_kick_min_clients,                              \* config
  LoadDelay,         \* DIV_ROUND_UP(load_kick_delay, local_sta_update)
  Reconfigure,       \* whether set_config toggles load_kick_enabled
  AgeCap,            \* where ages saturate
  MaxKicks           \* where kick_count saturates

ASSUME KickAssumption ==
  /\ NSta \in Nat /\ noise \in Int
  /\ Measurements \subseteq [signal : Int, active : BOOLEAN, candidate : BOOLEAN]
  /\ roam_scan_snr \in Int /\ roam_trigger_snr \in Int /\ min_snr \in Int
  /\ roam_scan_tries \in Nat /\ TriesMod \in Nat \ {0}
  /\ roam_scan_interval \in Nat /\ roam_trigger_interval \in Nat /\ KickDelay \in Nat
  /\ load_kick_min_clients \in Nat /\ LoadDelay \in Nat \ {0}
  /\ AgeCap \in Nat /\ AgeCap > 2 * roam_scan_interval
  /\ AgeCap >= roam_trigger_interval /\ AgeCap > KickDelay
  /\ MaxKicks \in Nat
  /\ Reconfigure \in BOOLEAN

Sta == 1 .. NSta
RoamStates == {"IDLE", "SCAN", "SCAN_DONE", "WAIT_KICK", "NOTIFY_KICK", "KICK"}
Stay == "stay"          \* the state machine leaves the switch without a change

VARIABLES
  connected,         \* the clients with si->connected
  n_assoc,           \* node->n_assoc, of the last poll
  roam_state, roam_tries,
  age_event,         \* turns since roam_event
  age_kick,          \* turns since roam_kick
  age_done,          \* turns since roam_scan_done
  scanned,           \* roam_scan_done > roam_event
  kick_count,
  load_thr_count,
  load_kick_enabled, \* config
  uptime,            \* age of a time stamp that is still 0
  \* ghosts
  age_notify,        \* turns since the client was told to leave in the episode of
                     \* weak signal that it is in, -1: not told
  over_turns,        \* turns in a row with the load at or above the threshold
  since_load,        \* turns since the last load kick (saturating)
  kicks_since_poll,  \* kicks of a client since the last poll
  kicked             \* what the last turn did, and who had a better candidate

roamVars == <<roam_state, roam_tries, age_event, age_kick, age_done, scanned, age_notify>>
vars == <<connected, n_assoc, roamVars, kick_count, load_thr_count, load_kick_enabled,
          uptime, over_turns, since_load, kicks_since_poll, kicked>>

Nothing == [roam |-> {}, snr |-> {}, load |-> {}, offered |-> {}]

Older(age) == IF age < AgeCap THEN age + 1 ELSE AgeCap
First(S) == {s \in S : \A u \in S : s <= u}

-----------------------------------------------------------------------------
(* The roam state machine.                                                  *)

snr_to_signal(snr) == IF snr < 0 THEN snr ELSE noise + snr

RoamCheckOn == roam_scan_snr # 0 \/ roam_trigger_snr # 0
RoamSignal == snr_to_signal(IF roam_scan_snr # 0 THEN roam_scan_snr ELSE roam_trigger_snr)

\* The client passes the conditions of usteer_local_node_roam_check.
Eligible(s, m) ==
  /\ s \in connected /\ m[s].signal < RoamSignal /\ ~m[s].active
  /\ Older(age_kick[s]) >= roam_trigger_interval

MTriggerNoDelay(s, m) ==
  CASE roam_state[s] = "IDLE" -> IF m[s].candidate THEN "SCAN_DONE" ELSE "SCAN"
    [] roam_state[s] = "SCAN" ->
         IF Older(age_event[s]) < roam_scan_interval THEN Stay
         ELSE IF m[s].candidate \/ scanned[s] THEN "SCAN_DONE"
         ELSE IF roam_scan_tries # 0 /\ roam_tries[s] >= roam_scan_tries THEN "WAIT_KICK"
         ELSE "SCAN"
    [] roam_state[s] = "SCAN_DONE" ->
         IF Older(age_done[s]) > 2 * roam_scan_interval THEN "SCAN"
         ELSE IF m[s].candidate THEN "WAIT_KICK" ELSE Stay
    [] roam_state[s] = "WAIT_KICK" ->
         IF m[s].signal > snr_to_signal(roam_trigger_snr) THEN Stay ELSE "NOTIFY_KICK"
    [] roam_state[s] = "NOTIFY_KICK" -> "KICK"
    [] roam_state[s] = "KICK" -> "IDLE"

\* usteer_roam_trigger_sm: the state that is set, or Stay.
usteer_roam_trigger_sm(s, m) ==
  CASE roam_state[s] = "IDLE" -> IF m[s].candidate THEN "SCAN_DONE" ELSE "SCAN"
    [] roam_state[s] = "SCAN" ->
         IF Older(age_event[s]) < roam_scan_interval THEN Stay
         ELSE IF m[s].candidate \/ scanned[s] THEN "SCAN_DONE"
         ELSE IF roam_scan_tries # 0 /\ roam_tries[s] >= roam_scan_tries THEN "WAIT_KICK"
         ELSE "SCAN"
    [] roam_state[s] = "SCAN_DONE" ->
         IF Older(age_done[s]) > 2 * roam_scan_interval THEN "SCAN"
         ELSE IF m[s].candidate THEN "WAIT_KICK" ELSE Stay
    [] roam_state[s] = "WAIT_KICK" ->
         IF m[s].signal > snr_to_signal(roam_trigger_snr) THEN Stay ELSE "NOTIFY_KICK"
    [] roam_state[s] = "NOTIFY_KICK" ->
         IF Older(age_event[s]) < KickDelay THEN Stay ELSE "KICK"
    [] roam_state[s] = "KICK" -> "IDLE"

\* The roam check stops after the first client that it kicks.
RoamVictim(m) ==
  First({s \in Sta : RoamCheckOn /\ Eligible(s, m) /\ roam_state[s] = "KICK"})

\* What usteer_roam_set_state is called with for s, Stay if it is not called.
NewRoamState(s, m) ==
  IF ~RoamCheckOn \/ \E k \in RoamVictim(m) : k < s THEN Stay
  ELSE IF Eligible(s, m) THEN usteer_roam_trigger_sm(s, m)
  ELSE "IDLE"

MRoamSetStateKeepsTries(new) ==
  /\ roam_state' = [s \in Sta |-> IF new[s] = Stay THEN roam_state[s] ELSE new[s]]
  /\ roam_tries' = [s \in Sta |-> IF new[s] = roam_state[s] /\ new[s] = "IDLE" THEN 0
                                  ELSE roam_tries[s]]
  /\ age_event' = [s \in Sta |-> IF new[s] = Stay THEN Older(age_event[s]) ELSE 0]
  /\ scanned' = [s \in Sta |-> new[s] = Stay /\ scanned[s]]

usteer_roam_set_state(new) ==
  /\ roam_state' = [s \in Sta |-> IF new[s] = Stay THEN roam_state[s] ELSE new[s]]
  /\ roam_tries' = [s \in Sta |->
       IF new[s] = Stay THEN roam_tries[s]
       ELSE IF new[s] = roam_state[s] /\ new[s] # "IDLE" THEN (roam_tries[s] + 1) % TriesMod
       ELSE 0]
  /\ age_event' = [s \in Sta |-> IF new[s] = Stay THEN Older(age_event[s]) ELSE 0]
  /\ scanned' = [s \in Sta |-> new[s] = Stay /\ scanned[s]]

-----------------------------------------------------------------------------
(* Kicks for SNR and for load.                                              *)

\* usteer_local_node_snr_kick: the first weak, inactive client of the list.
SnrVictim(conn, m) ==
  First({s \in conn : min_snr # 0 /\ ~m[s].active /\ m[s].signal < snr_to_signal(min_snr)})

is_more_kickable(cur, new, m, count) ==
  \/ cur = 0
  \/ ~(count[new] > count[cur]) /\ m[cur].signal > m[new].signal

\* One pass over the list, as kick1 and kick2 are chosen; 0 is NULL.
PickMostKickable(pool, m, count) ==
  LET pick[i \in 0 .. NSta] ==
        IF i = 0 THEN 0
        ELSE IF i \in pool /\ is_more_kickable(pick[i - 1], i, m, count) THEN i
        ELSE pick[i - 1]
  IN  pick[NSta]

\* The client with a better candidate if there is one, else any inactive one.
LoadVictim(conn, m, count) ==
  LET pool == {s \in conn : ~m[s].active}
      kick1 == PickMostKickable(pool, m, count)
      kick2 == PickMostKickable({s \in pool : m[s].candidate}, m, count)
  IN  {IF kick2 # 0 THEN kick2 ELSE kick1} \cap pool

MLoadKickEveryTurn(over) ==
  load_kick_enabled /\ over /\ n_assoc >= load_kick_min_clients

\* The load kick is due: long enough above the threshold, enough clients.
LoadKickDue(over) ==
  /\ load_kick_enabled /\ over
  /\ load_thr_count + 1 > LoadDelay
  /\ n_assoc >= load_kick_min_clients

MLoadCountNoReset(over) ==
  IF ~load_kick_enabled THEN load_thr_count
  ELSE IF ~over THEN 0
  ELSE load_thr_count + 1

MLoadCountKept(over) ==
  IF ~load_kick_enabled THEN load_thr_count
  ELSE IF ~over THEN 0
  ELSE IF load_thr_count + 1 > LoadDelay THEN LoadDelay ELSE load_thr_count + 1

\* load_thr_count is left alone while load kicks are disabled.
LoadCount(over) ==
  IF ~load_kick_enabled THEN load_thr_count
  ELSE IF ~over \/ load_thr_count + 1 > LoadDelay THEN 0
  ELSE load_thr_count + 1

MKickKeepsConnected(k) == connected' = connected

\* usteer_ubus_kick_client for each client of k: connected, but not n_assoc.
usteer_ubus_kick_client(k) == connected' = connected \ k

-----------------------------------------------------------------------------
Init ==
  /\ connected = {} /\ n_assoc = 0
  /\ uptime \in 0 .. AgeCap
  /\ roam_state = [s \in Sta |-> "IDLE"]
  /\ roam_tries = [s \in Sta |-> 0]
  /\ age_event = [s \in Sta |-> uptime]
  /\ age_kick = [s \in Sta |-> uptime]
  /\ age_done = [s \in Sta |-> uptime]
  /\ scanned = [s \in Sta |-> FALSE]
  /\ kick_count = [s \in Sta |-> 0]
  /\ load_thr_count = 0
  /\ load_kick_enabled \in BOOLEAN
  /\ age_notify = [s \in Sta |-> -1]
  /\ over_turns = 0 /\ since_load = LoadDelay + 1
  /\ kicks_since_poll = [s \in Sta |-> 0]
  /\ kicked = Nothing

\* usteer_local_node_kick with the measurements of this turn.
usteer_local_node_kick(m, over) ==
  LET new   == [s \in Sta |-> NewRoamState(s, m)]
      roam  == RoamVictim(m)
      conn1 == connected \ roam
      snr   == SnrVictim(conn1, m)
      count == [s \in Sta |-> IF s \in snr /\ kick_count[s] < MaxKicks
                              THEN kick_count[s] + 1 ELSE kick_count[s]]
      conn2 == conn1 \ snr
      load  == IF LoadKickDue(over) THEN LoadVictim(conn2, m, count) ELSE {}
      all   == roam \cup snr \cup load
  IN  /\ usteer_roam_set_state(new)
      /\ usteer_ubus_kick_client(all)
      /\ age_kick' = [s \in Sta |-> IF s \in all THEN 0 ELSE Older(age_kick[s])]
      /\ age_done' = [s \in Sta |-> Older(age_done[s])]
      /\ kick_count' = [s \in Sta |-> IF s \in load /\ count[s] < MaxKicks
                                      THEN count[s] + 1 ELSE count[s]]
      /\ load_thr_count' = LoadCount(over)
      /\ uptime' = Older(uptime)
      /\ age_notify' = [s \in Sta |->
           IF s \notin roam /\ "IDLE" \in {new[s], roam_state[s]} THEN -1
           ELSE IF new[s] = "NOTIFY_KICK" THEN 0
           ELSE IF age_notify[s] < 0 THEN -1 ELSE Older(age_notify[s])]
      /\ over_turns' = IF over THEN (IF over_turns <= LoadDelay THEN over_turns + 1
                                     ELSE over_turns)
                       ELSE 0
      /\ since_load' = IF load # {} THEN 0
                       ELSE IF since_load <= LoadDelay THEN since_load + 1 ELSE since_load
      /\ kicks_since_poll' = [s \in Sta |-> IF s \in all /\ kicks_since_poll[s] < 2
                                            THEN kicks_since_poll[s] + 1
                                            ELSE kicks_since_poll[s]]
      /\ kicked' = [roam |-> roam, snr |-> snr, load |-> load,
                    offered |-> {s \in Sta : m[s].candidate}]
      /\ UNCHANGED <<n_assoc, load_kick_enabled>>

Turn ==
  \E m \in [Sta -> Measurements], over \in BOOLEAN : usteer_local_node_kick(m, over)

\* usteer_local_node_set_assoc: hostapd's list of associated clients.
Poll(listed) ==
  /\ connected' = listed
  /\ n_assoc' = Cardinality(listed)
  /\ kicks_since_poll' = [s \in Sta |-> 0]
  /\ kicked' = Nothing
  /\ UNCHANGED <<roamVars, kick_count, load_thr_count, load_kick_enabled, uptime,
                 over_turns, since_load>>

\* usteer_handle_sta_event: the client was heard scanning.  If that is in the
\* millisecond of the last roam event, the scan does not count as newer.
Probe(s) ==
  /\ age_done' = [age_done EXCEPT ![s] = 0]
  /\ \E newer \in BOOLEAN :
       /\ newer \/ (age_event[s] = 0 /\ ~scanned[s])
       /\ scanned' = [scanned EXCEPT ![s] = newer]
  /\ kicked' = Nothing
  /\ UNCHANGED <<connected, n_assoc, roam_state, roam_tries, age_event, age_kick, age_notify,
                 kick_count, load_thr_count, load_kick_enabled, uptime, over_turns,
                 since_load, kicks_since_poll>>

\* usteer_sta_info_timeout: the entry expires.  That of a connected client does, too,
\* when nl80211 does not answer for it.  When it is back, calloc has cleared it.
Forget(s) ==
  /\ connected' = connected \ {s}
  /\ roam_state' = [roam_state EXCEPT ![s] = "IDLE"]
  /\ roam_tries' = [roam_tries EXCEPT ![s] = 0]
  /\ age_event' = [age_event EXCEPT ![s] = uptime]
  /\ age_kick' = [age_kick EXCEPT ![s] = uptime]
  /\ age_done' = [age_done EXCEPT ![s] = uptime]
  /\ scanned' = [scanned EXCEPT ![s] = FALSE]
  /\ age_notify' = [age_notify EXCEPT ![s] = -1]
  /\ kick_count' = [kick_count EXCEPT ![s] = 0]
  /\ kicked' = Nothing
  /\ UNCHANGED <<n_assoc, load_thr_count, load_kick_enabled, uptime,
                 over_turns, since_load, kicks_since_poll>>

\* usteer_ubus_set_config switches load kicks on or off.
SetLoadKick ==
  /\ Reconfigure
  /\ load_kick_enabled' = ~load_kick_enabled
  /\ kicked' = Nothing
  /\ UNCHANGED <<connected, n_assoc, roamVars, kick_count, load_thr_count, uptime,
                 over_turns, since_load, kicks_since_poll>>

Next ==
  \/ Turn
  \/ \E listed \in SUBSET Sta : Poll(listed)
  \/ \E s \in Sta : Probe(s) \/ Forget(s)
  \/ SetLoadKick

Spec == Init /\ [][Next]_vars
FairSpec == Spec /\ WF_vars(Turn)

-----------------------------------------------------------------------------
TypeOK ==
  /\ connected \subseteq Sta /\ n_assoc \in 0 .. NSta
  /\ roam_state \in [Sta -> RoamStates]
  /\ roam_tries \in [Sta -> 0 .. TriesMod - 1]
  /\ age_event \in [Sta -> 0 .. AgeCap]
  /\ age_kick \in [Sta -> 0 .. AgeCap]
  /\ age_done \in [Sta -> 0 .. AgeCap]
  /\ scanned \in [Sta -> BOOLEAN]
  /\ kick_count \in [Sta -> 0 .. MaxKicks]
  /\ load_thr_count \in 0 .. LoadDelay
  /\ load_kick_enabled \in BOOLEAN
  /\ uptime \in 0 .. AgeCap
  /\ age_notify \in [Sta -> -1 .. AgeCap]
  /\ over_turns \in 0 .. LoadDelay + 1 /\ since_load \in 0 .. LoadDelay + 1
  /\ kicks_since_poll \in [Sta -> 0 .. 2]
  /\ kicked \in [roam : SUBSET Sta, snr : SUBSET Sta, load : SUBSET Sta,
                 offered : SUBSET Sta]

(* policy.c:372-388.  The roam state machine kicks a client only when it    *)
(* was told to leave (wnm_disassoc_imminent) in this same episode of weak   *)
(* signal, and had more than roam_kick_delay to follow.                     *)
RoamKickIsAnnounced == \A s \in kicked.roam : age_notify[s] > KickDelay

(* ubus.c:529, policy.c:411, 438, 502.  A client that was kicked is not     *)
(* kicked again, by whichever of the three rules, before a poll has found   *)
(* it associated again.                                                     *)
KickedOncePerPoll == \A s \in Sta : kicks_since_poll[s] <= 1

(* policy.c:472-490.  A client is load-kicked only after the load has been  *)
(* at the threshold for longer than load_kick_delay without a break.        *)
LoadKickIsPatient == kicked.load # {} => over_turns > LoadDelay

(* policy.c:472-490.  The counter is one for all clients, it is left alone  *)
(* while load kicks are switched off, and the load is still that of before  *)
(* the kick in the turns that follow it.  In spite of that load kicks do    *)
(* not come in a burst: one waits for load_kick_delay after the last,       *)
(* whoever was kicked and however the configuration changed in between.     *)
LoadKicksAreSpaced == [][kicked'.load # {} => since_load >= LoadDelay]_vars

(* policy.c:320-392.  The state machine does not look for another access    *)
(* point for ever: a client that does not scan by itself, and that has no   *)
(* better candidate any more, is at some time left alone again or found     *)
(* ready to be kicked.                                                      *)
ScanPhaseEnds ==
  \A s \in Sta : []<>(\/ roam_state[s] \in {"IDLE", "WAIT_KICK"}
                     \/ age_done[s] = 0 \/ s \in kicked.offered)
=============================================================================

----------------------------- MODULE Admission -----------------------------
(***************************************************************************)
(* How usteerd answers hostapd's question whether a client's probe,         *)
(* authentication or association request is to be answered: the event       *)
(* handlers of local_node.c and sta.c and the decision of policy.c, for     *)
(* one client at one node.  Whether another node is a better candidate      *)
(* (module Steering) is an input here.                                      *)
(*                                                                         *)
(* current_time has 64 bits; what is kept of it in the counters has 32, so  *)
(* the clock is kept modulo TimeWidth.  The counters requests and           *)
(* blocked_total, which nothing reads but the status methods, are left out. *)
(***************************************************************************)
EXTENDS Integers

CONSTANTS
  TimeWidth,                      \* 2^32 in the code
  Signals,                        \* the signals a request may carry, in dBm
  noise,                          \* the node's noise floor, 0: unknown
  max_retry_band, sta_block_timeout, initial_connect_delay, min_connect_snr  \* config

ASSUME AdmissionAssumption ==
  /\ TimeWidth \in Nat \ {0} /\ max_retry_band \in Nat
  /\ sta_block_timeout \in Nat /\ initial_connect_delay \in Nat
  /\ Signals \subseteq Int /\ noise \in Int /\ min_connect_snr \in Int

Types == {"probe", "auth", "assoc"}
NO_SIGNAL == 255

VARIABLES
  clock,      \* current_time % TimeWidth
  exists,     \* whether the client has an entry at the node
  connected, signal,
  age,        \* current_time - created, saturating
  blocked_cur, blocked_last_time,   \* stats[type]
  \* ghosts, each saturating
  burst,      \* burst[type]: refusals in this millisecond since the last grant
  streak,     \* streak[type]: refusals in a row, each within sta_block_timeout
  row,        \* row[type]: refusals in a row
  urgent      \* how the last request was granted against the policy, if it was

code == <<exists, connected, signal, age, blocked_cur, blocked_last_time>>
ghosts == <<burst, streak, row, urgent>>
vars == <<clock, code, ghosts>>

Zero == [t \in Types |-> 0]
SatLimit == max_retry_band + 1
Sat(k) == IF k > SatLimit THEN SatLimit ELSE k

-----------------------------------------------------------------------------
snr_to_signal(snr) ==
  IF snr < 0 THEN snr ELSE (IF noise # 0 THEN noise ELSE -95) + snr

\* usteer_sta_info_update: probe requests do not disturb a connected client's average.
usteer_sta_info_update(old, sig, avg) ==
  IF sig = NO_SIGNAL \/ (connected /\ old # NO_SIGNAL /\ ~avg) THEN old ELSE sig

\* diff = blocked_last_time - current_time, in 32 bits without sign.
BlockExpired(t) == (blocked_last_time[t] - clock) % TimeWidth > sta_block_timeout

\* The reasons to refuse: weak signal, too early, a better candidate.
Unwelcome(sig, created, better) ==
  \/ sig < snr_to_signal(min_connect_snr)
  \/ created < initial_connect_delay
  \/ better

usteer_check_request(t, blocked, sig, created, better) ==
  \/ t = "assoc"
  \/ blocked >= max_retry_band
  \/ ~Unwelcome(sig, created, better)

-----------------------------------------------------------------------------
Init ==
  /\ clock \in 0 .. TimeWidth - 1
  /\ exists = FALSE /\ connected = FALSE /\ signal = 0 /\ age = 0
  /\ blocked_cur = Zero /\ blocked_last_time = Zero
  /\ burst = Zero /\ streak = Zero /\ row = Zero
  /\ urgent = "no"

MAnswerKeepsCount(t, blocked, granted) ==
  /\ blocked_cur' = [blocked_cur EXCEPT ![t] = IF granted THEN blocked ELSE blocked + 1]
  /\ blocked_last_time' =
       IF granted THEN blocked_last_time ELSE [blocked_last_time EXCEPT ![t] = clock]

MAnswerNotCounted(t, blocked, granted) ==
  /\ blocked_cur' = [blocked_cur EXCEPT ![t] = IF granted THEN 0 ELSE blocked]
  /\ blocked_last_time' =
       IF granted THEN blocked_last_time ELSE [blocked_last_time EXCEPT ![t] = clock]

\* What the answer leaves in stats[type].
Answer(t, blocked, granted) ==
  /\ blocked_cur' = [blocked_cur EXCEPT ![t] = IF granted THEN 0 ELSE blocked + 1]
  /\ blocked_last_time' =
       IF granted THEN blocked_last_time ELSE [blocked_last_time EXCEPT ![t] = clock]

\* usteer_handle_event and usteer_handle_sta_event.
HandleEvent(t, sig, better) ==
  LET blocked == IF BlockExpired(t) THEN 0 ELSE blocked_cur[t]
      newSig == usteer_sta_info_update(signal, sig, FALSE)
      granted == usteer_check_request(t, blocked, newSig, age, better)
      Count(g) == [g EXCEPT ![t] = IF granted THEN 0 ELSE Sat(@ + 1)]
  IN
  /\ exists' = TRUE
  /\ signal' = newSig
  /\ Answer(t, blocked, granted)
  /\ burst' = Count(burst) /\ streak' = Count(streak) /\ row' = Count(row)
  /\ urgent' = IF granted /\ t # "assoc" /\ Unwelcome(newSig, age, better)
               THEN IF row[t] >= max_retry_band THEN "earned" ELSE "early"
               ELSE "no"
  /\ UNCHANGED <<clock, connected, age>>

\* usteer_local_node_set_assoc: a poll finds the client, with its average signal.
Poll(assoc, sig) ==
  /\ exists' = TRUE
  /\ connected' = assoc
  /\ signal' = usteer_sta_info_update(signal, sig, TRUE)
  /\ urgent' = "no"
  /\ UNCHANGED <<clock, age, blocked_cur, blocked_last_time, burst, streak, row>>

\* usteer_sta_info_del: the timeout, or the node goes.
Forget ==
  /\ exists
  /\ exists' = FALSE /\ connected' = FALSE /\ signal' = 0 /\ age' = 0
  /\ blocked_cur' = Zero /\ blocked_last_time' = Zero
  /\ burst' = Zero /\ streak' = Zero /\ row' = Zero
  /\ urgent' = "no"
  /\ UNCHANGED clock

Since(t) == (clock - blocked_last_time[t]) % TimeWidth

Tick ==
  /\ clock' = (clock + 1) % TimeWidth
  /\ age' = IF exists /\ age < initial_connect_delay THEN age + 1 ELSE age
  /\ burst' = Zero
  /\ streak' = [t \in Types |-> IF Since(t) >= sta_block_timeout THEN 0 ELSE streak[t]]
  /\ urgent' = "no"
  /\ UNCHANGED <<exists, connected, signal, blocked_cur, blocked_last_time, row>>

Next ==
  \/ \E t \in Types, sig \in Signals \cup {NO_SIGNAL}, better \in BOOLEAN :
       HandleEvent(t, sig, better)
  \/ \E assoc \in BOOLEAN, sig \in Signals : Poll(assoc, sig)
  \/ Forget
  \/ Tick

Spec == Init /\ [][Next]_vars

-----------------------------------------------------------------------------
TypeOK ==
  /\ clock \in 0 .. TimeWidth - 1
  /\ exists \in BOOLEAN /\ connected \in BOOLEAN
  /\ signal \in Signals \cup {0}
  /\ age \in 0 .. initial_connect_delay
  /\ blocked_cur \in [Types -> 0 .. max_retry_band]
  /\ blocked_last_time \in [Types -> 0 .. TimeWidth - 1]
  /\ burst \in [Types -> 0 .. SatLimit] /\ streak \in [Types -> 0 .. SatLimit]
  /\ row \in [Types -> 0 .. SatLimit]
  /\ urgent \in {"no", "earned", "early"}

(* policy.c:209-213, sta.c:196-203.  Whatever the signal, the delay and the *)
(* other nodes say, a client that repeats its request in a burst is refused *)
(* at most max_retry_band times.                                            *)
BurstIsBounded == \A t \in Types : burst[t] <= max_retry_band

(* sta.c:189-203.  Nobody is admitted against the policy for the retries of *)
(* somebody else: such a grant follows max_retry_band refusals in a row of  *)
(* requests of the same type, whatever the clock did meanwhile.             *)
UrgencyIsEarned == urgent # "early"

(* readme.md:25, max_retry_band: "Max amount of retries before an event or  *)
(* request from a station is treated with urgency", the count starting      *)
(* again after sta_block_timeout (readme.md:22).                            *)
RetriesAreBounded == \A t \in Types : streak[t] <= max_retry_band
=============================================================================

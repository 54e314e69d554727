----------------------------- MODULE HearingMap -----------------------------
(***************************************************************************)
(* How usteerd asks a client what it hears (hearing_map.c).  In every poll  *)
(* of a local node usteer_beacon_request_check looks at each associated     *)
(* client: it sends a beacon request for the band that is due, starts a new *)
(* round over the bands of all local nodes when the node's own band is due  *)
(* again, and adapts the mode of the requests to the answers.  Beacon       *)
(* reports are kept with the client's entry until they are cleaned up.      *)
(*                                                                         *)
(* One client at the local node Own.  Local nodes come, go and change their *)
(* channel while a round is under way.  Times are saturating ages, counted  *)
(* in intervals of local_sta_update.                                        *)
(***************************************************************************)
EXTENDS Integers, FiniteSets, FiniteSetsExt

CONSTANTS
  NNodes,          \* local nodes 1..NNodes, in the order of local_nodes
  Own,             \* the node of the client's entry
  Channels,        \* Channels[n]: the frequencies hostapd may use for n, in MHz
  Hotplug,         \* the nodes that may be removed
  Aps,             \* the access points in reports: local nodes, or remote ones
  Signals,         \* the client's signal, in dBm
  Gaps,            \* the intervals from one answered poll to the next
  beacon_request_frequency, beacon_request_signal_modifier,   \* config
  beacon_report_invalide_timeout,                             \* config
  FailMod,         \* 2^8: failed_requests is a uint8_t
  AgeCap           \* where ages saturate

Nodes == 1 .. NNodes

ASSUME HearingAssumption ==
  /\ NNodes \in Nat /\ Own \in Nodes /\ Hotplug \subseteq Nodes
  /\ Channels \in [Nodes -> SUBSET (Nat \ {0})]
  /\ Signals \subseteq Int /\ Gaps \subseteq Nat \ {0}
  /\ beacon_request_frequency \in Nat /\ beacon_request_signal_modifier \in Nat
  /\ beacon_report_invalide_timeout \in Nat /\ FailMod \in Nat \ {0}
  /\ AgeCap \in Nat
  /\ AgeCap >= beacon_request_frequency + beacon_request_signal_modifier
  /\ AgeCap > beacon_report_invalide_timeout

VARIABLES
  up, freq,        \* local_nodes, and the frequency of each, 0 before its first poll
  listed,          \* whether hostapd has the client associated at Own
  here,            \* whether the client has an entry at Own
  band, failed_requests,                 \* si->beacon_request
  age_request,     \* age of lastRequestTime
  answered,        \* lastReportTime > lastRequestTime
  report,          \* report[a]: age of the beacon report about a, -1: none
  uptime,          \* age of a time stamp that is still 0
  \* ghosts
  asked,           \* what the last poll asked of the client
  row              \* requests in a row on other bands than Own's, among the same nodes

entry == <<here, band, failed_requests, age_request, answered, report>>
vars == <<up, freq, listed, entry, uptime, asked, row>>

Later(age, d) == IF age + d < AgeCap THEN age + d ELSE AgeCap
NoRequest == [band |-> -1, mode |-> -1, own |-> FALSE, answered |-> FALSE]
NoReport == [a \in Aps |-> -1]
Bands(u, fr) == {fr[n] : n \in u}

-----------------------------------------------------------------------------
(* What usteer_beacon_request_check computes.                               *)

\* ctime - lastRequestTime < dyn_freq, with dyn_freq = frequency + modifier *
\* (a / (1 + |a|)) and a = signal + 60, multiplied by 1 + |a|.
TooSoon(age, signal) ==
  LET a == signal + 60
      d == 1 + (IF a < 0 THEN -a ELSE a)
  IN  age * d < beacon_request_frequency * d + beacon_request_signal_modifier * a

MFailedNoWrap(own, wasAnswered, failed) ==
  IF ~own THEN failed
  ELSE (IF wasAnswered THEN failed \div 2 ELSE failed) + 1

MFailedNeverHalved(own, wasAnswered, failed) ==
  IF ~own THEN failed ELSE (failed + 1) % FailMod

\* usteer_get_beacon_request_mode: the counter moves once a round.
FailedRequests(own, wasAnswered, failed) ==
  IF ~own THEN failed
  ELSE ((IF wasAnswered THEN failed \div 2 ELSE failed) + 1) % FailMod

\* usteer_get_beacon_request_mode: 1 active, 0 passive, 2 from the client's table.
RequestMode(b, failed) ==
  CASE b < 4000 /\ failed < 3 -> 1
    [] b < 4000 /\ failed \in 3 .. 6 -> 0
    [] b > 4000 /\ failed < 5 -> 0
    [] OTHER -> 2

MNextBandNoCycle(u, fr, b) ==
  LET after == {n \in u : fr[n] # b /\ \E m \in u : m < n /\ fr[m] = b}
  IN  IF after # {} THEN fr[Min(after)] ELSE b

MNextBandFirstOther(u, fr, b) ==
  LET other == {n \in u : fr[n] # b}
  IN  IF other # {} THEN fr[Min(other)] ELSE fr[Min(u)]

\* usteer_beacon_request_next_band: the first node behind one of band b that is
\* on another band, else the first node of all.
usteer_beacon_request_next_band(u, fr, b) ==
  LET after == {n \in u : fr[n] # b /\ \E m \in u : m < n /\ fr[m] = b}
  IN  fr[Min(IF after # {} THEN after ELSE u)]

MCleanupNothing(rep) == rep

\* usteer_beacon_report_cleanup with a BSSID that no report has.
ExpiredRemoved(rep) ==
  [a \in Aps |-> IF rep[a] > beacon_report_invalide_timeout THEN -1 ELSE rep[a]]

-----------------------------------------------------------------------------
Init ==
  /\ up = Nodes \ Hotplug /\ freq = [n \in Nodes |-> 0]
  /\ listed = FALSE /\ here = FALSE
  /\ band = 0 /\ failed_requests = 0 /\ age_request = 0 /\ answered = FALSE
  /\ report = NoReport
  /\ uptime \in 0 .. AgeCap
  /\ asked = NoRequest /\ row = 0

\* usteer_sta_info_del at Own: calloc clears the next entry.
EntryGone ==
  /\ here' = FALSE /\ band' = 0 /\ failed_requests' = 0 /\ age_request' = 0
  /\ answered' = FALSE /\ report' = NoReport

\* usteer_beacon_request_check, for an entry of band b and with the other fields
\* as they are at the time of the poll.
usteer_beacon_request_check(fr, b, failed, age, wasAnswered, rep, signal) ==
  LET own == b = fr[Own]
      failed1 == FailedRequests(own, wasAnswered, failed)
  IN  IF own /\ TooSoon(age, signal)
      THEN /\ band' = b /\ failed_requests' = failed /\ age_request' = age
           /\ answered' = wasAnswered /\ report' = rep
           /\ asked' = NoRequest
           /\ row' = IF fr = freq THEN row ELSE 0
      ELSE /\ failed_requests' = failed1
           /\ age_request' = IF own THEN 0 ELSE age
           /\ answered' = (~own /\ wasAnswered)
           /\ report' = IF own THEN ExpiredRemoved(rep) ELSE rep
           /\ band' = usteer_beacon_request_next_band(up, fr, b)
           /\ asked' = [band |-> b, mode |-> RequestMode(b, failed1), own |-> own,
                        answered |-> wasAnswered]
           /\ row' = IF own THEN 0
                     ELSE IF fr # freq THEN 1
                     ELSE IF row <= NNodes THEN row + 1 ELSE row

\* A poll of Own is answered, d intervals after the one before: the frequency is
\* set, then usteer_local_node_set_assoc goes through the listed clients.
Poll(f, signal, d) ==
  LET fr == [freq EXCEPT ![Own] = f]
      now == Later(uptime, d)
      rep == [a \in Aps |-> IF report[a] < 0 THEN -1 ELSE Later(report[a], d)]
  IN  /\ Own \in up
      /\ freq' = fr /\ uptime' = now
      /\ here' = (here \/ listed)
      /\ IF listed /\ ~here
         THEN usteer_beacon_request_check(fr, f, 0, now, FALSE, NoReport, signal)
         ELSE IF listed
         THEN usteer_beacon_request_check(fr, band, failed_requests, Later(age_request, d),
                                          answered, rep, signal)
         ELSE /\ age_request' = IF here THEN Later(age_request, d) ELSE 0
              /\ report' = rep /\ asked' = NoRequest
              /\ row' = IF fr = freq THEN row ELSE 0
              /\ UNCHANGED <<band, failed_requests, answered>>
      /\ UNCHANGED <<up, listed>>

OwnPoll == \E f \in Channels[Own], signal \in Signals, d \in Gaps : Poll(f, signal, d)

\* The poll of another node: it may have changed its channel.
PollOther(n, f) ==
  /\ n \in up \ {Own} /\ freq[n] # f
  /\ freq' = [freq EXCEPT ![n] = f]
  /\ row' = 0
  /\ UNCHANGED <<up, listed, entry, uptime, asked>>

\* usteer_register_node, and the node is freed when its object goes.
Register(n) ==
  /\ n \notin up
  /\ up' = up \cup {n} /\ freq' = [freq EXCEPT ![n] = 0]
  /\ row' = 0
  /\ UNCHANGED <<listed, entry, uptime, asked>>

Remove(n) ==
  /\ n \in up \cap Hotplug
  /\ up' = up \ {n} /\ freq' = [freq EXCEPT ![n] = 0]
  /\ row' = 0
  /\ IF n = Own THEN EntryGone /\ listed' = FALSE /\ asked' = NoRequest
     ELSE UNCHANGED <<entry, listed, asked>>
  /\ UNCHANGED uptime

\* hostapd's side of the association.
Associate ==
  /\ Own \in up /\ ~listed
  /\ listed' = TRUE
  /\ UNCHANGED <<up, freq, entry, uptime, asked, row>>

Leave ==
  /\ listed
  /\ listed' = FALSE
  /\ UNCHANGED <<up, freq, entry, uptime, asked, row>>

\* usteer_sta_info_get: an event makes the entry before a poll does.
Heard ==
  /\ Own \in up /\ ~here
  /\ here' = TRUE /\ band' = freq[Own] /\ age_request' = uptime
  /\ UNCHANGED <<up, freq, listed, failed_requests, answered, report, uptime, asked, row>>

\* The entry times out.
Forget ==
  /\ here /\ ~listed
  /\ EntryGone
  /\ UNCHANGED <<up, freq, listed, uptime, asked, row>>

\* get_usteer_node_from_bssid finds the access point.
Known(a) == a \in Nodes => a \in up

\* usteer_handle_event_beacon_report.  In the millisecond of the request the
\* report does not count as later.
Report(a) ==
  /\ here /\ Known(a)
  /\ report' = [ExpiredRemoved(report) EXCEPT ![a] = 0]
  /\ answered' \in IF age_request = 0 THEN {answered, TRUE} ELSE {TRUE}
  /\ UNCHANGED <<up, freq, listed, here, band, failed_requests, age_request, uptime, asked, row>>

Next ==
  \/ OwnPoll
  \/ \E n \in Nodes : Register(n) \/ Remove(n) \/ \E f \in Channels[n] : PollOther(n, f)
  \/ Associate \/ Leave \/ Heard \/ Forget
  \/ \E a \in Aps : Report(a)

Spec == Init /\ [][Next]_vars

\* The node is polled again and again; nothing is assumed of the client.
FairSpec == Spec /\ WF_vars(OwnPoll)

-----------------------------------------------------------------------------
TypeOK ==
  /\ up \subseteq Nodes
  /\ freq \in [Nodes -> (UNION {Channels[n] : n \in Nodes}) \cup {0}]
  /\ listed \in BOOLEAN /\ here \in BOOLEAN /\ answered \in BOOLEAN
  /\ band \in (UNION {Channels[n] : n \in Nodes}) \cup {0}
  /\ failed_requests \in 0 .. FailMod - 1
  /\ age_request \in 0 .. AgeCap /\ uptime \in 0 .. AgeCap
  /\ report \in [Aps -> -1 .. AgeCap]
  /\ row \in 0 .. NNodes + 1

\* Nodes on the same band are neighbours in local_nodes.
Contiguous ==
  \A l, m, n \in up : l < m /\ m < n /\ freq[l] = freq[n] => freq[m] = freq[l]

(* hearing_map.c:197-250.  A client is not asked in every poll for ever:    *)
(* wherever the rotation stood when nodes came, went or changed channel, it *)
(* is back at the node's own band, where the client is left in peace, after *)
(* no more requests than there are bands.  That needs nodes of one band to  *)
(* be neighbours in local_nodes.                                            *)
NotFlooded == Contiguous => row <= Cardinality(Bands(up, freq))

\* The nodes and channels stay, the client stays, nodes of one band are neighbours.
Settled ==
  /\ <>[][UNCHANGED <<up, freq>>]_vars
  /\ <>[](Own \in up /\ listed /\ Contiguous)

(* hearing_map.c:197-250.  The rotation leaves no band out: a client that   *)
(* stays is asked about the band of every local node again and again.       *)
EveryBandIsAsked ==
  Settled => \A n \in Nodes : []<>(n \in up => asked.band = freq[n])

(* hearing_map.c:60-74, 240-246.  Reports past their timeout do not stay:   *)
(* although only a request on the node's own band looks at them, there is   *)
(* again and again a time without one.                                      *)
ExpiredReportsGo ==
  Settled => []<>(\A a \in Aps : report[a] <= beacon_report_invalide_timeout)

(* hearing_map.c:173-195.  However long a client was silent, once it        *)
(* answers every round it is asked to measure again, and no longer for its  *)
(* table only.                                                              *)
AnsweringClientsRecover ==
  ([]<>asked.own /\ <>[](asked.own => asked.answered)) => <>[](asked.mode # 2)
=============================================================================

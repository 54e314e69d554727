------------------------------ MODULE Roaming ------------------------------
(***************************************************************************)
(* A client that looks for an access point, and the daemons that answer it: *)
(* the composition of Admission (the decision about a request), Steering    *)
(* (the search for a better candidate) and the messages of remote.c.  Each  *)
(* access point runs its own usteerd with one local node; it knows its own  *)
(* node from polls and requests, and the others from messages that may be   *)
(* lost, so that two daemons may refuse the client on old information in    *)
(* favour of each other.  A daemon may also go deaf: a receive error        *)
(* deletes the socket from the event loop but leaves it open and bound, so  *)
(* that usteer_reload_timer cannot bind another one any more.               *)
(*                                                                         *)
(* Requests come in different milliseconds, so that each finds its count of *)
(* refusals expired (BlockExpired of Admission).  The client has sent no    *)
(* beacon reports.                                                          *)
(***************************************************************************)
EXTENDS Integers, FiniteSets

CONSTANTS
  Nodes,                                     \* one daemon each
  ssid, is5g, max_assoc,                     \* as in Steering
  band_steering_threshold, load_balancing_threshold, signal_diff_threshold,
  load_kick_threshold, load_kick_min_clients,
  noise, max_retry_band, min_connect_snr, initial_connect_delay,   \* as in Admission
  Counts, Loads, Signals,                    \* what can be measured
  Faulty                                     \* the daemons whose socket may fail

INT_MAX == 2147483647      \* signals are ints

ConstantsOK ==
  /\ Nodes # {} /\ is5g \in [Nodes -> BOOLEAN] /\ max_assoc \in [Nodes -> Nat]
  /\ band_steering_threshold \in Nat /\ load_balancing_threshold \in Nat
  /\ signal_diff_threshold \in Nat
  /\ load_kick_threshold \in Nat /\ load_kick_min_clients \in Nat
  /\ noise \in Int /\ max_retry_band \in Nat /\ min_connect_snr \in Int
  /\ initial_connect_delay \in Nat
  /\ Counts \subseteq Nat /\ Loads \subseteq Nat
  /\ Signals \subseteq Int /\ \A x \in Signals : x <= INT_MAX

ASSUME RoamingAssumption == ConstantsOK

VARIABLES
  own,       \* own[d]: the local node of d: clients, load, signal of the client
  entry,     \* entry[d]: d's own entry of the client: "none", "new", and "old" from
             \* initial_connect_delay on
  remote,    \* remote[d][m]: what d knows of the node m of another daemon
  socket,    \* socket[d]: "listening"; "deaf": none, or messages come from no listed
             \* interface; "orphan": still bound, but not listened to
  answer     \* ghost: the last request and its answer

vars == <<own, entry, remote, socket, answer>>

\* What a daemon holds of another's node and of the client's entry there: no entry,
\* one last seen within seen_policy_timeout, or an older one.
NodeInfo == [n_assoc : Counts, load : Loads]
Unknown == [node |-> [n_assoc |-> 0, load |-> 0], signal |-> 0, entry |-> "none"]

-----------------------------------------------------------------------------
(* What daemon d computes from what it holds.                               *)

At(d, m) == IF m = d THEN own[d] ELSE remote[d][m]

Daemon(d) == INSTANCE Steering WITH
  Stations <- {"client"}, Views <- {}, Drift <- FALSE, last <- 0,
  at <- [s \in {"client"} |-> d],
  n_assoc <- [m \in Nodes |-> At(d, m).node.n_assoc],
  load <- [m \in Nodes |-> At(d, m).node.load],
  view <- [s \in {"client"} |->
            [signal |-> [m \in Nodes |-> At(d, m).signal],
             seen |-> {m \in Nodes \ {d} : remote[d][m].entry = "seen"} \cup {d},
             reported |-> {}]]

Decision == INSTANCE Admission WITH
  TimeWidth <- 1, sta_block_timeout <- 0, clock <- 0,
  exists <- TRUE, connected <- FALSE, signal <- 0, age <- 0,
  blocked_cur <- 0, blocked_last_time <- 0,
  burst <- 0, streak <- 0, row <- 0, urgent <- "no"

\* usteer_check_request at d, for an entry that is past initial_connect_delay or not.
Granted(d, old) ==
  Decision!usteer_check_request("auth", 0, own[d].signal,
    IF old THEN initial_connect_delay ELSE 0,
    Daemon(d)!find_better_candidate("client") # {})

-----------------------------------------------------------------------------
Init ==
  /\ own \in [Nodes -> [node : NodeInfo, signal : Signals]]
  /\ entry = [d \in Nodes |-> "none"]
  /\ remote = [d \in Nodes |-> [m \in Nodes |-> Unknown]]
  /\ socket = [d \in Nodes |-> "listening"]
  /\ answer = [by |-> {}, granted |-> FALSE]

\* A poll of d's node: other clients come and go, the load changes.
Poll(d) ==
  /\ \E i \in NodeInfo : own' = [own EXCEPT ![d].node = i]
  /\ UNCHANGED <<entry, remote, socket, answer>>

\* The client moves: d hears its next request with another signal.
Move(d) ==
  /\ \E s \in Signals : own' = [own EXCEPT ![d].signal = s]
  /\ UNCHANGED <<entry, remote, socket, answer>>

\* usteer_handle_sta_event at d.
HandleEvent(d) ==
  LET e == IF entry[d] # "none" THEN entry[d]
           ELSE IF initial_connect_delay = 0 THEN "old" ELSE "new"
  IN  /\ entry' = [entry EXCEPT ![d] = e]
      /\ answer' = [by |-> {d}, granted |-> Granted(d, e = "old")]
      /\ UNCHANGED <<own, remote, socket>>

\* initial_connect_delay is over.
Ripen(d) ==
  /\ entry[d] = "new"
  /\ entry' = [entry EXCEPT ![d] = "old"]
  /\ UNCHANGED <<own, remote, socket, answer>>

\* d has not heard the client for local_sta_timeout.
Forget(d) ==
  /\ entry[d] # "none"
  /\ entry' = [entry EXCEPT ![d] = "none"]
  /\ UNCHANGED <<own, remote, socket, answer>>

MReceivedSignalOnce(old, m, e) ==
  [node |-> own[m].node,
   signal |-> IF e = "none" \/ old.entry # "none" THEN old.signal ELSE own[m].signal,
   entry |-> IF e = "none" THEN old.entry ELSE e]

\* interface_add_node and interface_add_station: what a message of m makes of what
\* was known; e says whether it has the client's entry, and when that was seen.
Received(old, m, e) ==
  [node |-> own[m].node,
   signal |-> IF e = "none" THEN old.signal ELSE own[m].signal,
   entry |-> IF e = "none" THEN old.entry ELSE e]

\* A message of m reaches d: usteer_send_update, interface_recv.
Message(m, d) ==
  /\ m # d /\ socket[d] = "listening"
  /\ \E e \in IF entry[m] = "none" THEN {"none"} ELSE {"seen", "unseen"} :
       remote' = [remote EXCEPT ![d][m] = Received(@, m, e)]
  /\ UNCHANGED <<own, entry, socket, answer>>

\* usteer_sta_node_cleanup: the entries of a node go with it.
NodeGone == Unknown

\* Messages of m are lost: its entry becomes too old for d, times out, or the node does.
Silence(m, d) ==
  /\ remote[d][m] # Unknown
  /\ remote' \in {[remote EXCEPT ![d][m] = NodeGone],
                  [remote EXCEPT ![d][m].entry = IF @ = "seen" THEN "unseen" ELSE "none"]}
  /\ UNCHANGED <<own, entry, socket, answer>>

\* recvmsg fails: uloop_fd_delete without close.
ReceiveError(d) ==
  /\ d \in Faulty /\ socket[d] = "listening"
  /\ socket' = [socket EXCEPT ![d] = "orphan"]
  /\ UNCHANGED <<own, entry, remote, answer>>

\* The kernel gives the interface another index: interface_find_by_ifindex fails.
InterfaceReplaced(d) ==
  /\ d \in Faulty /\ socket[d] = "listening"
  /\ socket' = [socket EXCEPT ![d] = "deaf"]
  /\ UNCHANGED <<own, entry, remote, answer>>

\* The socket after usteer_reload_timer: one that is registered is closed first; bind
\* fails beside an orphan, and socket or bind may fail anyway.
usteer_reload_timer(old) == IF old = "orphan" THEN {"orphan"} ELSE {"listening", "deaf"}

\* config_set_interfaces, which asks for the indices, and the reload timer it arms.
SetInterfaces(d) ==
  /\ d \in Faulty
  /\ \E new \in usteer_reload_timer(socket[d]) : socket' = [socket EXCEPT ![d] = new]
  /\ UNCHANGED <<own, entry, remote, answer>>

Next ==
  \/ \E d \in Nodes : \/ Poll(d) \/ Move(d) \/ HandleEvent(d) \/ Ripen(d) \/ Forget(d)
                     \/ ReceiveError(d) \/ InterfaceReplaced(d) \/ SetInterfaces(d)
  \/ \E m, d \in Nodes : Message(m, d) \/ Silence(m, d)

Spec == Init /\ [][Next]_vars

\* The client keeps asking at every node.  What a daemon knows of another is refreshed
\* or times out, whether messages get through or not.
FairSpec ==
  /\ Spec
  /\ \A d \in Nodes : WF_vars(HandleEvent(d)) /\ WF_vars(Ripen(d))
  /\ \A m, d \in Nodes : WF_vars(Message(m, d) \/ Silence(m, d))

-----------------------------------------------------------------------------
TypeOK ==
  /\ own \in [Nodes -> [node : NodeInfo, signal : Signals]]
  /\ entry \in [Nodes -> {"none", "new", "old"}]
  /\ remote \in [Nodes -> [Nodes -> [node : NodeInfo \cup {Unknown.node},
                                     signal : Signals \cup {0},
                                     entry : {"none", "seen", "unseen"}]]]
  /\ \A d, m \in Nodes : remote[d][m].entry # "none" => remote[d][m].node \in NodeInfo
  /\ socket \in [Nodes -> {"listening", "deaf", "orphan"}]
  /\ answer \in [by : SUBSET Nodes, granted : BOOLEAN]

StrongEnough(d) == own[d].signal >= Decision!snr_to_signal(min_connect_snr)

\* What d holds of the others, where it compares them, is what they hold themselves.
UpToDate(d) ==
  \A m \in Nodes \ {d} : remote[d][m].entry = "seen" =>
    remote[d][m].node = own[m].node /\ remote[d][m].signal = own[m].signal

(* sta.c:165-207, policy.c:24-231, remote.c:154-184.  Daemons refuse a      *)
(* client in favour of each other only on old information: when no daemon   *)
(* would take a client whose entries are past initial_connect_delay, one of *)
(* them does not hear it well enough or decides on what another has         *)
(* measured before.  It does not matter which of them know of each other.   *)
RefusedByAllOnlyWhenStale ==
  (\A d \in Nodes : ~Granted(d, TRUE)) => \E d \in Nodes : ~StrongEnough(d) \/ ~UpToDate(d)

(* sta.c:165-207, policy.c:113-231, remote.c:154-184.  Nobody is locked     *)
(* out: a client that keeps asking at access points that all hear it well   *)
(* enough is granted a request again and again once its surroundings stay   *)
(* as they are, although every daemon decides on what it last heard of the  *)
(* others or no longer hears them, and although refusals are not limited    *)
(* for requests in different milliseconds.                                  *)
NobodyIsLockedOut ==
  (/\ <>[][UNCHANGED own /\ \A d \in Nodes : ~Forget(d)]_vars
   /\ <>[](\A d \in Nodes : StrongEnough(d)))
    => []<>answer.granted
=============================================================================

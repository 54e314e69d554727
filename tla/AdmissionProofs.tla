-------------------------- MODULE AdmissionProofs --------------------------
(***************************************************************************)
(* Proofs about module Admission.  The inductive invariant ties the ghosts  *)
(* to the counter of the code: a burst is never longer than blocked_cur,    *)
(* because the time of the last refusal is the present one while it lasts,  *)
(* and blocked_cur is never larger than the refusals in a row.              *)
(***************************************************************************)
EXTENDS Admission, TLAPS

BurstIsCounted ==
  \A t \in Types : burst[t] > 0 => blocked_last_time[t] = clock /\ burst[t] <= blocked_cur[t]

CountIsEarned == \A t \in Types : blocked_cur[t] <= row[t]

IInv == TypeOK /\ BurstIsCounted /\ CountIsEarned /\ UrgencyIsEarned

-----------------------------------------------------------------------------
(* An update of signal stays among the known signals.                       *)
LEMMA SignalKept ==
  ASSUME signal \in Signals \cup {0}, NEW sig \in Signals \cup {NO_SIGNAL}, NEW avg \in BOOLEAN
  PROVE  usteer_sta_info_update(signal, sig, avg) \in Signals \cup {0}
BY DEF usteer_sta_info_update

(* A refusal of this millisecond has not expired.                           *)
LEMMA FreshBlock ==
  ASSUME NEW t \in Types, TypeOK, blocked_last_time[t] = clock
  PROVE  ~BlockExpired(t)
<1>1. blocked_last_time[t] - clock = 0
  BY DEF TypeOK
<1>2. 0 % TimeWidth = 0
  BY AdmissionAssumption
<1> QED
  BY <1>1, <1>2, AdmissionAssumption DEF BlockExpired

(* The counters of a new entry.                                             *)
LEMMA ZeroCounters ==
  /\ Zero \in [Types -> 0 .. max_retry_band] /\ Zero \in [Types -> 0 .. TimeWidth - 1]
  /\ Zero \in [Types -> 0 .. SatLimit]
  /\ \A t \in Types : Zero[t] = 0
BY AdmissionAssumption DEF Zero, SatLimit

(* The invariant holds initially.                                           *)
LEMMA InitInv == Init => IInv
<1> SUFFICES ASSUME Init PROVE IInv
  OBVIOUS
<1>1. TypeOK
  <2>1. exists \in BOOLEAN /\ connected \in BOOLEAN /\ urgent \in {"no", "earned", "early"}
    BY ZenonT(30) DEF Init
  <2> QED
    BY <2>1, AdmissionAssumption, ZeroCounters DEF Init, TypeOK
<1>2. BurstIsCounted /\ CountIsEarned /\ UrgencyIsEarned
  BY ZeroCounters DEF Init, BurstIsCounted, CountIsEarned, UrgencyIsEarned
<1> QED
  BY <1>1, <1>2 DEF IInv

(* usteer_handle_event keeps the invariant.                                 *)
LEMMA EventInv ==
  ASSUME IInv, NEW t \in Types, NEW sig \in Signals \cup {NO_SIGNAL}, NEW better \in BOOLEAN,
         HandleEvent(t, sig, better)
  PROVE  IInv'
<1> DEFINE blocked == IF BlockExpired(t) THEN 0 ELSE blocked_cur[t]
           newSig == usteer_sta_info_update(signal, sig, FALSE)
           granted == usteer_check_request(t, blocked, newSig, age, better)
           Count(g) == [g EXCEPT ![t] = IF granted THEN 0 ELSE Sat(@ + 1)]
<1> USE AdmissionAssumption
<1>1. /\ exists' = TRUE /\ signal' = newSig
      /\ Answer(t, blocked, granted)
      /\ burst' = Count(burst) /\ streak' = Count(streak) /\ row' = Count(row)
      /\ urgent' = IF granted /\ t # "assoc" /\ Unwelcome(newSig, age, better)
                   THEN IF row[t] >= max_retry_band THEN "earned" ELSE "early"
                   ELSE "no"
      /\ UNCHANGED <<clock, connected, age>>
  BY DEF HandleEvent
<1>2. TypeOK /\ BurstIsCounted /\ CountIsEarned
  BY DEF IInv
<1>3. newSig \in Signals \cup {0}
  BY <1>2, SignalKept DEF TypeOK
<1>4. blocked \in 0 .. max_retry_band /\ blocked <= row[t]
  BY <1>2 DEF TypeOK, CountIsEarned, SatLimit
<1>5. ~granted => blocked < max_retry_band /\ t # "assoc"
  <2> HIDE DEF blocked, newSig
  <2> QED
    BY <1>4 DEF usteer_check_request, Unwelcome
<1>6. granted \in BOOLEAN
  BY DEF usteer_check_request
<1>7. burst[t] <= blocked
  BY <1>2, FreshBlock DEF BurstIsCounted, TypeOK, SatLimit
<1> HIDE DEF blocked, newSig, granted
<1>8. TypeOK'
  <2>1. blocked_cur' \in [Types -> 0 .. max_retry_band]
    BY <1>1, <1>2, <1>4, <1>5, <1>6 DEF Answer, TypeOK
  <2>2. blocked_last_time' \in [Types -> 0 .. TimeWidth - 1]
    BY <1>1, <1>2, <1>6 DEF Answer, TypeOK
  <2>3. ASSUME NEW g \in [Types -> 0 .. SatLimit]
        PROVE  Count(g) \in [Types -> 0 .. SatLimit]
    BY <1>6 DEF Sat, SatLimit
  <2>4. burst' \in [Types -> 0 .. SatLimit] /\ streak' \in [Types -> 0 .. SatLimit]
        /\ row' \in [Types -> 0 .. SatLimit]
    BY <1>1, <1>2, <2>3 DEF TypeOK
  <2> QED
    BY <1>1, <1>2, <1>3, <2>1, <2>2, <2>4 DEF TypeOK
<1>9. BurstIsCounted'
  <2> SUFFICES ASSUME NEW u \in Types, burst'[u] > 0
               PROVE  blocked_last_time'[u] = clock' /\ burst'[u] <= blocked_cur'[u]
    BY DEF BurstIsCounted
  <2>1. CASE u = t
    BY <2>1, <1>1, <1>2, <1>4, <1>5, <1>6, <1>7 DEF Answer, TypeOK, Sat, SatLimit
  <2>2. CASE u # t
    BY <2>2, <1>1, <1>2 DEF Answer, TypeOK, BurstIsCounted
  <2> QED
    BY <2>1, <2>2
<1>10. CountIsEarned'
  <2> SUFFICES ASSUME NEW u \in Types PROVE blocked_cur'[u] <= row'[u]
    BY DEF CountIsEarned
  <2>1. CASE u = t
    BY <2>1, <1>1, <1>2, <1>4, <1>5, <1>6 DEF Answer, TypeOK, Sat, SatLimit
  <2>2. CASE u # t
    BY <2>2, <1>1, <1>2 DEF Answer, TypeOK, CountIsEarned
  <2> QED
    BY <2>1, <2>2
<1>11. UrgencyIsEarned'
  <2> SUFFICES ASSUME granted, t # "assoc", Unwelcome(newSig, age, better)
               PROVE  row[t] >= max_retry_band
    BY <1>1 DEF UrgencyIsEarned
  <2>1. blocked >= max_retry_band
    BY DEF granted, usteer_check_request
  <2> QED
    BY <2>1, <1>2, <1>4 DEF TypeOK, SatLimit
<1> QED
  BY <1>8, <1>9, <1>10, <1>11 DEF IInv

(* Every step keeps the invariant.                                          *)
LEMMA NextInv == IInv /\ [Next]_vars => IInv'
<1> SUFFICES ASSUME IInv, [Next]_vars PROVE IInv'
  OBVIOUS
<1> USE AdmissionAssumption
<1>1. ASSUME NEW t \in Types, NEW sig \in Signals \cup {NO_SIGNAL}, NEW better \in BOOLEAN,
             HandleEvent(t, sig, better)
      PROVE  IInv'
  BY <1>1, EventInv
<1>2. ASSUME NEW assoc \in BOOLEAN, NEW sig \in Signals, Poll(assoc, sig)
      PROVE  IInv'
  <2>1. signal' \in Signals \cup {0}
    BY <1>2, SignalKept DEF Poll, IInv, TypeOK
  <2> QED
    BY <1>2, <2>1
      DEF Poll, IInv, TypeOK, BurstIsCounted, CountIsEarned, UrgencyIsEarned
<1>3. CASE Forget
  <2> exists' \in BOOLEAN /\ connected' \in BOOLEAN
    BY <1>3, ZenonT(30) DEF Forget
  <2>1. TypeOK'
    BY <1>3, ZeroCounters DEF Forget, IInv, TypeOK
  <2>2. BurstIsCounted' /\ CountIsEarned' /\ UrgencyIsEarned'
    BY <1>3, ZeroCounters DEF Forget, BurstIsCounted, CountIsEarned, UrgencyIsEarned
  <2> QED
    BY <2>1, <2>2 DEF IInv
<1>4. CASE Tick
  <2>1. clock' \in 0 .. TimeWidth - 1
    BY <1>4 DEF Tick, IInv, TypeOK
  <2>2. age' \in 0 .. initial_connect_delay
    BY <1>4 DEF Tick, IInv, TypeOK
  <2>3. streak' \in [Types -> 0 .. SatLimit] /\ burst' = Zero /\ Zero \in [Types -> 0 .. SatLimit]
    BY <1>4 DEF Tick, IInv, TypeOK, SatLimit, Zero
  <2>4. TypeOK'
    BY <1>4, <2>1, <2>2, <2>3 DEF Tick, IInv, TypeOK
  <2>5. BurstIsCounted' /\ CountIsEarned' /\ UrgencyIsEarned'
    BY <1>4, <2>3 DEF Tick, IInv, BurstIsCounted, CountIsEarned, UrgencyIsEarned, Zero
  <2> QED
    BY <2>4, <2>5 DEF IInv
<1>5. CASE UNCHANGED vars
  BY <1>5 DEF vars, code, ghosts, IInv, TypeOK, BurstIsCounted, CountIsEarned, UrgencyIsEarned
<1> QED
  BY <1>1, <1>2, <1>3, <1>4, <1>5 DEF Next

(* The inductive invariant holds in every reachable state.                  *)
THEOREM InvariantHolds == Spec => []IInv
BY InitInv, NextInv, PTL DEF Spec

(* The counters stay within max_retry_band, and the clock within its width. *)
THEOREM TypeCorrect == Spec => []TypeOK
<1>1. IInv => TypeOK
  BY DEF IInv
<1> QED
  BY <1>1, InvariantHolds, PTL

(* policy.c:209-213.  A burst of requests is refused at most max_retry_band *)
(* times, for every configuration.                                          *)
THEOREM BurstsAreBounded == Spec => []BurstIsBounded
<1>1. IInv => BurstIsBounded
  BY AdmissionAssumption DEF IInv, BurstIsCounted, BurstIsBounded, TypeOK, SatLimit
<1> QED
  BY <1>1, InvariantHolds, PTL

(* sta.c:189-203.  A grant against the policy follows max_retry_band        *)
(* refusals in a row of requests of the same type, for every configuration  *)
(* and whatever the 32-bit time does.                                       *)
THEOREM UrgencyCorrect == Spec => []UrgencyIsEarned
<1>1. IInv => UrgencyIsEarned
  BY DEF IInv
<1> QED
  BY <1>1, InvariantHolds, PTL
=============================================================================

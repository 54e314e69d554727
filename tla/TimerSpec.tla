------------------------------ MODULE TimerSpec ------------------------------
(***************************************************************************)
(* What the timeout queue promises its users (sta.c, fakeap.c), with no     *)
(* clock width, no tree and no event loop: a set of pending timers, each    *)
(* with the true number of milliseconds left until it is due.  A timer is   *)
(* expired only when it is due, and only while no other pending timer is    *)
(* due before it; an expired callback may set its own timer again.          *)
(***************************************************************************)
EXTENDS Integers

CONSTANTS
  Timers, MaxMsecs,
  Nobody     \* not a timer

VARIABLES
  pending,   \* the timers that are set
  rem,       \* rem[t]: true milliseconds until t is due (0 when t is not set)
  called     \* the timer whose callback this step has run, or Nobody

absVars == <<pending, rem, called>>

AbsInit == pending = {} /\ rem = [t \in Timers |-> 0] /\ called = Nobody

Put(t, m) ==
  /\ pending' = pending \cup {t}
  /\ rem' = [rem EXCEPT ![t] = m]

Drop(t) ==
  /\ pending' = pending \ {t}
  /\ rem' = [rem EXCEPT ![t] = 0]

AbsSet(t, m) == Put(t, m) /\ called' = Nobody

AbsCancel(t) == Drop(t) /\ called' = Nobody

\* t is due and nothing pending is due before it.
AbsDue(t) == t \in pending /\ rem[t] <= 0 /\ \A u \in pending : rem[t] <= rem[u]

AbsExpire(t) ==
  /\ AbsDue(t)
  /\ Drop(t) \/ \E m \in 0..MaxMsecs : Put(t, m)
  /\ called' = t

\* The callback has returned.
AbsReturn == called' = Nobody /\ UNCHANGED <<pending, rem>>

AbsFlush == pending' = {} /\ rem' = [t \in Timers |-> 0] /\ called' = Nobody

AbsTick ==
  /\ rem' = [t \in Timers |-> IF t \in pending THEN rem[t] - 1 ELSE 0]
  /\ called' = Nobody
  /\ UNCHANGED pending

AbsNext ==
  \/ \E t \in Timers : \/ \E m \in 0..MaxMsecs : AbsSet(t, m)
                       \/ AbsCancel(t)
                       \/ AbsExpire(t)
  \/ AbsFlush \/ AbsReturn
  \/ AbsTick

AbsSpec == AbsInit /\ [][AbsNext]_absVars
=============================================================================

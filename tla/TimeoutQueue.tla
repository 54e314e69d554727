---------------------------- MODULE TimeoutQueue ----------------------------
(***************************************************************************)
(* The timeout queue of timeout.c: many timers multiplexed on one uloop     *)
(* timer.  Deadlines are kept as wrapping unsigned milliseconds (2^32 in    *)
(* the code, W = 2 * H here) in an AVL tree that is ordered by the signed   *)
(* distance of a deadline from the time of the last usteer_timeout_set.     *)
(*                                                                         *)
(* True time never appears as a number: `time' is the wrapping clock the    *)
(* code reads, and the ghosts `rem' and `passAge' hold true distances from  *)
(* now, so that the model needs no bound on time and wraps around for ever. *)
(***************************************************************************)
EXTENDS Integers

CONSTANTS
  Timers,     \* the struct usteer_timeout objects
  H,          \* half of the range of the millisecond clock, 2^31 in the code
  MaxMsecs,   \* the longest timeout that is set
  MinRepeat,  \* the shortest timeout a callback sets its own timer to
  MaxLag      \* the event loop serves a due timer before it is this late

ASSUME QueueAssumption ==
  /\ H \in Nat /\ MaxMsecs \in Nat /\ MaxLag \in Nat /\ MinRepeat \in Nat
  /\ MaxLag >= 2
  /\ MaxMsecs + MaxLag < H

W == 2 * H
End == "end"              \* the list head, one past the last element
NotArmed == -1
ASSUME EndAssumption == End \notin Timers

VARIABLES
  time,      \* CLOCK_MONOTONIC in milliseconds, as uint32
  isset,     \* the timers that are in the tree
  key,       \* node.key: deadline as uint32 (meaningful for timers in isset)
  before,    \* <<t, u>> \in before: t is left of u in the tree
  armedIn,   \* the uloop timer: milliseconds left, or NotArmed
  pc,        \* "idle", or "cb" while usteer_timeout_cb is on the stack
  passTime,  \* usteer_timeout_cb's local `time'
  cur,       \* its iterator `t', a timer or End
  found,     \* its local `found'
  rem,       \* ghost: true milliseconds until a timer in isset is due
  passAge,   \* ghost: true milliseconds since passTime was read
  called     \* the timer whose callback this step has run, or End

vars == <<time, isset, key, before, armedIn, pc, passTime, cur, found, rem, passAge, called>>

-----------------------------------------------------------------------------
(* uint32 and int32 arithmetic; x is a sum or a difference of two uint32.   *)

Wrap(x) == IF x < 0 THEN x + W ELSE IF x >= W THEN x - W ELSE x

Signed(x) == IF x >= H THEN x - W ELSE x

MCmpUnsigned(k1, k2, ref) == k1 - k2

usteer_timeout_cmp(k1, k2, ref) == Signed(Wrap(k1 - ref)) - Signed(Wrap(k2 - ref))

MDeltaUnsigned(k, now) == Wrap(k - now)

usteer_timeout_delta(k, now) == Signed(Wrap(k - now))

-----------------------------------------------------------------------------
(* The AVL tree (libubox): only the order of its elements matters.          *)

IsFirst(t, S, ord) == t \in S /\ \A u \in S \ {t} : <<t, u>> \in ord

\* n is where avl_for_each_element_safe goes after t.
IsNext(n, t, S, ord) ==
  LET right == {u \in S \ {t} : <<t, u>> \in ord}
  IN  \/ n = End /\ right = {}
      \/ IsFirst(n, right, ord)

Without(t, ord) == {p \in ord : p[1] # t /\ p[2] # t}

\* avl_insert of t into S; an equal key is inserted after the ones that are there.
avl_insert(t, S, ord, k, ref) ==
  Without(t, ord)
    \cup {<<u, t>> : u \in {v \in S \ {t} : usteer_timeout_cmp(k[v], k[t], ref) <= 0}}
    \cup {<<t, u>> : u \in {v \in S \ {t} : usteer_timeout_cmp(k[v], k[t], ref) > 0}}

-----------------------------------------------------------------------------
(* usteer_timeout_recalc: re-arm the uloop timer for the first element.     *)

MRecalcNoFloor(S, k, ord, now) ==
  \/ S = {} /\ armedIn' = NotArmed
  \/ \E f \in S :
       /\ IsFirst(f, S, ord)
       /\ armedIn' = LET d == usteer_timeout_delta(k[f], now)
                     IN  IF d < 1 THEN NotArmed ELSE d

usteer_timeout_recalc(S, k, ord, now) ==
  \/ S = {} /\ armedIn' = NotArmed
  \/ \E f \in S :
       /\ IsFirst(f, S, ord)
       /\ armedIn' = LET d == usteer_timeout_delta(k[f], now)
                     IN  IF d < 1 THEN 1 ELSE d

\* usteer_timeout_set, for a tree with the elements S in the order ord.
usteer_timeout_set(t, msecs, S, ord) ==
  LET k == [key EXCEPT ![t] = Wrap(time + msecs)]
      o == avl_insert(t, S, ord, k, time)
  IN  /\ key' = k
      /\ isset' = S \cup {t}
      /\ before' = o
      /\ rem' = [rem EXCEPT ![t] = msecs]
      /\ IF IsFirst(t, S, ord) \/ IsFirst(t, S \cup {t}, o)
         THEN usteer_timeout_recalc(S \cup {t}, k, o, time)
         ELSE UNCHANGED armedIn

\* usteer_timeout_cancel of a timer that is set; the uloop timer stays armed.
usteer_timeout_cancel(t) ==
  /\ isset' = isset \ {t}
  /\ before' = Without(t, before)
  /\ rem' = [rem EXCEPT ![t] = 0]
  /\ UNCHANGED <<key, armedIn>>

-----------------------------------------------------------------------------
Init ==
  /\ time \in 0 .. W - 1
  /\ isset = {}
  /\ key = [t \in Timers |-> 0]
  /\ before = {}
  /\ armedIn = NotArmed
  /\ pc = "idle"
  /\ passTime = 0
  /\ cur = End
  /\ found = FALSE
  /\ rem = [t \in Timers |-> 0]
  /\ passAge = 0
  /\ called = End

\* Handlers run only while the event loop keeps up with the due timers.
Responsive == \A t \in isset : rem[t] > 1 - MaxLag

Set(t, msecs) ==
  /\ pc = "idle" /\ Responsive
  /\ usteer_timeout_set(t, msecs, isset, before)
  /\ called' = End
  /\ UNCHANGED <<time, pc, passTime, cur, found, passAge>>

Cancel(t) ==
  /\ pc = "idle" /\ Responsive
  /\ t \in isset
  /\ usteer_timeout_cancel(t)
  /\ called' = End
  /\ UNCHANGED <<time, pc, passTime, cur, found, passAge>>

\* The callbacks of a flush delete what they are called for.
usteer_timeout_flush ==
  /\ pc = "idle" /\ Responsive
  /\ armedIn' = NotArmed
  /\ isset' = {}
  /\ before' = {}
  /\ rem' = [t \in Timers |-> 0]
  /\ called' = End
  /\ UNCHANGED <<time, key, pc, passTime, cur, found, passAge>>

\* The head of the do-while loop: a new clock reading, a new iteration.
BeginPass ==
  /\ pc' = "cb"
  /\ passTime' = time
  /\ passAge' = 0
  /\ found' = FALSE
  /\ \/ isset = {} /\ cur' = End
     \/ \E f \in isset : IsFirst(f, isset, before) /\ cur' = f

\* uloop calls usteer_timeout_cb once the armed time is over.
CbEnter ==
  /\ pc = "idle" /\ armedIn = 0
  /\ armedIn' = NotArmed
  /\ BeginPass
  /\ called' = End
  /\ UNCHANGED <<time, isset, key, before, rem>>

MDueEarly(t) == t # End /\ usteer_timeout_delta(key[t], passTime) <= 1

\* The element the iteration stands at is due.
DueInPass(t) == t # End /\ usteer_timeout_delta(key[t], passTime) <= 0

MFireNoCancel ==
  /\ pc = "cb" /\ DueInPass(cur)
  /\ found' = TRUE
  /\ called' = cur
  /\ \E n \in isset \cup {End} : IsNext(n, cur, isset, before) /\ cur' = n
  /\ UNCHANGED <<time, isset, key, before, armedIn, rem, pc, passTime, passAge>>

\* Cancel the element, then run its callback: usteer_sta_info_timeout frees
\* it, fakeap's sta_probe sets it again.  The successor was read before.
CbFire ==
  /\ pc = "cb" /\ DueInPass(cur)
  /\ \/ usteer_timeout_cancel(cur)
     \/ \E m \in MinRepeat..MaxMsecs :
          usteer_timeout_set(cur, m, isset \ {cur}, Without(cur, before))
  /\ found' = TRUE
  /\ called' = cur
  /\ \E n \in isset \cup {End} : IsNext(n, cur, isset, before) /\ cur' = n
  /\ UNCHANGED <<time, pc, passTime, passAge>>

\* Something fired in this pass: look again with a new time.
CbAgain ==
  /\ pc = "cb" /\ ~DueInPass(cur) /\ found
  /\ BeginPass
  /\ called' = End
  /\ UNCHANGED <<time, isset, key, before, armedIn, rem>>

CbLeave ==
  /\ pc = "cb" /\ ~DueInPass(cur) /\ ~found
  /\ usteer_timeout_recalc(isset, key, before, passTime)
  /\ pc' = "idle" /\ cur' = End
  /\ called' = End
  /\ UNCHANGED <<time, isset, key, before, passTime, found, rem, passAge>>

\* A millisecond passes.  Inside usteer_timeout_cb only callbacks take time.
Tick ==
  /\ \A t \in isset : rem[t] > -MaxLag
  /\ pc = "cb" => found /\ passAge < MaxLag
  /\ time' = Wrap(time + 1)
  /\ rem' = [t \in Timers |-> IF t \in isset THEN rem[t] - 1 ELSE 0]
  /\ armedIn' = IF armedIn > 0 THEN armedIn - 1 ELSE armedIn
  /\ passAge' = IF pc = "cb" THEN passAge + 1 ELSE passAge
  /\ called' = End
  /\ UNCHANGED <<isset, key, before, pc, passTime, cur, found>>

Next ==
  \/ \E t \in Timers : Cancel(t) \/ \E m \in 0..MaxMsecs : Set(t, m)
  \/ usteer_timeout_flush
  \/ CbEnter \/ CbFire \/ CbAgain \/ CbLeave
  \/ Tick

Spec == Init /\ [][Next]_vars

\* uloop serves an expired timer, the callback runs to its end, time goes on.
FairSpec == Spec /\ WF_vars(Tick) /\ WF_vars(CbEnter \/ CbFire \/ CbAgain \/ CbLeave)

-----------------------------------------------------------------------------
TypeOK ==
  /\ time \in 0 .. W - 1
  /\ isset \subseteq Timers
  /\ key \in [Timers -> 0 .. W - 1]
  /\ before \subseteq Timers \X Timers
  /\ armedIn \in -1 .. H
  /\ pc \in {"idle", "cb"}
  /\ passTime \in 0 .. W - 1
  /\ cur \in Timers \cup {End}
  /\ found \in BOOLEAN
  /\ rem \in [Timers -> -MaxLag .. MaxMsecs]
  /\ passAge \in 0 .. MaxLag
  /\ called \in Timers \cup {End}

(* timeout.c:26-38.  The order in which the tree holds its elements is the  *)
(* order of their true deadlines, although each pair was compared with a    *)
(* different reference time and the keys may have wrapped around since.     *)
StoredOrder ==
  \A t, u \in isset : <<t, u>> \in before => rem[t] <= rem[u]

(* timeout.c:140-148 cancels without touching uloop, timeout.c:133-137      *)
(* re-arms only for the first element: still, outside the callback the uloop *)
(* timer is never armed later than a pending timer is due (a timer that is  *)
(* overdue already is served in the next millisecond).                      *)
NoLostWakeup ==
  pc = "idle" =>
    \A t \in isset : armedIn # NotArmed /\ (armedIn <= rem[t] \/ armedIn <= 1)

(* timeout.c:77-101.  The queue implements TimerSpec: in spite of wrapping  *)
(* keys, stale pass times and callbacks that re-insert their timer, nothing *)
(* is called before it is due or ahead of a timer that is due earlier.      *)
Contract == INSTANCE TimerSpec WITH pending <- isset, Nobody <- End
TimerContract == Contract!AbsSpec

(* timeout.c:77-101.  A timer that is due does not stay due for ever: it is *)
(* called, or somebody cancels it or moves it into the future.              *)
DueTimersAreServed ==
  \A t \in Timers : (t \in isset /\ rem[t] <= 0) ~> (t \notin isset \/ rem[t] > 0)
=============================================================================

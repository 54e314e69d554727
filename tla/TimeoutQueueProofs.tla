------------------------- MODULE TimeoutQueueProofs -------------------------
(***************************************************************************)
(* TimeoutQueue for every number of timers and every clock width: the tree *)
(* order is the order of the true deadlines, no wakeup is lost, and the    *)
(* queue implements TimerSpec.                                             *)
(***************************************************************************)
EXTENDS TimeoutQueue, TLAPS

-----------------------------------------------------------------------------
(* The inductive invariant.                                                *)

\* A key is the true deadline modulo the width of the clock.
KeyInv == \A t \in isset : key[t] = Wrap(time + rem[t])

\* The tree order relates all elements and only them, and has no cycles of two.
TotalInv ==
  /\ before \subseteq isset \X isset
  /\ \A t, u \in isset : t # u => <<t, u>> \in before \/ <<u, t>> \in before
  /\ \A t, u \in isset : <<t, u>> \in before => <<u, t>> \notin before

\* The time a pass works with is passAge old, and fresh until something fires.
PassInv ==
  pc = "cb" => /\ passTime = Wrap(time - passAge)
               /\ ~found => passAge = 0

\* Whatever stands left of the iterator was set after the pass began.
CurInv ==
  pc = "cb" /\ cur # End =>
    /\ cur \in isset
    /\ \A u \in isset : <<u, cur>> \in before => rem[u] >= -passAge

IInv == TypeOK /\ KeyInv /\ TotalInv /\ StoredOrder /\ PassInv /\ CurInv /\ NoLostWakeup

-----------------------------------------------------------------------------
(* Arithmetic of the wrapping clock.                                        *)

\* Adding a true distance and taking the signed difference gives it back.
LEMMA DeltaIsDistance ==
  ASSUME NEW c \in 0 .. W - 1, NEW d \in Int, NEW a \in Int,
         -H < d, d < H, -H < a, a < H, -H <= d + a, d + a < H
  PROVE  usteer_timeout_delta(Wrap(c + d), Wrap(c - a)) = d + a
BY QueueAssumption DEF usteer_timeout_delta, Signed, Wrap, W

\* The same for the current time as the reference.
LEMMA DeltaNow ==
  ASSUME NEW c \in 0 .. W - 1, NEW d \in Int, -H < d, d < H
  PROVE  usteer_timeout_delta(Wrap(c + d), c) = d
BY QueueAssumption DEF usteer_timeout_delta, Signed, Wrap, W

\* The comparison of two keys is the comparison of the true deadlines.
LEMMA CmpIsDistance ==
  ASSUME NEW c \in 0 .. W - 1, NEW d \in Int, NEW e \in Int,
         -H < d, d < H, -H < e, e < H
  PROVE  usteer_timeout_cmp(Wrap(c + d), Wrap(c + e), c) = d - e
BY QueueAssumption DEF usteer_timeout_cmp, Signed, Wrap, W

-----------------------------------------------------------------------------
(* The steps of the tree.                                                   *)

\* What usteer_timeout_set needs to know of the tree it works on.
TreeOK(S, ord, k, r) ==
  /\ S \subseteq Timers
  /\ ord \subseteq S \X S
  /\ \A t, u \in S : t # u => <<t, u>> \in ord \/ <<u, t>> \in ord
  /\ \A t, u \in S : <<t, u>> \in ord => <<u, t>> \notin ord
  /\ \A t, u \in S : <<t, u>> \in ord => r[t] <= r[u]
  /\ \A t \in S : k[t] = Wrap(time + r[t])

\* The invariant gives what the steps of the tree need, with and without an element.
LEMMA TreeOfInv ==
  ASSUME TypeOK, KeyInv, TotalInv, StoredOrder
  PROVE  /\ TreeOK(isset, before, key, rem)
         /\ \A t \in Timers : TreeOK(isset \ {t}, Without(t, before), key, rem)
BY DEF TypeOK, KeyInv, TotalInv, StoredOrder, TreeOK, Without

\* The insertion keeps the tree ordered by true deadlines.
LEMMA InsertKeepsOrder ==
  ASSUME TypeOK, NEW S, NEW ord, TreeOK(S, ord, key, rem), NEW t \in Timers, NEW m, m \in 0 .. MaxMsecs,
         usteer_timeout_set(t, m, S, ord), time' = time
  PROVE  /\ TreeOK(S \cup {t}, before', key', rem')
         /\ isset' = S \cup {t}
         /\ key' \in [Timers -> 0 .. W - 1]
         /\ rem' \in [Timers -> -MaxLag .. MaxMsecs]
         /\ before' \subseteq Timers \X Timers
         /\ \A u, v \in S \ {t} : <<u, v>> \in before' <=> <<u, v>> \in ord
<1> DEFINE k == [key EXCEPT ![t] = Wrap(time + m)]
           o == avl_insert(t, S, ord, k, time)
<1>1. /\ key' = k /\ before' = o /\ isset' = S \cup {t}
      /\ rem' = [rem EXCEPT ![t] = m]
  BY DEF usteer_timeout_set
<1>2. m \in Int /\ -H < m /\ m < H
  BY QueueAssumption
<1>3. Wrap(time + m) \in 0 .. W - 1
  BY <1>2, QueueAssumption DEF TypeOK, Wrap, W
<1>4. /\ key' \in [Timers -> 0 .. W - 1]
      /\ rem' \in [Timers -> -MaxLag .. MaxMsecs]
      /\ rem'[t] = m
      /\ key'[t] = Wrap(time + m)
      /\ \A u \in S \ {t} : rem'[u] = rem[u] /\ key'[u] = key[u]
  BY <1>1, <1>2, <1>3, QueueAssumption DEF TypeOK, TreeOK
<1>5. \A u \in S : rem[u] \in Int /\ -H < rem[u] /\ rem[u] < H
  BY QueueAssumption DEF TypeOK, TreeOK
<1>6. \A u \in S \ {t} : usteer_timeout_cmp(k[u], k[t], time) = rem[u] - m
  BY <1>1, <1>2, <1>4, <1>5, CmpIsDistance DEF TypeOK, TreeOK
<1> HIDE DEF k
<1>7. \A u \in S \ {t} : <<u, t>> \in o <=> rem[u] <= m
  BY <1>2, <1>5, <1>6 DEF avl_insert, Without
<1>8. \A u \in S \ {t} : <<t, u>> \in o <=> m < rem[u]
  BY <1>2, <1>5, <1>6 DEF avl_insert, Without
<1>9. \A u, v \in S \ {t} : <<u, v>> \in o <=> <<u, v>> \in ord
  BY DEF avl_insert, Without
<1>10. o \subseteq (S \cup {t}) \X (S \cup {t}) /\ <<t, t>> \notin o
  BY DEF avl_insert, Without, TreeOK
<1> HIDE DEF o
<1>11. \A u, v \in S \cup {t} : u # v => <<u, v>> \in o \/ <<v, u>> \in o
  BY <1>2, <1>5, <1>7, <1>8, <1>9 DEF TreeOK
<1>12. \A u, v \in S \cup {t} : <<u, v>> \in o => <<v, u>> \notin o
  BY <1>2, <1>5, <1>7, <1>8, <1>9, <1>10 DEF TreeOK
<1>13. \A u, v \in S \cup {t} : <<u, v>> \in o => rem'[u] <= rem'[v]
  BY <1>2, <1>4, <1>5, <1>7, <1>8, <1>9, <1>10 DEF TreeOK
<1>14. \A u \in S \cup {t} : key'[u] = Wrap(time + rem'[u])
  BY <1>4 DEF TreeOK
<1>15. S \cup {t} \subseteq Timers
  BY DEF TreeOK
<1>16. TreeOK(S \cup {t}, before', key', rem')
  BY <1>1, <1>10, <1>11, <1>12, <1>13, <1>14, <1>15 DEF TreeOK
<1>17. QED
  BY <1>1, <1>4, <1>9, <1>10, <1>15, <1>16

-----------------------------------------------------------------------------
(* The uloop timer.                                                         *)

\* The uloop timer covers the elements of S.
Covered(S, r, a) == \A t \in S : a # NotArmed /\ (a <= r[t] \/ a <= 1)

\* A recalculation with the current time covers every element.
LEMMA RecalcCovers ==
  ASSUME TypeOK, NEW S, NEW ord, NEW k, NEW r, TreeOK(S, ord, k, r),
         \A t \in S : r[t] \in -MaxLag .. MaxMsecs,
         usteer_timeout_recalc(S, k, ord, time)
  PROVE  armedIn' \in -1 .. H /\ Covered(S, r, armedIn')
<1>1. CASE S = {} /\ armedIn' = NotArmed
  BY <1>1, QueueAssumption DEF Covered, NotArmed
<1>2. CASE \E f \in S : /\ IsFirst(f, S, ord)
                        /\ armedIn' = LET d == usteer_timeout_delta(k[f], time)
                                      IN  IF d < 1 THEN 1 ELSE d
  <2>1. PICK f \in S : /\ IsFirst(f, S, ord)
                       /\ armedIn' = LET d == usteer_timeout_delta(k[f], time)
                                     IN  IF d < 1 THEN 1 ELSE d
    BY <1>2
  <2>2. r[f] \in Int /\ -H < r[f] /\ r[f] < H
    BY QueueAssumption
  <2>3. usteer_timeout_delta(k[f], time) = r[f]
    BY <2>2, DeltaNow DEF TypeOK, TreeOK
  <2>4. armedIn' = IF r[f] < 1 THEN 1 ELSE r[f]
    BY <2>1, <2>3
  <2>5. ASSUME NEW t \in S
        PROVE  r[f] <= r[t]
    <3>1. CASE t = f
      BY <2>2, <3>1
    <3>2. CASE t # f
      <4>1. <<f, t>> \in ord
        BY <2>1, <3>2 DEF IsFirst
      <4>2. QED
        BY <4>1 DEF TreeOK
    <3>3. QED
      BY <3>1, <3>2
  <2>6. \A t \in S : r[t] \in Int
    OBVIOUS
  <2>7. QED
    BY <2>2, <2>4, <2>5, <2>6, QueueAssumption DEF Covered, NotArmed
<1>3. QED
  BY <1>1, <1>2 DEF usteer_timeout_recalc

\* usteer_timeout_set keeps all elements covered.
LEMMA SetCovers ==
  ASSUME TypeOK, NEW S, NEW ord, TreeOK(S, ord, key, rem), NEW t \in Timers,
         NEW m, m \in 0 .. MaxMsecs, usteer_timeout_set(t, m, S, ord), time' = time
  PROVE  /\ armedIn' \in -1 .. H
         /\ Covered(S, rem, armedIn) => Covered(isset', rem', armedIn')
<1>1. /\ TreeOK(S \cup {t}, before', key', rem')
      /\ isset' = S \cup {t}
      /\ rem' \in [Timers -> -MaxLag .. MaxMsecs]
  BY InsertKeepsOrder
<1>2. rem' = [rem EXCEPT ![t] = m]
  BY DEF usteer_timeout_set
<1>3. rem'[t] = m /\ \A u \in S \ {t} : rem'[u] = rem[u]
  BY <1>2 DEF TypeOK, TreeOK
<1>4. \A u \in S \cup {t} : rem'[u] \in -MaxLag .. MaxMsecs
  BY <1>1 DEF TreeOK
<1>5. \/ usteer_timeout_recalc(S \cup {t}, key', before', time)
      \/ /\ ~IsFirst(t, S \cup {t}, before')
         /\ UNCHANGED armedIn
  BY DEF usteer_timeout_set
<1>6. CASE usteer_timeout_recalc(S \cup {t}, key', before', time)
  BY <1>1, <1>4, <1>6, RecalcCovers
<1>7. CASE ~IsFirst(t, S \cup {t}, before') /\ UNCHANGED armedIn
  <2>1. PICK u \in S \ {t} : <<t, u>> \notin before'
    BY <1>7 DEF IsFirst
  <2>2. <<u, t>> \in before' /\ rem[u] <= m
    BY <1>1, <1>3, <2>1 DEF TreeOK
  <2>3. ASSUME Covered(S, rem, armedIn)
        PROVE  Covered(isset', rem', armedIn')
    <3>1. armedIn # NotArmed /\ (armedIn <= rem[u] \/ armedIn <= 1)
      BY <2>1, <2>3 DEF Covered
    <3>2. armedIn <= m \/ armedIn <= 1
      BY <2>2, <3>1, QueueAssumption DEF TypeOK, TreeOK
    <3>3. QED
      BY <1>1, <1>3, <1>7, <2>3, <3>1, <3>2 DEF Covered
  <2>4. QED
    BY <1>7, <2>3 DEF TypeOK
<1>8. QED
  BY <1>5, <1>6, <1>7

-----------------------------------------------------------------------------
(* The invariant is inductive.                                              *)

\* usteer_timeout_init: an empty queue satisfies the invariant.
LEMMA InitInv == Init => IInv
<1> SUFFICES ASSUME Init PROVE IInv
  OBVIOUS
<1>1. TypeOK
  <2>1. found \in BOOLEAN
    BY DEF Init
  <2>2. QED
    BY <2>1, QueueAssumption DEF Init, TypeOK, NotArmed, W
<1>2. QED
  BY <1>1 DEF Init, IInv, KeyInv, TotalInv, StoredOrder, PassInv, CurInv, NoLostWakeup

\* usteer_timeout_set (timeout.c:116-138) keeps the invariant.
LEMMA SetInv ==
  ASSUME IInv, NEW t \in Timers, NEW m, m \in 0 .. MaxMsecs, Set(t, m)
  PROVE  IInv'
<1> USE DEF IInv
<1>1. /\ pc = "idle" /\ usteer_timeout_set(t, m, isset, before) /\ time' = time
      /\ UNCHANGED <<pc, passTime, cur, found, passAge>> /\ called' = End
  BY DEF Set
<1>2. TreeOK(isset, before, key, rem)
  BY TreeOfInv
<1>3. /\ TreeOK(isset \cup {t}, before', key', rem')
      /\ isset' = isset \cup {t}
      /\ key' \in [Timers -> 0 .. W - 1]
      /\ rem' \in [Timers -> -MaxLag .. MaxMsecs]
      /\ before' \subseteq Timers \X Timers
  BY <1>1, <1>2, InsertKeepsOrder
<1>4. armedIn' \in -1 .. H /\ Covered(isset', rem', armedIn')
  BY <1>1, <1>2, SetCovers DEF Covered, NoLostWakeup
<1>5. TypeOK'
  BY <1>1, <1>3, <1>4 DEF TypeOK
<1>6. KeyInv' /\ TotalInv' /\ StoredOrder'
  BY <1>1, <1>3 DEF KeyInv, TotalInv, StoredOrder, TreeOK
<1>7. PassInv' /\ CurInv'
  BY <1>1 DEF PassInv, CurInv
<1>8. NoLostWakeup'
  BY <1>4 DEF NoLostWakeup, Covered
<1>9. QED
  BY <1>5, <1>6, <1>7, <1>8

\* usteer_timeout_cancel (timeout.c:140-148) keeps it without re-arming uloop.
LEMMA CancelInv ==
  ASSUME IInv, NEW t \in Timers, Cancel(t)
  PROVE  IInv'
<1> USE DEF IInv
<1>1. /\ pc = "idle" /\ UNCHANGED <<time, pc, passTime, cur, found, passAge, key, armedIn>>
      /\ isset' = isset \ {t}
      /\ before' = Without(t, before)
      /\ rem' = [rem EXCEPT ![t] = 0] /\ called' = End
  BY DEF Cancel, usteer_timeout_cancel
<1>2. rem' \in [Timers -> -MaxLag .. MaxMsecs] /\ \A u \in isset' : rem'[u] = rem[u]
  BY <1>1, QueueAssumption DEF TypeOK
<1>3. TypeOK'
  BY <1>1, <1>2 DEF TypeOK, Without
<1>4. KeyInv' /\ TotalInv' /\ StoredOrder'
  BY <1>1, <1>2 DEF KeyInv, TotalInv, StoredOrder, Without, TypeOK
<1>5. PassInv' /\ CurInv' /\ NoLostWakeup'
  BY <1>1, <1>2 DEF PassInv, CurInv, NoLostWakeup
<1>6. QED
  BY <1>3, <1>4, <1>5

\* usteer_timeout_flush (timeout.c:150-160) keeps it.
LEMMA FlushInv == IInv /\ usteer_timeout_flush => IInv'
<1> SUFFICES ASSUME IInv, usteer_timeout_flush PROVE IInv'
  OBVIOUS
<1>1. TypeOK'
  BY QueueAssumption DEF IInv, TypeOK, usteer_timeout_flush, NotArmed
<1>2. QED
  BY <1>1 DEF IInv, KeyInv, TotalInv, StoredOrder, PassInv, CurInv, NoLostWakeup,
              usteer_timeout_flush

\* A new pass starts at the first element, left of which there is nothing.
LEMMA BeginPassInv ==
  ASSUME TypeOK, TotalInv, BeginPass, UNCHANGED <<time, isset, before, rem>>
  PROVE  /\ pc' = "cb" /\ passTime' \in 0 .. W - 1 /\ passAge' \in 0 .. MaxLag
         /\ found' \in BOOLEAN /\ cur' \in Timers \cup {End}
         /\ PassInv' /\ CurInv'
<1>1. pc' = "cb" /\ passTime' = time /\ passAge' = 0 /\ found' = FALSE
  BY DEF BeginPass
<1>2. PassInv'
  BY <1>1, QueueAssumption DEF PassInv, TypeOK, Wrap, W
<1>3. \/ cur' = End
      \/ cur' \in isset /\ \A u \in isset \ {cur'} : <<cur', u>> \in before
  BY DEF BeginPass, IsFirst
<1>4. CurInv'
  BY <1>1, <1>3 DEF CurInv, TotalInv
<1>5. found' \in BOOLEAN
  BY <1>1
<1>6. passTime' \in 0 .. W - 1 /\ passAge' \in 0 .. MaxLag /\ cur' \in Timers \cup {End}
  BY <1>1, <1>3, QueueAssumption DEF TypeOK
<1>7. QED
  BY <1>1, <1>2, <1>4, <1>5, <1>6

\* Entering usteer_timeout_cb keeps the invariant.
LEMMA CbEnterInv == IInv /\ CbEnter => IInv'
<1> SUFFICES ASSUME IInv, CbEnter PROVE IInv'
  OBVIOUS
<1>1. /\ armedIn' = NotArmed /\ BeginPass /\ UNCHANGED <<time, isset, key, before, rem>>
      /\ called' = End
  BY DEF CbEnter
<1>2. /\ pc' = "cb" /\ passTime' \in 0 .. W - 1 /\ passAge' \in 0 .. MaxLag
      /\ found' \in BOOLEAN /\ cur' \in Timers \cup {End}
      /\ PassInv' /\ CurInv'
  BY <1>1, BeginPassInv DEF IInv
<1>3. TypeOK' /\ NoLostWakeup'
  BY <1>1, <1>2, QueueAssumption DEF IInv, TypeOK, NoLostWakeup, NotArmed
<1>4. KeyInv' /\ TotalInv' /\ StoredOrder'
  BY <1>1 DEF IInv, KeyInv, TotalInv, StoredOrder
<1>5. QED
  BY <1>2, <1>3, <1>4 DEF IInv

\* The next round of its do-while loop keeps it.
LEMMA CbAgainInv == IInv /\ CbAgain => IInv'
<1> SUFFICES ASSUME IInv, CbAgain PROVE IInv'
  OBVIOUS
<1>1. /\ BeginPass /\ UNCHANGED <<time, isset, key, before, armedIn, rem>>
      /\ called' = End
  BY DEF CbAgain
<1>2. /\ pc' = "cb" /\ passTime' \in 0 .. W - 1 /\ passAge' \in 0 .. MaxLag
      /\ found' \in BOOLEAN /\ cur' \in Timers \cup {End}
      /\ PassInv' /\ CurInv'
  BY <1>1, BeginPassInv DEF IInv
<1>3. TypeOK' /\ NoLostWakeup'
  BY <1>1, <1>2 DEF IInv, TypeOK, NoLostWakeup
<1>4. KeyInv' /\ TotalInv' /\ StoredOrder'
  BY <1>1 DEF IInv, KeyInv, TotalInv, StoredOrder
<1>5. QED
  BY <1>2, <1>3, <1>4 DEF IInv

\* In a pass the code's delta is the true distance from the start of the pass.
LEMMA DeltaInPass ==
  ASSUME IInv, pc = "cb", NEW t \in isset
  PROVE  /\ rem[t] \in Int /\ passAge \in Int
         /\ usteer_timeout_delta(key[t], passTime) = rem[t] + passAge
<1>1. /\ rem[t] \in -MaxLag .. MaxMsecs /\ passAge \in 0 .. MaxLag
      /\ time \in 0 .. W - 1
  BY DEF IInv, TypeOK
<1>2. key[t] = Wrap(time + rem[t]) /\ passTime = Wrap(time - passAge)
  BY DEF IInv, KeyInv, PassInv
<1>3. QED
  BY <1>1, <1>2, DeltaIsDistance, QueueAssumption

\* The element a pass calls is due, and no pending timer is due before it.
LEMMA FiredIsFirstDue ==
  ASSUME IInv, pc = "cb", DueInPass(cur)
  PROVE  cur \in isset /\ rem[cur] <= 0 /\ \A u \in isset : rem[cur] <= rem[u]
<1>1. cur \in isset
  BY DEF IInv, CurInv, DueInPass
<1>2. rem[cur] \in Int /\ passAge \in 0 .. MaxLag /\ rem[cur] + passAge <= 0
  BY <1>1, DeltaInPass DEF DueInPass, IInv, TypeOK
<1>3. ASSUME NEW u \in isset
      PROVE  rem[cur] <= rem[u]
  <2>1. rem[u] \in Int
    BY DEF IInv, TypeOK
  <2>2. CASE u = cur
    BY <1>2, <2>2
  <2>3. CASE <<cur, u>> \in before
    BY <1>1, <2>3 DEF IInv, StoredOrder
  <2>4. CASE <<u, cur>> \in before
    <3>1. rem[u] >= -passAge
      BY <1>1, <2>4 DEF IInv, CurInv, DueInPass
    <3>2. QED
      BY <1>2, <2>1, <3>1, QueueAssumption
  <2>5. QED
    BY <1>1, <2>2, <2>3, <2>4 DEF IInv, TotalInv
<1>4. QED
  BY <1>1, <1>2, <1>3, QueueAssumption

\* The iterator moves to the successor it had before the callback.
LEMMA NextIsFresh ==
  ASSUME IInv, pc = "cb", DueInPass(cur), NEW n, IsNext(n, cur, isset, before), n # End
  PROVE  /\ n \in isset \ {cur}
         /\ \A u \in isset \ {cur} : <<u, n>> \in before => rem[u] >= -passAge
<1>1. cur \in isset
  BY FiredIsFirstDue
<1>2. /\ n \in isset \ {cur} /\ <<cur, n>> \in before
      /\ \A u \in isset \ {cur, n} : <<cur, u>> \in before => <<n, u>> \in before
  BY DEF IsNext, IsFirst
<1>3. ASSUME NEW u \in isset \ {cur}, <<u, n>> \in before
      PROVE  <<u, cur>> \in before
  BY <1>1, <1>2, <1>3 DEF IInv, TotalInv
<1>4. QED
  BY <1>1, <1>2, <1>3 DEF IInv, CurInv, DueInPass

\* Cancelling the element and running its callback keeps the invariant.
LEMMA CbFireInv ==
  ASSUME IInv, CbFire
  PROVE  IInv'
<1>1. /\ pc = "cb" /\ DueInPass(cur) /\ found' = TRUE
      /\ UNCHANGED <<time, pc, passTime, passAge>> /\ called' = cur
  BY DEF CbFire
<1>2. PICK n \in isset \cup {End} : IsNext(n, cur, isset, before) /\ cur' = n
  BY DEF CbFire
<1>3. cur \in isset /\ isset \subseteq Timers
  BY <1>1, FiredIsFirstDue DEF IInv, TypeOK
<1>4. /\ TreeOK(isset', before', key', rem')
      /\ key' \in [Timers -> 0 .. W - 1]
      /\ rem' \in [Timers -> -MaxLag .. MaxMsecs]
      /\ armedIn' \in -1 .. H
      /\ isset \ {cur} \subseteq isset'
      /\ isset' \subseteq isset
      /\ \A u \in isset \ {cur} : rem'[u] = rem[u]
      /\ cur \in isset' => rem'[cur] >= 0
      /\ \A u, v \in isset \ {cur} : <<u, v>> \in before' <=> <<u, v>> \in before
  <2>1. TreeOK(isset \ {cur}, Without(cur, before), key, rem)
    BY <1>3, TreeOfInv DEF IInv
  <2>2. CASE usteer_timeout_cancel(cur)
    <3>1. /\ isset' = isset \ {cur} /\ before' = Without(cur, before)
          /\ key' = key /\ armedIn' = armedIn
          /\ rem' = [rem EXCEPT ![cur] = 0]
      BY <2>2 DEF usteer_timeout_cancel
    <3>2. /\ rem' \in [Timers -> -MaxLag .. MaxMsecs]
          /\ \A u \in isset \ {cur} : rem'[u] = rem[u]
      BY <1>3, <3>1, QueueAssumption DEF IInv, TypeOK
    <3>3. TreeOK(isset', before', key', rem')
      BY <2>1, <3>1, <3>2 DEF TreeOK
    <3>4. \A u, v \in isset \ {cur} : <<u, v>> \in before' <=> <<u, v>> \in before
      BY <3>1 DEF Without
    <3>5. QED
      BY <3>1, <3>2, <3>3, <3>4 DEF IInv, TypeOK
  <2>3. CASE \E m \in MinRepeat .. MaxMsecs :
               usteer_timeout_set(cur, m, isset \ {cur}, Without(cur, before))
    <3>1. PICK m \in MinRepeat .. MaxMsecs :
            usteer_timeout_set(cur, m, isset \ {cur}, Without(cur, before))
      BY <2>3
    <3>2. m \in 0 .. MaxMsecs
      BY <3>1, QueueAssumption
    <3>3. TypeOK /\ time' = time /\ cur \in Timers
      BY <1>1, <1>3 DEF IInv
    <3> HIDE DEF IInv
    <3>4. /\ TreeOK((isset \ {cur}) \cup {cur}, before', key', rem')
          /\ isset' = (isset \ {cur}) \cup {cur}
          /\ key' \in [Timers -> 0 .. W - 1]
          /\ rem' \in [Timers -> -MaxLag .. MaxMsecs]
          /\ \A u, v \in (isset \ {cur}) \ {cur} :
               <<u, v>> \in before' <=> <<u, v>> \in Without(cur, before)
      BY <2>1, <3>1, <3>2, <3>3, InsertKeepsOrder
    <3>5. armedIn' \in -1 .. H
      BY <2>1, <3>1, <3>2, <3>3, SetCovers
    <3>6. rem' = [rem EXCEPT ![cur] = m]
      BY <3>1 DEF usteer_timeout_set
    <3>7. rem'[cur] >= 0 /\ \A u \in isset \ {cur} : rem'[u] = rem[u]
      BY <1>3, <3>2, <3>3, <3>6, QueueAssumption DEF TypeOK
    <3>8. TreeOK(isset', before', key', rem')
      BY <3>4
    <3>9. \A u, v \in isset \ {cur} : <<u, v>> \in before' <=> <<u, v>> \in before
      BY <3>4 DEF Without
    <3>10. isset' = isset
      BY <1>3, <3>4
    <3>11. QED
      BY <3>4, <3>5, <3>7, <3>8, <3>9, <3>10
  <2>4. QED
    BY <2>2, <2>3 DEF CbFire
<1>5. found' \in BOOLEAN
  BY <1>1
<1>6. TypeOK'
  <2>1. before' \subseteq Timers \X Timers /\ isset' \subseteq Timers
    BY <1>4 DEF TreeOK
  <2>2. cur' \in Timers \cup {End}
    BY <1>2, <1>3
  <2>3. QED
    BY <1>1, <1>4, <1>5, <2>1, <2>2 DEF IInv, TypeOK
<1>7. KeyInv' /\ TotalInv' /\ StoredOrder'
  BY <1>1, <1>4 DEF KeyInv, TotalInv, StoredOrder, TreeOK
<1>8. PassInv' /\ NoLostWakeup'
  BY <1>1 DEF IInv, PassInv, NoLostWakeup
<1>9. CurInv'
  <2> SUFFICES ASSUME n # End
               PROVE  /\ n \in isset'
                      /\ \A u \in isset' : <<u, n>> \in before' => rem'[u] >= -passAge
    BY <1>1, <1>2 DEF CurInv
  <2>1. /\ n \in isset \ {cur}
        /\ \A u \in isset \ {cur} : <<u, n>> \in before => rem[u] >= -passAge
    BY <1>1, <1>2, NextIsFresh
  <2>2. passAge \in 0 .. MaxLag /\ \A u \in isset' : rem'[u] \in Int
    BY <1>3, <1>4 DEF IInv, TypeOK
  <2>3. \A u \in isset' : u = cur => rem'[u] >= -passAge
    BY <1>4, <2>2, QueueAssumption
  <2>4. \A u \in isset' : u # cur /\ <<u, n>> \in before' => rem'[u] >= -passAge
    BY <1>4, <2>1
  <2>5. QED
    BY <1>4, <2>1, <2>3, <2>4
<1>10. QED
  BY <1>6, <1>7, <1>8, <1>9 DEF IInv

\* Leaving usteer_timeout_cb re-arms uloop for whatever is still set.
LEMMA CbLeaveInv ==
  ASSUME IInv, CbLeave
  PROVE  IInv'
<1>1. /\ pc = "cb" /\ ~found /\ pc' = "idle" /\ cur' = End
      /\ usteer_timeout_recalc(isset, key, before, passTime)
      /\ UNCHANGED <<time, isset, key, before, passTime, found, rem, passAge>>
      /\ called' = End
  BY DEF CbLeave
<1>2. passTime = time
  BY <1>1, QueueAssumption DEF IInv, PassInv, TypeOK, Wrap, W
<1>3. TreeOK(isset, before, key, rem) /\ \A t \in isset : rem[t] \in -MaxLag .. MaxMsecs
  BY TreeOfInv DEF IInv, TypeOK
<1>4. armedIn' \in -1 .. H /\ Covered(isset, rem, armedIn')
  BY <1>1, <1>2, <1>3, RecalcCovers DEF IInv
<1>5. TypeOK'
  BY <1>1, <1>4 DEF IInv, TypeOK
<1>6. KeyInv' /\ TotalInv' /\ StoredOrder'
  BY <1>1 DEF IInv, KeyInv, TotalInv, StoredOrder
<1>7. PassInv' /\ CurInv' /\ NoLostWakeup'
  BY <1>1, <1>4 DEF PassInv, CurInv, NoLostWakeup, Covered
<1>8. QED
  BY <1>5, <1>6, <1>7 DEF IInv

\* The passing of a millisecond keeps the invariant.
LEMMA TickInv ==
  ASSUME IInv, Tick
  PROVE  IInv'
<1>1. /\ \A t \in isset : rem[t] > -MaxLag
      /\ pc = "cb" => found /\ passAge < MaxLag
      /\ time' = Wrap(time + 1)
      /\ rem' = [t \in Timers |-> IF t \in isset THEN rem[t] - 1 ELSE 0]
      /\ armedIn' = IF armedIn > 0 THEN armedIn - 1 ELSE armedIn
      /\ passAge' = IF pc = "cb" THEN passAge + 1 ELSE passAge
      /\ UNCHANGED <<isset, key, before, pc, passTime, cur, found>>
      /\ called' = End
  BY DEF Tick
<1>2. /\ \A t \in isset : rem'[t] = rem[t] - 1 /\ rem[t] \in -MaxLag .. MaxMsecs
      /\ rem' \in [Timers -> -MaxLag .. MaxMsecs]
  BY <1>1, QueueAssumption DEF IInv, TypeOK
<1>3. TypeOK'
  <2>1. time' \in 0 .. W - 1
    BY <1>1, QueueAssumption DEF IInv, TypeOK, Wrap, W
  <2>2. armedIn' \in -1 .. H /\ passAge' \in 0 .. MaxLag
    BY <1>1, QueueAssumption DEF IInv, TypeOK
  <2>3. QED
    BY <1>1, <1>2, <2>1, <2>2 DEF IInv, TypeOK
<1>4. KeyInv'
  <2> SUFFICES ASSUME NEW t \in isset
               PROVE  key[t] = Wrap(Wrap(time + 1) + (rem[t] - 1))
    BY <1>1, <1>2 DEF KeyInv
  <2>1. key[t] = Wrap(time + rem[t]) /\ time \in 0 .. W - 1
    BY DEF IInv, KeyInv, TypeOK
  <2>2. QED
    BY <1>2, <2>1, QueueAssumption DEF Wrap, W
<1>5. TotalInv'
  BY <1>1 DEF IInv, TotalInv
<1>6. StoredOrder'
  BY <1>1, <1>2, QueueAssumption DEF IInv, StoredOrder
<1>7. PassInv'
  <2> SUFFICES ASSUME pc = "cb"
               PROVE  passTime = Wrap(Wrap(time + 1) - (passAge + 1))
    BY <1>1 DEF PassInv
  <2>1. passTime = Wrap(time - passAge) /\ time \in 0 .. W - 1 /\ passAge \in 0 .. MaxLag
    BY DEF IInv, PassInv, TypeOK
  <2>2. QED
    BY <2>1, QueueAssumption DEF Wrap, W
<1>8. CurInv'
  <2> SUFFICES ASSUME pc = "cb", cur # End
               PROVE  /\ cur \in isset
                      /\ \A u \in isset : <<u, cur>> \in before => rem[u] - 1 >= -(passAge + 1)
    BY <1>1, <1>2 DEF CurInv
  <2>1. passAge \in 0 .. MaxLag
    BY DEF IInv, TypeOK
  <2>2. QED
    BY <1>2, <2>1, QueueAssumption DEF IInv, CurInv
<1>9. NoLostWakeup'
  <2> SUFFICES ASSUME pc = "idle", NEW t \in isset
               PROVE  armedIn' # NotArmed /\ (armedIn' <= rem[t] - 1 \/ armedIn' <= 1)
    BY <1>1, <1>2 DEF NoLostWakeup
  <2>1. armedIn # NotArmed /\ (armedIn <= rem[t] \/ armedIn <= 1) /\ armedIn \in -1 .. H
    BY DEF IInv, NoLostWakeup, TypeOK
  <2>2. QED
    BY <1>1, <1>2, <2>1, QueueAssumption DEF NotArmed
<1>10. QED
  BY <1>3, <1>4, <1>5, <1>6, <1>7, <1>8, <1>9 DEF IInv

\* A step that changes nothing keeps the invariant.
LEMMA StutterInv == IInv /\ UNCHANGED vars => IInv'
BY DEF IInv, vars, TypeOK, KeyInv, TotalInv, StoredOrder, PassInv, CurInv, NoLostWakeup

\* Every step of the queue preserves the invariant.
LEMMA NextInv == IInv /\ [Next]_vars => IInv'
<1> SUFFICES ASSUME IInv, [Next]_vars PROVE IInv'
  OBVIOUS
<1>1. ASSUME NEW t \in Timers, NEW m \in 0 .. MaxMsecs, Set(t, m) PROVE IInv'
  BY <1>1, SetInv
<1>2. ASSUME NEW t \in Timers, Cancel(t) PROVE IInv'
  BY <1>2, CancelInv
<1>3. CASE usteer_timeout_flush
  BY <1>3, FlushInv
<1>4. CASE CbEnter
  BY <1>4, CbEnterInv
<1>5. CASE CbFire
  BY <1>5, CbFireInv
<1>6. CASE CbAgain
  BY <1>6, CbAgainInv
<1>7. CASE CbLeave
  BY <1>7, CbLeaveInv
<1>8. CASE Tick
  BY <1>8, TickInv
<1>9. CASE UNCHANGED vars
  BY <1>9, StutterInv
<1>10. QED
  BY <1>1, <1>2, <1>3, <1>4, <1>5, <1>6, <1>7, <1>8, <1>9 DEF Next

\* timeout.c as a whole: the inductive invariant always holds.
THEOREM InvariantHolds == Spec => []IInv
<1>1. QED
  BY InitInv, NextInv, PTL DEF Spec

-----------------------------------------------------------------------------
(* timeout.c:26-44.  All state stays in its type: no true distance leaves   *)
(* the half range in which the signed 32 bit comparison is meaningful.      *)
THEOREM TypeCorrect == Spec => []TypeOK
BY InvariantHolds, PTL DEF IInv

(* timeout.c:26-38.  The stored order is the order of the true deadlines.   *)
THEOREM OrderCorrect == Spec => []StoredOrder
BY InvariantHolds, PTL DEF IInv

(* timeout.c:116-148.  No wakeup is lost.                                   *)
THEOREM WakeupCorrect == Spec => []NoLostWakeup
BY InvariantHolds, PTL DEF IInv

-----------------------------------------------------------------------------
(* The refinement: a callback of the queue is an expiry of TimerSpec, the   *)
(* other steps of usteer_timeout_cb change nothing that TimerSpec sees.     *)

\* Every step of the queue is a step of TimerSpec or leaves its state alone.
LEMMA StepRefines ==
  ASSUME IInv, [Next]_vars
  PROVE  [Contract!AbsNext]_(Contract!absVars)
<1> USE DEF Contract!absVars, Contract!AbsNext
<1>1. ASSUME NEW t \in Timers, NEW m \in 0 .. MaxMsecs, Set(t, m)
      PROVE  Contract!AbsSet(t, m)
  BY <1>1 DEF Set, usteer_timeout_set, Contract!AbsSet, Contract!Put
<1>2. ASSUME NEW t \in Timers, Cancel(t)
      PROVE  Contract!AbsCancel(t)
  BY <1>2 DEF Cancel, usteer_timeout_cancel, Contract!AbsCancel, Contract!Drop
<1>3. CASE usteer_timeout_flush
  BY <1>3 DEF usteer_timeout_flush, Contract!AbsFlush
<1>4. CASE CbFire
  <2>1. pc = "cb" /\ DueInPass(cur)
    BY <1>4 DEF CbFire
  <2>2. Contract!AbsDue(cur)
    BY <2>1, FiredIsFirstDue DEF Contract!AbsDue
  <2>3. cur \in isset /\ cur \in Timers
    BY <2>2 DEF Contract!AbsDue, IInv, TypeOK
  <2>4. called' = cur
    BY <1>4 DEF CbFire
  <2>5. CASE usteer_timeout_cancel(cur)
    <3>1. Contract!Drop(cur)
      BY <2>5 DEF usteer_timeout_cancel, Contract!Drop
    <3>2. Contract!AbsExpire(cur)
      BY <2>2, <2>4, <3>1 DEF Contract!AbsExpire
    <3>3. QED
      BY <2>3, <3>2
  <2>6. CASE \E m \in MinRepeat .. MaxMsecs :
               usteer_timeout_set(cur, m, isset \ {cur}, Without(cur, before))
    <3>1. PICK m \in MinRepeat .. MaxMsecs :
            usteer_timeout_set(cur, m, isset \ {cur}, Without(cur, before))
      BY <2>6
    <3>2. m \in 0 .. MaxMsecs
      BY <3>1, QueueAssumption
    <3>3. Contract!Put(cur, m)
      BY <2>3, <3>1 DEF usteer_timeout_set, Contract!Put
    <3>4. Contract!AbsExpire(cur)
      BY <2>2, <2>4, <3>2, <3>3 DEF Contract!AbsExpire
    <3>5. QED
      BY <2>3, <3>4
  <2>7. QED
    BY <1>4, <2>5, <2>6 DEF CbFire
<1>5. CASE CbEnter \/ CbAgain \/ CbLeave \/ UNCHANGED vars
  BY <1>5 DEF CbEnter, CbAgain, CbLeave, vars, Contract!AbsReturn
<1>6. CASE Tick
  BY <1>6 DEF Tick, Contract!AbsTick
<1>7. QED
  BY <1>1, <1>2, <1>3, <1>4, <1>5, <1>6 DEF Next

(* timeout.c:77-101.  The queue implements TimerSpec: no callback before    *)
(* its deadline, none ahead of a timer that is due earlier.                 *)
THEOREM Refinement == Spec => TimerContract
<1>1. Init => Contract!AbsInit
  BY DEF Init, Contract!AbsInit
<1>2. IInv /\ [Next]_vars => [Contract!AbsNext]_(Contract!absVars)
  BY StepRefines
<1>3. QED
  BY <1>1, <1>2, InvariantHolds, PTL DEF Spec, TimerContract, Contract!AbsSpec
=============================================================================

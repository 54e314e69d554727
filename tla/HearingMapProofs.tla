-------------------------- MODULE HearingMapProofs --------------------------
(***************************************************************************)
(* HearingMap for any number of nodes, channels and settings: a client is   *)
(* not asked more often in a row than there are bands, wherever the         *)
(* rotation stood when the nodes or their channels changed.                 *)
(***************************************************************************)
EXTENDS HearingMap, FiniteSetTheorems, WellFoundedInduction, TLAPS

\* Nodes of u on the same band are neighbours.
Blocks(u, fr) ==
  \A l, m, n \in u : l < m /\ m < n /\ fr[l] = fr[n] => fr[m] = fr[l]

\* From node x on, round the list, y comes before z.
Between(x, y, z) == (x < y /\ y < z) \/ (y < z /\ z < x) \/ (z < x /\ x < y)

\* The bands from b on that the rotation has to pass before it is back at Own's.
Ahead(u, fr, b) ==
  {c \in Bands(u, fr) \ {fr[Own]} :
     /\ b # fr[Own]
     /\ c = b \/ \E x, y \in u : fr[x] = b /\ fr[y] = c /\ Between(x, y, Own)}

\* The requests made and the bands that are left are no more than there are bands.
Turn(u, fr, b, r) ==
  /\ b \in Bands(u, fr)
  /\ r + Cardinality(Ahead(u, fr, b)) <= Cardinality(Bands(u, fr))

TurnInv == Contiguous /\ here /\ row > 0 => Turn(up, freq, band, row)

IInv == TypeOK /\ NotFlooded /\ TurnInv

-----------------------------------------------------------------------------
(* The rotation.                                                            *)

\* A set of natural numbers has a least element, and Min is that one.
LEMMA MinIsLeast ==
  ASSUME NEW T, T \subseteq Nat, T # {}
  PROVE  Min(T) \in T /\ \A y \in T : Min(T) <= y
<1>1. PICK x \in T : \A y \in T : ~ (<<y, x>> \in OpToRel(<, Nat))
  BY WFMin, NatLessThanWellFounded, Zenon
<1>2. ASSUME NEW y \in T PROVE x <= y
  <2>1. x \in Nat /\ y \in Nat
    OBVIOUS
  <2>2. (y < x) => <<y, x>> \in OpToRel(<, Nat)
    BY <2>1 DEF OpToRel
  <2>3. ~(y < x)
    BY <1>1, <2>2, Zenon
  <2>4. QED
    BY <2>1, <2>3
<1>3. QED
  BY <1>2 DEF Min

\* The nodes the rotation may go on to.
After(u, fr, b) == {n \in u : fr[n] # b /\ \E m \in u : m < n /\ fr[m] = b}

\* The next band is that of the first node behind one of band b, or of the first of all.
LEMMA NextBand ==
  ASSUME NEW u, u \subseteq Nodes, u # {}, NEW fr, NEW b
  PROVE  \E w \in u :
           /\ usteer_beacon_request_next_band(u, fr, b) = fr[w]
           /\ \/ w \in After(u, fr, b) /\ \A n \in After(u, fr, b) : w <= n
              \/ After(u, fr, b) = {} /\ \A n \in u : w <= n
<1> DEFINE T == IF After(u, fr, b) # {} THEN After(u, fr, b) ELSE u
<1>1. T # {} /\ T \subseteq u
  BY DEF After
<1>2. T \subseteq Nat
  <2>1. u \subseteq Nat
    BY DEF Nodes
  <2>2. QED
    BY <1>1, <2>1
<1>3. Min(T) \in T /\ \A y \in T : Min(T) <= y
  <2> HIDE DEF T
  <2>1. QED
    BY <1>1, <1>2, MinIsLeast
<1>4. usteer_beacon_request_next_band(u, fr, b) = fr[Min(T)]
  BY DEF usteer_beacon_request_next_band, After
<1>5. Min(T) \in u
  BY <1>1, <1>3
<1>6. \/ Min(T) \in After(u, fr, b) /\ \A n \in After(u, fr, b) : Min(T) <= n
      \/ After(u, fr, b) = {} /\ \A n \in u : Min(T) <= n
  BY <1>3
<1>7. QED
  BY <1>4, <1>5, <1>6

\* A node of another band is not between two nodes of one band.
LEMMA SameSide ==
  ASSUME NEW u, u \subseteq Nodes, NEW fr, Blocks(u, fr),
         NEW x \in u, NEW w \in u, fr[x] = fr[w], NEW y \in u, fr[y] # fr[x]
  PROVE  (y < x /\ y < w) \/ (x < y /\ w < y)
<1>1. x \in Nat /\ w \in Nat /\ y \in Nat /\ x # y /\ w # y
  BY DEF Nodes
<1>2. ~(x < y /\ y < w) /\ ~(w < y /\ y < x)
  BY DEF Blocks
<1>3. QED
  BY <1>1, <1>2

\* Where the nodes of a band stand does not depend on the node that is looked at.
LEMMA BetweenBlocks ==
  ASSUME NEW u, u \subseteq Nodes, NEW fr, Blocks(u, fr), Own \in u,
         NEW x \in u, NEW w \in u, fr[x] = fr[w], fr[x] # fr[Own],
         NEW y \in u, fr[y] # fr[x], Between(x, y, Own)
  PROVE  Between(w, y, Own)
<1>1. (y < x /\ y < w) \/ (x < y /\ w < y)
  BY SameSide
<1>2. (Own < x /\ Own < w) \/ (x < Own /\ w < Own)
  BY SameSide
<1>3. x \in Nat /\ w \in Nat /\ y \in Nat /\ Own \in Nat
  BY DEF Nodes
<1>4. QED
  BY <1>1, <1>2, <1>3 DEF Between

\* The next band is behind this one: what is left after it was left before, and this
\* band no longer is.
LEMMA RotationAdvances ==
  ASSUME NEW u, u \subseteq Nodes, NEW fr, Blocks(u, fr), Own \in u,
         NEW b \in Bands(u, fr), b # fr[Own]
  PROVE  /\ b \in Ahead(u, fr, b)
         /\ Ahead(u, fr, usteer_beacon_request_next_band(u, fr, b))
              \subseteq Ahead(u, fr, b) \ {b}
<1> DEFINE next == usteer_beacon_request_next_band(u, fr, b)
<1>1. b \in Ahead(u, fr, b)
  BY DEF Ahead
<1>2. PICK w \in u :
        /\ next = fr[w]
        /\ \/ w \in After(u, fr, b) /\ \A n \in After(u, fr, b) : w <= n
           \/ After(u, fr, b) = {} /\ \A n \in u : w <= n
  BY NextBand
<1> HIDE DEF next
<1>3. SUFFICES ASSUME NEW c \in Ahead(u, fr, next)
               PROVE  c \in Ahead(u, fr, b) /\ c # b
  BY <1>1 DEF next
<1>4. next # fr[Own] /\ c \in Bands(u, fr) /\ c # fr[Own]
  BY DEF Ahead
<1>5. SUFFICES ASSUME TRUE
               PROVE  c # b /\ \E m, y \in u : fr[m] = b /\ fr[y] = c /\ Between(m, y, Own)
  BY <1>4 DEF Ahead
<1>6. PICK y \in u : fr[y] = c /\ (y = w \/ (c # next /\ Between(w, y, Own)))
  <2>1. CASE c = next
    BY <1>2, <2>1
  <2>2. CASE c # next
    <3>1. PICK x \in u, y \in u : fr[x] = next /\ fr[y] = c /\ Between(x, y, Own)
      BY <2>2 DEF Ahead
    <3>2. Between(w, y, Own)
      BY <1>2, <1>4, <2>2, <3>1, BetweenBlocks
    <3>3. QED
      BY <2>2, <3>1, <3>2
  <2>3. QED
    BY <2>1, <2>2
<1>7. u \subseteq Nat
  BY DEF Nodes
<1>8. CASE w \in After(u, fr, b) /\ \A n \in After(u, fr, b) : w <= n
  <2>1. PICK m \in u : m < w /\ fr[m] = b
    BY <1>8 DEF After
  <2>2. fr[w] # b
    BY <1>8 DEF After
  <2>3. \A n \in u : m < n /\ n < w => fr[n] = b
    <3>1. SUFFICES ASSUME NEW n \in u, m < n, n < w, fr[n] # b PROVE FALSE
      OBVIOUS
    <3>2. n \in After(u, fr, b)
      BY <2>1, <3>1 DEF After
    <3>3. QED
      BY <1>7, <1>8, <3>1, <3>2
  <2>4. Own < m \/ w < Own
    BY <1>2, <1>4, <1>7, <2>1, <2>3
  <2>5. c # b
    <3>1. SUFFICES ASSUME c = b PROVE FALSE
      OBVIOUS
    <3>2. y # w /\ Between(w, y, Own)
      BY <1>6, <2>2, <3>1
    <3>3. (w < m /\ w < y) \/ (m < w /\ y < w)
      BY <1>6, <2>1, <2>2, <3>1, SameSide
    <3>4. (Own < m /\ Own < y) \/ (m < Own /\ y < Own)
      BY <1>6, <2>1, <3>1, SameSide
    <3>5. QED
      BY <1>7, <2>1, <2>4, <3>2, <3>3, <3>4 DEF Between
  <2>6. Between(m, y, Own)
    <3>1. CASE y = w
      BY <1>7, <2>1, <2>4, <3>1 DEF Between
    <3>2. CASE Between(w, y, Own)
      <4>1. y < m \/ w <= y
        BY <1>6, <1>7, <2>1, <2>3, <2>5
      <4>2. QED
        BY <1>7, <2>1, <2>4, <3>2, <4>1 DEF Between
    <3>3. QED
      BY <1>6, <3>1, <3>2
  <2>7. QED
    BY <1>6, <2>1, <2>5, <2>6
<1>9. CASE After(u, fr, b) = {} /\ \A n \in u : w <= n
  <2>1. PICK m \in u : fr[m] = b
    BY DEF Bands
  <2>2. ASSUME NEW n \in u, NEW k \in u, fr[k] = b, fr[n] # b PROVE n < k
    <3>1. n \notin After(u, fr, b)
      BY <1>9
    <3>2. n # k /\ ~(k < n)
      BY <2>2, <3>1 DEF After
    <3>3. QED
      BY <1>7, <3>2
  <2>3. Own < m
    BY <2>1, <2>2
  <2>4. w < Own
    BY <1>2, <1>4, <1>7, <1>9
  <2>5. y < Own
    BY <1>6, <1>7, <1>9, <2>4 DEF Between
  <2>6. c # b
    BY <1>6, <1>7, <2>2, <2>5
  <2>7. Between(m, y, Own)
    BY <1>7, <2>3, <2>5 DEF Between
  <2>8. QED
    BY <1>6, <2>1, <2>6, <2>7
<1>10. QED
  BY <1>2, <1>8, <1>9

\* There are no more bands than nodes, and what is left is without Own's band.
LEMMA BandCounts ==
  ASSUME NEW u, u \subseteq Nodes, NEW fr, NEW b
  PROVE  /\ IsFiniteSet(Bands(u, fr)) /\ Cardinality(Bands(u, fr)) \in Nat
         /\ IsFiniteSet(Ahead(u, fr, b)) /\ Cardinality(Ahead(u, fr, b)) \in Nat
         /\ Own \in u => Cardinality(Ahead(u, fr, b)) + 1 <= Cardinality(Bands(u, fr))
<1>1. IsFiniteSet(u)
  <2>1. IsFiniteSet(Nodes)
    BY FS_Interval, HearingAssumption DEF Nodes
  <2>2. QED
    BY <2>1, FS_Subset
<1>2. IsFiniteSet(Bands(u, fr))
  <2> DEFINE f == [n \in u |-> fr[n]]
  <2>1. f \in Surjection(u, Bands(u, fr))
    BY DEF Surjection, Bands
  <2>2. QED
    BY <1>1, <2>1, FS_Surjection
<1>3. Ahead(u, fr, b) \subseteq Bands(u, fr) \ {fr[Own]}
  BY DEF Ahead
<1>4. IsFiniteSet(Bands(u, fr) \ {fr[Own]})
  BY <1>2, FS_Difference
<1>5. /\ IsFiniteSet(Ahead(u, fr, b))
      /\ Cardinality(Ahead(u, fr, b)) <= Cardinality(Bands(u, fr) \ {fr[Own]})
  BY <1>3, <1>4, FS_Subset
<1>6. /\ Cardinality(Bands(u, fr)) \in Nat /\ Cardinality(Ahead(u, fr, b)) \in Nat
      /\ Cardinality(Bands(u, fr) \ {fr[Own]}) \in Nat
  BY <1>2, <1>4, <1>5, FS_CardinalityType
<1>7. ASSUME Own \in u PROVE Cardinality(Ahead(u, fr, b)) + 1 <= Cardinality(Bands(u, fr))
  <2>1. fr[Own] \in Bands(u, fr)
    BY <1>7 DEF Bands
  <2>2. Cardinality(Bands(u, fr) \ {fr[Own]}) = Cardinality(Bands(u, fr)) - 1
    BY <1>2, <2>1, FS_RemoveElement
  <2>3. QED
    BY <1>5, <1>6, <2>2
<1>8. QED
  BY <1>2, <1>5, <1>6, <1>7

\* At Own's band nothing is left.
LEMMA OwnTurn ==
  ASSUME NEW u, u \subseteq Nodes, NEW fr, Own \in u,
         NEW r \in Nat, r <= Cardinality(Bands(u, fr))
  PROVE  Turn(u, fr, fr[Own], r)
<1>1. Ahead(u, fr, fr[Own]) = {}
  BY DEF Ahead
<1>2. Cardinality(Ahead(u, fr, fr[Own])) = 0
  BY <1>1, FS_EmptySet
<1>3. Cardinality(Bands(u, fr)) \in Nat
  BY BandCounts
<1>4. QED
  BY <1>2, <1>3 DEF Turn, Bands

\* The first request after the nodes have changed may be for any band.
LEMMA FirstTurn ==
  ASSUME NEW u, u \subseteq Nodes, NEW fr, Own \in u, NEW b
  PROVE  Turn(u, fr, usteer_beacon_request_next_band(u, fr, b), 1)
<1> DEFINE next == usteer_beacon_request_next_band(u, fr, b)
<1>1. next \in Bands(u, fr)
  BY NextBand DEF Bands
<1> HIDE DEF next
<1>2. Cardinality(Ahead(u, fr, next)) + 1 <= Cardinality(Bands(u, fr))
  BY BandCounts
<1>3. Cardinality(Ahead(u, fr, next)) \in Nat
  BY BandCounts
<1>4. QED
  BY <1>1, <1>2, <1>3 DEF Turn, next

\* Every further one uses up a band.
LEMMA NextTurn ==
  ASSUME NEW u, u \subseteq Nodes, NEW fr, Blocks(u, fr), Own \in u,
         NEW b, b # fr[Own], NEW r \in Nat, Turn(u, fr, b, r)
  PROVE  Turn(u, fr, usteer_beacon_request_next_band(u, fr, b), r + 1)
<1> DEFINE next == usteer_beacon_request_next_band(u, fr, b)
           A == Ahead(u, fr, b)
           B == Ahead(u, fr, next)
<1>1. next \in Bands(u, fr)
  BY NextBand DEF Bands
<1>2. b \in A /\ B \subseteq A \ {b}
  BY RotationAdvances DEF Turn
<1>3. /\ IsFiniteSet(A) /\ Cardinality(A) \in Nat /\ Cardinality(B) \in Nat
      /\ Cardinality(Bands(u, fr)) \in Nat
  BY BandCounts
<1>4. r + Cardinality(A) <= Cardinality(Bands(u, fr))
  BY DEF Turn
<1> HIDE DEF next, A, B
<1>5. IsFiniteSet(A \ {b}) /\ Cardinality(A \ {b}) = Cardinality(A) - 1
  BY <1>2, <1>3, FS_RemoveElement
<1>6. Cardinality(B) <= Cardinality(A \ {b})
  BY <1>2, <1>5, FS_Subset
<1>7. (r + 1) + Cardinality(B) <= Cardinality(Bands(u, fr))
  BY <1>3, <1>4, <1>5, <1>6
<1>8. QED
  BY <1>1, <1>7 DEF Turn, B, next

-----------------------------------------------------------------------------
(* Types.                                                                   *)

Freqs == (UNION {Channels[n] : n \in Nodes}) \cup {0}
Reports == [Aps -> -1 .. AgeCap]

LEMMA FreqsAre ==
  0 \in Freqs /\ \A n \in Nodes : \A f \in Channels[n] : f \in Freqs
<1>1. 0 \in Freqs
  BY DEF Freqs
<1>2. ASSUME NEW n \in Nodes, NEW f \in Channels[n] PROVE f \in Freqs
  <2>1. f \in UNION {Channels[m] : m \in Nodes}
    OBVIOUS
  <2>2. QED
    BY <2>1 DEF Freqs
<1>3. QED
  BY <1>1, <1>2

\* What calloc leaves is in range.
LEMMA ZeroTypes == 0 \in 0 .. FailMod - 1 /\ 0 \in 0 .. AgeCap /\ 0 \in 0 .. NNodes + 1
<1>1. FailMod \in Nat \ {0} /\ AgeCap \in Nat /\ NNodes \in Nat
  BY HearingAssumption
<1>2. QED
  BY <1>1

LEMMA LaterType ==
  ASSUME NEW age \in 0 .. AgeCap, NEW d \in Nat
  PROVE  Later(age, d) \in 0 .. AgeCap
BY HearingAssumption DEF Later

LEMMA ReportTypes ==
  /\ NoReport \in Reports
  /\ \A rep \in Reports :
       /\ ExpiredRemoved(rep) \in Reports
       /\ \A d \in Nat :
            [a \in Aps |-> IF rep[a] < 0 THEN -1 ELSE Later(rep[a], d)] \in Reports
<1>1. -1 \in -1 .. AgeCap
  BY HearingAssumption
<1>2. NoReport \in Reports
  BY <1>1 DEF NoReport, Reports
<1>3. ASSUME NEW rep \in Reports PROVE ExpiredRemoved(rep) \in Reports
  BY <1>1 DEF Reports, ExpiredRemoved
<1>4. ASSUME NEW rep \in Reports, NEW d \in Nat, NEW a \in Aps, ~(rep[a] < 0)
      PROVE  Later(rep[a], d) \in -1 .. AgeCap
  <2>1. rep[a] \in 0 .. AgeCap
    BY <1>4, HearingAssumption DEF Reports
  <2>2. Later(rep[a], d) \in 0 .. AgeCap
    BY <2>1, LaterType
  <2>3. QED
    BY <2>2
<1>5. QED
  BY <1>1, <1>2, <1>3, <1>4 DEF Reports

\* failed_requests stays a uint8_t, whatever it wraps at.
LEMMA FailedType ==
  ASSUME NEW failed \in 0 .. FailMod - 1, NEW own \in BOOLEAN, NEW wasAnswered \in BOOLEAN
  PROVE  FailedRequests(own, wasAnswered, failed) \in 0 .. FailMod - 1
<1>1. FailMod \in Nat /\ FailMod > 0
  BY HearingAssumption
<1>2. PICK k \in Nat : k = (IF wasAnswered THEN failed \div 2 ELSE failed) + 1
  BY <1>1
<1>3. k % FailMod \in 0 .. FailMod - 1
  BY <1>1, <1>2
<1>4. QED
  BY <1>2, <1>3 DEF FailedRequests

\* The clauses of TypeOK with names for the sets.
LEMMA Types ==
  TypeOK <=> /\ up \subseteq Nodes /\ freq \in [Nodes -> Freqs]
             /\ listed \in BOOLEAN /\ here \in BOOLEAN /\ answered \in BOOLEAN
             /\ band \in Freqs /\ failed_requests \in 0 .. FailMod - 1
             /\ age_request \in 0 .. AgeCap /\ uptime \in 0 .. AgeCap
             /\ report \in Reports /\ row \in 0 .. NNodes + 1
BY DEF TypeOK, Freqs, Reports

\* The count of a row that has not begun.
LEMMA RowZero ==
  ASSUME TypeOK', row' = 0
  PROVE  NotFlooded' /\ TurnInv'
<1>1. up' \subseteq Nodes
  BY DEF TypeOK
<1>2. Cardinality(Bands(up', freq')) \in Nat
  BY <1>1, BandCounts
<1>3. QED
  BY <1>2 DEF NotFlooded, TurnInv

\* With an entry, TurnInv is the stronger one.
LEMMA TurnBounds ==
  ASSUME TypeOK', Contiguous' /\ row' > 0 => Turn(up', freq', band', row')
  PROVE  NotFlooded' /\ TurnInv'
<1>1. up' \subseteq Nodes /\ row' \in Nat
  BY DEF TypeOK
<1>2. /\ Cardinality(Bands(up', freq')) \in Nat
      /\ Cardinality(Ahead(up', freq', band')) \in Nat
  BY <1>1, BandCounts
<1>3. QED
  BY <1>1, <1>2 DEF NotFlooded, TurnInv, Turn

-----------------------------------------------------------------------------
(* One lemma per action.                                                    *)

\* The check of one client: a request off Own's band takes the rotation on.
LEMMA CheckInv ==
  ASSUME IInv, Own \in up, UNCHANGED <<up, listed>>, uptime' \in 0 .. AgeCap,
         NEW fr \in [Nodes -> Freqs], freq' = fr,
         NEW b \in Freqs, NEW failed \in 0 .. FailMod - 1, NEW age \in 0 .. AgeCap,
         NEW wasAnswered \in BOOLEAN, NEW rep \in Reports, NEW signal,
         usteer_beacon_request_check(fr, b, failed, age, wasAnswered, rep, signal),
         here' = TRUE,
         Contiguous /\ fr = freq /\ row > 0 => Turn(up, fr, b, row)
  PROVE  IInv'
<1> DEFINE own == b = fr[Own]
           next == usteer_beacon_request_next_band(up, fr, b)
<1>1. /\ up \subseteq Nodes /\ row \in 0 .. NNodes + 1 /\ NNodes \in Nat
      /\ listed \in BOOLEAN
  BY HearingAssumption DEF IInv, TypeOK
<1>2. CASE own /\ TooSoon(age, signal)
  <2>1. /\ band' = b /\ failed_requests' = failed /\ age_request' = age
        /\ answered' = wasAnswered /\ report' = rep
        /\ row' = IF fr = freq THEN row ELSE 0
    BY <1>2 DEF usteer_beacon_request_check
  <2>2. TypeOK'
    BY <1>1, <2>1 DEF TypeOK, Freqs, Reports
  <2>3. Contiguous' /\ row' > 0 => Turn(up', freq', band', row')
    BY <2>1 DEF Contiguous
  <2>4. QED
    BY <2>2, <2>3, TurnBounds DEF IInv
<1>3. CASE ~(own /\ TooSoon(age, signal))
  <2>1. /\ failed_requests' = FailedRequests(own, wasAnswered, failed)
        /\ age_request' = IF own THEN 0 ELSE age
        /\ answered' = (~own /\ wasAnswered)
        /\ report' = IF own THEN ExpiredRemoved(rep) ELSE rep
        /\ band' = next
        /\ row' = IF own THEN 0
                  ELSE IF fr # freq THEN 1
                  ELSE IF row <= NNodes THEN row + 1 ELSE row
    BY <1>3 DEF usteer_beacon_request_check
  <2> HIDE DEF own, next
  <2>2. TypeOK'
    <3>1. failed_requests' \in 0 .. FailMod - 1
      <4>1. own \in BOOLEAN
        BY DEF own
      <4>2. QED
        BY <2>1, <4>1, FailedType
    <3>2. age_request' \in 0 .. AgeCap
      BY <2>1, HearingAssumption
    <3>3. answered' \in BOOLEAN
      BY <2>1
    <3>4. report' \in Reports
      BY <2>1, ReportTypes
    <3>5. band' \in Freqs
      <4>1. next \in Bands(up, fr)
        BY <1>1, FirstTurn DEF Turn, next
      <4>2. QED
        BY <1>1, <2>1, <4>1 DEF Bands
    <3>6. row' \in 0 .. NNodes + 1
      BY <1>1, <2>1
    <3>7. QED
      BY <1>1, <3>1, <3>2, <3>3, <3>4, <3>5, <3>6 DEF TypeOK, Freqs, Reports
  <2>3. ASSUME Contiguous', row' > 0 PROVE Turn(up, fr, next, row')
    <3>1. ~own
      BY <2>1, <2>3
    <3>2. Turn(up, fr, next, 1)
      BY <1>1, FirstTurn DEF next
    <3>3. CASE fr # freq \/ row = 0
      BY <1>1, <2>1, <3>1, <3>2, <3>3
    <3>4. CASE fr = freq /\ row > 0
      <4>1. Blocks(up, fr) /\ Contiguous
        BY <2>3, <3>4 DEF Contiguous, Blocks
      <4>2. Turn(up, fr, next, row + 1)
        BY <1>1, <3>1, <3>4, <4>1, NextTurn DEF own, next
      <4>3. row' = row + 1 \/ row' = row
        BY <2>1, <3>1, <3>4
      <4>4. /\ Cardinality(Bands(up, fr)) \in Nat
            /\ Cardinality(Ahead(up, fr, next)) \in Nat
        BY <1>1, BandCounts
      <4>5. QED
        BY <1>1, <4>2, <4>3, <4>4 DEF Turn
    <3>5. QED
      BY <1>1, <3>3, <3>4
  <2>4. Contiguous' /\ row' > 0 => Turn(up', freq', band', row')
    BY <2>1, <2>3
  <2>5. QED
    BY <2>2, <2>4, TurnBounds DEF IInv
<1>4. QED
  BY <1>2, <1>3

\* The frequencies after a channel change or a new node.
LEMMA FreqType ==
  ASSUME freq \in [Nodes -> Freqs], NEW n \in Nodes, NEW f \in Channels[n] \cup {0}
  PROVE  f \in Freqs /\ [freq EXCEPT ![n] = f] \in [Nodes -> Freqs]
<1>1. f \in Freqs
  BY FreqsAre
<1>2. QED
  BY <1>1

\* The own node is polled.
LEMMA PollInv ==
  ASSUME IInv, NEW f \in Channels[Own], NEW signal \in Signals, NEW d \in Gaps,
         Poll(f, signal, d)
  PROVE  IInv'
<1> DEFINE fr == [freq EXCEPT ![Own] = f]
           now == Later(uptime, d)
           rep == [a \in Aps |-> IF report[a] < 0 THEN -1 ELSE Later(report[a], d)]
<1>1. /\ up \subseteq Nodes /\ freq \in [Nodes -> Freqs] /\ listed \in BOOLEAN
      /\ here \in BOOLEAN /\ answered \in BOOLEAN /\ band \in Freqs
      /\ failed_requests \in 0 .. FailMod - 1 /\ age_request \in 0 .. AgeCap
      /\ uptime \in 0 .. AgeCap /\ report \in Reports /\ row \in 0 .. NNodes + 1
  BY Types DEF IInv
<1>2. Own \in Nodes /\ d \in Nat /\ NNodes \in Nat /\ FailMod \in Nat \ {0} /\ AgeCap \in Nat
  BY HearingAssumption
<1>3. fr \in [Nodes -> Freqs] /\ f \in Freqs /\ fr[Own] = f
  BY <1>1, <1>2, FreqType
<1>4. now \in 0 .. AgeCap /\ Later(age_request, d) \in 0 .. AgeCap
  BY <1>1, <1>2, LaterType
<1>5. rep \in Reports /\ NoReport \in Reports
  BY <1>1, <1>2, ReportTypes
<1>6. /\ Own \in up /\ freq' = fr /\ uptime' = now /\ here' = (here \/ listed)
      /\ UNCHANGED <<up, listed>>
  BY DEF Poll
<1>7. CASE listed /\ ~here
  <2>1. usteer_beacon_request_check(fr, f, 0, now, FALSE, NoReport, signal)
    BY <1>7 DEF Poll
  <2>2. ASSUME Contiguous, fr = freq, row > 0 PROVE Turn(up, fr, f, row)
    <3> HIDE DEF fr
    <3>1. row \in Nat
      BY <1>1, <1>2
    <3>2. row <= Cardinality(Bands(up, fr))
      BY <2>2 DEF IInv, NotFlooded
    <3>3. QED
      BY <1>1, <1>3, <1>6, <3>1, <3>2, OwnTurn
  <2>3. 0 \in 0 .. FailMod - 1 /\ here' = TRUE
    BY <1>6, <1>7, ZeroTypes
  <2> HIDE DEF fr, now
  <2>4. QED
    BY <1>3, <1>4, <1>5, <1>6, <2>1, <2>2, <2>3, CheckInv
<1>8. CASE listed /\ here
  <2>1. usteer_beacon_request_check(fr, band, failed_requests, Later(age_request, d),
                                    answered, rep, signal)
    BY <1>8 DEF Poll
  <2>2. Contiguous /\ fr = freq /\ row > 0 => Turn(up, fr, band, row)
    BY <1>8 DEF IInv, TurnInv
  <2>3. here' = TRUE
    BY <1>6, <1>8
  <2> HIDE DEF fr, now, rep
  <2>4. QED
    BY <1>1, <1>3, <1>4, <1>5, <1>6, <2>1, <2>2, <2>3, CheckInv
<1>9. CASE ~listed
  <2>1. /\ age_request' = IF here THEN Later(age_request, d) ELSE 0
        /\ report' = rep /\ row' = IF fr = freq THEN row ELSE 0
        /\ UNCHANGED <<band, failed_requests, answered>> /\ here' = here
    BY <1>1, <1>6, <1>9 DEF Poll
  <2> HIDE DEF fr, now, rep
  <2>2. TypeOK'
    <3>1. age_request' \in 0 .. AgeCap /\ row' \in 0 .. NNodes + 1
      BY <1>1, <1>2, <1>4, <2>1
    <3>2. QED
      BY <1>1, <1>3, <1>4, <1>5, <1>6, <2>1, <3>1 DEF TypeOK, Freqs, Reports
  <2>3. CASE fr = freq
    BY <1>6, <2>1, <2>2, <2>3 DEF IInv, NotFlooded, TurnInv, Contiguous
  <2>4. CASE fr # freq
    BY <2>1, <2>2, <2>4, RowZero DEF IInv
  <2>5. QED
    BY <2>3, <2>4
<1>10. QED
  BY <1>1, <1>7, <1>8, <1>9

\* Another node is polled, registered or removed: a new count begins.
LEMMA NodesInv ==
  ASSUME IInv, NEW n \in Nodes,
         \/ \E f \in Channels[n] : PollOther(n, f)
         \/ Register(n)
         \/ Remove(n)
  PROVE  IInv'
<1>1. /\ up \subseteq Nodes /\ freq \in [Nodes -> Freqs] /\ listed \in BOOLEAN
      /\ here \in BOOLEAN /\ answered \in BOOLEAN /\ band \in Freqs
      /\ failed_requests \in 0 .. FailMod - 1 /\ age_request \in 0 .. AgeCap
      /\ uptime \in 0 .. AgeCap /\ report \in Reports /\ row \in 0 .. NNodes + 1
  BY Types DEF IInv
<1>2. row' = 0
  BY DEF PollOther, Register, Remove
<1>3. freq' \in [Nodes -> Freqs] /\ up' \subseteq Nodes /\ uptime' = uptime
  <2>1. \E f \in Channels[n] \cup {0} : freq' = [freq EXCEPT ![n] = f]
    BY DEF PollOther, Register, Remove
  <2>2. freq' \in [Nodes -> Freqs]
    BY <1>1, <2>1, FreqType
  <2>3. QED
    BY <1>1, <2>2 DEF PollOther, Register, Remove
<1>4. \/ UNCHANGED <<entry, listed>>
      \/ EntryGone /\ listed' = FALSE
  BY DEF PollOther, Register, Remove
<1>5. 0 \in 0 .. FailMod - 1 /\ 0 \in 0 .. AgeCap /\ 0 \in Freqs /\ 0 \in 0 .. NNodes + 1
  BY ZeroTypes, FreqsAre
<1>6. /\ listed' \in BOOLEAN /\ here' \in BOOLEAN /\ answered' \in BOOLEAN /\ band' \in Freqs
      /\ failed_requests' \in 0 .. FailMod - 1 /\ age_request' \in 0 .. AgeCap
      /\ report' \in Reports
  BY <1>1, <1>4, <1>5, ReportTypes DEF entry, EntryGone
<1>7. TypeOK'
  BY <1>1, <1>2, <1>3, <1>5, <1>6 DEF TypeOK, Freqs, Reports
<1>8. QED
  BY <1>2, <1>7, RowZero DEF IInv

\* The client's side, and steps that leave its entry and the nodes alone.
LEMMA ClientInv ==
  ASSUME IInv, Associate \/ Leave \/ (\E a \in Aps : Report(a)) \/ UNCHANGED vars
  PROVE  IInv'
<1>1. UNCHANGED <<up, freq, here, band, row, age_request, uptime, failed_requests>>
  BY DEF Associate, Leave, Report, vars, entry
<1>2. TypeOK'
  <2>1. listed' \in BOOLEAN /\ answered' \in BOOLEAN
    BY Zenon DEF Associate, Leave, Report, vars, entry, IInv, TypeOK
  <2>2. report' \in Reports
    <3>1. report \in Reports /\ 0 \in -1 .. AgeCap
      BY HearingAssumption DEF IInv, TypeOK, Reports
    <3>2. ASSUME NEW a \in Aps, Report(a) PROVE report' \in Reports
      <4>1. ExpiredRemoved(report) \in Reports
        BY <3>1, ReportTypes
      <4>2. report' = [ExpiredRemoved(report) EXCEPT ![a] = 0]
        BY <3>2 DEF Report
      <4>3. QED
        BY <3>1, <4>1, <4>2 DEF Reports
    <3>3. QED
      BY <3>1, <3>2 DEF Associate, Leave, vars, entry
  <2>3. QED
    BY <1>1, <2>1, <2>2 DEF IInv, TypeOK, Reports
<1>3. QED
  BY <1>1, <1>2 DEF IInv, NotFlooded, TurnInv, Contiguous

\* A new entry starts at Own's band, and one that is gone has no turn.
LEMMA EntryInv ==
  ASSUME IInv, Heard \/ Forget
  PROVE  IInv'
<1>1. /\ up \subseteq Nodes /\ freq \in [Nodes -> Freqs] /\ row \in Nat
      /\ uptime \in 0 .. AgeCap /\ Own \in Nodes
  BY Types, HearingAssumption DEF IInv
<1>2. UNCHANGED <<up, freq, row, listed, uptime>>
  BY DEF Heard, Forget
<1>3. NotFlooded'
  BY <1>2 DEF IInv, NotFlooded, Contiguous
<1>4. CASE Heard
  <2>1. /\ Own \in up /\ here' = TRUE /\ band' = freq[Own] /\ age_request' = uptime
        /\ UNCHANGED <<failed_requests, answered, report>>
    BY <1>4 DEF Heard
  <2>2. TypeOK'
    BY <1>1, <1>2, <2>1 DEF IInv, TypeOK, Freqs
  <2>3. ASSUME Contiguous' PROVE Turn(up, freq, freq[Own], row)
    <3>1. row <= Cardinality(Bands(up, freq))
      BY <1>2, <2>3 DEF IInv, NotFlooded, Contiguous
    <3>2. QED
      BY <1>1, <2>1, <3>1, OwnTurn
  <2>4. QED
    BY <1>2, <1>3, <2>1, <2>2, <2>3 DEF IInv, TurnInv
<1>5. CASE Forget
  <2>1. EntryGone
    BY <1>5 DEF Forget
  <2>2. /\ band' \in Freqs /\ failed_requests' \in 0 .. FailMod - 1
        /\ age_request' \in 0 .. AgeCap /\ report' \in Reports
    BY <2>1, ZeroTypes, FreqsAre, ReportTypes DEF EntryGone
  <2>3. TypeOK'
    BY <1>2, <2>1, <2>2 DEF IInv, TypeOK, EntryGone, Freqs, Reports
  <2>4. QED
    BY <1>3, <2>1, <2>3 DEF IInv, TurnInv, EntryGone
<1>6. QED
  BY <1>4, <1>5

-----------------------------------------------------------------------------
(* The theorems.                                                            *)

LEMMA InitInv == Init => IInv
<1> SUFFICES ASSUME Init PROVE IInv
  OBVIOUS
<1>1. TypeOK
  <2>1. freq \in [Nodes -> Freqs] /\ band \in Freqs
    BY FreqsAre DEF Init
  <2>2. report \in Reports
    BY ReportTypes DEF Init
  <2>3. up \subseteq Nodes
    BY DEF Init
  <2>4. QED
    BY <2>1, <2>2, <2>3, ZeroTypes DEF Init, TypeOK, Freqs, Reports
<1>2. Cardinality(Bands(up, freq)) \in Nat
  BY <1>1, BandCounts DEF TypeOK
<1>3. QED
  BY <1>1, <1>2 DEF Init, IInv, NotFlooded, TurnInv

LEMMA NextInv == IInv /\ [Next]_vars => IInv'
<1> SUFFICES ASSUME IInv, [Next]_vars PROVE IInv'
  OBVIOUS
<1>1. CASE OwnPoll
  BY <1>1, PollInv DEF OwnPoll
<1>2. CASE \E n \in Nodes : Register(n) \/ Remove(n) \/ \E f \in Channels[n] : PollOther(n, f)
  BY <1>2, NodesInv
<1>3. CASE Associate \/ Leave \/ (\E a \in Aps : Report(a)) \/ UNCHANGED vars
  BY <1>3, ClientInv
<1>4. CASE Heard \/ Forget
  BY <1>4, EntryInv
<1>5. QED
  BY <1>1, <1>2, <1>3, <1>4 DEF Next

\* hearing_map.c:197-250: the inductive invariant always holds.
THEOREM InvariantHolds == Spec => []IInv
<1>1. IInv /\ [Next]_vars => IInv'
  BY NextInv
<1>2. QED
  BY <1>1, InitInv, PTL DEF Spec

\* Types of the entry, its reports and its counters: failed_requests wraps as a uint8_t
\* does, and the band to ask for is 0 or one that hostapd uses (hearing_map.c:173-250).
THEOREM TypeCorrect == Spec => []TypeOK
<1>1. IInv => TypeOK
  BY DEF IInv
<1>2. QED
  BY <1>1, InvariantHolds, PTL

\* hearing_map.c:197-250: as long as nodes of one band are neighbours, a client is back
\* at its node's own band after no more requests in a row than there are bands.
THEOREM ClientsAreNotFlooded == Spec => []NotFlooded
<1>1. IInv => NotFlooded
  BY DEF IInv
<1>2. QED
  BY <1>1, InvariantHolds, PTL
=============================================================================

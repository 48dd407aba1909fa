-------------------------- MODULE TwapOracle_proofs --------------------------
(***************************************************************************)
(* The ring of rate observations is a true and ordered record, for any     *)
(* rates, any stretch of time and any number of slots.                     *)
(*                                                                         *)
(* What is stored at a slot is right because it was right when it was the  *)
(* newest, and truth is never rewritten.  That the slot taken for the      *)
(* oldest is the oldest needs the order of the whole ring, and the order   *)
(* needs that growth happens only at the last slot (RingOrdered).          *)
(***************************************************************************)
EXTENDS TwapOracle, WellFoundedInduction, TLAPS

ObservationType == [block_timestamp : Nat, cumulative : Nat, initialized : BOOLEAN]

-----------------------------------------------------------------------------
(* Arithmetic of the ring *)

\* Multiplication in Nat is closed; a factor cancels.
LEMMA MulNat == \A a, b \in Nat : a * b \in Nat
  OBVIOUS

LEMMA MulDiv == \A a \in Nat, c \in Nat \ {0} : (a * c) \div c = a
  OBVIOUS

\* A nonempty set of natural numbers has a least element.
LEMMA LeastNumber ==
  ASSUME NEW T \in SUBSET Nat, T # {}
  PROVE  \E n \in T : \A m \in T : n <= m
<1> DEFINE R == {p \in Nat \X Nat : p[1] < p[2]}
<1>1. IsWellFoundedOn(R, Nat)
  BY NatLessThanWellFounded DEF OpToRel
<1>2. \A n, m \in Nat : m < n => <<m, n>> \in R
  OBVIOUS
<1> HIDE DEF R
<1>3. PICK n \in T : \A m \in T : ~(<<m, n>> \in R)
  BY <1>1, WFMin
<1>4. ASSUME NEW m \in T PROVE n <= m
  <2>1. n \in Nat /\ m \in Nat
    OBVIOUS
  <2>2. ~(m < n)
    BY <1>2, <1>3, <2>1
  <2> QED BY <2>1, <2>2
<1> QED BY <1>4

\* The slot after i in a ring of n.
LEMMA NextSlot ==
  ASSUME NEW n \in Nat \ {0}, NEW i \in 0..(n - 1)
  PROVE  (i + 1) % n = IF i = n - 1 THEN 0 ELSE i + 1
<1>1. CASE i = n - 1
  <2>1. n % n = 0
    BY SMT
  <2> QED BY <1>1, <2>1
<1>2. CASE i # n - 1
  <2>1. i + 1 \in 0..(n - 1)
    BY <1>2
  <2> QED BY <1>2, <2>1, SMT
<1> QED BY <1>1, <1>2

\* A rate kept over a time adds a natural number.
LEMMA RateNat ==
  ASSUME NEW r \in Nat, NEW a \in Nat, NEW b \in Nat, a <= b
  PROVE  r * (b - a) \in Nat
<1>1. b - a \in Nat
  OBVIOUS
<1> QED BY <1>1, SMT

LEMMA RatesNat == ASSUME Consistent PROVE last_ln_implied_rate \in Nat
BY RatesAssumption DEF Consistent, TypeOK

-----------------------------------------------------------------------------
(* The invariant *)

\* At deployment the ring is one observation of nothing.
LEMMA InitConsistent == Init => Consistent
<1> SUFFICES ASSUME Init PROVE Consistent
  OBVIOUS
<1>1. /\ 0 \in Slots /\ StartTime \in Times /\ StartTime \in Nat
      /\ \A i \in Slots : i \in Nat /\ (i > 0 => ~observations[i].initialized)
      /\ observations[0] = Obs(StartTime, 0, TRUE)
  BY TimeAssumption, CardinalityAssumption
     DEF Init, Slots, Times, initialize, Untouched, Obs
<1>2. TypeOK
  BY <1>1, TimeAssumption, CardinalityAssumption
     DEF Init, TypeOK, Slots, initialize, Untouched, Obs
<1>3. Written = {0}
  <2>1. \A i \in Slots : i < 1 <=> i = 0
    BY <1>1
  <2>2. observation_cardinality = 1 /\ observations[0].initialized
    BY <1>1 DEF Init, Obs
  <2>3. Written = {i \in Slots : i < 1 /\ observations[i].initialized}
    BY <2>2 DEF Written
  <2>4. Written = {i \in Slots : i = 0 /\ observations[i].initialized}
    BY <2>1, <2>3
  <2> QED BY <1>1, <2>2, <2>4
<1>4. ObservationsTrue
  BY <1>1, <1>3 DEF Init, ObservationsTrue, newest, Obs
<1>5. RingOrdered
  BY <1>1, <1>3 DEF Init, RingOrdered, Precedes, Obs
<1>6. OldestIsOldest
  <2>1. (observation_index + 1) % observation_cardinality = 0
    BY NextSlot DEF Init
  <2>2. oldest = observations[0]
    BY <2>1 DEF oldest, get_oldest_observation_index, Init
  <2> QED BY <1>1, <1>3, <2>2 DEF OldestIsOldest, Obs
<1>7. SegmentsStraight
  <2>1. Written \ {observation_index} = {}
    BY <1>3 DEF Init
  <2>2. newest = Obs(StartTime, 0, TRUE)
    BY <1>1 DEF Init, newest
  <2>3. Straight(newest, now, last_ln_implied_rate)
    <3> SUFFICES ASSUME NEW t \in StartTime..StartTime
                 PROVE  truth[t] = 0 + 0 * (t - StartTime)
      BY <2>2 DEF Init, Straight, Obs
    <3>1. t = StartTime
      BY <1>1
    <3> QED BY <1>1, <3>1 DEF Init
  <2> QED BY <2>1, <2>3 DEF SegmentsStraight
<1> QED BY <1>2, <1>4, <1>5, <1>6, <1>7 DEF Consistent

\* The slot taken for the oldest follows from the order of the ring.
LEMMA OldestOfOrdered ==
  ASSUME TypeOK, RingOrdered
  PROVE  OldestIsOldest
<1> DEFINE n == observation_cardinality
           x == observation_index
           s == (x + 1) % n
<1>1. /\ n \in Nat \ {0} /\ x \in 0..(n - 1) /\ n \in 1..MAX_CARDINALITY
      /\ \A i \in Written : i \in 0..(n - 1)
      /\ \A i \in Written : observations[i].block_timestamp \in Nat
  BY CardinalityAssumption DEF TypeOK, RingOrdered, Slots, Written
<1>2. s = IF x = n - 1 THEN 0 ELSE x + 1
  BY <1>1, NextSlot
<1>3. s \in Slots /\ 0 \in Slots /\ s < n
  BY <1>1, <1>2, CardinalityAssumption DEF Slots
<1>4. CASE observations[s].initialized
  <2>1. oldest = observations[s]
    BY <1>4 DEF oldest, get_oldest_observation_index
  <2>2. s \in Written
    BY <1>3, <1>4 DEF Written
  <2>3. ASSUME NEW i \in Written, i # s PROVE Precedes(s, i)
    BY <1>1, <1>2, <2>3 DEF Precedes
  <2> QED BY <1>1, <1>4, <2>1, <2>2, <2>3 DEF OldestIsOldest, RingOrdered
<1>5. CASE ~observations[s].initialized
  <2>1. oldest = observations[0]
    BY <1>5 DEF oldest, get_oldest_observation_index
  <2>2. 0 \in Written
    BY <1>1, <1>3 DEF RingOrdered, Written
  <2>3. \A i \in Written : i <= x
    <3>1. s \in 0..(n - 1) /\ s \notin Written
      BY <1>1, <1>2, <1>5 DEF Written
    <3> QED BY <3>1 DEF RingOrdered
  <2>4. ASSUME NEW i \in Written, i # 0 PROVE Precedes(0, i)
    BY <1>1, <2>3, <2>4 DEF Precedes
  <2> QED BY <1>1, <2>1, <2>2, <2>4 DEF OldestIsOldest, RingOrdered, Written
<1> QED BY <1>4, <1>5

\* A second update in one second changes the rate only.
LEMMA SameSecond ==
  ASSUME Consistent, NEW r \in LnRates, _update_implied_rate(r),
         newest.block_timestamp = now
  PROVE  TypeOK' /\ ObservationsTrue' /\ RingOrdered'
<1>1. UNCHANGED <<observations, observation_index, observation_cardinality,
                  observation_cardinality_next, now, truth>>
  <2>1. observation_index \in DOMAIN observations
    BY DEF Consistent, TypeOK
  <2> QED BY <2>1 DEF _update_implied_rate, write, newest, Consistent, TypeOK
<1>2. last_ln_implied_rate' = r /\ r \in Nat
  BY RatesAssumption DEF _update_implied_rate
<1>3. TypeOK'
  BY <1>1, <1>2 DEF Consistent, TypeOK
<1>4. RingOrdered'
  BY <1>1 DEF Consistent, RingOrdered, Precedes, Written
<1>5. ObservationsTrue'
  <2>1. now \in Nat /\ last_ln_implied_rate \in Nat /\ newest.cumulative \in Nat
    BY TimeAssumption, RatesNat DEF Consistent, TypeOK, Times, newest
  <2>2. last_ln_implied_rate * (now - now) = 0 /\ r * (now - now) = 0
    BY <1>2, <2>1
  <2>3. truth[now] = newest.cumulative + 0
    BY <2>2 DEF Consistent, ObservationsTrue
  <2> QED BY <1>1, <1>2, <2>1, <2>2, <2>3
          DEF Consistent, ObservationsTrue, newest, Written
<1> QED BY <1>3, <1>4, <1>5

\* No observation is later than the newest.
LEMMA NewestIsNewest ==
  ASSUME Consistent
  PROVE  /\ observation_index \in Written
         /\ \A i \in Written : observations[i].block_timestamp <= newest.block_timestamp
<1>1. observation_index \in Written
  BY DEF Consistent, TypeOK, RingOrdered, ObservationsTrue, newest, Written
<1>2. \A i \in Written : i \in Nat /\ observations[i].block_timestamp \in Nat
  BY CardinalityAssumption DEF Consistent, TypeOK, Written, Slots
<1>3. ASSUME NEW i \in Written, i # observation_index
      PROVE  Precedes(i, observation_index)
  BY <1>1, <1>2, <1>3 DEF Precedes
<1> QED BY <1>1, <1>2, <1>3 DEF Consistent, RingOrdered, newest

\* An update in a later second writes one slot: the next of the ring, or the
\* first of those the ring grows by.
NextWritten ==
  /\ newest.block_timestamp < now
  /\ observation_index' \in Slots
  /\ observations' = [observations EXCEPT ![observation_index'] =
                        Obs(now, truth[now], TRUE)]
  /\ \/ /\ observation_cardinality' = observation_cardinality
        /\ observation_index' = IF observation_index = observation_cardinality - 1
                                THEN 0 ELSE observation_index + 1
     \/ /\ observation_cardinality' = observation_cardinality_next
        /\ observation_cardinality < observation_cardinality_next
        /\ observation_index = observation_cardinality - 1
        /\ observation_index' = observation_cardinality

\* The ring of the code does so.
LEMMA WriteFacts ==
  ASSUME Consistent, NEW r \in LnRates, _update_implied_rate(r),
         newest.block_timestamp # now
  PROVE  NextWritten
<1> DEFINE n == observation_cardinality
           m == observation_cardinality_next
           x == observation_index
           g == CardinalityAfter(x, n, m)
<1>1. /\ n \in Nat \ {0} /\ m \in Nat \ {0} /\ x \in 0..(n - 1)
      /\ n <= m /\ m <= MAX_CARDINALITY /\ MAX_CARDINALITY \in Nat
  BY CardinalityAssumption DEF Consistent, TypeOK, RingOrdered, Slots
<1>2. observations[x].block_timestamp # now
  BY DEF newest
<1>3. /\ observation_cardinality' = g
      /\ observation_index' = (x + 1) % g
      /\ observations' = [observations EXCEPT ![(x + 1) % g] =
                            transform(newest, now, last_ln_implied_rate)]
  BY <1>2 DEF _update_implied_rate, write, newest, RateSoFar
<1>4. transform(newest, now, last_ln_implied_rate) = Obs(now, truth[now], TRUE)
  BY DEF transform, Consistent, ObservationsTrue
<1>5. newest.block_timestamp < now
  <2>1. newest.block_timestamp \in StartTime..now
    BY NewestIsNewest DEF Consistent, ObservationsTrue, newest
  <2> QED BY <2>1, TimeAssumption DEF Consistent, TypeOK, Times
<1>6. CASE m > n /\ x = n - 1
  <2>1. g = m
    BY <1>6 DEF CardinalityAfter
  <2>2. (x + 1) % g = n
    BY <1>1, <1>6, <2>1, SMT
  <2>3. n \in Slots
    BY <1>1, <1>6 DEF Slots
  <2> QED BY <1>1, <1>3, <1>4, <1>5, <1>6, <2>1, <2>2, <2>3 DEF NextWritten
<1>7. CASE ~(m > n /\ x = n - 1)
  <2>1. g = n
    BY <1>7 DEF CardinalityAfter
  <2>2. (x + 1) % g = IF x = n - 1 THEN 0 ELSE x + 1
    BY <1>1, <2>1, NextSlot
  <2>3. (x + 1) % g \in Slots
    BY <1>1, <2>2 DEF Slots
  <2> QED BY <1>1, <1>3, <1>4, <1>5, <2>1, <2>2, <2>3 DEF NextWritten
<1> QED BY <1>6, <1>7

LEMMA LaterSecond ==
  ASSUME Consistent, NEW r \in LnRates, _update_implied_rate(r),
         newest.block_timestamp # now
  PROVE  TypeOK' /\ ObservationsTrue' /\ RingOrdered'
<1> DEFINE n == observation_cardinality
           x == observation_index
           y == observation_index'
<1>0. NextWritten
  BY WriteFacts, Zenon
<1>1. /\ n \in Nat \ {0} /\ x \in 0..(n - 1) /\ y \in Nat /\ y \in Slots
      /\ n <= observation_cardinality_next
      /\ observation_cardinality_next \in Nat
      /\ observation_cardinality_next <= MAX_CARDINALITY
      /\ MAX_CARDINALITY \in Nat
  BY CardinalityAssumption, <1>0 DEF NextWritten, Consistent, TypeOK, RingOrdered, Slots
<1>2. /\ UNCHANGED <<now, observation_cardinality_next, truth>>
      /\ last_ln_implied_rate' = r /\ r \in Nat /\ now \in Nat /\ now \in Times
      /\ truth[now] \in Nat
  BY RatesAssumption, TimeAssumption
     DEF _update_implied_rate, Consistent, TypeOK, Times
<1>3. /\ observations'[y] = Obs(now, truth[now], TRUE)
      /\ \A i \in Slots : i # y => observations'[i] = observations[i]
  BY <1>0 DEF NextWritten, Consistent, TypeOK
<1>4. TypeOK'
  <2>1. Obs(now, truth[now], TRUE) \in ObservationType
    BY <1>2 DEF Obs, ObservationType
  <2>2. observations' \in [Slots -> ObservationType]
    BY <2>1, <1>0 DEF NextWritten, Consistent, TypeOK, ObservationType
  <2>3. observation_cardinality' \in 1..MAX_CARDINALITY
    BY <1>1, <1>0 DEF NextWritten
  <2> QED BY <1>1, <1>2, <2>2, <2>3 DEF Consistent, TypeOK, ObservationType
<1>5. /\ \A i \in Slots : i \in Nat
      /\ \A i \in Written : i \in Slots /\ i \in 0..(n - 1)
      /\ \A i \in Written : observations[i].initialized
  BY <1>1 DEF Slots, Written
<1>6. \A i \in Written' : i \in Slots /\ (i # y => i \in Written)
  <2> SUFFICES ASSUME NEW i \in Written' PROVE i \in Slots /\ (i # y => i \in Written)
    OBVIOUS
  <2>1. i \in Slots /\ observations'[i].initialized
    BY DEF Written
  <2>2. ASSUME i # y PROVE i \in Written
    <3>1. observations[i].initialized
      BY <1>3, <2>1, <2>2
    <3>2. ~(i >= n)
      BY <2>1, <3>1 DEF Consistent, RingOrdered
    <3> QED BY <1>1, <1>5, <2>1, <3>1, <3>2 DEF Written
  <2> QED BY <2>1, <2>2
<1>7. newest' = Obs(now, truth[now], TRUE)
  BY <1>3 DEF newest
<1>8. ObservationsTrue'
  <2>1. r * (now - now) = 0
    BY <1>2
  <2>2. \A i \in Written' :
          /\ observations'[i].block_timestamp \in StartTime..now
          /\ observations'[i].cumulative = truth[observations'[i].block_timestamp]
    <3> TAKE i \in Written'
    <3>1. CASE i = y
      BY <1>2, <1>3, <3>1, TimeAssumption DEF Obs, Times
    <3>2. CASE i # y
      BY <1>3, <1>6, <3>2 DEF Consistent, ObservationsTrue
    <3> QED BY <3>1, <3>2
  <2> QED BY <1>2, <1>7, <2>1, <2>2 DEF ObservationsTrue, Obs
<1>9. \A i \in Written : observations[i].block_timestamp < now
  <2>1. \A i \in Written : observations[i].block_timestamp \in Nat
    BY <1>5 DEF Consistent, TypeOK
  <2>2. newest.block_timestamp \in Nat
    BY DEF Consistent, TypeOK, newest
  <2> QED BY <1>2, <2>1, <2>2, NewestIsNewest, <1>0 DEF NextWritten
<1>10. \A i, j \in Written' : Precedes(i, j)' =>
         observations'[i].block_timestamp < observations'[j].block_timestamp
  <2> SUFFICES ASSUME NEW i \in Written', NEW j \in Written', Precedes(i, j)'
               PROVE  observations'[i].block_timestamp
                        < observations'[j].block_timestamp
    OBVIOUS
  <2>1. i # y
    BY <1>1, <1>5, <1>6 DEF Precedes
  <2>2. CASE j = y
    BY <1>3, <1>6, <1>9, <2>1, <2>2 DEF Obs
  <2>3. CASE j # y
    <3>1. i \in Written /\ j \in Written
      BY <1>6, <2>1, <2>3
    <3>2. Precedes(i, j)
      BY <1>1, <1>5, <2>1, <2>3, <3>1, <1>0 DEF NextWritten, Precedes
    <3> QED BY <1>3, <1>5, <2>1, <2>3, <3>1, <3>2 DEF Consistent, RingOrdered
  <2> QED BY <2>2, <2>3
<1>11. /\ y < observation_cardinality'
       /\ observation_cardinality' <= observation_cardinality_next'
       /\ n <= observation_cardinality'
  BY <1>1, <1>2, <1>0 DEF NextWritten
<1>12. \A i \in Slots : i >= observation_cardinality' => ~observations'[i].initialized
  <2> SUFFICES ASSUME NEW i \in Slots, i >= observation_cardinality'
               PROVE  ~observations'[i].initialized
    OBVIOUS
  <2>1. i # y /\ i >= n
    BY <1>1, <1>5, <1>11, <1>4 DEF TypeOK
  <2> QED BY <1>3, <2>1 DEF Consistent, RingOrdered
<1>13. \A i \in 0..y : observations'[i].initialized
  <2> SUFFICES ASSUME NEW i \in 0..y PROVE observations'[i].initialized
    OBVIOUS
  <2>1. CASE i = y
    BY <1>3, <2>1 DEF Obs
  <2>2. CASE i # y
    <3>1. i \in 0..x /\ i \in Slots
      BY <1>1, <2>2, <1>0 DEF NextWritten, Slots
    <3> QED BY <1>3, <2>2, <3>1 DEF Consistent, RingOrdered
  <2> QED BY <2>1, <2>2
<1>14. \/ \A i \in Written' : i <= y
       \/ \A i \in 0..(observation_cardinality' - 1) : i \in Written'
  <2>1. CASE y = 0
    <3>1. x = n - 1 /\ observation_cardinality' = n
      BY <1>1, <2>1, <1>0 DEF NextWritten
    <3>2. \A i \in 0..(n - 1) : i \in Slots /\ observations'[i].initialized
      <4> TAKE i \in 0..(n - 1)
      <4>1. i \in Slots /\ observations[i].initialized
        BY <1>1, <3>1 DEF Slots, Consistent, RingOrdered
      <4> QED BY <1>3, <4>1 DEF Obs
    <3>3. \A i \in 0..(n - 1) : i \in Written'
      BY <1>1, <3>1, <3>2 DEF Written
    <3> QED BY <3>1, <3>3
  <2>2. CASE y = x + 1 /\ \A i \in Written : i <= x
    BY <1>1, <1>5, <1>6, <2>2
  <2>3. CASE /\ y = x + 1 /\ observation_cardinality' = n
             /\ \A i \in 0..(n - 1) : i \in Written
    <3>1. \A i \in 0..(n - 1) : i \in Slots /\ observations'[i].initialized
      BY <1>3, <1>5, <2>3 DEF Obs
    <3> QED BY <1>1, <2>3, <3>1 DEF Written
  <2>4. CASE y = n /\ x = n - 1
    BY <1>1, <1>5, <1>6, <2>4
  <2> QED BY <1>1, <2>1, <2>2, <2>3, <2>4, <1>0 DEF NextWritten, Consistent, RingOrdered
<1>15. RingOrdered'
  BY <1>10, <1>11, <1>12, <1>13, <1>14 DEF RingOrdered
<1> QED BY <1>4, <1>8, <1>15

\* The slots a larger limit prepares are outside the ring.
LEMMA GrowStep ==
  ASSUME Consistent, NEW k \in 0..MAX_CARDINALITY,
         increase_observations_cardinality_next(k)
  PROVE  TypeOK' /\ ObservationsTrue' /\ RingOrdered'
<1> DEFINE n == observation_cardinality
           m == observation_cardinality_next
<1>1. /\ n \in Nat \ {0} /\ m \in Nat \ {0} /\ n <= m /\ m <= MAX_CARDINALITY
      /\ k \in Nat /\ k <= MAX_CARDINALITY /\ MAX_CARDINALITY \in Nat
      /\ observation_index \in 0..(n - 1)
      /\ \A i \in Slots : i \in Nat
  BY CardinalityAssumption DEF Consistent, TypeOK, RingOrdered, Slots
<1>2. /\ UNCHANGED <<now, last_ln_implied_rate, observation_index,
                     observation_cardinality, truth>>
      /\ m' = IF k > m THEN k ELSE m
      /\ observations' = [i \in DOMAIN observations |->
                            IF m <= i /\ i < k THEN Prewarmed ELSE observations[i]]
  BY DEF increase_observations_cardinality_next, grow
<1>3. DOMAIN observations = Slots
  BY DEF Consistent, TypeOK
<1>4. TypeOK'
  <2>1. Prewarmed \in ObservationType
    BY DEF Prewarmed, Obs, ObservationType
  <2>2. observations' \in [Slots -> ObservationType]
    BY <1>2, <1>3, <2>1 DEF Consistent, TypeOK, ObservationType
  <2>3. m' \in 1..MAX_CARDINALITY
    BY <1>1, <1>2
  <2> QED BY <1>2, <2>2, <2>3 DEF Consistent, TypeOK, ObservationType
<1>5. \A i \in Slots : i < n => observations'[i] = observations[i]
  BY <1>1, <1>2, <1>3
<1>6. \A i \in Slots : i >= n => ~observations'[i].initialized
  <2> SUFFICES ASSUME NEW i \in Slots, i >= n PROVE ~observations'[i].initialized
    OBVIOUS
  <2>1. CASE m <= i /\ i < k
    BY <1>2, <1>3, <2>1 DEF Prewarmed, Obs
  <2>2. CASE ~(m <= i /\ i < k)
    BY <1>2, <1>3, <2>2 DEF Consistent, RingOrdered
  <2> QED BY <2>1, <2>2
<1>7. Written' = Written /\ \A i \in Written : observations'[i] = observations[i]
  BY <1>2, <1>5 DEF Written
<1>8. newest' = newest
  BY <1>1, <1>2, <1>5 DEF newest, Consistent, TypeOK
<1>9. ObservationsTrue'
  BY <1>2, <1>7, <1>8 DEF Consistent, ObservationsTrue
<1>10. RingOrdered'
  <2>1. \A i \in 0..observation_index : observations'[i].initialized
    <3> TAKE i \in 0..observation_index
    <3>1. i \in Slots /\ i < n
      BY <1>1 DEF Slots
    <3> QED BY <1>5, <3>1 DEF Consistent, RingOrdered
  <2>2. m <= m' /\ n <= m'
    BY <1>1, <1>2
  <2>3. \A i, j \in Written : Precedes(i, j)' = Precedes(i, j)
    BY <1>2 DEF Precedes
  <2> QED BY <1>2, <1>6, <1>7, <2>1, <2>2, <2>3 DEF Consistent, RingOrdered
<1> QED BY <1>4, <1>9, <1>10

\* Time passes at the stored rate.
LEMMA TickStep ==
  ASSUME Consistent, Tick
  PROVE  TypeOK' /\ ObservationsTrue' /\ RingOrdered'
<1>1. /\ now \in Nat /\ now \in Times /\ now < MaxTime /\ now + 1 \in Times
      /\ last_ln_implied_rate \in Nat /\ StartTime \in Nat
      /\ truth[now] \in Nat
  BY TimeAssumption, RatesNat DEF Tick, Consistent, TypeOK, Times
<1>2. /\ now' = now + 1
      /\ truth' = [truth EXCEPT ![now + 1] = truth[now] + last_ln_implied_rate]
      /\ UNCHANGED <<last_ln_implied_rate, observations, observation_index,
                     observation_cardinality, observation_cardinality_next>>
  BY DEF Tick
<1>3. TypeOK'
  <2>1. truth[now] + last_ln_implied_rate \in Nat
    BY <1>1
  <2> QED BY <1>1, <1>2, <2>1 DEF Consistent, TypeOK
<1>4. RingOrdered'
  BY <1>2 DEF Consistent, RingOrdered, Precedes, Written
<1>5. \A t \in StartTime..now : truth'[t] = truth[t]
  BY <1>1, <1>2 DEF Consistent, TypeOK, Times
<1>6. truth'[now + 1] = truth[now] + last_ln_implied_rate
  BY <1>1, <1>2 DEF Consistent, TypeOK
<1>7. ObservationsTrue'
  <2> DEFINE s == newest.block_timestamp
             c == newest.cumulative
             l == last_ln_implied_rate
  <2>1. s \in StartTime..now /\ s \in Nat /\ c \in Nat /\ l \in Nat
    BY <1>1, NewestIsNewest DEF Consistent, TypeOK, ObservationsTrue, newest
  <2>2. l * (now + 1 - s) = l * (now - s) + l
    <3>1. now - s \in Nat /\ now + 1 - s = (now - s) + 1
      BY <1>1, <2>1
    <3> HIDE DEF s, l
    <3>2. \A a \in Nat, b \in Nat : b * (a + 1) = b * a + b
      BY SMT
    <3> QED BY <2>1, <3>1, <3>2
  <2>3. truth[now] = c + l * (now - s)
    BY DEF Consistent, ObservationsTrue
  <2>4. truth'[now + 1] = c + l * (now + 1 - s)
    <3>1. l * (now - s) \in Nat
      BY <1>1, <2>1, RateNat
    <3> HIDE DEF s, c, l
    <3> QED BY <1>6, <2>1, <2>2, <2>3, <3>1 DEF l
  <2>5. \A i \in Written :
          /\ observations[i].block_timestamp \in StartTime..(now + 1)
          /\ observations[i].cumulative = truth'[observations[i].block_timestamp]
    <3> TAKE i \in Written
    <3>1. /\ observations[i].block_timestamp \in StartTime..now
          /\ observations[i].cumulative = truth[observations[i].block_timestamp]
      BY DEF Consistent, ObservationsTrue
    <3> QED BY <1>1, <1>5, <3>1
  <2>6. newest.initialized
    BY DEF Consistent, ObservationsTrue
  <2>7. newest' = newest /\ Written' = Written
    BY <1>2 DEF newest, Written
  <2>8. truth'[now'] = newest'.cumulative
                       + last_ln_implied_rate' * (now' - newest'.block_timestamp)
    <3>1. /\ now' = now + 1 /\ last_ln_implied_rate' = l
          /\ newest'.cumulative = c /\ newest'.block_timestamp = s
      BY <1>2, <2>7
    <3>2. l \in Nat /\ s \in Nat /\ c \in Nat /\ now \in Nat
      BY <1>1, <2>1
    <3> HIDE DEF s, c, l
    <3>3. ASSUME NEW r, NEW t, NEW k, NEW a, r = l, t = now + 1, k = c, a = s
          PROVE  truth'[t] = k + r * (t - a)
      BY <2>4, <3>2, <3>3
    <3> QED BY <3>1, <3>3
  <2>9. \A i \in Written' :
          /\ observations'[i].block_timestamp \in StartTime..now'
          /\ observations'[i].cumulative = truth'[observations'[i].block_timestamp]
    <3> TAKE i \in Written'
    <3>1. i \in Written
      BY <2>7
    <3>2. observations' = observations /\ now' = now + 1
      BY <1>2
    <3>3. /\ observations[i].block_timestamp \in StartTime..(now + 1)
          /\ observations[i].cumulative = truth'[observations[i].block_timestamp]
      BY <2>5, <3>1
    <3> QED BY <3>2, <3>3
  <2> QED BY <2>6, <2>7, <2>8, <2>9 DEF ObservationsTrue
<1> QED BY <1>3, <1>4, <1>7

\* The slot after a written one that is not the newest is written.
LEMMA FollowingWritten ==
  ASSUME Consistent, NEW i \in Written, i # observation_index
  PROVE  /\ i \in 0..(observation_cardinality - 1) /\ i \in Slots
         /\ Following(i) \in Written
         /\ Following(i) \in 0..(observation_cardinality - 1)
<1> DEFINE n == observation_cardinality
           x == observation_index
<1>1. /\ n \in Nat \ {0} /\ x \in 0..(n - 1) /\ n <= MAX_CARDINALITY
      /\ i \in 0..(n - 1) /\ i \in Slots /\ MAX_CARDINALITY \in Nat
  BY CardinalityAssumption DEF Consistent, TypeOK, RingOrdered, Slots, Written
<1>2. Following(i) \in 0..(n - 1) /\ Following(i) \in Slots
  BY <1>1 DEF Following, Slots
<1>3. CASE i < x
  <2>1. Following(i) \in 0..x
    BY <1>1, <1>3 DEF Following
  <2> QED BY <1>1, <1>2, <2>1 DEF Consistent, RingOrdered, Written
<1>4. CASE i > x
  <2>1. \A k \in 0..(n - 1) : k \in Written
    BY <1>1, <1>4 DEF Consistent, RingOrdered
  <2> QED BY <1>1, <1>2, <2>1
<1> QED BY <1>1, <1>2, <1>3, <1>4

\* What is written is at times for which the sum is kept.
LEMMA WrittenTimes ==
  ASSUME Consistent
  PROVE  /\ newest \in ObservationType
         /\ newest.block_timestamp \in StartTime..now
         /\ \A i \in Written : observations[i].block_timestamp \in StartTime..now
         /\ StartTime \in Nat /\ now \in Nat
BY NewestIsNewest, TimeAssumption
   DEF Consistent, TypeOK, ObservationsTrue, Times, newest, ObservationType

LEMMA SegmentsSame ==
  ASSUME Consistent, NEW r \in LnRates, _update_implied_rate(r),
         newest.block_timestamp = now
  PROVE  SegmentsStraight'
<1>1. UNCHANGED <<observations, observation_index, observation_cardinality,
                  observation_cardinality_next, now, truth>>
  <2>1. observation_index \in DOMAIN observations
    BY DEF Consistent, TypeOK
  <2> QED BY <2>1 DEF _update_implied_rate, write, newest, Consistent, TypeOK
<1>2. last_ln_implied_rate' = r /\ r \in Nat /\ last_ln_implied_rate \in Nat
  BY RatesAssumption, RatesNat DEF _update_implied_rate
<1>3. now \in Nat /\ newest.cumulative \in Nat
  BY WrittenTimes DEF ObservationType
<1>4. \A t \in now..now : truth[t] = newest.cumulative + r * (t - now)
  <2> TAKE t \in now..now
  <2>1. t = now
    BY <1>3
  <2>2. last_ln_implied_rate * (now - now) = r * (now - now)
    BY <1>2, <1>3
  <2>3. truth[now] = newest.cumulative + r * (now - now)
    BY <2>2 DEF Consistent, ObservationsTrue
  <2> QED BY <2>1, <2>3
<1>5. Straight(newest, now, last_ln_implied_rate)'
  BY <1>1, <1>2, <1>4 DEF Straight, newest
<1>6. \A i \in Written' \ {observation_index'} :
        \E q \in LnRates \cup {0} :
          Straight(observations[i], observations[Following(i)].block_timestamp, q)'
  BY <1>1 DEF Consistent, SegmentsStraight, Straight, Following, Written
<1> QED BY <1>5, <1>6 DEF SegmentsStraight

\* The slot written next follows the newest; the others are followed as before.
LEMMA StepsAround ==
  ASSUME Consistent, NextWritten, NEW i \in Written
  PROVE  /\ i = observation_index => Following(i)' = observation_index'
         /\ i # observation_index =>
              Following(i)' = Following(i) /\ Following(i) # observation_index'
<1> DEFINE n == observation_cardinality
           m == observation_cardinality'
           x == observation_index
           y == observation_index'
<1>1. /\ n \in Nat \ {0} /\ x \in 0..(n - 1) /\ i \in 0..(n - 1)
      /\ observation_cardinality_next \in Nat
  BY CardinalityAssumption
     DEF Consistent, TypeOK, RingOrdered, Slots, Written
<1>2. /\ Following(i)' = IF i = m - 1 THEN 0 ELSE i + 1
      /\ Following(i) = IF i = n - 1 THEN 0 ELSE i + 1
  BY DEF Following
<1>3. CASE m = n /\ y = IF x = n - 1 THEN 0 ELSE x + 1
  <2>1. Following(i)' = Following(i)
    BY <1>2, <1>3
  <2> HIDE DEF n, m, x, y
  <2>2. i = x => Following(i) = y
    BY <1>2, <1>3
  <2>3. i # x => Following(i) # y
    BY <1>1, <1>2, <1>3
  <2> QED BY <2>1, <2>2, <2>3 DEF x, y
<1>4. CASE m = observation_cardinality_next /\ n < m /\ x = n - 1 /\ y = n
  <2> HIDE DEF n, m, x, y
  <2>1. m \in Nat /\ i \in Nat
    BY <1>1, <1>4
  <2>2. Following(i)' = i + 1
    BY <1>1, <1>2, <1>4, <2>1
  <2>3. i = x => i + 1 = y
    BY <1>1, <1>4
  <2>4. i # x => Following(i) = i + 1 /\ i + 1 # y
    BY <1>1, <1>2, <1>4
  <2> QED BY <2>2, <2>3, <2>4 DEF x, y
<1> QED BY <1>3, <1>4 DEF NextWritten

LEMMA SegmentsLater ==
  ASSUME Consistent, NEW r \in LnRates, _update_implied_rate(r),
         newest.block_timestamp # now
  PROVE  SegmentsStraight'
<1> DEFINE n == observation_cardinality
           x == observation_index
           y == observation_index'
<1>0. NextWritten
  BY WriteFacts, Zenon
<1>1. /\ n \in Nat \ {0} /\ x \in 0..(n - 1) /\ y \in Nat /\ y \in Slots
      /\ n <= observation_cardinality_next
      /\ observation_cardinality_next \in Nat
      /\ observation_cardinality' \in Nat
  BY CardinalityAssumption, <1>0
     DEF NextWritten, Consistent, TypeOK, RingOrdered, Slots
<1>2. /\ UNCHANGED <<now, truth>>
      /\ last_ln_implied_rate' = r /\ r \in Nat /\ now \in Nat
      /\ truth[now] \in Nat /\ last_ln_implied_rate \in LnRates \cup {0}
  BY RatesAssumption, TimeAssumption
     DEF _update_implied_rate, Consistent, TypeOK, Times
<1>3. /\ observations'[y] = Obs(now, truth[now], TRUE)
      /\ \A i \in Slots : i # y => observations'[i] = observations[i]
  BY <1>0 DEF NextWritten, Consistent, TypeOK
<1>4. Straight(newest, now, last_ln_implied_rate)'
  <2>1. newest' = Obs(now, truth[now], TRUE)
    BY <1>3 DEF newest
  <2>2. \A t \in now..now : truth[t] = truth[now] + r * (t - now)
    <3> TAKE t \in now..now
    <3>1. t = now /\ r * (now - now) = 0
      BY <1>2
    <3> QED BY <1>2, <3>1
  <2> QED BY <1>2, <2>1, <2>2 DEF Straight, Obs
<1>5. ASSUME NEW i \in Written', i # y
      PROVE  \E q \in LnRates \cup {0} :
               Straight(observations[i], observations[Following(i)].block_timestamp, q)'
  <2>1. i \in Slots /\ i \in Nat /\ observations'[i] = observations[i]
        /\ observations[i].initialized
    BY <1>3, <1>5 DEF Written, Slots
  <2>2. i < n /\ i \in Written
    <3>1. ~(i >= n)
      BY <2>1 DEF Consistent, RingOrdered
    <3> QED BY <1>1, <2>1, <3>1 DEF Written
  <2>3. CASE i = x
    <3>1. Following(i)' = y
      BY <1>0, <2>2, <2>3, StepsAround
    <3>2. Straight(observations[x], now, last_ln_implied_rate)
      BY DEF Consistent, SegmentsStraight, newest
    <3>3. observations'[y].block_timestamp = now
      BY <1>3 DEF Obs
    <3> QED BY <1>2, <2>1, <2>3, <3>1, <3>2, <3>3 DEF Straight
  <2>4. CASE i # x
    <3>1. /\ Following(i) \in Written /\ Following(i) \in 0..(n - 1)
          /\ Following(i) \in Slots
      BY <2>2, <2>4, FollowingWritten DEF Written
    <3>2. Following(i)' = Following(i) /\ Following(i) # y
      BY <1>0, <2>2, <2>4, StepsAround
    <3>3. observations'[Following(i)] = observations[Following(i)]
      BY <1>3, <3>1, <3>2
    <3>4. PICK q \in LnRates \cup {0} :
            Straight(observations[i], observations[Following(i)].block_timestamp, q)
      BY <2>2, <2>4 DEF Consistent, SegmentsStraight
    <3> QED BY <1>2, <2>1, <3>2, <3>3, <3>4 DEF Straight
  <2> QED BY <2>3, <2>4
<1> QED BY <1>4, <1>5 DEF SegmentsStraight

LEMMA SegmentsGrow ==
  ASSUME Consistent, NEW k \in 0..MAX_CARDINALITY,
         increase_observations_cardinality_next(k)
  PROVE  SegmentsStraight'
<1> DEFINE n == observation_cardinality
           m == observation_cardinality_next
<1>1. /\ n \in Nat \ {0} /\ m \in Nat \ {0} /\ n <= m
      /\ observation_index \in 0..(n - 1)
      /\ \A i \in Slots : i \in Nat
      /\ DOMAIN observations = Slots /\ observation_index \in Slots
  BY CardinalityAssumption DEF Consistent, TypeOK, RingOrdered, Slots
<1>2. /\ UNCHANGED <<now, last_ln_implied_rate, observation_index,
                     observation_cardinality, truth>>
      /\ observations' = [i \in DOMAIN observations |->
                            IF m <= i /\ i < k THEN Prewarmed ELSE observations[i]]
  BY DEF increase_observations_cardinality_next, grow
<1>3. \A i \in Slots : i < n => observations'[i] = observations[i]
  BY <1>1, <1>2
<1>4. \A i \in Slots : i >= n => ~observations'[i].initialized
  <2> SUFFICES ASSUME NEW i \in Slots, i >= n PROVE ~observations'[i].initialized
    OBVIOUS
  <2>1. CASE m <= i /\ i < k
    BY <1>1, <1>2, <2>1 DEF Prewarmed, Obs
  <2>2. CASE ~(m <= i /\ i < k)
    BY <1>1, <1>2, <2>2 DEF Consistent, RingOrdered
  <2> QED BY <2>1, <2>2
<1>5. Written' = Written
  BY <1>2, <1>3, <1>4 DEF Written
<1>6. newest' = newest
  BY <1>1, <1>2, <1>3 DEF newest
<1>7. Straight(newest, now, last_ln_implied_rate)'
  BY <1>2, <1>6 DEF Consistent, SegmentsStraight, Straight
<1>8. ASSUME NEW i \in Written, i # observation_index
      PROVE  \E q \in LnRates \cup {0} :
               Straight(observations[i], observations[Following(i)].block_timestamp, q)'
  <2>1. /\ i \in Slots /\ i < n
        /\ Following(i) \in Slots /\ Following(i) < n
    <3>1. i \in Written /\ Following(i) \in Written
      BY <1>8, FollowingWritten
    <3> QED BY <3>1 DEF Written
  <2>2. Following(i)' = Following(i)
    BY <1>2 DEF Following
  <2>3. /\ observations'[i] = observations[i]
        /\ observations'[Following(i)] = observations[Following(i)]
    BY <1>3, <2>1
  <2>4. PICK q \in LnRates \cup {0} :
          Straight(observations[i], observations[Following(i)].block_timestamp, q)
    BY <1>8 DEF Consistent, SegmentsStraight
  <2> QED BY <1>2, <2>2, <2>3, <2>4 DEF Straight
<1> QED BY <1>2, <1>5, <1>7, <1>8 DEF SegmentsStraight

LEMMA SegmentsTick ==
  ASSUME Consistent, Tick
  PROVE  SegmentsStraight'
<1>1. /\ now \in Nat /\ now \in Times /\ now + 1 \in Times /\ StartTime \in Nat
  BY TimeAssumption DEF Tick, Consistent, TypeOK, Times
<1>2. /\ now' = now + 1
      /\ truth' = [truth EXCEPT ![now + 1] = truth[now] + last_ln_implied_rate]
      /\ UNCHANGED <<last_ln_implied_rate, observations, observation_index,
                     observation_cardinality, observation_cardinality_next>>
  BY DEF Tick
<1>3. \A t \in StartTime..now : truth'[t] = truth[t]
  BY <1>1, <1>2 DEF Consistent, TypeOK, Times
<1>4. newest' = newest /\ Written' = Written
  BY <1>2 DEF newest, Written
<1>5. Straight(newest, now, last_ln_implied_rate)'
  <2> SUFFICES ASSUME NEW t \in newest.block_timestamp..(now + 1)
               PROVE  truth'[t] = newest.cumulative
                        + last_ln_implied_rate * (t - newest.block_timestamp)
    BY <1>2, <1>4 DEF Straight
  <2>1. newest.block_timestamp \in StartTime..now
    BY WrittenTimes
  <2>2. CASE t = now + 1
    <3>1. truth'[now'] = newest'.cumulative
            + last_ln_implied_rate' * (now' - newest'.block_timestamp)
      BY TickStep DEF ObservationsTrue
    <3> QED BY <1>2, <1>4, <2>2, <3>1
  <2>3. CASE t # now + 1
    <3>1. t \in newest.block_timestamp..now /\ t \in StartTime..now
      BY <1>1, <2>1, <2>3
    <3> QED BY <1>3, <3>1 DEF Consistent, SegmentsStraight, Straight
  <2> QED BY <2>2, <2>3
<1>6. ASSUME NEW i \in Written, i # observation_index
      PROVE  \E q \in LnRates \cup {0} :
               Straight(observations[i], observations[Following(i)].block_timestamp, q)'
  <2> DEFINE a == observations[i].block_timestamp
             b == observations[Following(i)].block_timestamp
  <2>1. PICK q \in LnRates \cup {0} : Straight(observations[i], b, q)
    BY <1>6 DEF Consistent, SegmentsStraight
  <2>2. a \in StartTime..now /\ b \in StartTime..now
    BY <1>6, FollowingWritten, WrittenTimes
  <2>3. Following(i)' = Following(i)
    BY <1>2 DEF Following
  <2>4. \A t \in a..b : t \in StartTime..now
    BY <1>1, <2>2
  <2>5. \A t \in a..b :
          truth'[t] = observations[i].cumulative + q * (t - a)
    BY <1>3, <2>1, <2>4 DEF Straight
  <2> QED BY <1>2, <2>3, <2>5 DEF Straight
<1> QED BY <1>2, <1>4, <1>5, <1>6 DEF SegmentsStraight

LEMMA NextConsistent == Consistent /\ [Next]_vars => Consistent'
<1> SUFFICES ASSUME Consistent, [Next]_vars PROVE Consistent'
  OBVIOUS
<1>1. TypeOK' /\ ObservationsTrue' /\ RingOrdered' /\ SegmentsStraight'
  <2>1. ASSUME NEW r \in LnRates, _update_implied_rate(r)
        PROVE  TypeOK' /\ ObservationsTrue' /\ RingOrdered' /\ SegmentsStraight'
    BY <2>1, SameSecond, LaterSecond, SegmentsSame, SegmentsLater, Zenon
  <2>2. ASSUME NEW k \in 0..MAX_CARDINALITY,
               increase_observations_cardinality_next(k)
        PROVE  TypeOK' /\ ObservationsTrue' /\ RingOrdered' /\ SegmentsStraight'
    BY <2>2, GrowStep, SegmentsGrow, Zenon
  <2>3. CASE Tick
    BY <2>3, TickStep, SegmentsTick
  <2>4. CASE UNCHANGED vars
    <3>1. TypeOK' /\ ObservationsTrue' /\ RingOrdered'
      BY <2>4 DEF vars, Consistent, TypeOK, ObservationsTrue, RingOrdered,
                  Written, Precedes, newest
    <3>2. SegmentsStraight'
      BY <2>4 DEF vars, Consistent, SegmentsStraight, Straight, Following,
                  Written, newest
    <3> QED BY <3>1, <3>2
  <2> QED BY <2>1, <2>2, <2>3, <2>4 DEF Next
<1>2. TypeOK' /\ RingOrdered' => OldestIsOldest'
  BY OldestOfOrdered, PTL
<1> QED BY <1>1, <1>2 DEF Consistent

\* However trades fall into the seconds, and wherever the ring wraps or grows,
\* what is stored is exact and the slot taken for the oldest is the oldest.
THEOREM Safety == Spec => []Consistent
<1> QED BY InitConsistent, NextConsistent, PTL DEF Spec

-----------------------------------------------------------------------------
(* History *)

\* Only the oldest observation of a full ring is overwritten.
LEMMA OnlyOldestLost ==
  ASSUME Consistent, NEW r \in LnRates, _update_implied_rate(r),
         NEW i \in Written, newest.block_timestamp # now,
         i = observation_index'
  PROVE  /\ observations[i] = oldest
         /\ \A k \in 0..(observation_cardinality - 1) : k \in Written
         /\ newest.block_timestamp < now
<1> DEFINE n == observation_cardinality
           x == observation_index
<1>0. NextWritten
  BY WriteFacts, Zenon
<1>1. /\ n \in Nat \ {0} /\ x \in 0..(n - 1)
      /\ i \in 0..(n - 1) /\ i \in Slots /\ observations[i].initialized
  BY CardinalityAssumption DEF Consistent, TypeOK, RingOrdered, Slots, Written
<1>2. i = IF x = n - 1 THEN 0 ELSE x + 1
  BY <1>0, <1>1 DEF NextWritten
<1>3. (x + 1) % n = i
  BY <1>1, <1>2, NextSlot
<1>4. observations[i] = oldest
  BY <1>1, <1>3 DEF oldest, get_oldest_observation_index
<1>5. \A k \in 0..(n - 1) : k \in Written
  <2>1. CASE x = n - 1
    <3> TAKE k \in 0..(n - 1)
    <3>1. k \in Slots /\ k < n /\ observations[k].initialized
      BY <1>1, <2>1, CardinalityAssumption
         DEF Consistent, TypeOK, RingOrdered, Slots
    <3> QED BY <3>1 DEF Written
  <2>2. CASE x # n - 1
    BY <1>1, <1>2, <2>2 DEF Consistent, RingOrdered
  <2> QED BY <2>1, <2>2
<1> QED BY <1>0, <1>4, <1>5 DEF NextWritten

\* Trades in one second and a larger limit cost no history; a trade in a later
\* second costs at most the oldest observation of a ring without a free slot.
THEOREM HistoryIsKept == Spec => HistoryKept
<1> DEFINE Kept ==
      \A i \in Written :
        \/ \E j \in Written' : observations'[j] = observations[i]
        \/ /\ observations[i] = oldest
           /\ \A k \in 0..(observation_cardinality - 1) : k \in Written
           /\ newest.block_timestamp < now
<1>1. ASSUME Consistent, [Next]_vars PROVE Kept
  <2> SUFFICES ASSUME NEW i \in Written,
                      ~ \E j \in Written' : observations'[j] = observations[i]
               PROVE  /\ observations[i] = oldest
                      /\ \A k \in 0..(observation_cardinality - 1) : k \in Written
                      /\ newest.block_timestamp < now
    OBVIOUS
  <2>1. /\ i \in Slots /\ i < observation_cardinality
        /\ observations[i].initialized
        /\ observation_cardinality \in Nat /\ i \in Nat
        /\ observation_cardinality <= observation_cardinality_next
        /\ observation_cardinality_next \in Nat
    BY <1>1, CardinalityAssumption
       DEF Written, Consistent, TypeOK, RingOrdered, Slots
  <2>2. ASSUME observations'[i] = observations[i],
               i < observation_cardinality'
        PROVE  FALSE
    BY <2>1, <2>2 DEF Written
  <2>3. CASE UNCHANGED <<observations, observation_cardinality>>
    BY <2>1, <2>2, <2>3
  <2>4. ASSUME NEW k \in 0..MAX_CARDINALITY,
               increase_observations_cardinality_next(k)
        PROVE  FALSE
    <3>1. observation_cardinality' = observation_cardinality
      BY <2>4 DEF increase_observations_cardinality_next
    <3>2. observations'[i] = observations[i]
      BY <1>1, <2>1, <2>4
         DEF increase_observations_cardinality_next, grow, Consistent, TypeOK
    <3> QED BY <2>1, <2>2, <3>1, <3>2
  <2>5. ASSUME NEW r \in LnRates, _update_implied_rate(r),
               newest.block_timestamp = now
        PROVE  FALSE
    <3>1. UNCHANGED <<observations, observation_cardinality>>
      BY <1>1, <2>5
         DEF _update_implied_rate, write, newest, Consistent, TypeOK
    <3> QED BY <2>1, <2>2, <3>1
  <2>6. ASSUME NEW r \in LnRates, _update_implied_rate(r),
               newest.block_timestamp # now
        PROVE  i = observation_index'
    <3>1. NextWritten
      BY <1>1, <2>6, WriteFacts, Zenon
    <3>2. i < observation_cardinality'
      BY <2>1, <3>1 DEF NextWritten
    <3>3. i # observation_index' => observations'[i] = observations[i]
      BY <1>1, <2>1, <3>1 DEF NextWritten, Consistent, TypeOK
    <3> QED BY <2>2, <3>2, <3>3
  <2>7. ASSUME NEW r \in LnRates, _update_implied_rate(r)
        PROVE  /\ observations[i] = oldest
               /\ \A k \in 0..(observation_cardinality - 1) : k \in Written
               /\ newest.block_timestamp < now
    <3>1. newest.block_timestamp # now
      BY <2>5, <2>7
    <3>2. i = observation_index'
      BY <2>6, <2>7, <3>1
    <3> QED BY <1>1, <2>7, <3>1, <3>2, OnlyOldestLost, Zenon
  <2>8. CASE Tick \/ UNCHANGED vars
    BY <2>3, <2>8 DEF Tick, vars
  <2> QED BY <1>1, <2>4, <2>7, <2>8 DEF Next
<1>2. Consistent /\ [Next]_vars => [Kept]_vars
  BY <1>1
<1> QED BY <1>2, Safety, PTL DEF Spec, HistoryKept

-----------------------------------------------------------------------------
(***************************************************************************)
(* The binary search: its recursion has a solution, and the search finds   *)
(* what surrounds a target in a ring that is ordered from a position on.   *)
(***************************************************************************)

\* What is stored at a logical position of the ring, from the oldest slot on.
Slot(index, n, p) == (((index + 1) % n) + p) % n
At(buffer, index, n, p) == buffer[Slot(index, n, p)]

\* The ranges of positions the search goes through.
Bounds(n) == (0..n) \X (-1..(n - 1))
Size(b) == b[2] - b[1] + 1
Mid(b) == (b[1] + b[2]) \div 2
Below(b) == <<b[1], Mid(b) - 1>>
Above(b) == <<Mid(b) + 1, b[2]>>

\* One level of the search, which goes on with g.
SearchStep(buffer, target, index, n, g, b) ==
  LET before == At(buffer, index, n, Mid(b))
      after == At(buffer, index, n, Mid(b) + 1)
  IN
  IF b[1] > b[2] THEN NotFound
  ELSE IF ~before.initialized THEN g[Above(b)]
  ELSE IF before.block_timestamp <= target /\ target <= after.block_timestamp
       THEN Bracket(before, after)
  ELSE IF target < before.block_timestamp
       THEN IF Mid(b) = 0 THEN NotFound ELSE g[Below(b)]
  ELSE g[Above(b)]

\* The recursive function of the library.
Search(buffer, target, index, n) ==
  CHOOSE g : g = [b \in Bounds(n) |-> SearchStep(buffer, target, index, n, g, b)]

LEMMA SearchIsSearch ==
  \A buffer, target, index, n :
    binary_search(buffer, target, index, n)
      = Search(buffer, target, index, n)[<<0, n - 1>>]
BY DEF binary_search, Search, SearchStep, At, Slot, Bounds, Mid, Below, Above

\* The two halves of a range are smaller ranges.
LEMMA Halves ==
  ASSUME NEW n \in Nat \ {0}, NEW b \in Bounds(n), b[1] <= b[2]
  PROVE  /\ Size(b) \in Nat /\ Mid(b) \in b[1]..b[2] /\ Mid(b) \in 0..(n - 1)
         /\ Below(b) \in Bounds(n) /\ Size(Below(b)) < Size(b)
         /\ Above(b) \in Bounds(n) /\ Size(Above(b)) < Size(b)
         /\ Below(b)[1] = b[1] /\ Below(b)[2] = Mid(b) - 1
         /\ Above(b)[1] = Mid(b) + 1 /\ Above(b)[2] = b[2]
<1>1. /\ b[1] \in 0..n /\ b[2] \in -1..(n - 1)
      /\ b[1] \in Nat /\ b[2] \in Nat
  BY DEF Bounds
<1>2. Mid(b) \in b[1]..b[2]
  <2>1. \A l, r \in Nat : l <= r => (l + r) \div 2 \in l..r
    BY SMT
  <2> QED BY <1>1, <2>1 DEF Mid
<1>3. /\ Below(b)[1] = b[1] /\ Below(b)[2] = Mid(b) - 1
      /\ Above(b)[1] = Mid(b) + 1 /\ Above(b)[2] = b[2]
  BY DEF Below, Above
<1>4. Mid(b) \in 0..(n - 1) /\ Mid(b) - 1 \in -1..(n - 1) /\ Mid(b) + 1 \in 0..n
  BY <1>1, <1>2
<1>5. Below(b) \in Bounds(n) /\ Above(b) \in Bounds(n)
  BY <1>1, <1>4 DEF Bounds, Below, Above
<1> QED BY <1>1, <1>2, <1>3, <1>4, <1>5 DEF Size

\* g solves the recursion for the ranges of at most k positions.
SearchesUpTo(g, buffer, target, index, n, k) ==
  /\ g = [b \in Bounds(n) |-> g[b]]
  /\ \A b \in Bounds(n) : Size(b) <= k =>
       g[b] = SearchStep(buffer, target, index, n, g, b)

\* One level depends only on the halves.
LEMMA SearchLocal ==
  ASSUME NEW buffer, NEW target, NEW index, NEW n \in Nat \ {0},
         NEW b \in Bounds(n), NEW g, NEW h,
         b[1] <= b[2] => g[Below(b)] = h[Below(b)] /\ g[Above(b)] = h[Above(b)]
  PROVE  SearchStep(buffer, target, index, n, g, b)
           = SearchStep(buffer, target, index, n, h, b)
<1>1. b[1] \in Int /\ b[2] \in Int
  BY DEF Bounds
<1>2. CASE b[1] > b[2]
  BY <1>2 DEF SearchStep
<1>3. CASE b[1] <= b[2]
  BY <1>3 DEF SearchStep
<1> QED BY <1>1, <1>2, <1>3

LEMMA SearchExtends ==
  ASSUME NEW buffer, NEW target, NEW index, NEW n \in Nat \ {0},
         NEW k \in Nat, NEW g, SearchesUpTo(g, buffer, target, index, n, k)
  PROVE  \E h : SearchesUpTo(h, buffer, target, index, n, k + 1)
<1> DEFINE h == [b \in Bounds(n) |-> SearchStep(buffer, target, index, n, g, b)]
<1>1. \A b \in Bounds(n) : Size(b) <= k => h[b] = g[b]
  BY DEF SearchesUpTo
<1>2. \A b \in Bounds(n) : h[b] = SearchStep(buffer, target, index, n, g, b)
  OBVIOUS
<1>3. h = [b \in Bounds(n) |-> h[b]]
  OBVIOUS
<1> HIDE DEF h
<1>4. ASSUME NEW b \in Bounds(n), Size(b) <= k + 1
      PROVE  h[b] = SearchStep(buffer, target, index, n, h, b)
  <2>1. ASSUME b[1] <= b[2]
        PROVE  g[Below(b)] = h[Below(b)] /\ g[Above(b)] = h[Above(b)]
    <3>1. /\ Below(b) \in Bounds(n) /\ Size(Below(b)) < Size(b)
          /\ Above(b) \in Bounds(n) /\ Size(Above(b)) < Size(b)
          /\ Size(b) \in Nat
      BY <2>1, Halves
    <3>2. Size(Below(b)) \in Int /\ Size(Above(b)) \in Int
      BY <3>1 DEF Bounds, Size
    <3>3. Size(Below(b)) <= k /\ Size(Above(b)) <= k
      BY <1>4, <3>1, <3>2
    <3> QED BY <1>1, <3>1, <3>3
  <2>2. SearchStep(buffer, target, index, n, g, b)
          = SearchStep(buffer, target, index, n, h, b)
    BY <2>1, SearchLocal
  <2> QED BY <1>2, <2>2
<1> QED BY <1>3, <1>4 DEF SearchesUpTo

LEMMA SearchExists ==
  ASSUME NEW buffer, NEW target, NEW index, NEW n \in Nat \ {0}
  PROVE  \A k \in Nat : \E g : SearchesUpTo(g, buffer, target, index, n, k)
<1> DEFINE Failing ==
      {k \in Nat : ~ \E g : SearchesUpTo(g, buffer, target, index, n, k)}
<1>1. ASSUME NEW k \in Failing, \A m \in Failing : k <= m PROVE FALSE
  <2>1. CASE k = 0
    <3> DEFINE g == [b \in Bounds(n) |-> NotFound]
    <3>1. g = [b \in Bounds(n) |-> g[b]] /\ \A b \in Bounds(n) : g[b] = NotFound
      OBVIOUS
    <3> HIDE DEF g
    <3>2. ASSUME NEW b \in Bounds(n), Size(b) <= 0
          PROVE  g[b] = SearchStep(buffer, target, index, n, g, b)
      <4>1. b[1] > b[2]
        BY <3>2 DEF Bounds, Size
      <4> QED BY <3>1, <4>1 DEF SearchStep
    <3>3. SearchesUpTo(g, buffer, target, index, n, 0)
      BY <3>1, <3>2 DEF SearchesUpTo
    <3> QED BY <2>1, <3>3
  <2>2. CASE k # 0
    <3>1. k - 1 \in Nat /\ k - 1 \notin Failing /\ k = (k - 1) + 1
      BY <1>1, <2>2
    <3>2. PICK g : SearchesUpTo(g, buffer, target, index, n, k - 1)
      BY <3>1
    <3>3. \E h : SearchesUpTo(h, buffer, target, index, n, (k - 1) + 1)
      BY <3>1, <3>2, SearchExtends
    <3> QED BY <3>1, <3>3
  <2> QED BY <2>1, <2>2
<1>2. Failing = {}
  BY <1>1, LeastNumber
<1> QED BY <1>2

LEMMA SearchUnfolds ==
  ASSUME NEW buffer, NEW target, NEW index, NEW n \in Nat \ {0},
         NEW b \in Bounds(n)
  PROVE  Search(buffer, target, index, n)[b]
           = SearchStep(buffer, target, index, n,
                        Search(buffer, target, index, n), b)
<1>1. n + 1 \in Nat
  OBVIOUS
<1>2. PICK g : SearchesUpTo(g, buffer, target, index, n, n + 1)
  BY <1>1, SearchExists
<1>3. \A c \in Bounds(n) : Size(c) <= n + 1
  BY DEF Bounds, Size
<1>4. g = [c \in Bounds(n) |-> g[c]]
      /\ \A c \in Bounds(n) : g[c] = SearchStep(buffer, target, index, n, g, c)
  BY <1>2, <1>3 DEF SearchesUpTo
<1>5. g = [c \in Bounds(n) |-> SearchStep(buffer, target, index, n, g, c)]
  BY <1>4
<1> DEFINE s == Search(buffer, target, index, n)
<1>6. s = [c \in Bounds(n) |-> SearchStep(buffer, target, index, n, s, c)]
  BY <1>5 DEF Search
<1> HIDE DEF s
<1>7. s[b] = SearchStep(buffer, target, index, n, s, b)
  BY <1>6, Zenon
<1> QED BY <1>7 DEF s

\* The positions of a ring are unused up to p, and ordered in time from p on.
OrderedFrom(buffer, index, n, p) ==
  /\ \A i \in 0..(n - 1) : At(buffer, index, n, i).initialized <=> i >= p
  /\ \A i \in p..(n - 1) : At(buffer, index, n, i).block_timestamp \in Nat
  /\ \A i, j \in p..(n - 1) : i < j =>
       At(buffer, index, n, i).block_timestamp
         < At(buffer, index, n, j).block_timestamp

\* What surrounds a target is two neighbours of the ring.
Neighbours(buffer, target, index, n, p, result) ==
  \E a \in p..(n - 2) :
    /\ At(buffer, index, n, a).block_timestamp <= target
    /\ target <= At(buffer, index, n, a + 1).block_timestamp
    /\ result = Bracket(At(buffer, index, n, a), At(buffer, index, n, a + 1))

\* A target between the oldest and the newest falls between two neighbours.
LEMMA TargetBetween ==
  ASSUME NEW buffer, NEW target \in Nat, NEW index, NEW n \in Nat \ {0},
         NEW p \in 0..(n - 1), OrderedFrom(buffer, index, n, p),
         At(buffer, index, n, p).block_timestamp <= target,
         target < At(buffer, index, n, n - 1).block_timestamp
  PROVE  \E a \in p..(n - 2) :
           /\ At(buffer, index, n, a).block_timestamp <= target
           /\ target < At(buffer, index, n, a + 1).block_timestamp
<1> DEFINE T(i) == At(buffer, index, n, i).block_timestamp
           Later == {i \in Nat : i \in p..(n - 1) /\ target < T(i)}
<1>1. n - 1 \in Later
  OBVIOUS
<1>2. PICK j \in Later : \A k \in Later : j <= k
  BY <1>1, LeastNumber
<1>3. j # p /\ j \in p..(n - 1) /\ target < T(j)
  <2>1. \A i \in p..(n - 1) : T(i) \in Nat
    BY DEF OrderedFrom
  <2>2. T(p) \in Nat
    BY <2>1
  <2>3. ~(target < T(p))
    BY <2>2
  <2> QED BY <1>2, <2>3
<1>4. j - 1 \in p..(n - 2) /\ j - 1 \in p..(n - 1) /\ (j - 1) + 1 = j
  BY <1>3
<1>5. j - 1 \notin Later
  BY <1>2, <1>4
<1>6. T(j - 1) \in Nat
  BY <1>4 DEF OrderedFrom
<1>7. T(j - 1) <= target
  BY <1>4, <1>5, <1>6
<1> QED BY <1>3, <1>4, <1>7

\* The search finds them: it never loses the range they are in.
LEMMA SearchFinds ==
  ASSUME NEW buffer, NEW target \in Nat, NEW index, NEW n \in Nat \ {0},
         NEW p \in 0..(n - 1), OrderedFrom(buffer, index, n, p),
         At(buffer, index, n, p).block_timestamp <= target,
         target < At(buffer, index, n, n - 1).block_timestamp
  PROVE  Neighbours(buffer, target, index, n, p,
                    binary_search(buffer, target, index, n))
<1> DEFINE T(i) == At(buffer, index, n, i).block_timestamp
           search == Search(buffer, target, index, n)
           Found(b) == Neighbours(buffer, target, index, n, p, search[b])
<1>1. PICK a \in p..(n - 2) : T(a) <= target /\ target < T(a + 1)
  BY TargetBetween
<1> DEFINE Around(b) == b \in Bounds(n) /\ b[1] <= a /\ a <= b[2]
           Bad == {k \in Nat : \E b : Around(b) /\ Size(b) = k /\ ~Found(b)}
<1>2. /\ a \in Nat /\ a + 1 \in p..(n - 1) /\ a \in p..(n - 1) /\ p \in Nat
      /\ n - 1 \in p..(n - 1)
  BY <1>1
<1>3. /\ \A i \in p..(n - 1) : T(i) \in Nat
      /\ \A i, j \in p..(n - 1) : i < j => T(i) < T(j)
      /\ \A i \in 0..(n - 1) : At(buffer, index, n, i).initialized <=> i >= p
  BY DEF OrderedFrom
<1>4. ASSUME NEW k \in Bad, \A m \in Bad : k <= m PROVE FALSE
  <2>1. PICK b : Around(b) /\ Size(b) = k /\ ~Found(b)
    BY <1>4
  <2> DEFINE m == Mid(b)
  <2>2. b \in Bounds(n) /\ b[1] \in Nat /\ b[2] \in Int /\ b[1] <= b[2] /\ k \in Nat
    BY <1>2, <2>1 DEF Bounds
  <2>3. /\ m \in b[1]..b[2] /\ m \in 0..(n - 1)
        /\ Below(b) \in Bounds(n) /\ Size(Below(b)) < k
        /\ Above(b) \in Bounds(n) /\ Size(Above(b)) < k
        /\ Below(b)[1] = b[1] /\ Below(b)[2] = m - 1
        /\ Above(b)[1] = m + 1 /\ Above(b)[2] = b[2]
    BY <2>1, <2>2, Halves
  <2>4. search[b] = SearchStep(buffer, target, index, n, search, b)
    BY <2>2, SearchUnfolds
  <2> HIDE DEF Found, search, m
  <2>5. ASSUME NEW c, Around(c), Size(c) < k PROVE Found(c)
    <3>1. Size(c) \in Nat
      BY <1>2, <2>5 DEF Bounds, Size
    <3> QED BY <1>4, <2>2, <2>5, <3>1
  <2>6. a <= m - 1 => Found(Below(b))
    BY <2>1, <2>3, <2>5
  <2>7. m + 1 <= a => Found(Above(b))
    BY <2>1, <2>3, <2>5
  <2>8. CASE m < p
    <3>1. ~At(buffer, index, n, m).initialized
      BY <1>3, <2>3, <2>8
    <3>2. search[b] = search[Above(b)]
      BY <2>2, <2>4, <3>1 DEF SearchStep, m
    <3> QED BY <1>1, <1>2, <2>1, <2>3, <2>7, <2>8, <3>2 DEF Found
  <2>9. CASE m >= p
    <3>1. m \in p..(n - 1) /\ At(buffer, index, n, m).initialized /\ T(m) \in Nat
      BY <1>2, <1>3, <2>3, <2>9
    <3>2. T(m) <= target => m \in p..(n - 2) /\ m + 1 \in p..(n - 1)
      <4>1. T(m) <= target => m # n - 1
        BY <1>2, <1>3, <3>1
      <4> QED BY <3>1, <4>1
    <3>3. CASE T(m) <= target /\ target <= T(m + 1)
      <4>1. search[b] = Bracket(At(buffer, index, n, m), At(buffer, index, n, m + 1))
        BY <2>2, <2>4, <3>1, <3>3 DEF SearchStep, m
      <4> QED BY <2>1, <3>2, <3>3, <4>1 DEF Found, Neighbours
    <3>4. CASE target < T(m)
      <4>1. ~(m <= a)
        <5>1. SUFFICES ASSUME m <= a PROVE FALSE
          OBVIOUS
        <5>2. T(a) \in Nat /\ (m = a \/ m < a)
          BY <1>2, <1>3, <3>1, <5>1
        <5>3. T(m) <= T(a)
          BY <1>2, <1>3, <3>1, <5>2
        <5> QED BY <1>1, <3>1, <3>4, <5>2, <5>3
      <4>2. a <= m - 1 /\ m # 0
        BY <1>2, <2>3, <4>1
      <4>3. ~(T(m) <= target)
        BY <3>1, <3>4
      <4>4. search[b] = search[Below(b)]
        BY <2>2, <2>4, <3>1, <3>4, <4>2, <4>3 DEF SearchStep, m
      <4> QED BY <2>1, <2>6, <4>2, <4>4 DEF Found
    <3>5. CASE T(m) <= target /\ ~(target <= T(m + 1))
      <4>1. ~(a <= m)
        <5>1. SUFFICES ASSUME a <= m PROVE FALSE
          OBVIOUS
        <5>2. T(a + 1) \in Nat /\ T(m + 1) \in Nat /\ (a = m \/ a + 1 < m + 1)
          BY <1>2, <1>3, <3>1, <3>2, <3>5, <5>1
        <5>3. T(a + 1) <= T(m + 1)
          BY <1>2, <1>3, <3>2, <3>5, <5>2
        <5> QED BY <1>1, <3>5, <5>2, <5>3
      <4>2. m + 1 <= a
        BY <1>2, <2>3, <4>1
      <4>3. ~(target < T(m))
        BY <3>1, <3>5
      <4>4. search[b] = search[Above(b)]
        BY <2>2, <2>4, <3>1, <3>5, <4>3 DEF SearchStep, m
      <4> QED BY <2>1, <2>7, <4>2, <4>4 DEF Found
    <3> QED BY <3>1, <3>3, <3>4, <3>5
  <2> QED BY <1>2, <2>3, <2>8, <2>9
<1>5. Bad = {}
  BY <1>4, LeastNumber
<1>6. Found(<<0, n - 1>>)
  <2> HIDE DEF Found
  <2> DEFINE whole == <<0, n - 1>>
  <2>1. Around(whole) /\ Size(whole) \in Nat
    BY <1>2 DEF Bounds, Size
  <2> QED BY <1>5, <2>1
<1>7. binary_search(buffer, target, index, n) = search[<<0, n - 1>>]
  BY SearchIsSearch, Zenon
<1> QED BY <1>6, <1>7

-----------------------------------------------------------------------------
(* Observing *)

\* The slots around a ring of n whose newest is at x.
LEMMA SlotAt ==
  ASSUME NEW n \in Nat \ {0}, NEW x \in 0..(n - 1), NEW i \in 0..(n - 1)
  PROVE  Slot(x, n, i) = IF i < n - 1 - x THEN x + 1 + i ELSE i - (n - 1 - x)
<1>1. (x + 1) % n = IF x = n - 1 THEN 0 ELSE x + 1
  BY NextSlot
<1>2. CASE x = n - 1
  <2>1. i % n = i
    BY SMT
  <2>2. Slot(x, n, i) = (0 + i) % n
    BY <1>1, <1>2 DEF Slot
  <2> QED BY <1>2, <2>1, <2>2
<1>3. CASE x # n - 1
  <2>1. Slot(x, n, i) = (x + 1 + i) % n
    BY <1>1, <1>3 DEF Slot
  <2>2. CASE i < n - 1 - x
    <3>1. x + 1 + i \in 0..(n - 1)
      BY <2>2
    <3>2. \A k \in 0..(n - 1) : k % n = k
      BY SMT
    <3> QED BY <2>1, <2>2, <3>1, <3>2
  <2>3. CASE ~(i < n - 1 - x)
    <3>1. i - (n - 1 - x) \in 0..(n - 1) /\ x + 1 + i = (i - (n - 1 - x)) + n
      BY <2>3
    <3>2. \A k \in 0..(n - 1) : (k + n) % n = k
      BY SMT
    <3> QED BY <2>1, <2>3, <3>1, <3>2
  <2> QED BY <2>2, <2>3
<1> QED BY <1>2, <1>3

\* The written observations, in order, from the oldest to the newest.
Chain(p) ==
  LET x == observation_index
      n == observation_cardinality
  IN
  /\ p \in 0..(n - 1)
  /\ OrderedFrom(observations, x, n, p)
  /\ At(observations, x, n, p) = oldest
  /\ At(observations, x, n, n - 1) = newest
  /\ \A i \in p..(n - 1) : Slot(x, n, i) \in Written
  /\ \A i \in p..(n - 2) : /\ Slot(x, n, i) # x
                           /\ Following(Slot(x, n, i)) = Slot(x, n, i + 1)

LEMMA RingIsChain == ASSUME Consistent PROVE \E p \in Nat : Chain(p)
<1> DEFINE n == observation_cardinality
           x == observation_index
           s(i) == Slot(x, n, i)
           free == n - 1 - x
           full == \A i \in 0..(n - 1) : i \in Written
           p == IF full THEN 0 ELSE free
<1>1. /\ n \in Nat \ {0} /\ x \in 0..(n - 1) /\ free \in 0..(n - 1)
      /\ MAX_CARDINALITY \in Nat /\ n <= MAX_CARDINALITY
      /\ \A i \in 0..(n - 1) : i \in Slots
  BY CardinalityAssumption DEF Consistent, TypeOK, RingOrdered, Slots
<1>2. \A i \in 0..(n - 1) : s(i) = IF i < free THEN x + 1 + i ELSE i - free
  BY <1>1, SlotAt
<1>3. (x + 1) % n = IF x = n - 1 THEN 0 ELSE x + 1
  BY <1>1, NextSlot
<1>4. /\ \A i \in 0..x : i \in Written
      /\ full \/ \A i \in Written : i <= x
      /\ \A i, j \in Written : Precedes(i, j) =>
           observations[i].block_timestamp < observations[j].block_timestamp
  BY <1>1 DEF Consistent, RingOrdered, Written
<1>5. \A i \in Written : observations[i].block_timestamp \in Nat
                         /\ observations[i].initialized
  BY DEF Written, Consistent, TypeOK
<1>6. \A i \in 0..(n - 1) : i \notin Written => ~observations[i].initialized
  BY <1>1 DEF Written
<1>7. p \in 0..(n - 1) /\ p <= free
  BY <1>1
<1> HIDE DEF full, s
<1>8. \A i \in 0..(n - 1) : s(i) \in 0..(n - 1)
  BY <1>1, <1>2
<1>9. \A i \in p..(n - 1) : s(i) \in Written
  <2> SUFFICES ASSUME NEW i \in p..(n - 1) PROVE s(i) \in Written
    OBVIOUS
  <2>1. i \in 0..(n - 1)
    BY <1>7
  <2>2. CASE full
    BY <1>8, <2>1, <2>2 DEF full
  <2>3. CASE ~full
    <3>1. s(i) \in 0..x
      BY <1>1, <1>2, <2>1, <2>3
    <3> QED BY <1>4, <3>1
  <2> QED BY <2>2, <2>3
<1>10. ASSUME NEW i \in 0..(n - 1), i < p PROVE s(i) \notin Written
  <2>1. ~full /\ i < free
    BY <1>10
  <2>2. s(i) = x + 1 + i /\ s(i) > x
    BY <1>1, <1>2, <2>1
  <2> QED BY <1>1, <1>4, <2>1, <2>2
<1>11. OrderedFrom(observations, x, n, p)
  <2>1. \A i \in 0..(n - 1) : observations[s(i)].initialized <=> i >= p
    <3> TAKE i \in 0..(n - 1)
    <3>1. CASE i >= p
      BY <1>5, <1>7, <1>9, <3>1
    <3>2. CASE i < p
      <4>1. ~(i >= p)
        BY <1>7, <3>2
      <4>2. s(i) \in 0..(n - 1) /\ s(i) \notin Written
        BY <1>8, <1>10, <3>2
      <4> QED BY <1>6, <4>1, <4>2
    <3> QED BY <1>7, <3>1, <3>2
  <2>2. \A i \in p..(n - 1) : observations[s(i)].block_timestamp \in Nat
    BY <1>5, <1>9
  <2>3. ASSUME NEW i \in p..(n - 1), NEW j \in p..(n - 1), i < j
        PROVE  observations[s(i)].block_timestamp
                 < observations[s(j)].block_timestamp
    <3>1. Precedes(s(i), s(j))
      <4>1. /\ i \in 0..(n - 1) /\ j \in 0..(n - 1)
            /\ s(i) = IF i < free THEN x + 1 + i ELSE i - free
            /\ s(j) = IF j < free THEN x + 1 + j ELSE j - free
        BY <1>2, <1>7
      <4> QED BY <1>1, <2>3, <4>1 DEF Precedes
    <3> QED BY <1>4, <1>9, <3>1
  <2> QED BY <2>1, <2>2, <2>3 DEF OrderedFrom, At, s
<1>12. At(observations, x, n, n - 1) = newest
  <2>1. s(n - 1) = x
    BY <1>1, <1>2
  <2> QED BY <2>1 DEF At, newest, s
<1>13. At(observations, x, n, p) = oldest
  <2>1. oldest = observations[IF observations[(x + 1) % n].initialized
                              THEN (x + 1) % n ELSE 0]
    BY DEF oldest, get_oldest_observation_index
  <2>2. s(p) = IF observations[(x + 1) % n].initialized THEN (x + 1) % n ELSE 0
    <3>1. CASE full
      <4>1. (x + 1) % n \in 0..(n - 1)
        BY <1>1, <1>3
      <4>2. observations[(x + 1) % n].initialized
        BY <1>5, <3>1, <4>1 DEF full
      <4> QED BY <1>1, <1>2, <1>3, <3>1, <4>2
    <3>2. CASE ~full
      <4>1. s(p) = 0
        BY <1>1, <1>2, <3>2
      <4>2. CASE x = n - 1
        BY <1>3, <4>1, <4>2
      <4>3. CASE x # n - 1
        <5>1. (x + 1) % n = x + 1 /\ x + 1 \in 0..(n - 1) /\ x + 1 \notin Written
          BY <1>1, <1>3, <1>4, <3>2, <4>3
        <5> QED BY <1>6, <4>1, <5>1
      <4> QED BY <4>2, <4>3
    <3> QED BY <3>1, <3>2
  <2> QED BY <2>1, <2>2 DEF At, s
<1>14. ASSUME NEW i \in p..(n - 2)
       PROVE  s(i) # x /\ Following(s(i)) = s(i + 1)
  <2>1. /\ i \in 0..(n - 1) /\ i + 1 \in 0..(n - 1) /\ i # n - 1
        /\ s(i) = IF i < free THEN x + 1 + i ELSE i - free
        /\ s(i + 1) = IF i + 1 < free THEN x + 1 + (i + 1) ELSE (i + 1) - free
    BY <1>1, <1>2, <1>7
  <2>2. s(i) # x
    BY <1>1, <2>1
  <2>3. (IF s(i) = n - 1 THEN 0 ELSE s(i) + 1) = s(i + 1)
    BY <1>1, <2>1
  <2> QED BY <2>2, <2>3 DEF Following
<1>15. Chain(p)
  BY <1>7, <1>9, <1>11, <1>12, <1>13, <1>14 DEF Chain, s
<1> QED BY <1>7, <1>15

\* Between two observations the sum is a straight line, so dividing what was
\* added by the time it took leaves no remainder.
LEMMA InterpolationExact ==
  ASSUME NEW before \in ObservationType, NEW after \in ObservationType,
         NEW rate \in Nat, NEW t \in Nat,
         before.block_timestamp < t, t < after.block_timestamp,
         Straight(before, after.block_timestamp, rate),
         after.cumulative = truth[after.block_timestamp]
  PROVE  before.cumulative
           + ((after.cumulative - before.cumulative)
                * (t - before.block_timestamp))
             \div (after.block_timestamp - before.block_timestamp)
         = truth[t]
<1> DEFINE a == before.block_timestamp
           b == after.block_timestamp
           c == before.cumulative
           d == after.cumulative
           e == t - a
           w == b - a
<1>1. /\ a \in Nat /\ b \in Nat /\ c \in Nat /\ d \in Nat
      /\ e \in Nat /\ w \in Nat \ {0} /\ a < t /\ t < b
  BY DEF ObservationType
<1>2. truth[b] = c + rate * w /\ truth[t] = c + rate * e
  BY <1>1 DEF Straight
<1>3. d = c + rate * w
  BY <1>2
<1> HIDE DEF a, b, c, d, e, w
<1>4. rate * w \in Nat /\ rate * e \in Nat
  BY <1>1, MulNat
<1>5. (d - c) * e = (rate * e) * w
  <2>1. d - c = rate * w
    BY <1>1, <1>3, <1>4
  <2>2. (rate * w) * e = (rate * e) * w
    BY <1>1
  <2> QED BY <2>1, <2>2
<1>6. ((rate * e) * w) \div w = rate * e
  BY <1>1, <1>4, MulDiv
<1>7. c + ((d - c) * e) \div w = truth[t]
  BY <1>2, <1>5, <1>6
<1> QED BY <1>7 DEF a, b, c, d, e, w

\* Wherever a target falls, it is answered, and with the exact sum.
LEMMA ObservedExactly == Consistent => ObserveExact
<1> SUFFICES ASSUME Consistent, NEW t \in oldest.block_timestamp..now
             PROVE  Surrounding(t).found /\ observe(t) = truth[t]
  BY DEF ObserveExact
<1> DEFINE n == observation_cardinality
           x == observation_index
           l == last_ln_implied_rate
           at(i) == At(observations, x, n, i)
           around == Surrounding(t)
<1>1. PICK p \in Nat : Chain(p)
  BY RingIsChain
<1>2. /\ p \in 0..(n - 1) /\ OrderedFrom(observations, x, n, p)
      /\ at(p) = oldest /\ at(n - 1) = newest
      /\ \A i \in p..(n - 1) : Slot(x, n, i) \in Written
      /\ \A i \in p..(n - 2) : /\ Slot(x, n, i) # x
                               /\ Following(Slot(x, n, i)) = Slot(x, n, i + 1)
  BY <1>1 DEF Chain
<1>3. n \in Nat \ {0} /\ x \in 0..(n - 1) /\ l \in Nat
  BY RatesNat, CardinalityAssumption DEF Consistent, TypeOK, RingOrdered, Slots
<1>4. /\ now \in Nat /\ newest \in ObservationType
      /\ newest.block_timestamp \in Nat /\ newest.block_timestamp <= now
      /\ newest.cumulative \in Nat /\ newest.block_timestamp \in StartTime..now
  BY WrittenTimes DEF ObservationType
<1>5. \A i \in Written : /\ observations[i] \in ObservationType
                         /\ observations[i].block_timestamp \in StartTime..now
                         /\ observations[i].cumulative
                              = truth[observations[i].block_timestamp]
  BY DEF Consistent, TypeOK, ObservationsTrue, ObservationType, Written
<1>6. \A i \in p..(n - 1) : /\ at(i) \in ObservationType
                            /\ at(i).cumulative = truth[at(i).block_timestamp]
  BY <1>2, <1>5 DEF At
<1>7. /\ oldest \in ObservationType /\ oldest.block_timestamp \in Nat
      /\ oldest.cumulative = truth[oldest.block_timestamp]
      /\ newest.cumulative = truth[newest.block_timestamp]
  <2>1. p \in p..(n - 1) /\ n - 1 \in p..(n - 1)
    BY <1>2, <1>3
  <2> QED BY <1>2, <1>6, <2>1 DEF ObservationType
<1>8. t \in Nat /\ oldest.block_timestamp <= t /\ t <= now
  BY <1>4, <1>7
<1>9. \A u \in newest.block_timestamp..now :
        truth[u] = newest.cumulative + l * (u - newest.block_timestamp)
  BY DEF Consistent, SegmentsStraight, Straight
<1>10. around = IF t < oldest.block_timestamp THEN NotFound
                ELSE IF t = newest.block_timestamp THEN Bracket(newest, newest)
                ELSE IF t > newest.block_timestamp
                     THEN Bracket(newest, transform(newest, t, l))
                ELSE IF t = oldest.block_timestamp THEN Bracket(oldest, oldest)
                ELSE binary_search(observations, t, x, n)
  BY DEF Surrounding, SurroundingObservations, newest, oldest
<1>11. ~(t < oldest.block_timestamp)
  BY <1>7, <1>8
<1>12. observe(t) =
         LET before == around.before_or_at
             after == around.at_or_after
         IN
         IF t = now
         THEN IF newest.block_timestamp # now
                THEN transform(newest, now, l).cumulative
                ELSE newest.cumulative
         ELSE IF t = before.block_timestamp THEN before.cumulative
         ELSE IF t = after.block_timestamp THEN after.cumulative
         ELSE before.cumulative
                + ((after.cumulative - before.cumulative)
                     * (t - before.block_timestamp))
                  \div (after.block_timestamp - before.block_timestamp)
  BY DEF observe, observe_single
<1> HIDE DEF around
<1>13. t = now => observe(t) = truth[t]
  <2> SUFFICES ASSUME t = now PROVE observe(t) = truth[t]
    OBVIOUS
  <2>1. CASE newest.block_timestamp # now
    <3>1. now \in newest.block_timestamp..now
      BY <1>4
    <3>2. truth[now] = newest.cumulative + l * (now - newest.block_timestamp)
      BY <1>9, <3>1
    <3> QED BY <1>12, <2>1, <3>2 DEF transform, Obs
  <2>2. CASE newest.block_timestamp = now
    BY <1>7, <1>12, <2>2
  <2> QED BY <2>1, <2>2
<1>14. CASE t = newest.block_timestamp
  <2>1. around = Bracket(newest, newest)
    BY <1>10, <1>11, <1>14
  <2>2. around.found /\ around.before_or_at = newest
    BY <2>1 DEF Bracket
  <2>3. t # now => observe(t) = newest.cumulative
    BY <1>12, <1>14, <2>2
  <2> QED BY <1>7, <1>13, <1>14, <2>2, <2>3 DEF around
<1>15. CASE t > newest.block_timestamp
  <2>1. t # newest.block_timestamp
    BY <1>4, <1>15
  <2>2. around = Bracket(newest, transform(newest, t, l))
    BY <1>10, <1>11, <1>15, <2>1
  <2>3. /\ around.found /\ around.before_or_at = newest
        /\ around.at_or_after.block_timestamp = t
        /\ around.at_or_after.cumulative
             = newest.cumulative + l * (t - newest.block_timestamp)
    BY <2>2 DEF Bracket, transform, Obs
  <2>4. t \in newest.block_timestamp..now
    BY <1>4, <1>8, <1>15
  <2>5. t # now => observe(t) = truth[t]
    BY <1>9, <1>12, <2>1, <2>3, <2>4
  <2> QED BY <1>13, <2>3, <2>5 DEF around
<1>16. CASE t < newest.block_timestamp
  <2>1. t # newest.block_timestamp /\ ~(t > newest.block_timestamp) /\ t # now
    BY <1>4, <1>8, <1>16
  <2>2. CASE t = oldest.block_timestamp
    <3>1. around = Bracket(oldest, oldest)
      BY <1>10, <1>11, <2>1, <2>2
    <3>2. around.found /\ around.before_or_at = oldest
      BY <3>1 DEF Bracket
    <3> QED BY <1>7, <1>12, <2>1, <2>2, <3>2 DEF around
  <2>3. CASE t # oldest.block_timestamp
    <3>1. around = binary_search(observations, t, x, n)
      BY <1>10, <1>11, <2>1, <2>3
    <3>2. Neighbours(observations, t, x, n, p, around)
      BY <1>2, <1>3, <1>8, <1>16, <3>1, SearchFinds
    <3>3. PICK a \in p..(n - 2) :
            /\ at(a).block_timestamp <= t /\ t <= at(a + 1).block_timestamp
            /\ around = Bracket(at(a), at(a + 1))
      BY <3>2 DEF Neighbours
    <3> DEFINE before == at(a)
               after == at(a + 1)
    <3>4. /\ around.found /\ around.before_or_at = before
          /\ around.at_or_after = after
      BY <3>3 DEF Bracket
    <3>5. /\ a \in p..(n - 1) /\ a + 1 \in p..(n - 1)
          /\ before \in ObservationType /\ after \in ObservationType
          /\ before.cumulative = truth[before.block_timestamp]
          /\ after.cumulative = truth[after.block_timestamp]
      BY <1>2, <1>3, <1>6, <3>3
    <3>6. PICK r \in LnRates \cup {0} : Straight(before, after.block_timestamp, r)
      <4>1. Slot(x, n, a) \in Written \ {x}
            /\ Following(Slot(x, n, a)) = Slot(x, n, a + 1)
        BY <1>2, <3>5
      <4> QED BY <4>1 DEF Consistent, SegmentsStraight, At
    <3>7. r \in Nat
      BY RatesAssumption
    <3> HIDE DEF before, after
    <3>8. before.block_timestamp <= t /\ t <= after.block_timestamp
      BY <3>3 DEF before, after
    <3>9. CASE t = before.block_timestamp
      BY <1>12, <2>1, <3>4, <3>5, <3>9 DEF around
    <3>10. CASE t # before.block_timestamp /\ t = after.block_timestamp
      BY <1>12, <2>1, <3>4, <3>5, <3>10 DEF around
    <3>11. CASE t # before.block_timestamp /\ t # after.block_timestamp
      <4>1. before.block_timestamp \in Nat /\ after.block_timestamp \in Nat
        BY <3>5 DEF ObservationType
      <4>2. before.block_timestamp < t /\ t < after.block_timestamp
        BY <1>8, <3>8, <3>11, <4>1
      <4>3. observe(t) = before.cumulative
              + ((after.cumulative - before.cumulative)
                   * (t - before.block_timestamp))
                \div (after.block_timestamp - before.block_timestamp)
        BY <1>12, <2>1, <3>4, <3>11
      <4>4. observe(t) = truth[t]
        BY <1>8, <3>5, <3>6, <3>7, <4>2, <4>3, InterpolationExact
      <4> QED BY <3>4, <4>4 DEF around
    <3> QED BY <3>9, <3>10, <3>11
  <2> QED BY <2>2, <2>3
<1> QED BY <1>4, <1>8, <1>14, <1>15, <1>16

\* Every time since the oldest observation is answered, with the exact sum of
\* the rate: the search never gives up, and interpolation loses nothing.
THEOREM EveryTargetAnswered == Spec => []ObserveExact
BY Safety, ObservedExactly, PTL

=============================================================================

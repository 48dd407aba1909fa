----------------------------- MODULE TwapOracle -----------------------------
(***************************************************************************)
(* The rate oracle of a Market: the part of contracts/src/market/amm.cairo *)
(* that keeps the implied rate and its ring of observations.               *)
(*                                                                         *)
(* Every trade, mint, burn and parameter change ends in                    *)
(* _update_implied_rate, which first records the time spent at the stored  *)
(* rate and then stores the new one.  Anyone may pay for a longer ring.    *)
(*                                                                         *)
(* The variable truth is the reference that the ring is compared with: the *)
(* sum of the rate over the seconds, kept exactly.                         *)
(***************************************************************************)
EXTENDS OracleLib

CONSTANTS
  LnRates,          \* implied rates a trade may leave behind
  StartTime,        \* block time of the deployment
  MaxTime,          \* bound: last block time explored
  MAX_CARDINALITY   \* 8760 in the code

\* Block times are far above 1, the time of a prewarmed slot.
ASSUME TimeAssumption ==
  StartTime \in Nat /\ MaxTime \in Nat /\ 1 < StartTime /\ StartTime <= MaxTime
ASSUME RatesAssumption == LnRates \subseteq Nat
ASSUME CardinalityAssumption == MAX_CARDINALITY \in Nat \ {0}

Slots == 0..(MAX_CARDINALITY - 1)
Times == StartTime..MaxTime

VARIABLES
  now,                   \* block timestamp
  last_ln_implied_rate,
  observations, observation_index,
  observation_cardinality, observation_cardinality_next,
  truth                  \* the exact cumulative rate, up to now

vars == <<now, last_ln_implied_rate, observations, observation_index,
          observation_cardinality, observation_cardinality_next, truth>>

-----------------------------------------------------------------------------
Init ==
  /\ now = StartTime
  /\ last_ln_implied_rate = 0
  /\ observations =
       [i \in Slots |-> IF i = 0 THEN initialize(StartTime) ELSE Untouched]
  /\ observation_index = 0
  /\ observation_cardinality = 1
  /\ observation_cardinality_next = 1
  /\ truth = [t \in Times |-> 0]

\* The rate that was active until now, which the observation must use.
RateToCome(new_rate) == new_rate
RateSoFar(new_rate) == last_ln_implied_rate

_update_implied_rate(new_rate) ==
  LET result == write(observations[observation_index], observation_index, now,
                      RateSoFar(new_rate), observation_cardinality,
                      observation_cardinality_next)
  IN
  /\ observations' = [observations EXCEPT ![result.index] = result.observation]
  /\ observation_index' = result.index
  /\ observation_cardinality' = result.cardinality
  /\ last_ln_implied_rate' = new_rate
  /\ UNCHANGED <<now, observation_cardinality_next, truth>>

increase_observations_cardinality_next(n) ==
  /\ observations' = grow(observations, observation_cardinality_next, n)
  /\ observation_cardinality_next' =
       IF n > observation_cardinality_next THEN n
       ELSE observation_cardinality_next
  /\ UNCHANGED <<now, last_ln_implied_rate, observation_index,
                 observation_cardinality, truth>>

Tick ==
  /\ now < MaxTime
  /\ now' = now + 1
  /\ truth' = [truth EXCEPT ![now + 1] = truth[now] + last_ln_implied_rate]
  /\ UNCHANGED <<last_ln_implied_rate, observations, observation_index,
                 observation_cardinality, observation_cardinality_next>>

Next ==
  \/ \E r \in LnRates : _update_implied_rate(r)
  \/ \E n \in 0..MAX_CARDINALITY : increase_observations_cardinality_next(n)
  \/ Tick

Spec == Init /\ [][Next]_vars

-----------------------------------------------------------------------------
\* The oldest observation, and what observe answers for one target.
newest == observations[observation_index]
oldest ==
  observations[get_oldest_observation_index(
    observation_index, observation_cardinality,
    observations[(observation_index + 1) % observation_cardinality].initialized)]
Surrounding(target) ==
  SurroundingObservations(observations, target, observation_index,
                          observation_cardinality, last_ln_implied_rate)
observe(target) ==
  observe_single(now, target, newest, last_ln_implied_rate,
                 Surrounding(target))

Written == {i \in Slots : i < observation_cardinality
                          /\ observations[i].initialized}

-----------------------------------------------------------------------------
(***************************************************************************)
(* Properties                                                              *)
(***************************************************************************)

\* Every variable has its type.
TypeOK ==
  /\ now \in Times
  /\ last_ln_implied_rate \in LnRates \cup {0}
  /\ observations \in [Slots -> [block_timestamp : Nat, cumulative : Nat,
                                 initialized : BOOLEAN]]
  /\ observation_index \in Slots
  /\ observation_cardinality \in 1..MAX_CARDINALITY
  /\ observation_cardinality_next \in 1..MAX_CARDINALITY
  /\ truth \in [Times -> Nat]

\* Each written observation holds the exact sum at its time, and the newest
\* one continued at the stored rate gives the sum now: whatever trades fell
\* into the same second and wherever the ring wrapped or grew.
ObservationsTrue ==
  /\ \A i \in Written :
       /\ observations[i].block_timestamp \in StartTime..now
       /\ observations[i].cumulative = truth[observations[i].block_timestamp]
  /\ newest.initialized
  /\ truth[now] = newest.cumulative
                  + last_ln_implied_rate * (now - newest.block_timestamp)

\* The slot taken for the oldest is the oldest written one.
OldestIsOldest ==
  oldest.initialized
    /\ \A i \in Written : oldest.block_timestamp <= observations[i].block_timestamp

\* Slot i was written before slot j: in the order of the slots, except that
\* those up to the newest come after the others.
Precedes(i, j) ==
  \/ i < j /\ (observation_index < i \/ j <= observation_index)
  \/ j <= observation_index /\ observation_index < i

\* The slots after the newest are either all unwritten or all written, and
\* older.  So the order survives growth, which only appends unwritten slots to
\* a ring whose newest observation is its last.
RingOrdered ==
  /\ observation_index < observation_cardinality
  /\ observation_cardinality <= observation_cardinality_next
  /\ \A i \in Slots : i >= observation_cardinality => ~observations[i].initialized
  /\ \A i \in 0..observation_index : observations[i].initialized
  /\ \/ \A i \in Written : i <= observation_index
     \/ \A i \in 0..(observation_cardinality - 1) : i \in Written
  /\ \A i, j \in Written : Precedes(i, j) =>
       observations[i].block_timestamp < observations[j].block_timestamp

\* The sum grows from an observation to a time at one rate.
Straight(from, till, rate) ==
  \A t \in from.block_timestamp..till :
    truth[t] = from.cumulative + rate * (t - from.block_timestamp)

\* The rate changes only at observations: it was constant from each to the next
\* one around the ring, and is the stored one since the newest.
Following(i) == IF i = observation_cardinality - 1 THEN 0 ELSE i + 1
SegmentsStraight ==
  /\ \A i \in Written \ {observation_index} :
       \E r \in LnRates \cup {0} :
         Straight(observations[i], observations[Following(i)].block_timestamp, r)
  /\ Straight(newest, now, last_ln_implied_rate)

\* The ring and the rate after it are a true and ordered record in every
\* state, whatever slot is written next.  This is the inductive invariant.
Consistent ==
  /\ TypeOK /\ ObservationsTrue /\ RingOrdered /\ OldestIsOldest
  /\ SegmentsStraight

\* Every target between the oldest observation and now is answered (the
\* search never reverts) and answered exactly: interpolation loses nothing,
\* unused slots are never taken for observations.
ObserveExact ==
  \A target \in oldest.block_timestamp..now :
    Surrounding(target).found /\ observe(target) = truth[target]

\* An observation is forgotten only one at a time, only when it is the oldest
\* one of a ring with no free slot, and only to record a later second: trades
\* within one second and growing the ring cost no history.
HistoryKept ==
  [][ \A i \in Written :
        \/ \E j \in Written' : observations'[j] = observations[i]
        \/ /\ observations[i] = oldest
           /\ \A k \in 0..(observation_cardinality - 1) : k \in Written
           /\ newest.block_timestamp < now ]_vars

=============================================================================

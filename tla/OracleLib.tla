----------------------------- MODULE OracleLib -----------------------------
(***************************************************************************)
(* The ring buffer of rate observations: the pure functions of             *)
(* contracts/src/libraries/oracle_lib.cairo.                               *)
(*                                                                         *)
(* An observation says what the implied rate, summed over the seconds, had *)
(* reached at a time.  The buffer is a function from slots; its users keep *)
(* it with the index of the newest slot, the cardinality in use and the    *)
(* cardinality it may grow to.                                             *)
(***************************************************************************)
EXTENDS Integers

Obs(timestamp, cumulative, initialized) ==
  [block_timestamp |-> timestamp, cumulative |-> cumulative,
   initialized |-> initialized]

\* A slot never written, and one that grow has written ahead of its use.
Untouched == Obs(0, 0, FALSE)
Prewarmed == Obs(1, 0, FALSE)

\* The first observation, at deployment.
initialize(timestamp) == Obs(timestamp, 0, TRUE)

\* last carried forward to a later time at a constant rate.
transform(last, timestamp, rate) ==
  Obs(timestamp,
      last.cumulative + rate * (timestamp - last.block_timestamp), TRUE)

-----------------------------------------------------------------------------
(***************************************************************************)
(* Writing.  A second write at the same time changes nothing.  The buffer  *)
(* grows only when its last slot holds the newest observation, so that the *)
(* order of the slots around the ring is kept.                             *)
(***************************************************************************)

GrowAtOnce(index, cardinality, cardinality_next) ==
  IF cardinality_next > cardinality THEN cardinality_next ELSE cardinality
CardinalityAfter(index, cardinality, cardinality_next) ==
  IF cardinality_next > cardinality /\ index = cardinality - 1
    THEN cardinality_next ELSE cardinality

WriteAlways(last, index, timestamp, rate, cardinality, cardinality_next) ==
  LET grown == CardinalityAfter(index, cardinality, cardinality_next) IN
  [observation |-> transform(last, timestamp, rate),
   index |-> (index + 1) % grown, cardinality |-> grown]
write(last, index, timestamp, rate, cardinality, cardinality_next) ==
  LET grown == CardinalityAfter(index, cardinality, cardinality_next) IN
  IF last.block_timestamp = timestamp
    THEN [observation |-> last, index |-> index, cardinality |-> cardinality]
    ELSE [observation |-> transform(last, timestamp, rate),
          index |-> (index + 1) % grown, cardinality |-> grown]

\* The slots that growing the limit from current to next writes.
grow(buffer, current, next) ==
  [i \in DOMAIN buffer |->
     IF current <= i /\ i < next THEN Prewarmed ELSE buffer[i]]

-----------------------------------------------------------------------------
(***************************************************************************)
(* Reading                                                                 *)
(***************************************************************************)

get_oldest_observation_index(index, cardinality, slot_initialized) ==
  IF slot_initialized THEN (index + 1) % cardinality ELSE 0

\* The observations on both sides of a target; found is FALSE when the code
\* reverts.
Bracket(before, after) ==
  [found |-> TRUE, before_or_at |-> before, at_or_after |-> after]
NotFound == [found |-> FALSE, before_or_at |-> Untouched,
             at_or_after |-> Untouched]

\* Binary search over the logical positions l..r, from the oldest slot on.
binary_search(buffer, target, index, cardinality) ==
  LET oldest == (index + 1) % cardinality
      slot(i) == (oldest + i) % cardinality
      search[bounds \in (0..cardinality) \X (-1..(cardinality - 1))] ==
        LET l == bounds[1]
            r == bounds[2]
            mid == (l + r) \div 2
            before == buffer[slot(mid)]
            after == buffer[slot(mid + 1)]
        IN
        IF l > r THEN NotFound
        ELSE IF ~before.initialized THEN search[<<mid + 1, r>>]
        ELSE IF before.block_timestamp <= target
                /\ target <= after.block_timestamp
             THEN Bracket(before, after)
        ELSE IF target < before.block_timestamp
             THEN IF mid = 0 THEN NotFound ELSE search[<<l, mid - 1>>]
        ELSE search[<<mid + 1, r>>]
  IN search[<<0, cardinality - 1>>]

\* get_surrounding_observations, completed by the search where it gives up.
SurroundingObservations(buffer, target, index, cardinality, rate) ==
  LET newest == buffer[index]
      oldest == buffer[get_oldest_observation_index(index, cardinality,
                         buffer[(index + 1) % cardinality].initialized)]
  IN
  IF target < oldest.block_timestamp THEN NotFound
  ELSE IF target = newest.block_timestamp THEN Bracket(newest, newest)
  ELSE IF target > newest.block_timestamp
       THEN Bracket(newest, transform(newest, target, rate))
  ELSE IF target = oldest.block_timestamp THEN Bracket(oldest, oldest)
  ELSE binary_search(buffer, target, index, cardinality)

\* The cumulative rate at target, interpolated between its two neighbours.
NearestBefore(time, target, newest, rate, around) ==
  around.before_or_at.cumulative
observe_single(time, target, newest, rate, around) ==
  LET before == around.before_or_at
      after == around.at_or_after
  IN
  IF target = time
    THEN IF newest.block_timestamp # time
           THEN transform(newest, time, rate).cumulative
           ELSE newest.cumulative
  ELSE IF target = before.block_timestamp THEN before.cumulative
  ELSE IF target = after.block_timestamp THEN after.cumulative
  ELSE before.cumulative
         + ((after.cumulative - before.cumulative)
              * (target - before.block_timestamp))
           \div (after.block_timestamp - before.block_timestamp)

=============================================================================

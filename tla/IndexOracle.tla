----------------------------- MODULE IndexOracle -----------------------------
(***************************************************************************)
(* The adapter that turns price feeds into the exchange rate of an SY:     *)
(* contracts/src/oracles/pragma_index_oracle.cairo.                        *)
(*                                                                         *)
(* The index is the price of one feed, or the ratio of two, but never less *)
(* than the index recorded last.  Reading it records nothing: only         *)
(* update_index and emergency_set_index do.                                *)
(*                                                                         *)
(* The feed is Pragma's, outside this repository: at any time it quotes    *)
(* any price of Answers for each pair, or does not answer (a call that     *)
(* panics, an overflow of the scaling included).  The roles, the window    *)
(* that set_config hands to Pragma and the time of the last record decide  *)
(* nothing here and are left out.                                          *)
(***************************************************************************)
EXTENDS MathFp

CONSTANTS
  WAD_DECIMALS, \* 18 in the code
  MaxDecimals,  \* bound: decimals of a quote
  Answers,      \* quotes of a feed, [price, decimals]
  NoAnswer,     \* the call of the feed fails
  AdminIndexes  \* indexes an administrator tries to set in an emergency

_pow10(n) == 10 ^ n

ASSUME ScaleAssumption ==
  WAD_DECIMALS \in 0..MaxDecimals /\ WAD = _pow10(WAD_DECIMALS)
ASSUME DecimalsAssumption ==
  MaxDecimals \in Nat /\ \A n \in 0..MaxDecimals : _pow10(n) \in Nat \ {0}
ASSUME AnswersAssumption ==
  Answers \subseteq [price : Nat, decimals : 0..MaxDecimals] /\ NoAnswer \notin Answers
ASSUME AdminAssumption == AdminIndexes \subseteq Nat

VARIABLES
  dual,          \* denominator_pair_id # 0: the index is a ratio of two prices
  quote,         \* what the feed answers now, for the numerator and denominator
  stored_index,  \* the index recorded last
  oracle_paused  \* while set, the stored index is answered

oracleVars == <<dual, quote, stored_index, oracle_paused>>

Quotes == [numerator : Answers \cup {NoAnswer}, denominator : Answers \cup {NoAnswer}]

-----------------------------------------------------------------------------
_price_to_wad(q) ==
  IF q.decimals <= WAD_DECIMALS
    THEN q.price * _pow10(WAD_DECIMALS - q.decimals)
    ELSE q.price \div _pow10(q.decimals - WAD_DECIMALS)

\* (n / 10^n.decimals) / (d / 10^d.decimals), multiplied before it is divided.
_calculate_ratio_wad(n, d) ==
  (n.price * _pow10(d.decimals) * WAD) \div (d.price * _pow10(n.decimals))

\* _fetch_oracle_index returns, rather than fails.
FeedAnswers ==
  /\ quote.numerator # NoAnswer
  /\ dual => quote.denominator # NoAnswer /\ quote.denominator.price > 0

_fetch_oracle_index ==
  IF dual THEN _calculate_ratio_wad(quote.numerator, quote.denominator)
  ELSE _price_to_wad(quote.numerator)

IndexAnswers == oracle_paused \/ FeedAnswers

IndexWithoutWatermark == IF oracle_paused THEN stored_index ELSE _fetch_oracle_index
index ==
  IF oracle_paused \/ _fetch_oracle_index <= stored_index
    THEN stored_index ELSE _fetch_oracle_index

-----------------------------------------------------------------------------
OracleInit ==
  /\ dual \in BOOLEAN
  /\ quote \in Quotes
  /\ stored_index \in {i \in AdminIndexes \cup {WAD} : i >= WAD}
  /\ oracle_paused = FALSE

NewQuote ==
  /\ quote' \in {[quote EXCEPT !.numerator = q] : q \in Answers \cup {NoAnswer}}
         \cup {[quote EXCEPT !.denominator = q] :
                 q \in IF dual THEN Answers \cup {NoAnswer} ELSE {}}
  /\ UNCHANGED <<dual, stored_index, oracle_paused>>

update_index ==
  /\ ~oracle_paused
  /\ FeedAnswers
  /\ stored_index' = index
  /\ UNCHANGED <<dual, quote, oracle_paused>>

oracle_pause ==
  /\ oracle_paused' = TRUE
  /\ UNCHANGED <<dual, quote, stored_index>>

oracle_unpause ==
  /\ oracle_paused' = FALSE
  /\ UNCHANGED <<dual, quote, stored_index>>

\* Paused or not; the recorded index can only be raised.
emergency_set_index(new_index) ==
  /\ new_index >= WAD
  /\ new_index >= stored_index
  /\ stored_index' = new_index
  /\ UNCHANGED <<dual, quote, oracle_paused>>

OracleNext ==
  \/ NewQuote
  \/ update_index
  \/ oracle_pause
  \/ oracle_unpause
  \/ \E i \in AdminIndexes : emergency_set_index(i)

-----------------------------------------------------------------------------
OracleTypeOK ==
  /\ dual \in BOOLEAN
  /\ quote \in Quotes
  /\ stored_index \in Nat
  /\ oracle_paused \in BOOLEAN
=============================================================================

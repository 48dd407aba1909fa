------------------------------- MODULE SYToken -------------------------------
(***************************************************************************)
(* The SY token: contracts/src/components/sy_component.cairo in            *)
(* contracts/src/tokens/sy.cairo (and sy_with_rewards.cairo, whose reward  *)
(* accounting is RewardManager), with its source of the exchange rate: an  *)
(* ERC-4626 vault, or the oracle of IndexOracle.                           *)
(*                                                                         *)
(* One SY is one share of any of the accepted tokens; a holder may redeem  *)
(* it for another token than was deposited.  A caller's minimum (equal to  *)
(* the amount at best) and allowances only refuse calls.  The accepted     *)
(* tokens move the amount they are asked to, as the code assumes.          *)
(***************************************************************************)
EXTENDS IndexOracle, Functions, FiniteSets

CONSTANTS
  Tokens,      \* underlying tokens
  Users,       \* users and contracts that hold SY
  SY,          \* the SY contract itself
  VaultRates,  \* convert_to_assets(WAD) of the vault
  Amounts,     \* amounts of a deposit, a redemption, a transfer
  MaxShares,   \* bound: SY in circulation
  MaxDonated   \* bound: tokens sent to the contract without a deposit

ASSUME SYAssumption == SY \notin Users
\* The constructor is given the tokens in an array; an address is a felt252.
ASSUME FiniteAssumption == IsFiniteSet(Tokens) /\ IsFiniteSet(Users)
ASSUME SYAmountsAssumption ==
  /\ VaultRates \subseteq Nat /\ NoAnswer \notin VaultRates
  /\ Amounts \subseteq Nat \ {0} /\ MaxShares \in Nat /\ MaxDonated \in Nat

VARIABLES
  is_erc4626,            \* the rate is a vault's
  vault_rate,            \* what the vault answers now
  tokens_in, tokens_out, \* tokens accepted for a deposit, a redemption
  paused,
  sy, reserve,           \* balances: of SY, and of the contract in each token
  donated,               \* tokens sent without a deposit, counted for the bound
  last_exchange_rate,    \* at the last deposit or redemption
  min_exchange_rate,     \* the highest rate at any of them, despite its name
  notices                \* the events about the rate of the last of them

config == <<is_erc4626, tokens_in, tokens_out>>
rateRecords == <<last_exchange_rate, min_exchange_rate, notices>>
balances == <<sy, reserve, donated>>
syVars == <<config, vault_rate, paused, balances, rateRecords>>
vars == <<oracleVars, syVars>>

Holders == Users \cup {SY}

-----------------------------------------------------------------------------
\* _exchange_rate
RateAnswers == IF is_erc4626 THEN vault_rate # NoAnswer ELSE IndexAnswers
exchange_rate == IF is_erc4626 THEN vault_rate ELSE index

\* The watermark after a rate was seen.
WatermarkFollows(rate) == rate
Watermark(rate) == IF rate > min_exchange_rate THEN rate ELSE min_exchange_rate

\* After a rate of 0, a change is not announced.
_check_and_emit_rate_update ==
  /\ RateAnswers
  /\ last_exchange_rate' = exchange_rate
  /\ min_exchange_rate' = Watermark(exchange_rate)
  /\ notices' =
       {n \in {"OracleRateUpdated"} :
          last_exchange_rate > 0 /\ exchange_rate # last_exchange_rate}
       \cup {n \in {"NegativeYieldDetected"} : exchange_rate < min_exchange_rate}

-----------------------------------------------------------------------------
Init ==
  /\ OracleInit
  /\ is_erc4626 \in BOOLEAN
  /\ vault_rate \in IF is_erc4626 THEN VaultRates ELSE {NoAnswer}
  /\ IF is_erc4626 THEN ~dual /\ quote = [numerator |-> NoAnswer, denominator |-> NoAnswer]
     ELSE dual \/ quote.denominator = NoAnswer
  /\ RateAnswers
  /\ tokens_in \in SUBSET Tokens \ {{}}
  /\ tokens_out \in SUBSET Tokens \ {{}}
  /\ paused = FALSE
  /\ sy = [h \in Holders |-> 0]
  /\ reserve = [t \in Tokens |-> 0]
  /\ donated = 0
  /\ last_exchange_rate = exchange_rate
  /\ min_exchange_rate = exchange_rate
  /\ notices = {}

\* Refused while paused by before_deposit, and by the hook of the mint.
deposit(receiver, token, amount) ==
  /\ ~paused
  /\ token \in tokens_in
  /\ SumFunction(sy) + amount <= MaxShares
  /\ _check_and_emit_rate_update
  /\ reserve' = [reserve EXCEPT ![token] = @ + amount]
  /\ sy' = [sy EXCEPT ![receiver] = @ + amount]
  /\ UNCHANGED <<oracleVars, config, vault_rate, paused, donated>>

\* Paused or not.  burner is the caller, or with burn_from_internal_balance
\* the contract.
MayRedeemUnlessPaused(burner, token, amount) ==
  /\ ~paused
  /\ token \in tokens_out
  /\ RateAnswers
  /\ sy[burner] >= amount /\ reserve[token] >= amount
MayRedeem(burner, token, amount) ==
  /\ token \in tokens_out
  /\ RateAnswers
  /\ sy[burner] >= amount
  /\ reserve[token] >= amount

redeem(burner, receiver, token, amount) ==
  /\ MayRedeem(burner, token, amount)
  /\ _check_and_emit_rate_update
  /\ sy' = [sy EXCEPT ![burner] = @ - amount]
  /\ reserve' = IF receiver = SY THEN reserve ELSE [reserve EXCEPT ![token] = @ - amount]
  /\ donated' = IF receiver = SY THEN donated + amount ELSE donated
  /\ donated' <= MaxDonated
  /\ UNCHANGED <<oracleVars, config, vault_rate, paused>>

\* transfer and transfer_from; the hook refuses them while paused.
transfer(from, to, amount) ==
  /\ ~paused
  /\ sy[from] >= amount
  /\ sy' = [sy EXCEPT ![from] = @ - amount, ![to] = @ + amount]
  /\ UNCHANGED <<oracleVars, config, vault_rate, paused, reserve, donated, rateRecords>>

pause ==
  /\ ~paused
  /\ paused' = TRUE
  /\ UNCHANGED <<oracleVars, config, vault_rate, balances, rateRecords>>

unpause ==
  /\ paused
  /\ paused' = FALSE
  /\ UNCHANGED <<oracleVars, config, vault_rate, balances, rateRecords>>

\* Tokens sent to the contract by a plain transfer.
Donate(token, amount) ==
  /\ donated + amount <= MaxDonated
  /\ donated' = donated + amount
  /\ reserve' = [reserve EXCEPT ![token] = @ + amount]
  /\ UNCHANGED <<oracleVars, config, vault_rate, paused, sy, rateRecords>>

\* The vault gains or loses, or stops to answer.
NewVaultRate ==
  /\ is_erc4626
  /\ vault_rate' \in VaultRates \cup {NoAnswer}
  /\ UNCHANGED <<oracleVars, config, paused, balances, rateRecords>>

Next ==
  \/ ~is_erc4626 /\ OracleNext /\ UNCHANGED syVars
  \/ NewVaultRate
  \/ \E receiver \in Holders, t \in Tokens, a \in Amounts : deposit(receiver, t, a)
  \/ \E burner, receiver \in Holders, t \in Tokens, a \in Amounts :
       redeem(burner, receiver, t, a)
  \/ \E from \in Users, to \in Holders, a \in Amounts : transfer(from, to, a)
  \/ pause
  \/ unpause
  \/ \E t \in Tokens, a \in Amounts : Donate(t, a)

Spec == Init /\ [][Next]_vars

-----------------------------------------------------------------------------
(* Properties *)

TypeOK ==
  /\ OracleTypeOK
  /\ is_erc4626 \in BOOLEAN
  /\ vault_rate \in VaultRates \cup {NoAnswer}
  /\ tokens_in \in SUBSET Tokens /\ tokens_out \in SUBSET Tokens
  /\ paused \in BOOLEAN
  /\ sy \in [Holders -> Nat] /\ reserve \in [Tokens -> Nat] /\ donated \in Nat
  /\ last_exchange_rate \in Nat /\ min_exchange_rate \in Nat
  /\ notices \subseteq {"OracleRateUpdated", "NegativeYieldDetected"}

\* min_exchange_rate is the highest rate a deposit or redemption saw, and
\* NegativeYieldDetected tells, after every one of them, whether the rate it
\* saw was below an earlier one: a loss is announced until it is made good.
LossesAnnounced ==
  /\ last_exchange_rate <= min_exchange_rate
  /\ "NegativeYieldDetected" \in notices <=> last_exchange_rate < min_exchange_rate

\* With an oracle the rates recorded by the SY never fall below one: the index
\* starts at WAD and what is recorded of it does not fall.
AtLeastOne ==
  ~is_erc4626 => stored_index >= WAD /\ last_exchange_rate >= WAD

Consistent == TypeOK /\ LossesAnnounced /\ AtLeastOne

\* When every accepted token is given out again, the tokens to redeem for cover
\* all SY, wherever it is held.
Covered ==
  tokens_in \subseteq tokens_out =>
    SumFunction(sy) <= SumFunction([t \in tokens_out |-> reserve[t]])

\* sy.cairo ("users can always exit their positions during emergencies"):
\* all SY is covered, and when the rate answers each holder can redeem now, for
\* one token or another, paused or not.
ExitOpen ==
  /\ Covered
  /\ RateAnswers /\ tokens_in \subseteq tokens_out =>
       \A h \in Holders : sy[h] > 0 => \E t \in Tokens : MayRedeem(h, t, 1)

\* pragma_index_oracle.cairo ("Decreasing the index would allow stealing yield
\* from YT holders"): what was recorded once is the least the oracle answers
\* ever after, whatever the feed quotes, through pauses and emergencies.  (What
\* was only answered and never recorded may be taken back.)
RecordedIndexKept ==
  [][stored_index' >= stored_index /\ (IndexAnswers' => index' >= stored_index)]_vars
=============================================================================

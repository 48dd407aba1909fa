--------------------------- MODULE SYToken_proofs ---------------------------
(***************************************************************************)
(* For every set of quotes, vault rates, tokens and holders: the recorded  *)
(* rates of the SY token and its oracle are consistent, the oracle never   *)
(* answers less than it recorded, and every holder can redeem.             *)
(***************************************************************************)
EXTENDS SYToken, MathFp_proofs

-----------------------------------------------------------------------------
(* The rate *)

\* A feed that answers has a natural number for an index: the divisions are by
\* positive numbers.
LEMMA FetchType ==
  ASSUME OracleTypeOK, FeedAnswers
  PROVE  _fetch_oracle_index \in Nat
<1> DEFINE n == quote.numerator
           d == quote.denominator
<1>1. n \in [price : Nat, decimals : 0..MaxDecimals]
  BY AnswersAssumption DEF OracleTypeOK, FeedAnswers, Quotes
<1>2. CASE ~dual
  <2>1. CASE n.decimals <= WAD_DECIMALS
    <3>1. WAD_DECIMALS - n.decimals \in 0..MaxDecimals
      BY <1>1, <2>1, WadAssumption, ScaleAssumption, DecimalsAssumption
    <3>2. _pow10(WAD_DECIMALS - n.decimals) \in Nat
      BY <3>1, DecimalsAssumption
    <3>3. _price_to_wad(n) = n.price * _pow10(WAD_DECIMALS - n.decimals)
      BY <2>1 DEF _price_to_wad
    <3> HIDE DEF n
    <3>4. _price_to_wad(n) \in Nat
      BY <1>1, <3>2, <3>3
    <3> QED BY <1>2, <3>4 DEF _fetch_oracle_index, n
  <2>2. CASE ~(n.decimals <= WAD_DECIMALS)
    <3>1. n.decimals - WAD_DECIMALS \in 0..MaxDecimals
      BY <1>1, <2>2, WadAssumption, ScaleAssumption, DecimalsAssumption
    <3>2. _pow10(n.decimals - WAD_DECIMALS) \in Nat \ {0}
      BY <3>1, DecimalsAssumption
    <3>3. _price_to_wad(n) = n.price \div _pow10(n.decimals - WAD_DECIMALS)
      BY <2>2 DEF _price_to_wad
    <3> HIDE DEF n
    <3>4. _price_to_wad(n) \in Nat
      BY <1>1, <3>2, <3>3
    <3> QED BY <1>2, <3>4 DEF _fetch_oracle_index, n
  <2> QED BY <2>1, <2>2
<1>3. CASE dual
  <2>1. d \in [price : Nat, decimals : 0..MaxDecimals] /\ d.price > 0
    BY <1>3, AnswersAssumption DEF OracleTypeOK, FeedAnswers, Quotes
  <2>2. _pow10(n.decimals) \in Nat \ {0} /\ _pow10(d.decimals) \in Nat \ {0}
    BY <1>1, <2>1, DecimalsAssumption
  <2> HIDE DEF n, d
  <2>3. n.price * _pow10(d.decimals) * WAD \in Nat
    BY <1>1, <2>2, WadAssumption
  <2>4. d.price * _pow10(n.decimals) \in Nat \ {0}
    BY <2>1, <2>2
  <2>5. _calculate_ratio_wad(n, d) \in Nat
    BY <2>3, <2>4 DEF _calculate_ratio_wad
  <2> QED BY <1>3, <2>5 DEF _fetch_oracle_index, n, d
<1> QED BY <1>2, <1>3

\* The oracle answers a natural number, and no less than it recorded.
LEMMA IndexBounds ==
  ASSUME OracleTypeOK, IndexAnswers
  PROVE  index \in Nat /\ index >= stored_index
<1>1. CASE oracle_paused
  BY <1>1 DEF OracleTypeOK, index
<1>2. CASE ~oracle_paused
  <2>1. _fetch_oracle_index \in Nat
    BY <1>2, FetchType DEF IndexAnswers
  <2> QED BY <1>2, <2>1 DEF OracleTypeOK, index
<1> QED BY <1>1, <1>2

\* The rate an SY reads is a natural number; the oracle's is at least WAD.
LEMMA RateBounds ==
  ASSUME TypeOK, AtLeastOne, RateAnswers
  PROVE  exchange_rate \in Nat /\ (~is_erc4626 => exchange_rate >= WAD)
<1>1. CASE is_erc4626
  BY <1>1, SYAmountsAssumption DEF TypeOK, RateAnswers, exchange_rate
<1>2. CASE ~is_erc4626
  <2>1. index \in Nat /\ index >= stored_index
    BY <1>2, IndexBounds DEF TypeOK, RateAnswers
  <2> QED BY <1>2, <2>1, WadAssumption DEF TypeOK, OracleTypeOK, AtLeastOne, exchange_rate
<1> QED BY <1>1, <1>2

\* What a deposit or a redemption does to the records of the rate.
LEMMA RecordsConsistent ==
  ASSUME Consistent, _check_and_emit_rate_update
  PROVE  /\ last_exchange_rate' \in Nat /\ min_exchange_rate' \in Nat
         /\ notices' \subseteq {"OracleRateUpdated", "NegativeYieldDetected"}
         /\ LossesAnnounced'
         /\ ~is_erc4626 => last_exchange_rate' >= WAD
<1>1. exchange_rate \in Nat /\ (~is_erc4626 => exchange_rate >= WAD)
  BY RateBounds DEF Consistent, _check_and_emit_rate_update
<1>2. /\ last_exchange_rate' = exchange_rate
      /\ min_exchange_rate' = Watermark(exchange_rate)
      /\ "NegativeYieldDetected" \in notices' <=> exchange_rate < min_exchange_rate
      /\ notices' \subseteq {"OracleRateUpdated", "NegativeYieldDetected"}
  BY DEF _check_and_emit_rate_update
<1>3. min_exchange_rate \in Nat
  BY DEF Consistent, TypeOK
<1> QED BY <1>1, <1>2, <1>3 DEF Watermark, LossesAnnounced

-----------------------------------------------------------------------------
(* The invariant *)

LEMMA InitConsistent == Init => Consistent
<1> SUFFICES ASSUME Init PROVE Consistent
  OBVIOUS
<1>1. OracleTypeOK /\ stored_index >= WAD
  BY WadAssumption, AdminAssumption DEF Init, OracleInit, OracleTypeOK
<1>2. exchange_rate \in Nat /\ (~is_erc4626 => exchange_rate >= WAD)
  <2>1. CASE is_erc4626
    BY <2>1, SYAmountsAssumption DEF Init, exchange_rate
  <2>2. CASE ~is_erc4626
    BY <2>2, <1>1, IndexBounds, WadAssumption DEF Init, RateAnswers, exchange_rate, OracleTypeOK
  <2> QED BY <2>1, <2>2
<1>3. TypeOK
  BY <1>1, <1>2 DEF Init, TypeOK
<1>4. LossesAnnounced
  BY <1>2 DEF Init, LossesAnnounced
<1>5. AtLeastOne
  BY <1>1, <1>2, WadAssumption DEF Init, AtLeastOne
<1> QED BY <1>3, <1>4, <1>5 DEF Consistent

\* The oracle's own steps keep its type and do not lower what it recorded.
LEMMA OracleStep ==
  ASSUME OracleTypeOK, OracleNext
  PROVE  OracleTypeOK' /\ stored_index' >= stored_index
<1> USE DEF OracleTypeOK
<1>1. CASE NewQuote
  BY <1>1 DEF NewQuote, Quotes
<1>2. CASE update_index
  BY <1>2, IndexBounds DEF update_index, IndexAnswers
<1>3. CASE oracle_pause
  BY <1>3 DEF oracle_pause
<1>4. CASE oracle_unpause
  <2>1. OracleTypeOK'
    BY <1>4, Zenon DEF oracle_unpause
  <2> QED BY <1>4, <2>1 DEF oracle_unpause
<1>5. ASSUME NEW i \in AdminIndexes, emergency_set_index(i)
      PROVE  OracleTypeOK' /\ stored_index' >= stored_index
  BY <1>5, AdminAssumption DEF emergency_set_index
<1>6. OracleNext => \/ NewQuote \/ update_index \/ oracle_pause \/ oracle_unpause
                   \/ \E i \in AdminIndexes : emergency_set_index(i)
  BY DEF OracleNext
<1> QED BY <1>1, <1>2, <1>3, <1>4, <1>5, <1>6

LEMMA StepConsistent == Consistent /\ [Next]_vars => Consistent'
<1> SUFFICES ASSUME Consistent, [Next]_vars PROVE Consistent'
  OBVIOUS
<1> USE DEF Consistent
<1>1. CASE ~is_erc4626 /\ OracleNext /\ UNCHANGED syVars
  <2>1. OracleTypeOK' /\ stored_index' >= stored_index
    BY <1>1, OracleStep DEF TypeOK
  <2>2. TypeOK'
    BY <1>1, <2>1 DEF TypeOK, syVars, config, balances, rateRecords
  <2>3. LossesAnnounced'
    BY <1>1 DEF LossesAnnounced, syVars, rateRecords
  <2>4. AtLeastOne'
    BY <1>1, <2>1, WadAssumption
    DEF AtLeastOne, TypeOK, OracleTypeOK, syVars, config, rateRecords
  <2> QED BY <2>2, <2>3, <2>4
<1>2. CASE NewVaultRate
  BY <1>2 DEF NewVaultRate, TypeOK, OracleTypeOK, LossesAnnounced, AtLeastOne, oracleVars,
              config, balances, rateRecords
<1>3. ASSUME NEW receiver \in Holders, NEW t \in Tokens, NEW a \in Amounts,
             deposit(receiver, t, a)
      PROVE  Consistent'
  <2>1. _check_and_emit_rate_update /\ UNCHANGED <<oracleVars, config, vault_rate, paused, donated>>
    BY <1>3 DEF deposit
  <2>2. sy' \in [Holders -> Nat] /\ reserve' \in [Tokens -> Nat]
    BY <1>3, SYAmountsAssumption DEF deposit, TypeOK
  <2>3. TypeOK'
    BY <2>1, <2>2, RecordsConsistent DEF TypeOK, OracleTypeOK, oracleVars, config
  <2>4. AtLeastOne'
    BY <2>1, RecordsConsistent DEF AtLeastOne, oracleVars, config
  <2> QED BY <2>1, <2>3, <2>4, RecordsConsistent
<1>4. ASSUME NEW burner \in Holders, NEW receiver \in Holders, NEW t \in Tokens,
             NEW a \in Amounts, redeem(burner, receiver, t, a)
      PROVE  Consistent'
  <2>1. _check_and_emit_rate_update /\ UNCHANGED <<oracleVars, config, vault_rate, paused>>
    BY <1>4 DEF redeem
  <2>2. a \in Nat /\ sy[burner] >= a /\ reserve[t] >= a
    BY <1>4, SYAmountsAssumption DEF redeem, MayRedeem
  <2>3. sy' \in [Holders -> Nat]
    BY <1>4, <2>2 DEF redeem, TypeOK
  <2>4. reserve' \in [Tokens -> Nat] /\ donated' \in Nat
    BY <1>4, <2>2 DEF redeem, TypeOK
  <2>5. TypeOK'
    BY <2>1, <2>3, <2>4, RecordsConsistent DEF TypeOK, OracleTypeOK, oracleVars, config
  <2>6. AtLeastOne'
    BY <2>1, RecordsConsistent DEF AtLeastOne, oracleVars, config
  <2> QED BY <2>1, <2>5, <2>6, RecordsConsistent
<1>5. ASSUME NEW from \in Users, NEW to \in Holders, NEW a \in Amounts, transfer(from, to, a)
      PROVE  Consistent'
  <2>1. sy' \in [Holders -> Nat]
    BY <1>5, SYAmountsAssumption DEF transfer, TypeOK, Holders
  <2> QED BY <1>5, <2>1 DEF transfer, TypeOK, OracleTypeOK, LossesAnnounced, AtLeastOne,
                            oracleVars, config, rateRecords
<1>6. CASE pause
  BY <1>6 DEF pause, TypeOK, OracleTypeOK, LossesAnnounced, AtLeastOne, oracleVars,
              config, balances, rateRecords
<1>7. CASE unpause
  BY <1>7 DEF unpause, TypeOK, OracleTypeOK, LossesAnnounced, AtLeastOne, oracleVars,
              config, balances, rateRecords
<1>8. ASSUME NEW t \in Tokens, NEW a \in Amounts, Donate(t, a)
      PROVE  Consistent'
  <2>1. reserve' \in [Tokens -> Nat] /\ donated' \in Nat
    BY <1>8, SYAmountsAssumption DEF Donate, TypeOK
  <2> QED BY <1>8, <2>1 DEF Donate, TypeOK, OracleTypeOK, LossesAnnounced, AtLeastOne,
                            oracleVars, config, rateRecords
<1>9. CASE UNCHANGED vars
  BY <1>9 DEF vars, syVars, TypeOK, OracleTypeOK, LossesAnnounced, AtLeastOne, oracleVars,
              config, balances, rateRecords
<1> QED BY <1>1, <1>2, <1>3, <1>4, <1>5, <1>6, <1>7, <1>8, <1>9 DEF Next

\* The state is well typed, the watermark is the highest rate recorded and the
\* event NegativeYieldDetected tells each time whether the rate is below it,
\* and with an oracle no rate below one is ever recorded.
THEOREM Safety == Spec => []Consistent
<1> QED BY InitConsistent, StepConsistent, PTL DEF Spec

-----------------------------------------------------------------------------
(* What the oracle recorded *)

LEMMA StepKeepsRecorded ==
  ASSUME Consistent, [Next]_vars
  PROVE  stored_index' >= stored_index
<1>1. CASE ~is_erc4626 /\ OracleNext /\ UNCHANGED syVars
  BY <1>1, OracleStep DEF Consistent, TypeOK
<1>2. CASE UNCHANGED stored_index
  BY <1>2 DEF Consistent, TypeOK, OracleTypeOK
<1>3. [Next]_vars /\ ~(~is_erc4626 /\ OracleNext /\ UNCHANGED syVars) => UNCHANGED stored_index
  BY DEF Next, vars, NewVaultRate, deposit, redeem, transfer, pause, unpause, Donate, oracleVars
<1> QED BY <1>1, <1>2, <1>3

IndexFloor == IndexAnswers => index \in Nat /\ index >= stored_index

\* What update_index or emergency_set_index recorded once is the least the
\* oracle answers ever after.
THEOREM RecordedIndexIsKept == Spec => RecordedIndexKept
<1>1. OracleTypeOK => IndexFloor
  BY IndexBounds DEF IndexFloor
<1>2. Consistent /\ Consistent' /\ [Next]_vars =>
        [stored_index' >= stored_index /\ (IndexAnswers' => index' >= stored_index)]_vars
  <2> SUFFICES ASSUME Consistent, Consistent', [Next]_vars
               PROVE  stored_index' >= stored_index
                      /\ (IndexAnswers' => index' >= stored_index)
    OBVIOUS
  <2>1. stored_index' >= stored_index
    BY StepKeepsRecorded
  <2>2. OracleTypeOK /\ OracleTypeOK'
    BY DEF Consistent, TypeOK
  <2>3. IndexFloor'
    BY <1>1, <2>2, PTL
  <2>4. IndexAnswers' => index' \in Nat /\ index' >= stored_index'
    BY <2>3 DEF IndexFloor
  <2> QED BY <2>1, <2>2, <2>4 DEF OracleTypeOK
<1> QED BY <1>2, Safety, PTL DEF Spec, RecordedIndexKept

-----------------------------------------------------------------------------
(* Exits *)

LEMMA HoldersFinite == IsFiniteSet(Holders)
<1>1. IsFiniteSet(Users) /\ IsFiniteSet({SY})
  BY FiniteAssumption, FS_Singleton
<1> QED BY <1>1, FS_Union DEF Holders

\* Sums over the holders and over the tokens given out.
AllSY(s) == SumFunctionOnSet(s, Holders)
AllOut(r) == SumFunctionOnSet(r, tokens_out)

\* Covered, in terms of these sums.
LEMMA CoveredSums ==
  ASSUME TypeOK
  PROVE  /\ Covered <=> (tokens_in \subseteq tokens_out => AllSY(sy) <= AllOut(reserve))
         /\ IsFiniteSet(tokens_out) /\ tokens_out \subseteq Tokens
         /\ AllSY(sy) \in Nat /\ AllOut(reserve) \in Nat
<1>1. /\ tokens_out \in SUBSET Tokens /\ IsFiniteSet(tokens_out)
      /\ sy \in [Holders -> Nat] /\ reserve \in [Tokens -> Nat]
  BY FiniteAssumption, FS_Subset DEF TypeOK
<1> DEFINE r == [t \in tokens_out |-> reserve[t]]
<1>2. SumFunction(sy) = AllSY(sy)
  BY <1>1 DEF SumFunction, AllSY
<1>3. SumFunction(r) = SumFunctionOnSet(r, tokens_out)
  BY DEF SumFunction
<1>4. \A t \in tokens_out : reserve[t] \in Int /\ r[t] = reserve[t]
  BY <1>1
<1> HIDE DEF r
<1>5. SumFunctionOnSet(r, tokens_out) = AllOut(reserve)
  BY <1>1, <1>4, SumSame DEF AllOut
<1>6. AllSY(sy) \in Nat
  BY <1>1, HoldersFinite, SumNat DEF AllSY
<1>7. AllOut(reserve) \in Nat
  BY <1>1, SumNat DEF AllOut
<1>8. Covered <=> (tokens_in \subseteq tokens_out => SumFunction(sy) <= SumFunction(r))
  BY DEF Covered, r
<1> QED BY <1>1, <1>2, <1>3, <1>5, <1>6, <1>7, <1>8

\* The same, one step later.
CoveredReads ==
  Covered <=> (tokens_in \subseteq tokens_out => AllSY(sy) <= AllOut(reserve))

LEMMA CoveredNow == TypeOK => CoveredReads
BY CoveredSums DEF CoveredReads

LEMMA CoveredNext ==
  ASSUME TypeOK', UNCHANGED <<tokens_in, tokens_out>>
  PROVE  Covered' <=> (tokens_in \subseteq tokens_out => AllSY(sy') <= AllOut(reserve'))
<1>1. TypeOK'
  OBVIOUS
<1>2. CoveredReads'
  BY <1>1, CoveredNow, PTL
<1> QED BY <1>2 DEF CoveredReads, AllSY, AllOut

\* A balance of SY that changes changes the sum by as much.
LEMMA HolderChanges ==
  ASSUME NEW f \in [Holders -> Nat], NEW g \in [Holders -> Nat], NEW h \in Holders,
         \A x \in Holders \ {h} : g[x] = f[x]
  PROVE  AllSY(g) = AllSY(f) + (g[h] - f[h])
<1>1. \A x \in Holders : f[x] \in Int /\ g[x] \in Int
  OBVIOUS
<1>2. SumFunctionOnSet(g, Holders) = SumFunctionOnSet(f, Holders) + (g[h] - f[h])
  BY <1>1, HoldersFinite, SumChanges
<1> QED BY <1>2 DEF AllSY

\* So does a reserve in a token given out.
LEMMA ReserveChanges ==
  ASSUME TypeOK, NEW f \in [Tokens -> Nat], NEW g \in [Tokens -> Nat], NEW t \in tokens_out,
         \A x \in Tokens \ {t} : g[x] = f[x]
  PROVE  AllOut(g) = AllOut(f) + (g[t] - f[t])
<1>1. IsFiniteSet(tokens_out) /\ tokens_out \subseteq Tokens
  BY CoveredSums
<1>2. /\ \A x \in tokens_out : f[x] \in Int /\ g[x] \in Int
      /\ \A x \in tokens_out \ {t} : g[x] = f[x]
  BY <1>1
<1>3. SumFunctionOnSet(g, tokens_out) = SumFunctionOnSet(f, tokens_out) + (g[t] - f[t])
  BY <1>1, <1>2, SumChanges
<1> QED BY <1>3 DEF AllOut

LEMMA DepositCovered ==
  ASSUME Consistent, Consistent', Covered,
         NEW h \in Holders, NEW t \in Tokens, NEW a \in Amounts, deposit(h, t, a)
  PROVE  Covered'
<1>1. /\ TypeOK /\ TypeOK' /\ UNCHANGED <<tokens_in, tokens_out>>
      /\ sy \in [Holders -> Nat] /\ sy' \in [Holders -> Nat]
      /\ reserve \in [Tokens -> Nat] /\ reserve' \in [Tokens -> Nat]
      /\ a \in Nat /\ t \in tokens_in
  BY SYAmountsAssumption DEF Consistent, TypeOK, deposit, config
<1>2. /\ \A x \in Holders \ {h} : sy'[x] = sy[x] /\ sy'[h] = sy[h] + a
      /\ \A x \in Tokens \ {t} : reserve'[x] = reserve[x]
      /\ sy'[h] = sy[h] + a /\ reserve'[t] = reserve[t] + a
  BY <1>1 DEF deposit
<1>3. AllSY(sy') = AllSY(sy) + (sy'[h] - sy[h])
  BY <1>1, <1>2, HolderChanges
<1>4. t \in tokens_out => AllOut(reserve') = AllOut(reserve) + (reserve'[t] - reserve[t])
  BY <1>1, <1>2, ReserveChanges
<1>5. AllSY(sy) \in Nat /\ AllOut(reserve) \in Nat /\ sy[h] \in Nat /\ reserve[t] \in Nat
  BY <1>1, CoveredSums
<1>6. ASSUME tokens_in \subseteq tokens_out PROVE AllSY(sy') <= AllOut(reserve')
  <2>1. AllSY(sy) <= AllOut(reserve) /\ t \in tokens_out
    BY <1>1, <1>6, CoveredSums
  <2> QED BY <1>1, <1>2, <1>3, <1>4, <1>5, <2>1
<1> QED BY <1>1, <1>6, CoveredNext

\* A redemption burns the SY and takes the tokens, unless they are sent to the
\* contract itself and stay.
LEMMA RedeemCovered ==
  ASSUME Consistent, Consistent', Covered,
         NEW h \in Holders, NEW receiver \in Holders, NEW t \in Tokens,
         NEW a \in Amounts, redeem(h, receiver, t, a)
  PROVE  Covered'
<1>1. /\ TypeOK /\ TypeOK' /\ UNCHANGED <<tokens_in, tokens_out>>
      /\ sy \in [Holders -> Nat] /\ sy' \in [Holders -> Nat]
      /\ reserve \in [Tokens -> Nat] /\ reserve' \in [Tokens -> Nat]
      /\ a \in Nat /\ t \in tokens_out /\ sy[h] >= a /\ reserve[t] >= a
  BY SYAmountsAssumption DEF Consistent, TypeOK, redeem, MayRedeem, config
<1>2. /\ \A x \in Holders \ {h} : sy'[x] = sy[x]
      /\ \A x \in Tokens \ {t} : reserve'[x] = reserve[x]
      /\ sy'[h] = sy[h] - a /\ reserve'[t] >= reserve[t] - a
  BY <1>1 DEF redeem
<1>3. AllSY(sy') = AllSY(sy) + (sy'[h] - sy[h])
  BY <1>1, <1>2, HolderChanges
<1>4. AllOut(reserve') = AllOut(reserve) + (reserve'[t] - reserve[t])
  BY <1>1, <1>2, ReserveChanges
<1>5. /\ AllSY(sy) \in Nat /\ AllOut(reserve) \in Nat /\ sy[h] \in Nat
      /\ reserve[t] \in Nat /\ reserve'[t] \in Nat
  BY <1>1, CoveredSums
<1>6. ASSUME tokens_in \subseteq tokens_out PROVE AllSY(sy') <= AllOut(reserve')
  <2>1. AllSY(sy) <= AllOut(reserve)
    BY <1>1, <1>6, CoveredSums
  <2> QED BY <1>1, <1>2, <1>3, <1>4, <1>5, <2>1
<1> QED BY <1>1, <1>6, CoveredNext

LEMMA TransferCovered ==
  ASSUME Consistent, Consistent', Covered,
         NEW from \in Users, NEW to \in Holders, NEW a \in Amounts, transfer(from, to, a)
  PROVE  Covered'
<1> DEFINE g == [sy EXCEPT ![from] = @ - a]
<1>1. /\ TypeOK /\ TypeOK' /\ UNCHANGED <<tokens_in, tokens_out, reserve>>
      /\ sy \in [Holders -> Nat] /\ sy' \in [Holders -> Nat]
      /\ a \in Nat /\ from \in Holders /\ sy[from] >= a
  BY SYAmountsAssumption DEF Consistent, TypeOK, transfer, config, Holders
<1>2. /\ g \in [Holders -> Nat] /\ g[from] = sy[from] - a
      /\ \A x \in Holders \ {from} : g[x] = sy[x]
  BY <1>1
<1>3. sy' = [sy EXCEPT ![from] = @ - a, ![to] = @ + a]
  BY DEF transfer
<1>4. /\ \A x \in Holders \ {to} : sy'[x] = g[x]
      /\ sy'[to] = g[to] + a
  BY <1>1, <1>3
<1> HIDE DEF g
<1>5. AllSY(g) = AllSY(sy) + (g[from] - sy[from])
  BY <1>1, <1>2, HolderChanges
<1>6. AllSY(sy') = AllSY(g) + (sy'[to] - g[to])
  BY <1>1, <1>2, <1>4, HolderChanges
<1>7. AllSY(sy') = AllSY(sy)
  <2>1. AllSY(sy) \in Nat /\ sy[from] \in Nat /\ g[to] \in Nat
    BY <1>1, <1>2, CoveredSums
  <2> QED BY <1>1, <1>2, <1>4, <1>5, <1>6, <2>1
<1> QED BY <1>1, <1>7, CoveredSums, CoveredNext

LEMMA DonateCovered ==
  ASSUME Consistent, Consistent', Covered,
         NEW t \in Tokens, NEW a \in Amounts, Donate(t, a)
  PROVE  Covered'
<1>1. /\ TypeOK /\ TypeOK' /\ UNCHANGED <<tokens_in, tokens_out, sy>>
      /\ reserve \in [Tokens -> Nat] /\ reserve' \in [Tokens -> Nat] /\ a \in Nat
      /\ reserve' = [reserve EXCEPT ![t] = @ + a]
  BY SYAmountsAssumption DEF Consistent, TypeOK, Donate, config
<1>2. IsFiniteSet(tokens_out) /\ tokens_out \subseteq Tokens
      /\ AllSY(sy) \in Nat /\ AllOut(reserve) \in Nat
  BY <1>1, CoveredSums
<1>3. \A x \in tokens_out :
        reserve[x] \in Int /\ reserve'[x] \in Int /\ reserve[x] <= reserve'[x]
  BY <1>1, <1>2
<1>4. AllOut(reserve) <= AllOut(reserve') /\ AllOut(reserve') \in Int
  BY <1>2, <1>3, SumMonotone, SumInt DEF AllOut
<1>5. ASSUME tokens_in \subseteq tokens_out PROVE AllSY(sy') <= AllOut(reserve')
  <2>1. AllSY(sy) <= AllOut(reserve)
    BY <1>1, <1>5, CoveredSums
  <2> QED BY <1>1, <1>2, <1>4, <2>1
<1> QED BY <1>1, <1>5, CoveredNext

LEMMA InitCovered == Init => Covered
<1> SUFFICES ASSUME Init PROVE Covered
  OBVIOUS
<1>1. TypeOK
  BY InitConsistent DEF Consistent
<1>2. AllSY(sy) = 0
  BY HoldersFinite, SumZero DEF Init, AllSY
<1> QED BY <1>1, <1>2, CoveredSums

LEMMA StepCovered == Consistent /\ Covered /\ [Next]_vars => Covered'
<1> SUFFICES ASSUME Consistent, Covered, [Next]_vars PROVE Covered'
  OBVIOUS
<1>1. Consistent'
  BY StepConsistent
<1>2. CASE UNCHANGED <<tokens_in, tokens_out, sy, reserve>>
  BY <1>2 DEF Covered
<1>3. CASE \/ ~is_erc4626 /\ OracleNext /\ UNCHANGED syVars
           \/ NewVaultRate \/ pause \/ unpause \/ UNCHANGED vars
  BY <1>2, <1>3 DEF NewVaultRate, pause, unpause, vars, syVars, config, balances
<1> QED BY <1>1, <1>3, DepositCovered, RedeemCovered, TransferCovered, DonateCovered
        DEF Next

\* Deposits, redemptions, transfers and donations in any order leave every SY
\* backed by a token to redeem it for, and each holder able to redeem whenever
\* the rate answers.
THEOREM ExitStaysOpen == Spec => []ExitOpen
<1>1. Init => Consistent /\ Covered
  BY InitConsistent, InitCovered
<1>2. (Consistent /\ Covered) /\ [Next]_vars => (Consistent /\ Covered)'
  BY StepConsistent, StepCovered
<1>3. Consistent /\ Covered => ExitOpen
  <2> SUFFICES ASSUME Consistent, Covered, RateAnswers, tokens_in \subseteq tokens_out,
                      NEW h \in Holders, sy[h] > 0
               PROVE  \E t \in Tokens : MayRedeem(h, t, 1)
    BY DEF ExitOpen
  <2>1. /\ TypeOK /\ sy \in [Holders -> Nat] /\ reserve \in [Tokens -> Nat]
    BY DEF Consistent, TypeOK
  <2>2. /\ AllSY(sy) <= AllOut(reserve) /\ AllSY(sy) \in Nat /\ AllOut(reserve) \in Nat
        /\ IsFiniteSet(tokens_out) /\ tokens_out \subseteq Tokens
    BY <2>1, CoveredSums
  <2>3. sy[h] <= AllSY(sy)
    BY <2>1, HoldersFinite, SumBounds DEF AllSY
  <2>4. SumFunctionOnSet(reserve, tokens_out) # 0
    BY <2>1, <2>2, <2>3 DEF AllOut
  <2>5. PICK t \in tokens_out : reserve[t] > 0
    BY <2>1, <2>2, <2>4, SumPositive
  <2>6. t \in Tokens /\ reserve[t] >= 1 /\ sy[h] >= 1
    BY <2>1, <2>2, <2>5
  <2> QED BY <2>5, <2>6 DEF MayRedeem
<1> QED BY <1>1, <1>2, <1>3, PTL DEF Spec
=============================================================================

--------------------------- MODULE Market_proofs ---------------------------
(***************************************************************************)
(* Safety of the pool for any traders, amounts, rates, fees and indexes,   *)
(* and for any ratio of the two number formats.                            *)
(***************************************************************************)
EXTENDS Market, MathFp_proofs

\* What a call has to keep, and what it may not take.
SurplusStep ==
  \/ UNCHANGED tokens
  \/ /\ sy'[MKT] - reserve_sy' >= sy[MKT] - reserve_sy
     /\ pt'[MKT] - reserve_pt' >= pt[MKT] - reserve_pt
SafeStep == Consistent' /\ SurplusStep

-----------------------------------------------------------------------------
\* A transfer of at most the sender's balance keeps a ledger a ledger, and
\* leaves every third account alone.
LEMMA MoveType ==
  ASSUME NEW f \in [Accounts -> Nat], NEW a \in Accounts, NEW b \in Accounts,
         NEW n \in Nat, n <= f[a]
  PROVE  /\ Move(f, a, b, n) \in [Accounts -> Nat]
         /\ a # b => /\ Move(f, a, b, n)[a] = f[a] - n
                     /\ Move(f, a, b, n)[b] = f[b] + n
         /\ \A c \in Accounts \ {a, b} : Move(f, a, b, n)[c] = f[c]
<1> DEFINE g == [f EXCEPT ![a] = @ - n]
<1>1. g \in [Accounts -> Nat] /\ g[a] = f[a] - n
      /\ \A c \in Accounts \ {a} : g[c] = f[c]
  OBVIOUS
<1>2. Move(f, a, b, n) = [g EXCEPT ![b] = @ + n]
  BY DEF Move
<1> QED BY <1>1, <1>2

\* The pool, its users and the locked account are different accounts.
LEMMA AccountFacts ==
  /\ MKT \in Accounts /\ LockedAt \in Accounts /\ MKT # LockedAt
  /\ \A u \in Users : u \in Accounts /\ u # MKT
  /\ \A u \in Actors : u \in Accounts
  /\ \A u \in Holders : u \in Accounts
BY AccountsAssumption DEF Accounts, Holders, Actors

\* What a transfer into the pool and one out of it do to its balance.
LEMMA MoveIn ==
  ASSUME NEW f \in [Accounts -> Nat], NEW u \in Accounts, u # MKT,
         NEW n \in Nat, n <= f[u]
  PROVE  /\ Move(f, u, MKT, n) \in [Accounts -> Nat]
         /\ Move(f, u, MKT, n)[MKT] = f[MKT] + n
<1>1. MKT \in Accounts
  BY AccountFacts
<1> QED BY <1>1, MoveType

LEMMA MoveOut ==
  ASSUME NEW f \in [Accounts -> Nat], NEW u \in Accounts, u # MKT,
         NEW n \in Nat, n <= f[MKT]
  PROVE  /\ Move(f, MKT, u, n) \in [Accounts -> Nat]
         /\ Move(f, MKT, u, n)[MKT] = f[MKT] - n
<1>1. MKT \in Accounts
  BY AccountFacts
<1> QED BY <1>1, MoveType

\* The ledgers, and what the pool has in them.
LEMMA LedgerFacts ==
  ASSUME Consistent
  PROVE  /\ sy \in [Accounts -> Nat] /\ pt \in [Accounts -> Nat]
         /\ lp \in [Accounts -> Nat]
         /\ sy[MKT] \in Nat /\ pt[MKT] \in Nat
         /\ reserve_sy \in Nat /\ reserve_pt \in Nat
         /\ reserve_sy <= sy[MKT] /\ reserve_pt <= pt[MKT]
BY AccountFacts DEF Consistent, TypeOK, ReservesBacked

\* Division of WAD numbers is monotone in what is divided.
LEMMA WadDivMono ==
  ASSUME NEW a \in Nat, NEW b \in Nat, NEW c \in Nat \ {0}, a <= b
  PROVE  wad_div(a, c) <= wad_div(b, c)
<1>1. wad_to_fp(a) <= wad_to_fp(b)
  <2>1. a * CUBIT_ONE <= b * CUBIT_ONE
    BY CubitAssumption, MulMono
  <2> QED BY <2>1, MulNat, WadAssumption, CubitAssumption, DivMono DEF wad_to_fp
<1>2. wad_to_fp(a) * CUBIT_ONE <= wad_to_fp(b) * CUBIT_ONE
  BY <1>1, ConversionType, CubitAssumption, MulMono
<1>3. fp_div(wad_to_fp(a), wad_to_fp(c)) <= fp_div(wad_to_fp(b), wad_to_fp(c))
  BY <1>2, ConversionType, CubitAssumption, MulNat, DivMono DEF fp_div
<1>4. /\ fp_div(wad_to_fp(a), wad_to_fp(c)) \in Nat
      /\ fp_div(wad_to_fp(b), wad_to_fp(c)) \in Nat
  BY ConversionType, CubitAssumption, MulNat, DivBounds DEF fp_div
<1> QED BY <1>3, <1>4, ConversionMono DEF wad_div

\* Rounding up gives a natural number.
LEMMA UpType ==
  /\ \A a \in Nat, b \in Nat \ {0} : div_up(a, b) \in Nat
  /\ \A a \in Nat, b \in Nat \ {0} : wad_div_up(a, b) \in Nat
<1>1. ASSUME NEW a \in Nat, NEW b \in Nat \ {0} PROVE div_up(a, b) \in Nat
  <2>1. a + b - 1 \in Nat
    OBVIOUS
  <2> QED BY <2>1, DivBounds DEF div_up
<1>2. ASSUME NEW a \in Nat, NEW b \in Nat \ {0} PROVE wad_div_up(a, b) \in Nat
  <2>1. a * WAD \in Nat
    BY WadAssumption, MulNat
  <2>2. a * WAD + b - 1 \in Nat
    BY <2>1
  <2> QED BY <2>2, DivBounds DEF wad_div_up
<1> QED BY <1>1, <1>2

\* The index of a pool is a positive number.
LEMMA IndexType == ASSUME Consistent PROVE py_index \in Nat \ {0}
BY IndexesAssumption, WadAssumption DEF Consistent, TypeOK

\* The treasury's share of a fee is at most the fee.
LEMMA ShareOfFee ==
  ASSUME NEW fee \in Nat
  PROVE  ReserveShare(fee) \in Nat /\ ReserveShare(fee) <= fee
<1>1. ReserveFeePercent \in Nat /\ ReserveFeePercent <= 100
  BY ParametersAssumption
<1>2. fee * ReserveFeePercent \in Nat
  BY <1>1, MulNat
<1>3. fee * ReserveFeePercent <= fee * 100
  BY <1>1, MulMono
<1>4. (fee * ReserveFeePercent) \div 100 <= (fee * 100) \div 100
  BY <1>2, <1>3, DivMono
<1>5. (fee * 100) \div 100 = fee
  OBVIOUS
<1> QED BY <1>2, <1>4, <1>5, DivBounds DEF ReserveShare

\* What the trade formulas return: numbers, and never more for the treasury
\* than the whole fee, so that the rest can be counted for the providers.
Trades == {t \in [net_sy : Nat, fee : Nat, to_reserve : Nat] :
             t.to_reserve <= t.fee}

LEMMA TradeFromAssets ==
  ASSUME Consistent, NEW n \in Nat, NEW fee \in Nat
  PROVE  Trade(n, asset_to_sy(fee, py_index),
               asset_to_sy(ReserveShare(fee), py_index)) \in Trades
<1>1. py_index \in Nat \ {0}
  BY IndexType
<1>2. /\ asset_to_sy(fee, py_index) \in Nat
      /\ asset_to_sy(ReserveShare(fee), py_index) \in Nat
  BY <1>1, ShareOfFee, WadType DEF asset_to_sy
<1>3. asset_to_sy(ReserveShare(fee), py_index) <= asset_to_sy(fee, py_index)
  BY <1>1, ShareOfFee, WadDivMono DEF asset_to_sy
<1> QED BY <1>2, <1>3 DEF Trade, Trades

LEMMA SellType ==
  ASSUME Consistent, NEW n \in Nat, NEW r \in CurveRates, NEW f \in FeeRates
  PROVE  Sell(n, r, f) \in Trades
<1>1. r \in Nat \ {0} /\ f \in Nat \ {0} /\ f - WAD \in Nat
  BY RatesAssumption, WadAssumption
<1>2. wad_div(n, r) \in Nat
  BY <1>1, WadType
<1>3. wad_mul(wad_div(n, r), f - WAD) \in Nat
  BY <1>1, <1>2, WadType
<1>4. SellFee(n, r, f) \in Nat
  BY <1>1, <1>3, WadType DEF SellFee
<1>5. max(wad_div(n, r), SellFee(n, r, f)) - SellFee(n, r, f) \in Nat
  BY <1>2, <1>4 DEF max
<1>6. asset_to_sy(max(wad_div(n, r), SellFee(n, r, f)) - SellFee(n, r, f),
                  py_index) \in Nat
  BY <1>5, IndexType, WadType DEF asset_to_sy
<1> QED BY <1>4, <1>6, TradeFromAssets DEF Sell

LEMMA BuyType ==
  ASSUME Consistent, NEW n \in Nat, NEW r \in CurveRates, NEW f \in FeeRates,
         CanBuy(n, r, f)
  PROVE  Buy(n, r, f) \in Trades
<1>1. r \in Nat \ {0} /\ f \in Nat \ {0}
  BY RatesAssumption, WadAssumption
<1>2. CASE n = 0
  BY <1>2 DEF Buy, NoTrade, Trade, Trades
<1>3. CASE n # 0
  <2>1. wad_div(r, f) \in Nat \ {0}
    BY <1>1, <1>3, WadType, WadAssumption DEF CanBuy
  <2>2. PaidFor(n, r, f) \in Nat /\ wad_div(n, r) \in Nat
    BY <2>1, <1>1, WadType DEF PaidFor
  <2>3. BuyFee(n, r, f) \in Nat
    BY <2>2 DEF BuyFee, max
  <2>4. asset_to_sy_up(PaidFor(n, r, f), py_index) \in Nat
    BY <2>2, IndexType, UpType DEF asset_to_sy_up
  <2> QED BY <1>3, <2>3, <2>4, TradeFromAssets DEF Buy
<1> QED BY <1>2, <1>3

\* What a swap sends to the treasury is part of the fee.
LEMMA EffectiveFee ==
  ASSUME NEW t \in Trades
  PROVE  /\ _get_effective_reserve_fee(t) \in Nat
         /\ _get_effective_reserve_fee(t) <= t.fee
         /\ t.fee \in Nat /\ t.net_sy \in Nat
BY DEF Trades, _get_effective_reserve_fee

-----------------------------------------------------------------------------
(***************************************************************************)
(* The calls                                                               *)
(***************************************************************************)

\* A deposit adds to the reserves what it adds to the balances.
LEMMA DepositSafe ==
  ASSUME Consistent, NEW u \in Users, NEW s \in Nat, NEW p \in Nat,
         Deposit(u, s, p), lp' \in [Accounts -> Nat], total_lp' \in Nat
  PROVE  SafeStep
<1>1. /\ sy \in [Accounts -> Nat] /\ pt \in [Accounts -> Nat]
      /\ sy[u] \in Nat /\ pt[u] \in Nat
      /\ u \in Accounts /\ u # MKT
      /\ s <= sy[u] /\ p <= pt[u]
  BY AccountFacts, LedgerFacts DEF Deposit
<1>2. sy' \in [Accounts -> Nat] /\ sy'[MKT] = sy[MKT] + s
  <2>1. sy' = Move(sy, u, MKT, s)
    BY DEF Deposit
  <2> QED BY <1>1, <2>1, MoveIn
<1>3. pt' \in [Accounts -> Nat] /\ pt'[MKT] = pt[MKT] + p
  <2>1. pt' = Move(pt, u, MKT, p)
    BY DEF Deposit
  <2> QED BY <1>1, <2>1, MoveIn
<1>4. reserve_sy' = reserve_sy + s /\ reserve_pt' = reserve_pt + p
      /\ UNCHANGED <<env, paused, lp_fees_collected>>
  BY DEF Deposit
<1> QED BY <1>2, <1>3, <1>4, LedgerFacts
        DEF SafeStep, SurplusStep, Consistent, TypeOK, ReservesBacked, env

LEMMA MintFirstSafe ==
  ASSUME Consistent, NEW u \in Users, NEW m \in Amounts, NEW n \in Amounts,
         NEW root \in 0..RootBound, MintFirst(u, m, n, root)
  PROVE  SafeStep
<1>1. m \in Nat /\ n \in Nat /\ MINIMUM_LIQUIDITY \in Nat /\ root \in Nat
  BY ParametersAssumption
<1>2. InitialLp(root) \in Nat
  BY <1>1, ConversionType DEF InitialLp
<1>3. InitialLp(root) - MINIMUM_LIQUIDITY \in Nat
  BY <1>1, <1>2 DEF MintFirst
<1>4. total_lp' \in Nat
  BY <1>2 DEF MintFirst
<1>5. lp' \in [Accounts -> Nat]
  <2> DEFINE l == [lp EXCEPT ![LockedAt] = @ + MINIMUM_LIQUIDITY]
  <2>1. l \in [Accounts -> Nat]
    BY <1>1, AccountFacts DEF Consistent, TypeOK
  <2>2. lp' = [l EXCEPT ![u] = @ + InitialLp(root) - MINIMUM_LIQUIDITY]
    BY DEF MintFirst, _get_minimum_liquidity_recipient
  <2>3. l[u] + InitialLp(root) - MINIMUM_LIQUIDITY \in Nat
    BY <1>1, <1>2, <1>3, <2>1, AccountFacts
  <2> QED BY <2>1, <2>2, <2>3
<1>6. Deposit(u, m, n)
  BY DEF MintFirst
<1> QED BY <1>1, <1>4, <1>5, <1>6, DepositSafe

\* The terms of a mint are numbers.
LEMMA MintTermsType ==
  ASSUME Consistent, NEW m \in Nat, NEW n \in Nat,
         total_lp > 0, reserve_sy > 0, reserve_pt > 0
  PROVE  calc_mint_lp(m, n) \in [lp : Nat, sy : Nat, pt : Nat]
<1> DEFINE a == (m * total_lp) \div reserve_sy
           b == (n * total_lp) \div reserve_pt
<1>1. /\ total_lp \in Nat \ {0}
      /\ reserve_sy \in Nat \ {0} /\ reserve_pt \in Nat \ {0}
  BY DEF Consistent, TypeOK
<1>2. a \in Nat /\ b \in Nat
  BY <1>1, MulNat, DivBounds
<1>3. reserve_pt * a \in Nat /\ reserve_sy * b \in Nat
  BY <1>1, <1>2, MulNat
<1>4. OtherSide(reserve_pt, a) \in Nat /\ OtherSide(reserve_sy, b) \in Nat
  BY <1>1, <1>3, UpType DEF OtherSide
<1> QED BY <1>2, <1>4 DEF calc_mint_lp, MintTerms

LEMMA MintMoreSafe ==
  ASSUME Consistent, NEW u \in Users, NEW m \in Amounts, NEW n \in Amounts,
         MintMore(u, m, n)
  PROVE  SafeStep
<1> DEFINE terms == calc_mint_lp(m, n)
<1>1. m \in Nat /\ n \in Nat
  BY ParametersAssumption
<1>2. terms \in [lp : Nat, sy : Nat, pt : Nat]
  BY <1>1, MintTermsType DEF MintMore
<1>3. /\ lp' = [lp EXCEPT ![u] = @ + terms.lp]
      /\ total_lp' = total_lp + terms.lp
      /\ Deposit(u, terms.sy, terms.pt)
  BY DEF MintMore
<1>4. terms.lp \in Nat /\ terms.sy \in Nat /\ terms.pt \in Nat
  BY <1>2
<1> HIDE DEF terms
<1>5. lp' \in [Accounts -> Nat] /\ total_lp' \in Nat
  BY <1>3, <1>4, AccountFacts DEF Consistent, TypeOK
<1> QED BY <1>3, <1>4, <1>5, DepositSafe

\* What a burn pays out is a number.
LEMMA BurnType ==
  ASSUME Consistent, NEW n \in Nat, NEW reserve \in Nat
  PROVE  calc_burn_lp(n, reserve) \in Nat
<1>1. CASE total_lp = 0 \/ n = 0
  BY <1>1 DEF calc_burn_lp
<1>2. CASE ~(total_lp = 0 \/ n = 0)
  <2>1. total_lp \in Nat \ {0}
    BY <1>2 DEF Consistent, TypeOK
  <2>2. wad_div(n, total_lp) \in Nat
    BY <2>1, WadType
  <2> QED BY <1>2, <2>2, WadType DEF calc_burn_lp
<1> QED BY <1>1, <1>2

LEMMA BurnSafe ==
  ASSUME Consistent, NEW u \in Actors, NEW a \in Users, NEW b \in Users,
         NEW n \in 1..lp[u], burn_with_receivers(u, a, b, n)
  PROVE  SafeStep
<1> DEFINE so == calc_burn_lp(n, reserve_sy)
           po == calc_burn_lp(n, reserve_pt)
<1>1. /\ n \in Nat /\ n <= lp[u] /\ u \in Accounts /\ MKT \in Accounts
      /\ a \in Accounts /\ a # MKT /\ b \in Accounts /\ b # MKT
  BY AccountFacts DEF Consistent, TypeOK
<1>2. so \in Nat /\ po \in Nat
  BY <1>1, BurnType DEF Consistent, TypeOK
<1>3. /\ so <= reserve_sy /\ po <= reserve_pt
      /\ so <= sy[MKT] /\ po <= pt[MKT]
      /\ lp' = [lp EXCEPT ![u] = @ - n] /\ total_lp' = total_lp - n
      /\ n <= total_lp
      /\ reserve_sy' = reserve_sy - so /\ reserve_pt' = reserve_pt - po
      /\ sy' = Move(sy, MKT, a, so) /\ pt' = Move(pt, MKT, b, po)
      /\ UNCHANGED <<env, paused, lp_fees_collected>>
  BY DEF burn_with_receivers
<1> HIDE DEF so, po
<1>4. sy' \in [Accounts -> Nat] /\ sy'[MKT] = sy[MKT] - so
  BY <1>1, <1>2, <1>3, MoveOut, LedgerFacts
<1>5. pt' \in [Accounts -> Nat] /\ pt'[MKT] = pt[MKT] - po
  BY <1>1, <1>2, <1>3, MoveOut, LedgerFacts
<1>6. lp' \in [Accounts -> Nat] /\ total_lp' \in Nat
  BY <1>1, <1>3 DEF Consistent, TypeOK
<1> QED BY <1>1, <1>2, <1>3, <1>4, <1>5, <1>6
        DEF SafeStep, SurplusStep, Consistent, TypeOK, ReservesBacked, env

\* A swap that pays out SY: the payment and the treasury's share both leave the
\* reserve and the balance.
LEMMA SellPtSafe ==
  ASSUME Consistent, NEW u \in Users, NEW p \in Nat, NEW s \in Nat,
         NEW t \in Trades, SellPt(u, p, s, t)
  PROVE  SafeStep
<1> DEFINE fee == _get_effective_reserve_fee(t)
           paid == Move(sy, MKT, u, s)
<1>1. /\ u \in Accounts /\ u # MKT /\ MKT \in Accounts
      /\ LockedAt \in Accounts /\ LockedAt # MKT
  BY AccountFacts
<1>2. fee \in Nat /\ fee <= t.fee /\ t.fee \in Nat
  BY EffectiveFee
<1>3. /\ s + fee <= reserve_sy /\ s + fee <= sy[MKT] /\ p <= pt[u]
      /\ reserve_sy' = reserve_sy - (s + fee)
      /\ reserve_pt' = reserve_pt + p
      /\ pt' = Move(pt, u, MKT, p)
      /\ sy' = Move(paid, MKT, LockedAt, fee)
      /\ lp_fees_collected' = lp_fees_collected + t.fee - fee
      /\ UNCHANGED <<env, paused, shares>>
  BY DEF SellPt, SyLeaving
<1> HIDE DEF fee
<1>4. pt' \in [Accounts -> Nat] /\ pt'[MKT] = pt[MKT] + p
  BY <1>1, <1>3, MoveIn, LedgerFacts
<1>5. paid \in [Accounts -> Nat] /\ paid[MKT] = sy[MKT] - s
  <2>1. sy \in [Accounts -> Nat] /\ s <= sy[MKT]
    BY <1>1, <1>2, <1>3 DEF Consistent, TypeOK
  <2> QED BY <1>1, <2>1, MoveOut
<1> HIDE DEF paid
<1>6. sy' \in [Accounts -> Nat] /\ sy'[MKT] = sy[MKT] - s - fee
  <2>1. fee <= paid[MKT]
    BY <1>1, <1>2, <1>3, <1>5 DEF Consistent, TypeOK
  <2> QED BY <1>1, <1>2, <1>3, <1>5, <2>1, MoveOut
<1>7. lp_fees_collected' \in Nat
  BY <1>2, <1>3 DEF Consistent, TypeOK
<1> QED BY <1>1, <1>2, <1>3, <1>4, <1>6, <1>7
        DEF SafeStep, SurplusStep, Consistent, TypeOK, ReservesBacked, env, shares

\* A swap that pays out PT, of which the pool has more.
LEMMA BuyPtSafe ==
  ASSUME Consistent, NEW u \in Users, NEW p \in Nat, NEW s \in Nat,
         NEW t \in Trades, p < reserve_pt, BuyPt(u, s, p, t)
  PROVE  SafeStep
<1> DEFINE fee == _get_effective_reserve_fee(t)
           received == Move(sy, u, MKT, s)
<1>1. /\ u \in Accounts /\ u # MKT /\ MKT \in Accounts
      /\ LockedAt \in Accounts /\ LockedAt # MKT
  BY AccountFacts
<1>2. fee \in Nat /\ fee <= t.fee /\ t.fee \in Nat
  BY EffectiveFee
<1>3. /\ p <= pt[MKT] /\ s <= sy[u] /\ fee <= sy[MKT] + s
      /\ fee <= reserve_sy + s
      /\ reserve_sy' = reserve_sy + s - fee
      /\ reserve_pt' = reserve_pt - p
      /\ pt' = Move(pt, MKT, u, p)
      /\ sy' = Move(received, MKT, LockedAt, fee)
      /\ lp_fees_collected' = lp_fees_collected + t.fee - fee
      /\ UNCHANGED <<env, paused, shares>>
  BY DEF BuyPt
<1> HIDE DEF fee
<1>4. pt' \in [Accounts -> Nat] /\ pt'[MKT] = pt[MKT] - p
  BY <1>1, <1>3, MoveOut, LedgerFacts
<1>5. received \in [Accounts -> Nat] /\ received[MKT] = sy[MKT] + s
  BY <1>1, <1>3, MoveIn, LedgerFacts
<1> HIDE DEF received
<1>6. sy' \in [Accounts -> Nat] /\ sy'[MKT] = sy[MKT] + s - fee
  <2>1. fee <= received[MKT]
    BY <1>3, <1>5
  <2>2. sy' = Move(received, MKT, LockedAt, fee)
    BY <1>3
  <2>3. /\ Move(received, MKT, LockedAt, fee) \in [Accounts -> Nat]
        /\ Move(received, MKT, LockedAt, fee)[MKT] = received[MKT] - fee
    BY <1>1, <1>2, <1>5, <2>1, MoveOut
  <2> QED BY <1>2, <1>5, <2>2, <2>3, LedgerFacts
<1>7. lp_fees_collected' \in Nat
  BY <1>2, <1>3 DEF Consistent, TypeOK
<1> QED BY <1>1, <1>2, <1>3, <1>4, <1>6, <1>7
        DEF SafeStep, SurplusStep, Consistent, TypeOK, ReservesBacked, env, shares

LEMMA SwapSafe ==
  ASSUME Consistent, Swap
  PROVE  SafeStep
<1> PICK u \in Users, r \in CurveRates, f \in FeeRates, n \in Amounts :
      \/ swap_exact_pt_for_sy(u, n, r, f)
      \/ swap_sy_for_exact_pt(u, n, r, f)
      \/ \E m \in 0..reserve_pt : swap_exact_sy_for_pt(u, n, m, r, f)
      \/ \E m \in 1..pt[u] : swap_pt_for_exact_sy(u, n, m, r, f)
  BY DEF Swap
<1>0. n \in Nat
  BY ParametersAssumption
<1>1. CASE swap_exact_pt_for_sy(u, n, r, f)
  <2>1. Sell(n, r, f) \in Trades
    BY <1>0, SellType
  <2>2. SellPt(u, n, Sell(n, r, f).net_sy, Sell(n, r, f))
    BY <1>1 DEF swap_exact_pt_for_sy
  <2> QED BY <1>0, <2>1, <2>2, EffectiveFee, SellPtSafe
<1>2. CASE swap_sy_for_exact_pt(u, n, r, f)
  <2>1. CanBuy(n, r, f) /\ BuyPt(u, Buy(n, r, f).net_sy, n, Buy(n, r, f))
    BY <1>2 DEF swap_sy_for_exact_pt
  <2>2. Buy(n, r, f) \in Trades /\ n < reserve_pt
    BY <1>0, <2>1, BuyType DEF CanBuy
  <2> QED BY <1>0, <2>1, <2>2, EffectiveFee, BuyPtSafe
<1>3. ASSUME NEW m \in 0..reserve_pt, swap_exact_sy_for_pt(u, n, m, r, f)
      PROVE  SafeStep
  <2>0. m \in Nat
    BY DEF Consistent, TypeOK
  <2>1. CanBuy(m, r, f) /\ BuyPt(u, n, m, Buy(m, r, f))
    BY <1>3 DEF swap_exact_sy_for_pt
  <2>2. Buy(m, r, f) \in Trades /\ m < reserve_pt
    BY <2>0, <2>1, BuyType DEF CanBuy
  <2> QED BY <1>0, <2>0, <2>1, <2>2, BuyPtSafe
<1>4. ASSUME NEW m \in 1..pt[u], swap_pt_for_exact_sy(u, n, m, r, f)
      PROVE  SafeStep
  <2>0. m \in Nat
    BY AccountFacts DEF Consistent, TypeOK
  <2>1. Sell(m, r, f) \in Trades
    BY <2>0, SellType
  <2>2. SellPt(u, m, n, Sell(m, r, f))
    BY <1>4 DEF swap_pt_for_exact_sy
  <2> QED BY <1>0, <2>0, <2>1, <2>2, SellPtSafe
<1> QED BY <1>1, <1>2, <1>3, <1>4

\* Bringing the reserves up to the balances leaves nothing uncounted, and no
\* token moves.
LEMMA SkimSafe ==
  ASSUME Consistent, skim
  PROVE  SafeStep
<1>1. reserve_sy' \in Nat /\ reserve_pt' \in Nat
      /\ reserve_sy' <= sy[MKT] /\ reserve_pt' <= pt[MKT]
  BY LedgerFacts DEF skim, max
<1> QED BY <1>1
        DEF skim, SafeStep, SurplusStep, Consistent, TypeOK, ReservesBacked,
            env, tokens, shares

\* Tokens sent to the pool are surplus.
LEMMA DonateSafe ==
  ASSUME Consistent, NEW u \in Users, NEW n \in Amounts, Donate(u, n)
  PROVE  SafeStep
<1>1. n \in Nat /\ u \in Accounts /\ u # MKT
  BY ParametersAssumption, AccountFacts
<1>2. CASE sy[u] >= n /\ sy' = Move(sy, u, MKT, n) /\ UNCHANGED pt
  <2>1. sy' \in [Accounts -> Nat] /\ sy'[MKT] = sy[MKT] + n
    <3>1. sy[u] \in Nat /\ n <= sy[u]
      BY <1>1, <1>2, LedgerFacts
    <3> QED BY <1>1, <1>2, <3>1, MoveIn, LedgerFacts
  <2> QED BY <1>1, <1>2, <2>1, LedgerFacts
          DEF Donate, SafeStep, SurplusStep, Consistent, TypeOK, ReservesBacked,
              env, shares, reserves
<1>3. CASE pt[u] >= n /\ pt' = Move(pt, u, MKT, n) /\ UNCHANGED sy
  <2>1. pt' \in [Accounts -> Nat] /\ pt'[MKT] = pt[MKT] + n
    <3>1. pt[u] \in Nat /\ n <= pt[u]
      BY <1>1, <1>3, LedgerFacts
    <3> QED BY <1>1, <1>3, <3>1, MoveIn, LedgerFacts
  <2> QED BY <1>1, <1>3, <2>1, LedgerFacts
          DEF Donate, SafeStep, SurplusStep, Consistent, TypeOK, ReservesBacked,
              env, shares, reserves
<1> QED BY <1>2, <1>3 DEF Donate

\* Shares change hands without the pool.
LEMMA LpTransferSafe ==
  ASSUME Consistent, NEW u \in Actors, NEW v \in Holders, NEW n \in 1..lp[u],
         LpTransfer(u, v, n)
  PROVE  SafeStep
<1>1. /\ u \in Accounts /\ v \in Accounts /\ lp[u] \in Nat
      /\ n \in Nat /\ n <= lp[u]
  BY AccountFacts, LedgerFacts
<1>2. lp' = Move(lp, u, v, n)
  BY DEF LpTransfer
<1>3. lp' \in [Accounts -> Nat]
  BY <1>1, <1>2, MoveType, LedgerFacts
<1> QED BY <1>3
        DEF LpTransfer, SafeStep, SurplusStep, Consistent, TypeOK, ReservesBacked,
            env, tokens, reserves

LEMMA LiquiditySafe ==
  ASSUME Consistent, Liquidity
  PROVE  SafeStep
<1>1. CASE \E u \in Users, m, n \in Amounts : mint(u, m, n)
  BY <1>1, MintFirstSafe, MintMoreSafe DEF mint
<1>2. CASE \E u \in Actors, a, b \in Users : \E n \in 1..lp[u] :
             burn(u, a, n) \/ burn_with_receivers(u, a, b, n)
  BY <1>2, BurnSafe DEF burn
<1> QED BY <1>1, <1>2 DEF Liquidity

LEMMA AdministrationSafe ==
  ASSUME Consistent, Administration
  PROVE  SafeStep
<1>1. CASE skim
  BY <1>1, SkimSafe
<1>2. CASE collect_fees
  BY <1>2 DEF collect_fees, SafeStep, SurplusStep, Consistent, TypeOK,
              ReservesBacked, env, tokens, shares, reserves
<1>3. CASE \E b \in BOOLEAN : SetPaused(b)
  BY <1>3 DEF SetPaused, SafeStep, SurplusStep, Consistent, TypeOK,
              ReservesBacked, env, tokens, shares, reserves
<1> QED BY <1>1, <1>2, <1>3 DEF Administration

LEMMA EnvironmentSafe ==
  ASSUME Consistent, Environment
  PROVE  SafeStep
<1>1. CASE \E u \in Users, n \in Amounts : Donate(u, n)
  BY <1>1, DonateSafe
<1>2. CASE \E u \in Actors, v \in Holders : \E n \in 1..lp[u] :
             LpTransfer(u, v, n)
  BY <1>2, LpTransferSafe
<1>3. CASE \E i \in Indexes : IndexGrows(i)
  BY <1>3 DEF IndexGrows, SafeStep, SurplusStep, Consistent, TypeOK,
              ReservesBacked, tokens, shares, reserves
<1>4. CASE Expire
  BY <1>4 DEF Expire, SafeStep, SurplusStep, Consistent, TypeOK,
              ReservesBacked, tokens, shares, reserves
<1> QED BY <1>1, <1>2, <1>3, <1>4 DEF Environment

-----------------------------------------------------------------------------
LEMMA InitConsistent == Init => Consistent
<1> SUFFICES ASSUME Init PROVE Consistent
  OBVIOUS
<1>1. sy \in [Accounts -> Nat] /\ pt \in [Accounts -> Nat]
      /\ lp \in [Accounts -> Nat] /\ sy[MKT] \in Nat /\ pt[MKT] \in Nat
  BY ParametersAssumption, AccountFacts DEF Init
<1>2. py_index \in Indexes /\ expired \in BOOLEAN /\ paused \in BOOLEAN
  BY DEF Init
<1>3. total_lp = 0 /\ reserve_sy = 0 /\ reserve_pt = 0
      /\ lp_fees_collected = 0
  BY DEF Init
<1> QED BY <1>1, <1>2, <1>3 DEF Consistent, TypeOK, ReservesBacked

LEMMA NextSafe == Consistent /\ [Next]_vars => SafeStep
<1> SUFFICES ASSUME Consistent, [Next]_vars PROVE SafeStep
  OBVIOUS
<1>1. CASE Next
  BY <1>1, LiquiditySafe, SwapSafe, AdministrationSafe, EnvironmentSafe
     DEF Next
<1>2. CASE UNCHANGED vars
  BY <1>2 DEF vars, SafeStep, SurplusStep, Consistent, TypeOK, ReservesBacked,
              env, tokens, shares, reserves
<1> QED BY <1>1, <1>2

\* Whatever is called in whatever order, no balance, reserve, share count or
\* counter goes below zero and the reserves are backed.
THEOREM Safety == Spec => []Consistent
<1>1. Consistent /\ [Next]_vars => Consistent'
  BY NextSafe DEF SafeStep
<1> QED BY <1>1, InitConsistent, PTL DEF Spec

\* Whatever is called in whatever order, every variable of the pool keeps its
\* type: no balance, reserve or counter goes below zero.
THEOREM TypeCorrect == Spec => []TypeOK
<1>1. Consistent => TypeOK
  BY DEF Consistent
<1> QED BY <1>1, Safety, PTL

\* The reserves that every price and payout is computed from are never more
\* than the tokens the pool has.
THEOREM ReservesAreBacked == Spec => []ReservesBacked
<1>1. Consistent => ReservesBacked
  BY DEF Consistent
<1> QED BY <1>1, Safety, PTL

\* No call pays out of tokens that the pool holds beyond its reserves.
THEOREM SurplusIsUntouched == Spec => SurplusUntouched
<1>1. Consistent /\ [Next]_vars =>
        [ \/ UNCHANGED tokens
          \/ /\ sy'[MKT] - reserve_sy' >= sy[MKT] - reserve_sy
             /\ pt'[MKT] - reserve_pt' >= pt[MKT] - reserve_pt ]_vars
  BY NextSafe DEF SafeStep, SurplusStep
<1> QED BY <1>1, Safety, PTL DEF Spec, SurplusUntouched

-----------------------------------------------------------------------------
(***************************************************************************)
(* No call empties a reserve                                               *)
(***************************************************************************)

\* A burn pays out at most the part of the reserve that its shares are of the
\* supply, which is rounded down to 64.64.
LEMMA BurnBound ==
  ASSUME Consistent, NEW n \in Nat, NEW reserve \in Nat, n <= total_lp
  PROVE  calc_burn_lp(n, reserve) * total_lp * CUBIT_ONE
           <= n * reserve * CUBIT_ONE + calc_burn_lp(n, reserve) * (WAD - 1)
<1> DEFINE C == CUBIT_ONE
           o == calc_burn_lp(n, reserve)
           q == wad_div(n, total_lp)  ft == wad_to_fp(total_lp)
<1>0. o \in Nat
  BY BurnType
<1>1. /\ total_lp \in Nat /\ C \in Nat \ {0} /\ WAD \in Nat \ {0}
      /\ o \in Nat /\ WAD - 1 \in Nat
  BY <1>0, WadAssumption, CubitAssumption DEF Consistent, TypeOK
<1>2. CASE total_lp = 0 \/ n = 0
  <2>1. o = 0
    BY <1>2 DEF calc_burn_lp
  <2> HIDE DEF o, C
  <2>2. n * reserve * C \in Nat
    BY <1>1, MulNat
  <2>3. o * total_lp * C = 0 /\ o * (WAD - 1) = 0
    BY <1>1, <2>1
  <2>4. o * total_lp * C <= n * reserve * C + o * (WAD - 1)
    BY <2>2, <2>3
  <2> QED BY <2>4 DEF o, C
<1>3. CASE ~(total_lp = 0 \/ n = 0)
  <2>1. total_lp \in Nat \ {0} /\ o = wad_mul(q, reserve)
    BY <1>1, <1>3 DEF calc_burn_lp
  <2>2. q \in Nat /\ ft \in Nat
    BY <2>1, WadType, ConversionType
  <2>3. q * ft <= n * C
    BY <2>1, QuotientBound
  <2>4. o * WAD <= q * reserve
    BY <2>1, <2>2, ProductBound
  <2>5. total_lp * C < ft * WAD + WAD
    BY <1>1, ImageBounds
  <2> HIDE DEF C, o, q, ft
  <2>6. o * total_lp * C <= o * WAD * ft + o * (WAD - 1)
    <3>1. /\ total_lp * C \in Nat /\ ft * WAD + (WAD - 1) \in Nat
          /\ total_lp * C <= ft * WAD + (WAD - 1)
      BY <1>1, <2>2, <2>5, MulNat
    <3>2. (total_lp * C) * o <= (ft * WAD + (WAD - 1)) * o
      BY <1>1, <3>1, MulMono
    <3>3. (total_lp * C) * o = o * total_lp * C
      BY <1>1
    <3>4. (ft * WAD + (WAD - 1)) * o = o * WAD * ft + o * (WAD - 1)
      BY <1>1, <2>2
    <3> QED BY <3>2, <3>3, <3>4
  <2>7. o * WAD * ft <= q * ft * reserve
    <3>1. (o * WAD) * ft <= (q * reserve) * ft
      BY <1>1, <2>2, <2>4, MulNat, MulMono
    <3>2. (q * reserve) * ft = q * ft * reserve
      BY <2>2
    <3> QED BY <3>1, <3>2
  <2>8. q * ft * reserve <= n * reserve * C
    <3>1. (q * ft) * reserve <= (n * C) * reserve
      BY <1>1, <2>2, <2>3, MulNat, MulMono
    <3>2. (n * C) * reserve = n * reserve * C
      BY <1>1
    <3> QED BY <3>1, <3>2
  <2>9. /\ o * total_lp * C \in Nat /\ o * WAD * ft \in Nat
        /\ o * (WAD - 1) \in Nat /\ q * ft * reserve \in Nat
        /\ n * reserve * C \in Nat
    BY <1>1, <2>2, MulNat
  <2>10. o * total_lp * C <= n * reserve * C + o * (WAD - 1)
    BY <2>6, <2>7, <2>8, <2>9
  <2> QED BY <2>10 DEF o, C
<1> QED BY <1>2, <1>3

\* A burn of less than all shares leaves some of what was there.
LEMMA BurnLeaves ==
  ASSUME Consistent, NEW n \in Nat, NEW reserve \in Nat \ {0}, n < total_lp,
         calc_burn_lp(n, reserve) <= reserve
  PROVE  calc_burn_lp(n, reserve) < reserve
<1> DEFINE o == calc_burn_lp(n, reserve)
<1>1. /\ total_lp \in Nat /\ CUBIT_ONE \in Nat \ {0} /\ WAD \in Nat \ {0}
      /\ WAD <= CUBIT_ONE /\ WAD - 1 \in Nat /\ n + 1 <= total_lp
  BY WadAssumption, CubitAssumption DEF Consistent, TypeOK
<1>0. o \in Nat
  BY BurnType
<1> SUFFICES ASSUME o = reserve PROVE FALSE
  BY <1>0
<1>2. n <= total_lp
  BY <1>1
<1>3. reserve * total_lp * CUBIT_ONE
        <= n * reserve * CUBIT_ONE + reserve * (WAD - 1)
  BY <1>2, BurnBound
<1>4. (n + 1) * (reserve * CUBIT_ONE) <= total_lp * (reserve * CUBIT_ONE)
  BY <1>1, MulNat, MulMono
<1>5. (n + 1) * (reserve * CUBIT_ONE)
        = n * reserve * CUBIT_ONE + CUBIT_ONE * reserve
  BY <1>1
<1>6. total_lp * (reserve * CUBIT_ONE) = reserve * total_lp * CUBIT_ONE
  BY <1>1
<1>7. (WAD - 1) * reserve + reserve <= CUBIT_ONE * reserve
  <2>1. WAD * reserve <= CUBIT_ONE * reserve
    BY <1>1, MulMono
  <2>2. (WAD - 1) * reserve + reserve = WAD * reserve
    BY <1>1
  <2> QED BY <2>1, <2>2
<1>8. reserve * (WAD - 1) = (WAD - 1) * reserve
  BY <1>1
<1>9. /\ n * reserve * CUBIT_ONE \in Nat /\ CUBIT_ONE * reserve \in Nat
      /\ (WAD - 1) * reserve \in Nat /\ reserve * total_lp * CUBIT_ONE \in Nat
  BY <1>1, MulNat
<1> QED BY <1>3, <1>4, <1>5, <1>6, <1>7, <1>8, <1>9

\* A pool with PT and no SY is all PT: its implied rate does not exist.
LEMMA NoRateWithoutSy ==
  ASSUME Consistent, NEW p \in Nat \ {0} PROVE ~ImpliedRateDefined(0, p)
<1>1. sy_to_asset(0, py_index) = 0
  <2>1. py_index \in Nat /\ wad_mul(0, py_index) \in Nat
    BY IndexType, WadType
  <2>2. wad_mul(0, py_index) * WAD <= 0 * py_index
    BY <2>1, ProductBound
  <2>3. 0 * py_index = 0 /\ WAD \in Nat \ {0}
    BY <2>1, WadAssumption
  <2> DEFINE m == wad_mul(0, py_index)
  <2> HIDE DEF m
  <2>4. m \in Nat /\ m * WAD <= 0 * WAD
    BY <2>1, <2>2, <2>3 DEF m
  <2>5. m <= 0
    BY <2>3, <2>4, MulCancel
  <2> QED BY <2>4, <2>5 DEF sy_to_asset, m
<1>2. get_proportion(0, p) = WAD
  BY <1>1, WadDivSelf DEF get_proportion
<1>3. MAX_PROPORTION < WAD /\ MAX_PROPORTION \in Nat /\ WAD \in Nat
  BY ParametersAssumption, WadAssumption
<1> QED BY <1>2, <1>3 DEF ImpliedRateDefined

\* The same of the state after a call that leaves the index alone.
LEMMA NoRateAfter ==
  ASSUME Consistent, reserve_sy' \in Nat, reserve_pt' \in Nat \ {0},
         ImpliedRateDefined(reserve_sy', reserve_pt')
  PROVE  reserve_sy' > 0
<1>1. CASE reserve_sy' = 0
  BY <1>1, NoRateWithoutSy
<1>2. CASE reserve_sy' # 0
  BY <1>2
<1> QED BY <1>1, <1>2

LEMMA MintsPositive ==
  ASSUME Consistent, ReservesPositive, NEW u \in Users,
         NEW m \in Amounts, NEW n \in Amounts, mint(u, m, n)
  PROVE  ReservesPositive'
<1>1. m \in Nat \ {0} /\ n \in Nat \ {0} /\ reserve_sy \in Nat /\ reserve_pt \in Nat
  BY ParametersAssumption DEF Consistent, TypeOK
<1>2. ASSUME NEW root \in 0..RootBound, MintFirst(u, m, n, root)
      PROVE  ReservesPositive'
  <2>1. reserve_sy' = reserve_sy + m /\ reserve_pt' = reserve_pt + n
    BY <1>2 DEF MintFirst, Deposit
  <2> QED BY <1>1, <2>1 DEF ReservesPositive
<1>3. CASE MintMore(u, m, n)
  <2> DEFINE terms == calc_mint_lp(m, n)
  <2>1. terms \in [lp : Nat, sy : Nat, pt : Nat]
    BY <1>1, <1>3, MintTermsType DEF MintMore
  <2>2. /\ reserve_sy > 0 /\ reserve_pt > 0
        /\ reserve_sy' = reserve_sy + terms.sy
        /\ reserve_pt' = reserve_pt + terms.pt
    BY <1>3 DEF MintMore, Deposit
  <2> HIDE DEF terms
  <2> QED BY <1>1, <2>1, <2>2 DEF ReservesPositive
<1> QED BY <1>2, <1>3 DEF mint

LEMMA BurnPositive ==
  ASSUME Consistent, ReservesPositive, NEW u \in Actors, NEW a \in Users,
         NEW b \in Users, NEW n \in 1..lp[u], burn_with_receivers(u, a, b, n)
  PROVE  ReservesPositive'
<1> DEFINE so == calc_burn_lp(n, reserve_sy)
           po == calc_burn_lp(n, reserve_pt)
<1>1. /\ n \in Nat \ {0} /\ total_lp \in Nat /\ n <= total_lp
      /\ reserve_sy \in Nat /\ reserve_pt \in Nat
  BY AccountFacts DEF burn_with_receivers, Consistent, TypeOK
<1>2. so \in Nat /\ po \in Nat
  BY <1>1, BurnType
<1>3. /\ total_lp' = total_lp - n
      /\ so <= reserve_sy /\ po <= reserve_pt
      /\ reserve_sy' = reserve_sy - so /\ reserve_pt' = reserve_pt - po
  BY DEF burn_with_receivers
<1> SUFFICES ASSUME total_lp' > 0 PROVE reserve_sy' > 0 /\ reserve_pt' > 0
  BY DEF ReservesPositive
<1>4. /\ n < total_lp
      /\ reserve_sy \in Nat \ {0} /\ reserve_pt \in Nat \ {0}
  BY <1>1, <1>3 DEF ReservesPositive
<1>5. so < reserve_sy /\ po < reserve_pt
  BY <1>1, <1>3, <1>4, BurnLeaves
<1> HIDE DEF so, po
<1> QED BY <1>1, <1>2, <1>3, <1>5

\* A swap that pays out SY cannot pay out all of it: the rate of what would be
\* left does not exist.
LEMMA SellPositive ==
  ASSUME Consistent, NEW u \in Users, NEW p \in Nat, NEW s \in Nat,
         NEW t \in Trades, Tradable, SellPt(u, p, s, t)
  PROVE  ReservesPositive'
<1>1. reserve_sy' \in Nat
  BY SellPtSafe DEF SafeStep, Consistent, TypeOK
<1>2. reserve_pt' \in Nat \ {0}
  BY DEF SellPt, Tradable, Consistent, TypeOK
<1>3. ImpliedRateDefined(reserve_sy', reserve_pt')
  BY DEF SellPt
<1> QED BY <1>1, <1>2, <1>3, NoRateAfter DEF ReservesPositive

\* Nor can the treasury's share of a purchase.
LEMMA BuyPositive ==
  ASSUME Consistent, NEW u \in Users, NEW p \in Nat, NEW s \in Nat,
         NEW t \in Trades, p < reserve_pt, BuyPt(u, s, p, t)
  PROVE  ReservesPositive'
<1>1. reserve_sy' \in Nat
  BY BuyPtSafe DEF SafeStep, Consistent, TypeOK
<1>2. reserve_pt' \in Nat \ {0}
  BY DEF BuyPt, Consistent, TypeOK
<1>3. ImpliedRateDefined(reserve_sy', reserve_pt')
  BY DEF BuyPt
<1> QED BY <1>1, <1>2, <1>3, NoRateAfter DEF ReservesPositive

LEMMA SwapPositive ==
  ASSUME Consistent, Swap PROVE ReservesPositive'
<1> PICK u \in Users, r \in CurveRates, f \in FeeRates, n \in Amounts :
      \/ swap_exact_pt_for_sy(u, n, r, f)
      \/ swap_sy_for_exact_pt(u, n, r, f)
      \/ \E m \in 0..reserve_pt : swap_exact_sy_for_pt(u, n, m, r, f)
      \/ \E m \in 1..pt[u] : swap_pt_for_exact_sy(u, n, m, r, f)
  BY DEF Swap
<1>0. n \in Nat
  BY ParametersAssumption
<1>1. CASE swap_exact_pt_for_sy(u, n, r, f)
  <2>1. Sell(n, r, f) \in Trades
    BY <1>0, SellType
  <2>2. Tradable /\ SellPt(u, n, Sell(n, r, f).net_sy, Sell(n, r, f))
    BY <1>1 DEF swap_exact_pt_for_sy
  <2>3. Sell(n, r, f).net_sy \in Nat
    BY <2>1, EffectiveFee
  <2> QED BY <1>0, <2>1, <2>2, <2>3, SellPositive
<1>2. CASE swap_sy_for_exact_pt(u, n, r, f)
  <2>1. CanBuy(n, r, f) /\ BuyPt(u, Buy(n, r, f).net_sy, n, Buy(n, r, f))
    BY <1>2 DEF swap_sy_for_exact_pt
  <2>2. Buy(n, r, f) \in Trades /\ n < reserve_pt
    BY <1>0, <2>1, BuyType DEF CanBuy
  <2>3. Buy(n, r, f).net_sy \in Nat
    BY <2>2, EffectiveFee
  <2> QED BY <1>0, <2>1, <2>2, <2>3, BuyPositive
<1>3. ASSUME NEW m \in 0..reserve_pt, swap_exact_sy_for_pt(u, n, m, r, f)
      PROVE  ReservesPositive'
  <2>0. m \in Nat
    BY DEF Consistent, TypeOK
  <2>1. CanBuy(m, r, f) /\ BuyPt(u, n, m, Buy(m, r, f))
    BY <1>3 DEF swap_exact_sy_for_pt
  <2>2. Buy(m, r, f) \in Trades /\ m < reserve_pt
    BY <2>0, <2>1, BuyType DEF CanBuy
  <2> QED BY <1>0, <2>0, <2>1, <2>2, BuyPositive
<1>4. ASSUME NEW m \in 1..pt[u], swap_pt_for_exact_sy(u, n, m, r, f)
      PROVE  ReservesPositive'
  <2>0. m \in Nat
    BY AccountFacts DEF Consistent, TypeOK
  <2>1. Sell(m, r, f) \in Trades
    BY <2>0, SellType
  <2>2. Tradable /\ SellPt(u, m, n, Sell(m, r, f))
    BY <1>4 DEF swap_pt_for_exact_sy
  <2> QED BY <1>0, <2>0, <2>1, <2>2, SellPositive
<1> QED BY <1>1, <1>2, <1>3, <1>4

\* Administration and the environment leave the shares alone, and only raise
\* the reserves.
LEMMA OthersKeepShares ==
  ASSUME Consistent, Administration \/ Environment
  PROVE  /\ total_lp' = total_lp
         /\ reserve_sy' >= reserve_sy /\ reserve_pt' >= reserve_pt
<1>0. reserve_sy \in Nat /\ reserve_pt \in Nat
      /\ sy[MKT] \in Nat /\ pt[MKT] \in Nat
  BY LedgerFacts
<1>1. CASE Administration
  BY <1>0, <1>1 DEF Administration, skim, collect_fees, SetPaused, max,
                    shares, reserves
<1>2. CASE Environment
  BY <1>0, <1>2 DEF Environment, Donate, LpTransfer, IndexGrows, Expire,
                    shares, reserves
<1> QED BY <1>1, <1>2

LEMMA NextPositive ==
  Consistent /\ ReservesPositive /\ [Next]_vars => ReservesPositive'
<1> SUFFICES ASSUME Consistent, ReservesPositive, [Next]_vars
             PROVE  ReservesPositive'
  OBVIOUS
<1>1. CASE Liquidity
  <2>1. CASE \E u \in Users, m, n \in Amounts : mint(u, m, n)
    BY <2>1, MintsPositive
  <2>2. CASE \E u \in Actors, a, b \in Users : \E n \in 1..lp[u] :
               burn(u, a, n) \/ burn_with_receivers(u, a, b, n)
    BY <2>2, BurnPositive DEF burn
  <2> QED BY <1>1, <2>1, <2>2 DEF Liquidity
<1>2. CASE Swap
  BY <1>2, SwapPositive
<1>3. CASE Administration \/ Environment
  <2>1. /\ total_lp' = total_lp
        /\ reserve_sy' >= reserve_sy /\ reserve_pt' >= reserve_pt
    BY <1>3, OthersKeepShares
  <2>2. /\ reserve_sy \in Nat /\ reserve_pt \in Nat
        /\ reserve_sy' \in Nat /\ reserve_pt' \in Nat
    <3>1. SafeStep
      BY NextSafe
    <3> QED BY <3>1 DEF SafeStep, Consistent, TypeOK
  <2> QED BY <2>1, <2>2 DEF ReservesPositive
<1>4. CASE UNCHANGED vars
  BY <1>4 DEF ReservesPositive, vars, shares, reserves
<1> QED BY <1>1, <1>2, <1>3, <1>4 DEF Next

\* A pool with shares has both reserves: no mint, burn, swap, fee or rounding
\* empties one side under the shares that stay.
THEOREM ReservesStay == Spec => []ReservesPositive
<1>1. Init => ReservesPositive
  BY DEF Init, ReservesPositive
<1>2. Consistent /\ ReservesPositive /\ [Next]_vars => ReservesPositive'
  BY NextPositive
<1> QED BY <1>1, <1>2, Safety, PTL DEF Spec

-----------------------------------------------------------------------------
(***************************************************************************)
(* What minting and burning do to the value of a share                     *)
(***************************************************************************)

SharesStep ==
  total_lp > 0 =>
    /\ total_lp' > total_lp => /\ ShareLoss(reserve_sy, reserve_sy') <= 0
                               /\ ShareLoss(reserve_pt, reserve_pt') <= 0
    /\ total_lp' < total_lp =>
         /\ CUBIT_ONE * ShareLoss(reserve_sy, reserve_sy')
              <= (WAD - 1) * (reserve_sy - reserve_sy')
         /\ CUBIT_ONE * ShareLoss(reserve_pt, reserve_pt')
              <= (WAD - 1) * (reserve_pt - reserve_pt')

\* A deposit that is at least in proportion to the shares it mints.
LEMMA InProportion ==
  ASSUME NEW reserve \in Nat, NEW used \in Nat, NEW minted \in Nat,
         total_lp \in Nat, total_lp' = total_lp + minted,
         reserve * minted <= used * total_lp
  PROVE  ShareLoss(reserve, reserve + used) <= 0
<1>1. ShareLoss(reserve, reserve + used) = reserve * minted - used * total_lp
  <2>1. ShareLoss(reserve, reserve + used)
          = reserve * (total_lp + minted) - (reserve + used) * total_lp
    BY DEF ShareLoss
  <2> QED BY <2>1
<1>2. reserve * minted \in Nat /\ used * total_lp \in Nat
  BY MulNat
<1> QED BY <1>1, <1>2

\* Both sides of a mint are: the limiting one because the shares are rounded
\* down, the other one because it is rounded up.
LEMMA MintInProportion ==
  ASSUME Consistent, NEW m \in Nat, NEW n \in Nat,
         total_lp > 0, reserve_sy > 0, reserve_pt > 0
  PROVE  LET terms == calc_mint_lp(m, n) IN
         /\ reserve_sy * terms.lp <= terms.sy * total_lp
         /\ reserve_pt * terms.lp <= terms.pt * total_lp
<1> DEFINE a == (m * total_lp) \div reserve_sy
           b == (n * total_lp) \div reserve_pt
<1>1. /\ total_lp \in Nat \ {0}
      /\ reserve_sy \in Nat \ {0} /\ reserve_pt \in Nat \ {0}
  BY DEF Consistent, TypeOK
<1>2. m * total_lp \in Nat /\ n * total_lp \in Nat
  BY <1>1, MulNat
<1>3. /\ a \in Nat /\ a * reserve_sy <= m * total_lp
      /\ b \in Nat /\ b * reserve_pt <= n * total_lp
  BY <1>1, <1>2, DivBounds
<1>4. reserve_pt * a \in Nat /\ reserve_sy * b \in Nat
  BY <1>1, <1>3, MulNat
<1>5. /\ reserve_pt * a <= OtherSide(reserve_pt, a) * total_lp
      /\ reserve_sy * b <= OtherSide(reserve_sy, b) * total_lp
  BY <1>1, <1>4, UpBounds DEF OtherSide
<1>6. calc_mint_lp(m, n) = IF a <= b THEN MintTerms(a, m, OtherSide(reserve_pt, a))
                           ELSE MintTerms(b, OtherSide(reserve_sy, b), n)
  BY DEF calc_mint_lp
<1> HIDE DEF a, b
<1>7. reserve_sy * a <= m * total_lp /\ reserve_pt * b <= n * total_lp
  BY <1>1, <1>3
<1> QED BY <1>5, <1>6, <1>7 DEF MintTerms

LEMMA MintKeepsValue ==
  ASSUME Consistent, NEW u \in Users, NEW m \in Amounts, NEW n \in Amounts,
         MintMore(u, m, n)
  PROVE  SharesStep
<1> DEFINE terms == calc_mint_lp(m, n)
<1>1. m \in Nat /\ n \in Nat
  BY ParametersAssumption
<1>2. terms \in [lp : Nat, sy : Nat, pt : Nat]
  BY <1>1, MintTermsType DEF MintMore
<1>3. /\ reserve_sy * terms.lp <= terms.sy * total_lp
      /\ reserve_pt * terms.lp <= terms.pt * total_lp
  BY <1>1, MintInProportion DEF MintMore
<1>4. /\ total_lp' = total_lp + terms.lp
      /\ reserve_sy' = reserve_sy + terms.sy
      /\ reserve_pt' = reserve_pt + terms.pt
  BY DEF MintMore, Deposit
<1> HIDE DEF terms
<1>5. /\ total_lp \in Nat /\ reserve_sy \in Nat /\ reserve_pt \in Nat
      /\ terms.lp \in Nat /\ terms.sy \in Nat /\ terms.pt \in Nat
  BY <1>2 DEF Consistent, TypeOK
<1>6. ShareLoss(reserve_sy, reserve_sy + terms.sy) <= 0
  BY <1>3, <1>4, <1>5, InProportion
<1>7. ShareLoss(reserve_pt, reserve_pt + terms.pt) <= 0
  BY <1>3, <1>4, <1>5, InProportion
<1>8. ~(total_lp' < total_lp)
  BY <1>4, <1>5
<1> QED BY <1>4, <1>6, <1>7, <1>8 DEF SharesStep

\* A burn of n shares takes its part of a reserve and at most the rounding of
\* the supply on what it takes.
LEMMA BurnLoss ==
  ASSUME Consistent, NEW n \in Nat, NEW reserve \in Nat, n <= total_lp,
         total_lp' = total_lp - n
  PROVE  LET left == reserve - calc_burn_lp(n, reserve) IN
         CUBIT_ONE * ShareLoss(reserve, left) <= (WAD - 1) * (reserve - left)
<1> DEFINE o == calc_burn_lp(n, reserve)
<1>1. o \in Nat
  BY BurnType
<1>2. /\ total_lp \in Nat /\ CUBIT_ONE \in Nat /\ WAD - 1 \in Nat
  BY WadAssumption, CubitAssumption DEF Consistent, TypeOK
<1>3. o * total_lp * CUBIT_ONE <= n * reserve * CUBIT_ONE + o * (WAD - 1)
  BY BurnBound
<1> HIDE DEF o
<1>4. ShareLoss(reserve, reserve - o) = o * total_lp - n * reserve
  <2>1. ShareLoss(reserve, reserve - o)
          = reserve * (total_lp - n) - (reserve - o) * total_lp
    BY DEF ShareLoss
  <2> QED BY <1>1, <1>2, <2>1
<1>5. CUBIT_ONE * (o * total_lp - n * reserve)
        = o * total_lp * CUBIT_ONE - n * reserve * CUBIT_ONE
  BY <1>1, <1>2
<1>6. (WAD - 1) * (reserve - (reserve - o)) = o * (WAD - 1)
  <2>1. reserve - (reserve - o) = o
    BY <1>1
  <2> QED BY <1>1, <1>2, <2>1
<1>7. /\ o * total_lp * CUBIT_ONE \in Nat /\ n * reserve * CUBIT_ONE \in Nat
      /\ o * (WAD - 1) \in Nat
  BY <1>1, <1>2, MulNat
<1>8. CUBIT_ONE * ShareLoss(reserve, reserve - o)
        <= (WAD - 1) * (reserve - (reserve - o))
  BY <1>3, <1>4, <1>5, <1>6, <1>7
<1> QED BY <1>8 DEF o

LEMMA BurnKeepsValue ==
  ASSUME Consistent, NEW u \in Actors, NEW a \in Users, NEW b \in Users,
         NEW n \in 1..lp[u], burn_with_receivers(u, a, b, n)
  PROVE  SharesStep
<1>1. /\ n \in Nat \ {0} /\ total_lp \in Nat /\ n <= total_lp
      /\ reserve_sy \in Nat /\ reserve_pt \in Nat
  BY AccountFacts DEF burn_with_receivers, Consistent, TypeOK
<1>2. /\ total_lp' = total_lp - n
      /\ reserve_sy' = reserve_sy - calc_burn_lp(n, reserve_sy)
      /\ reserve_pt' = reserve_pt - calc_burn_lp(n, reserve_pt)
  BY DEF burn_with_receivers
<1>3. /\ CUBIT_ONE * ShareLoss(reserve_sy, reserve_sy')
           <= (WAD - 1) * (reserve_sy - reserve_sy')
      /\ CUBIT_ONE * ShareLoss(reserve_pt, reserve_pt')
           <= (WAD - 1) * (reserve_pt - reserve_pt')
  BY <1>1, <1>2, BurnLoss
<1>4. ~(total_lp' > total_lp)
  BY <1>1, <1>2
<1> QED BY <1>3, <1>4 DEF SharesStep

\* A swap leaves the shares alone.
LEMMA SwapKeepsShares == ASSUME Swap PROVE total_lp' = total_lp
<1>1. \A u, p, s, t : SellPt(u, p, s, t) \/ BuyPt(u, s, p, t)
                        => total_lp' = total_lp
  BY DEF SellPt, BuyPt, shares
<1> QED BY <1>1 DEF Swap, swap_exact_pt_for_sy, swap_sy_for_exact_pt,
                    swap_exact_sy_for_pt, swap_pt_for_exact_sy

LEMMA NextKeepsValue == Consistent /\ [Next]_vars => SharesStep
<1> SUFFICES ASSUME Consistent, [Next]_vars PROVE SharesStep
  OBVIOUS
<1>0. total_lp \in Nat
  BY DEF Consistent, TypeOK
<1>1. CASE \E u \in Users, m, n \in Amounts : mint(u, m, n)
  <2> PICK u \in Users, m \in Amounts, n \in Amounts : mint(u, m, n)
    BY <1>1
  <2>1. CASE MintMore(u, m, n)
    BY <2>1, MintKeepsValue
  <2>2. CASE \E root \in 0..RootBound : MintFirst(u, m, n, root)
    BY <2>2 DEF MintFirst, SharesStep
  <2> QED BY <2>1, <2>2 DEF mint
<1>2. CASE \E u \in Actors, a, b \in Users : \E n \in 1..lp[u] :
             burn(u, a, n) \/ burn_with_receivers(u, a, b, n)
  BY <1>2, BurnKeepsValue DEF burn
<1>3. CASE Swap \/ Administration \/ Environment \/ UNCHANGED vars
  <2>1. total_lp' = total_lp
    BY <1>3, SwapKeepsShares, OthersKeepShares DEF vars, shares
  <2> QED BY <1>0, <2>1 DEF SharesStep
<1> QED BY <1>1, <1>2, <1>3 DEF Next, Liquidity

\* Minting and burning leave the value of the other shares alone, except that a
\* burn may take the part (WAD - 1) / CUBIT_ONE of one share.
THEOREM SharesKeepTheirValue == Spec => SharesNotDiluted
<1>1. Consistent /\ [Next]_vars => [SharesStep]_vars
  BY NextKeepsValue
<1> QED BY <1>1, Safety, PTL DEF Spec, SharesNotDiluted, SharesStep

-----------------------------------------------------------------------------
(***************************************************************************)
(* What a swap costs the liquidity providers                               *)
(***************************************************************************)

DustStep ==
  \A r \in CurveRates :
    LET before == Worth(reserve_sy, reserve_pt, r)
        after == Worth(reserve_sy', reserve_pt', r)
    IN /\ after >= before \/ ~SellAt(r)
       /\ \/ after > before - wad_to_fp(r) * (CUBIT_ONE + 2 * WAD + SyPaid)
          \/ ~BuyAt(r)

\* The fee of a sale is at most what is sold, at the rate before the fee.
LEMMA SellFeeBound ==
  ASSUME NEW n \in Nat, NEW r \in CurveRates, NEW f \in FeeRates
  PROVE  /\ wad_div(n, r) \in Nat /\ SellFee(n, r, f) \in Nat
         /\ SellFee(n, r, f) <= wad_div(n, r)
<1> DEFINE x == wad_div(n, r)  y == wad_mul(x, f - WAD)
           ff == wad_to_fp(f)  fg == wad_to_fp(f - WAD)
           s == SellFee(n, r, f)
<1>1. /\ r \in Nat \ {0} /\ f \in Nat \ {0} /\ f - WAD \in Nat
      /\ f - WAD <= f /\ CUBIT_ONE \in Nat
  BY RatesAssumption, WadAssumption, CubitAssumption
<1>2. x \in Nat
  BY <1>1, WadType
<1>3. y \in Nat
  BY <1>1, <1>2, WadType
<1>4. s \in Nat
  BY <1>1, <1>3, WadType DEF SellFee
<1>5. ff \in Nat \ {0} /\ fg \in Nat /\ fg <= ff
  BY <1>1, ConversionType, ImageMono
<1>6. s * ff <= y * CUBIT_ONE
  BY <1>1, <1>3, QuotientBound DEF SellFee
<1>7. y * CUBIT_ONE <= x * fg
  BY <1>1, <1>2, ProductBound
<1> HIDE DEF x, y, ff, fg, s
<1>8. x * fg <= x * ff
  <2>1. fg * x <= ff * x
    BY <1>2, <1>5, MulMono
  <2> QED BY <2>1, <1>2, <1>5
<1>9. s * ff <= x * ff
  <2>1. /\ s * ff \in Nat /\ y * CUBIT_ONE \in Nat
        /\ x * fg \in Nat /\ x * ff \in Nat
    BY <1>1, <1>2, <1>3, <1>4, <1>5, MulNat
  <2> QED BY <2>1, <1>6, <1>7, <1>8
<1>10. s <= x
  BY <1>2, <1>4, <1>5, <1>9, MulCancel
<1> QED BY <1>2, <1>4, <1>10 DEF x, s

\* What a sale of n PT takes from the pool is worth at most n PT.
LEMMA SellWorth ==
  ASSUME Consistent, NEW n \in Nat, NEW r \in CurveRates, NEW f \in FeeRates
  PROVE  LET t == Sell(n, r, f) IN
         (t.net_sy + t.to_reserve) * wad_to_fp(py_index) * wad_to_fp(r)
           <= n * CUBIT_ONE * CUBIT_ONE
<1> DEFINE x == wad_div(n, r)  fee == SellFee(n, r, f)
           share == ReserveShare(fee)
           net == asset_to_sy(x - fee, py_index)
           tor == asset_to_sy(share, py_index)
           fi == wad_to_fp(py_index)  fr == wad_to_fp(r)  C == CUBIT_ONE
<1>1. /\ r \in Nat \ {0} /\ py_index \in Nat \ {0} /\ C \in Nat \ {0}
      /\ fi \in Nat /\ fr \in Nat
  BY RatesAssumption, WadAssumption, CubitAssumption, IndexType, ConversionType
<1>2. x \in Nat /\ fee \in Nat /\ fee <= x
  BY SellFeeBound
<1>3. share \in Nat /\ share <= fee
  BY <1>2, ShareOfFee
<1>4. x - fee \in Nat
  BY <1>2
<1>5. net \in Nat /\ net * fi <= (x - fee) * C
  BY <1>1, <1>4, WadType, QuotientBound DEF asset_to_sy
<1>6. tor \in Nat /\ tor * fi <= share * C
  BY <1>1, <1>3, WadType, QuotientBound DEF asset_to_sy
<1>7. x * fr <= n * C
  BY <1>1, QuotientBound
<1>8. Sell(n, r, f).net_sy = net /\ Sell(n, r, f).to_reserve = tor
  <2>1. max(x, fee) - fee = x - fee
    BY <1>2 DEF max
  <2> QED BY <2>1 DEF Sell, Trade
<1> HIDE DEF x, fee, share, net, tor, fi, fr, C
<1>9. (net + tor) * fi <= x * C
  <2>1. share * C <= fee * C
    BY <1>1, <1>2, <1>3, MulMono
  <2>2. (net + tor) * fi = net * fi + tor * fi
    BY <1>1, <1>5, <1>6
  <2>3. (x - fee) * C + fee * C = x * C
    BY <1>1, <1>2
  <2>4. /\ net * fi \in Nat /\ tor * fi \in Nat /\ share * C \in Nat
        /\ (x - fee) * C \in Nat /\ fee * C \in Nat
    BY <1>1, <1>2, <1>3, <1>4, <1>5, <1>6, MulNat
  <2> QED BY <1>5, <1>6, <2>1, <2>2, <2>3, <2>4
<1>10. (net + tor) * fi * fr <= n * C * C
  <2>1. net + tor \in Nat
    BY <1>5, <1>6
  <2>2. ((net + tor) * fi) * fr <= (x * C) * fr
    BY <1>1, <1>2, <1>9, <2>1, MulNat, MulMono
  <2>3. (x * fr) * C <= (n * C) * C
    BY <1>1, <1>2, <1>7, MulNat, MulMono
  <2>4. (x * C) * fr = (x * fr) * C
    BY <1>1, <1>2
  <2>5. /\ ((net + tor) * fi) * fr \in Nat /\ (x * fr) * C \in Nat
        /\ (n * C) * C \in Nat
    BY <1>1, <1>2, <2>1, MulNat
  <2> QED BY <2>2, <2>3, <2>4, <2>5
<1> QED BY <1>8, <1>10 DEF net, tor, fi, fr, C

\* What is paid for n PT, less the treasury's share, is worth n PT up to the
\* rounding of one quotient and of the index.
LEMMA BuyWorth ==
  ASSUME Consistent, NEW n \in Nat, NEW r \in CurveRates, NEW f \in FeeRates,
         CanBuy(n, r, f)
  PROVE  LET t == Buy(n, r, f)
             fi == wad_to_fp(py_index)
             fr == wad_to_fp(r)
         IN n * CUBIT_ONE * CUBIT_ONE + t.to_reserve * fi * fr
              < (t.net_sy * fi + t.net_sy + CUBIT_ONE + 2 * WAD) * fr
<1> DEFINE fi == wad_to_fp(py_index)  fr == wad_to_fp(r)  C == CUBIT_ONE
           q == wad_div(r, f)
           x == wad_div(n, r)  paid == PaidFor(n, r, f)
           fee == BuyFee(n, r, f)  share == ReserveShare(fee)
           net == asset_to_sy_up(paid, py_index)
           tor == asset_to_sy(share, py_index)
<1>1. /\ r \in Nat \ {0} /\ WAD <= r /\ f \in Nat \ {0} /\ WAD <= f
      /\ py_index \in Nat \ {0} /\ C \in Nat \ {0} /\ WAD \in Nat \ {0}
      /\ fi \in Nat /\ fr \in Nat \ {0}
  BY RatesAssumption, WadAssumption, CubitAssumption, IndexType, ConversionType
<1>2. CASE n = 0
  <2>1. Buy(n, r, f).to_reserve = 0 /\ Buy(n, r, f).net_sy = 0
    BY <1>2 DEF Buy, NoTrade, Trade
  <2> HIDE DEF fi, fr, C
  <2>2. (C + 2 * WAD) * fr > 0
    <3>1. C + 2 * WAD \in Nat \ {0}
      BY <1>1
    <3> DEFINE k == C + 2 * WAD
    <3>2. k \in Nat \ {0}
      BY <3>1
    <3> HIDE DEF k
    <3>3. k * fr \in Nat \ {0}
      BY <1>1, <3>2
    <3> QED BY <3>3 DEF k
  <2>3. n * C * C + 0 * fi * fr = 0
    BY <1>1, <1>2
  <2>4. (0 * fi + 0 + C + 2 * WAD) * fr = (C + 2 * WAD) * fr
    BY <1>1
  <2>5. n * C * C + 0 * fi * fr < (0 * fi + 0 + C + 2 * WAD) * fr
    BY <2>2, <2>3, <2>4
  <2> QED BY <2>1, <2>5 DEF fi, fr, C
<1>3. CASE n # 0
  <2>1. q \in Nat \ {0} /\ q <= r
    <3>1. q \in Nat /\ WAD <= q
      BY <1>1, <1>3, WadType DEF CanBuy
    <3>2. q <= r
      <4> DEFINE ff == wad_to_fp(f)
      <4>1. ff \in Nat /\ C <= ff
        BY <1>1, ConversionType, ImageMono
      <4>2. q * ff <= r * C
        BY <1>1, QuotientBound
      <4> HIDE DEF ff, q, C
      <4>3. q * C <= q * ff
        <5>1. C * q <= ff * q
          BY <1>1, <3>1, <4>1, MulMono
        <5> QED BY <5>1, <1>1, <3>1, <4>1
      <4>4. q * C \in Nat /\ q * ff \in Nat /\ r * C \in Nat
        BY <1>1, <3>1, <4>1, MulNat
      <4>5. q * C <= r * C
        BY <4>2, <4>3, <4>4
      <4> QED BY <1>1, <3>1, <4>5, MulCancel
    <3> QED BY <1>1, <3>1, <3>2
  <2>2. x \in Nat /\ paid \in Nat
    BY <1>1, <2>1, WadType DEF PaidFor
  <2>3. x <= paid
    BY <1>1, <2>1, WadDivAnti DEF PaidFor
  <2>4. fee = paid - x
    BY <2>2, <2>3 DEF BuyFee, max
  <2>5. fee \in Nat
    BY <2>2, <2>3, <2>4
  <2>6. share \in Nat /\ share <= fee
    BY <2>5, ShareOfFee
  <2>7. tor \in Nat /\ tor * fi <= share * C
    BY <1>1, <2>6, WadType, QuotientBound DEF asset_to_sy
  <2>8. net \in Nat /\ paid * WAD <= net * py_index
    BY <1>1, <2>2, UpType, UpBounds DEF asset_to_sy_up
  <2>9. py_index * C < fi * WAD + WAD
    BY <1>1, ImageBounds
  <2>10. n * C * C < (x * C + C + 2 * WAD) * fr
    BY <1>1, QuotientLoss
  <2>11. Buy(n, r, f).net_sy = net /\ Buy(n, r, f).to_reserve = tor
    BY <1>3 DEF Buy, Trade
  <2> HIDE DEF fi, fr, C, q, x, paid, fee, share, net, tor
  \* The payment covers what was asked for.
  <2>12. paid * C <= net * fi + net
    <3>1. (paid * WAD) * C <= (net * py_index) * C
      BY <1>1, <2>2, <2>8, MulNat, MulMono
    <3>2. (py_index * C) * net <= (fi * WAD + WAD) * net
      <4>1. py_index * C \in Nat /\ fi * WAD + WAD \in Nat
        BY <1>1, MulNat
      <4>2. py_index * C <= fi * WAD + WAD
        BY <4>1, <2>9
      <4> QED BY <4>1, <4>2, <2>8, MulMono
    <3>3. /\ (paid * WAD) * C = (paid * C) * WAD
          /\ (net * py_index) * C = (py_index * C) * net
          /\ (fi * WAD + WAD) * net = (net * fi + net) * WAD
      BY <1>1, <2>2, <2>8
    <3>4. /\ paid * C \in Nat /\ net * fi + net \in Nat
          /\ (paid * C) * WAD \in Nat /\ (py_index * C) * net \in Nat
          /\ (net * fi + net) * WAD \in Nat
      BY <1>1, <2>2, <2>8, MulNat
    <3>5. (paid * C) * WAD <= (net * fi + net) * WAD
      BY <3>1, <3>2, <3>3, <3>4
    <3> QED BY <1>1, <3>4, <3>5, MulCancel
  \* So does it with the treasury's share on top of the price without fee.
  <2>13. x * C + tor * fi <= net * fi + net
    <3>1. share * C <= fee * C
      BY <1>1, <2>5, <2>6, MulMono
    <3>2. x * C + fee * C = paid * C
      BY <1>1, <2>2, <2>4
    <3>3. /\ share * C \in Nat /\ fee * C \in Nat /\ x * C \in Nat
          /\ tor * fi \in Nat /\ paid * C \in Nat /\ net * fi \in Nat
      BY <1>1, <2>2, <2>5, <2>6, <2>7, <2>8, MulNat
    <3> QED BY <2>7, <2>8, <2>12, <3>1, <3>2, <3>3
  <2>14. x * C * fr + tor * fi * fr <= (net * fi + net) * fr
    <3>1. x * C + tor * fi \in Nat /\ net * fi + net \in Nat
      BY <1>1, <2>2, <2>7, <2>8, MulNat
    <3>2. (x * C + tor * fi) * fr <= (net * fi + net) * fr
      BY <1>1, <2>13, <3>1, MulMono
    <3>3. (x * C + tor * fi) * fr = x * C * fr + tor * fi * fr
      BY <1>1, <2>2, <2>7
    <3> QED BY <3>2, <3>3
  <2>15. (x * C + C + 2 * WAD) * fr = x * C * fr + (C + 2 * WAD) * fr
    BY <1>1, <2>2
  <2>16. (net * fi + net + C + 2 * WAD) * fr
           = (net * fi + net) * fr + (C + 2 * WAD) * fr
    BY <1>1, <2>8
  <2>17. /\ n * C * C \in Nat /\ x * C * fr \in Nat /\ tor * fi * fr \in Nat
         /\ (net * fi + net) * fr \in Nat /\ (C + 2 * WAD) * fr \in Nat
    <3>1. net * fi \in Nat /\ net * fi + net \in Nat /\ C + 2 * WAD \in Nat
      BY <1>1, <2>8, MulNat
    <3> QED BY <1>1, <2>2, <2>7, <2>8, <3>1, MulNat
  <2>18. n * C * C + tor * fi * fr < (net * fi + net + C + 2 * WAD) * fr
    BY <2>10, <2>14, <2>15, <2>16, <2>17
  <2> QED BY <2>11, <2>18 DEF fi, fr, C
<1> QED BY <1>2, <1>3

\* The pool after a sale that pays out no more than the formula says.
LEMMA SellDust ==
  ASSUME Consistent, NEW u \in Users, NEW n \in Nat, NEW s \in Nat,
         NEW r \in CurveRates, NEW f \in FeeRates,
         s <= Sell(n, r, f).net_sy, SellPt(u, n, s, Sell(n, r, f))
  PROVE  Worth(reserve_sy', reserve_pt', r) >= Worth(reserve_sy, reserve_pt, r)
<1> DEFINE t == Sell(n, r, f)  e == _get_effective_reserve_fee(t)
           fi == wad_to_fp(py_index)  fr == wad_to_fp(r)  C == CUBIT_ONE
           net == t.net_sy  tor == t.to_reserve
<1>1. /\ fi \in Nat /\ fr \in Nat /\ C \in Nat
      /\ reserve_sy \in Nat /\ reserve_pt \in Nat
  BY RatesAssumption, CubitAssumption, IndexType, ConversionType
     DEF Consistent, TypeOK
<1>2. net \in Nat /\ tor \in Nat /\ e \in Nat /\ e <= tor
  <2>1. t \in Trades
    BY SellType
  <2> HIDE DEF t
  <2> QED BY <2>1 DEF Trades, _get_effective_reserve_fee
<1>3. (net + tor) * fi * fr <= n * C * C
  BY SellWorth
<1>4. reserve_sy' = reserve_sy - (s + e) /\ reserve_pt' = reserve_pt + n
      /\ s <= net
  BY DEF SellPt, SyLeaving
<1>5. Worth(reserve_sy', reserve_pt', r)
        = (reserve_sy - (s + e)) * fi * fr + (reserve_pt + n) * C * C
  BY <1>4 DEF Worth
<1>6. Worth(reserve_sy, reserve_pt, r)
        = reserve_sy * fi * fr + reserve_pt * C * C
  BY DEF Worth
<1> HIDE DEF t, e, fi, fr, C, net, tor
<1>7. (s + e) * fi * fr <= (net + tor) * fi * fr
  <2>1. s + e \in Nat /\ net + tor \in Nat /\ s + e <= net + tor
    BY <1>2, <1>4
  <2>2. (s + e) * (fi * fr) <= (net + tor) * (fi * fr)
    BY <1>1, <2>1, MulNat, MulMono
  <2> QED BY <1>1, <1>2, <2>2
<1>8. (reserve_sy - (s + e)) * fi * fr = reserve_sy * fi * fr - (s + e) * fi * fr
  BY <1>1, <1>2
<1>9. (reserve_pt + n) * C * C = reserve_pt * C * C + n * C * C
  BY <1>1
<1>10. /\ (s + e) * fi * fr \in Nat /\ (net + tor) * fi * fr \in Nat
       /\ reserve_sy * fi * fr \in Nat /\ n * C * C \in Nat
       /\ reserve_pt * C * C \in Nat
  <2>1. s + e \in Nat /\ net + tor \in Nat
    BY <1>2
  <2> QED BY <1>1, <2>1, MulNat
<1> QED BY <1>3, <1>5, <1>6, <1>7, <1>8, <1>9, <1>10

\* The pool after a purchase that pays at least what the formula says.
LEMMA BuyDust ==
  ASSUME Consistent, NEW u \in Users, NEW n \in Nat, NEW s \in Nat,
         NEW r \in CurveRates, NEW f \in FeeRates, CanBuy(n, r, f),
         Buy(n, r, f).net_sy <= s, BuyPt(u, s, n, Buy(n, r, f))
  PROVE  Worth(reserve_sy', reserve_pt', r)
           > Worth(reserve_sy, reserve_pt, r)
               - wad_to_fp(r) * (CUBIT_ONE + 2 * WAD + SyPaid)
<1> DEFINE t == Buy(n, r, f)  e == _get_effective_reserve_fee(t)
           fi == wad_to_fp(py_index)  fr == wad_to_fp(r)  C == CUBIT_ONE
           net == t.net_sy  tor == t.to_reserve
<1>1. /\ fi \in Nat /\ fr \in Nat /\ C \in Nat /\ WAD \in Nat
      /\ reserve_sy \in Nat /\ reserve_pt \in Nat
  BY RatesAssumption, CubitAssumption, WadAssumption, IndexType, ConversionType
     DEF Consistent, TypeOK
<1>2. net \in Nat /\ tor \in Nat /\ e \in Nat /\ e <= tor
  <2>1. t \in Trades
    BY BuyType
  <2> HIDE DEF t
  <2> QED BY <2>1 DEF Trades, _get_effective_reserve_fee
<1>3. n * C * C + tor * fi * fr < (net * fi + net + C + 2 * WAD) * fr
  BY BuyWorth
<1>4. /\ reserve_sy' = reserve_sy + s - e /\ reserve_pt' = reserve_pt - n
      /\ net <= s
  BY DEF BuyPt
<1>5. SyPaid = s
  <2> DEFINE received == Move(sy, u, MKT, s)
  <2>1. /\ u \in Accounts /\ u # MKT /\ u # LockedAt /\ MKT \in Accounts
        /\ LockedAt \in Accounts /\ LockedAt # MKT
    BY AccountFacts, AccountsAssumption
  <2>2. sy \in [Accounts -> Nat] /\ s <= sy[u] /\ e <= sy[MKT] + s
        /\ sy' = Move(received, MKT, LockedAt, e)
    BY LedgerFacts DEF BuyPt
  <2>3. /\ received \in [Accounts -> Nat] /\ received[MKT] = sy[MKT] + s
        /\ received[LockedAt] = sy[LockedAt]
    BY <2>1, <2>2, MoveType
  <2> HIDE DEF received, e
  <2>4. e <= received[MKT]
    BY <2>2, <2>3
  <2>5. /\ sy'[MKT] = received[MKT] - e
        /\ sy'[LockedAt] = received[LockedAt] + e
    BY <1>2, <2>1, <2>2, <2>3, <2>4, MoveType
  <2>6. sy[MKT] \in Nat /\ sy[LockedAt] \in Nat
    BY <2>1, <2>2
  <2> QED BY <1>2, <2>3, <2>5, <2>6 DEF SyPaid
<1>6. Worth(reserve_sy', reserve_pt', r)
        = (reserve_sy + s - e) * fi * fr + (reserve_pt - n) * C * C
  BY <1>4 DEF Worth
<1>7. Worth(reserve_sy, reserve_pt, r)
        = reserve_sy * fi * fr + reserve_pt * C * C
  BY DEF Worth
<1> HIDE DEF t, e, fi, fr, C, net, tor
<1>8. e * fi * fr <= tor * fi * fr
  <2>1. e * (fi * fr) <= tor * (fi * fr)
    BY <1>1, <1>2, MulNat, MulMono
  <2> QED BY <1>1, <1>2, <2>1
<1>9. (net * fi + net + C + 2 * WAD) * fr
        <= s * fi * fr + fr * (C + 2 * WAD + s)
  <2>1. net * ((fi + 1) * fr) <= s * ((fi + 1) * fr)
    <3>1. (fi + 1) * fr \in Nat
      BY <1>1
    <3> QED BY <1>1, <1>2, <1>4, <3>1, MulMono
  <2>2. (net * fi + net + C + 2 * WAD) * fr
          = net * ((fi + 1) * fr) + (C + 2 * WAD) * fr
    BY <1>1, <1>2
  <2>3. s * fi * fr + fr * (C + 2 * WAD + s)
          = s * ((fi + 1) * fr) + (C + 2 * WAD) * fr
    BY <1>1
  <2>4. /\ net * ((fi + 1) * fr) \in Nat /\ s * ((fi + 1) * fr) \in Nat
        /\ (C + 2 * WAD) * fr \in Nat
    <3>1. fi + 1 \in Nat /\ C + 2 * WAD \in Nat
      BY <1>1
    <3> QED BY <1>1, <1>2, <3>1, MulNat
  <2> QED BY <2>1, <2>2, <2>3, <2>4
<1>10. (reserve_sy + s - e) * fi * fr
         = reserve_sy * fi * fr + s * fi * fr - e * fi * fr
  BY <1>1, <1>2
<1>11. (reserve_pt - n) * C * C = reserve_pt * C * C - n * C * C
  BY <1>1
<1>12. /\ e * fi * fr \in Nat /\ tor * fi * fr \in Nat /\ s * fi * fr \in Nat
       /\ reserve_sy * fi * fr \in Nat /\ n * C * C \in Nat
       /\ reserve_pt * C * C \in Nat /\ fr * (C + 2 * WAD + s) \in Nat
       /\ (net * fi + net + C + 2 * WAD) * fr \in Nat
  <2>1. net * fi \in Nat
    BY <1>1, <1>2, MulNat
  <2>2. net * fi + net + C + 2 * WAD \in Nat /\ C + 2 * WAD + s \in Nat
    BY <1>1, <1>2, <2>1
  <2> QED BY <1>1, <1>2, <2>2, MulNat
<1>13. Worth(reserve_sy', reserve_pt', r)
         > Worth(reserve_sy, reserve_pt, r) - fr * (C + 2 * WAD + s)
  BY <1>3, <1>6, <1>7, <1>8, <1>9, <1>10, <1>11, <1>12
<1> QED BY <1>5, <1>13 DEF fr, C

LEMMA SwapsCostDust == Consistent => DustStep
<1> SUFFICES ASSUME Consistent, NEW r \in CurveRates
             PROVE  /\ SellAt(r) => Worth(reserve_sy', reserve_pt', r)
                                      >= Worth(reserve_sy, reserve_pt, r)
                    /\ BuyAt(r) =>
                         Worth(reserve_sy', reserve_pt', r)
                           > Worth(reserve_sy, reserve_pt, r)
                               - wad_to_fp(r) * (CUBIT_ONE + 2 * WAD + SyPaid)
  BY DEF DustStep
<1>1. ASSUME SellAt(r)
      PROVE  Worth(reserve_sy', reserve_pt', r)
               >= Worth(reserve_sy, reserve_pt, r)
  <2> PICK u \in Users, f \in FeeRates, n \in Amounts :
        \/ swap_exact_pt_for_sy(u, n, r, f)
        \/ \E m \in 1..pt[u] : swap_pt_for_exact_sy(u, n, m, r, f)
    BY <1>1 DEF SellAt
  <2>0. n \in Nat
    BY ParametersAssumption
  <2>1. CASE swap_exact_pt_for_sy(u, n, r, f)
    <3>1. SellPt(u, n, Sell(n, r, f).net_sy, Sell(n, r, f))
      BY <2>1 DEF swap_exact_pt_for_sy
    <3>2. Sell(n, r, f).net_sy \in Nat
      BY <2>0, SellType, EffectiveFee
    <3>3. Sell(n, r, f).net_sy <= Sell(n, r, f).net_sy
      BY <3>2
    <3> QED BY <2>0, <3>1, <3>2, <3>3, SellDust
  <2>2. ASSUME NEW m \in 1..pt[u], swap_pt_for_exact_sy(u, n, m, r, f)
        PROVE  Worth(reserve_sy', reserve_pt', r)
                 >= Worth(reserve_sy, reserve_pt, r)
    <3>1. m \in Nat
      BY AccountFacts DEF Consistent, TypeOK
    <3>2. Sell(m, r, f).net_sy \in Nat
      BY <3>1, SellType, EffectiveFee
    <3>3. n <= Sell(m, r, f).net_sy /\ SellPt(u, m, n, Sell(m, r, f))
      BY <2>0, <2>2, <3>2 DEF swap_pt_for_exact_sy
    <3> QED BY <2>0, <3>1, <3>3, SellDust
  <2> QED BY <2>1, <2>2
<1>2. ASSUME BuyAt(r)
      PROVE  Worth(reserve_sy', reserve_pt', r)
               > Worth(reserve_sy, reserve_pt, r)
                   - wad_to_fp(r) * (CUBIT_ONE + 2 * WAD + SyPaid)
  <2> PICK u \in Users, f \in FeeRates, n \in Amounts :
        \/ swap_sy_for_exact_pt(u, n, r, f)
        \/ \E m \in 0..reserve_pt : swap_exact_sy_for_pt(u, n, m, r, f)
    BY <1>2 DEF BuyAt
  <2>0. n \in Nat
    BY ParametersAssumption
  <2>1. CASE swap_sy_for_exact_pt(u, n, r, f)
    <3>1. CanBuy(n, r, f) /\ BuyPt(u, Buy(n, r, f).net_sy, n, Buy(n, r, f))
      BY <2>1 DEF swap_sy_for_exact_pt
    <3>2. Buy(n, r, f).net_sy \in Nat
      BY <2>0, <3>1, BuyType, EffectiveFee
    <3>3. Buy(n, r, f).net_sy <= Buy(n, r, f).net_sy
      BY <3>2
    <3> QED BY <2>0, <3>1, <3>2, <3>3, BuyDust
  <2>2. ASSUME NEW m \in 0..reserve_pt, swap_exact_sy_for_pt(u, n, m, r, f)
        PROVE  Worth(reserve_sy', reserve_pt', r)
                 > Worth(reserve_sy, reserve_pt, r)
                     - wad_to_fp(r) * (CUBIT_ONE + 2 * WAD + SyPaid)
    <3>1. m \in Nat
      BY DEF Consistent, TypeOK
    <3>2. /\ CanBuy(m, r, f) /\ Buy(m, r, f).net_sy <= n
          /\ BuyPt(u, n, m, Buy(m, r, f))
      BY <2>2 DEF swap_exact_sy_for_pt
    <3> QED BY <2>0, <3>1, <3>2, BuyDust
  <2> QED BY <2>1, <2>2
<1> QED BY <1>1, <1>2

\* At the rate it happens at, no sale of PT costs the liquidity providers
\* anything and no purchase more than the rounding of one quotient and of the
\* index, whatever the amounts, rates, fees and the treasury's share.
THEOREM SwapsCostOnlyDust == Spec => SwapCostsOnlyDust
<1>1. Consistent /\ [Next]_vars => [DustStep]_vars
  BY SwapsCostDust
<1> QED BY <1>1, Safety, PTL DEF Spec, SwapCostsOnlyDust, DustStep

=============================================================================

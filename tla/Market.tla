------------------------------- MODULE Market -------------------------------
(***************************************************************************)
(* The PT/SY pool of one expiry: contracts/src/market/amm.cairo with the   *)
(* trade, mint and burn formulas of market/market_math_fp.cairo.           *)
(*                                                                         *)
(* Reserves are cached copies of the pool's balances.  LP shares are       *)
(* minted and burned in proportion to them; swaps move along a curve whose *)
(* exchange rate (logarithms and exponentials of the reserves and of time) *)
(* is left free here: each trade happens at some rate of CurveRates and    *)
(* some fee of FeeRates, everything after that is computed as in the code. *)
(* The implied rate that every call ends with is the module TwapOracle;    *)
(* what is kept of it here is that it reverts when the pool has too much   *)
(* PT.  LP rewards are the module RewardManager.                           *)
(*                                                                         *)
(* One action is one call.  A swap's callback runs after all its effects   *)
(* and transfers and nothing follows it, so what the caller does in it is  *)
(* the next action.                                                        *)
(***************************************************************************)
EXTENDS MathFp, Functions

CONSTANTS
  Users,               \* traders and liquidity providers
  MKT,                 \* the Market contract
  LockedAt,            \* receiver of the minimum liquidity and of the fees
  FeesToTreasury,      \* whether a factory with a treasury is configured
  Indexes,             \* values the PY index may take
  CurveRates,          \* exchange rates (PT per asset) the curve may give
  FeeRates,            \* effective fee factors
  ReserveFeePercent,   \* the treasury's share of the fees
  Amounts,             \* amounts of a call
  InitialTokens,       \* SY and PT each user starts with
  MINIMUM_LIQUIDITY,   \* 1000 in the code
  MAX_PROPORTION,      \* 96% in the code
  MAX_PT_IN_RESERVE_MULTIPLIER, \* limit of a search, as multiple of the PT
  MaxLp,               \* bound: LP shares in circulation
  MaxFees              \* bound: fees counted before they are collected

Holders == Users \cup {LockedAt}
Accounts == Holders \cup {MKT}

\* Who can call: a treasury can, but without one the minimum liquidity goes to
\* the address 1, which nobody controls.
Actors == IF FeesToTreasury THEN Holders ELSE Users

ASSUME AccountsAssumption == MKT \notin Holders /\ LockedAt \notin Users
ASSUME IndexesAssumption == \A i \in Indexes : i \in Nat /\ i >= WAD
\* get_exchange_rate and exp_wad give at least 1.
ASSUME RatesAssumption ==
  \A r \in CurveRates \cup FeeRates : r \in Nat /\ r >= WAD
ASSUME ParametersAssumption ==
  /\ FeesToTreasury \in BOOLEAN /\ ReserveFeePercent \in 0..100
  /\ Amounts \subseteq Nat \ {0} /\ InitialTokens \in Nat
  /\ MINIMUM_LIQUIDITY \in Nat \ {0}
  /\ MAX_PROPORTION \in Nat /\ MAX_PROPORTION < WAD
  /\ MAX_PT_IN_RESERVE_MULTIPLIER \in Nat
  /\ MaxLp \in Nat /\ MaxFees \in Nat

VARIABLES
  py_index,             \* what yt.update_py_index() returns
  expired, paused,
  sy, pt,               \* token balances by account
  lp, total_lp,         \* LP balances and supply
  reserve_sy, reserve_pt,
  lp_fees_collected

reserves == <<reserve_sy, reserve_pt>>
tokens == <<sy, pt>>
shares == <<lp, total_lp>>
env == <<py_index, expired>>
vars == <<env, paused, tokens, shares, reserves, lp_fees_collected>>

Move(ledger, a, b, n) ==
  [[ledger EXCEPT ![a] = @ - n] EXCEPT ![b] = @ + n]

-----------------------------------------------------------------------------
(***************************************************************************)
(* Formulas                                                                *)
(***************************************************************************)

\* get_proportion of a pool with s SY and p PT: the share of PT in its assets.
get_proportion(s, p) ==
  LET total_asset == p + sy_to_asset(s, py_index) IN
  IF total_asset = 0 THEN WAD \div 2 ELSE wad_div(p, total_asset)

\* get_ln_implied_rate reverts when it is above the limit.
ImpliedRateDefined(s, p) == get_proportion(s, p) <= MAX_PROPORTION

Trade(sy_amount, fee, to_reserve) ==
  [net_sy |-> sy_amount, fee |-> fee, to_reserve |-> to_reserve]

ReserveShare(fee_in_asset) == (fee_in_asset * ReserveFeePercent) \div 100

\* calc_trade for a user who buys n PT, which the pool has and then some: the
\* SY to pay is rounded up.  Buying nothing is no trade and costs nothing.
CanBuy(n, rate, fee_rate) ==
  /\ n < reserve_pt
  /\ n > 0 => wad_div(rate, fee_rate) >= WAD
NoTrade == Trade(0, 0, 0)
PaidFor(n, rate, fee_rate) == wad_div(n, wad_div(rate, fee_rate))
BuyFee(n, rate, fee_rate) ==
  max(PaidFor(n, rate, fee_rate), wad_div(n, rate)) - wad_div(n, rate)
BuyRoundedDown(n, rate, fee_rate) ==
  IF n = 0 THEN NoTrade
  ELSE Trade(asset_to_sy(PaidFor(n, rate, fee_rate), py_index),
             asset_to_sy(BuyFee(n, rate, fee_rate), py_index),
             asset_to_sy(ReserveShare(BuyFee(n, rate, fee_rate)), py_index))
Buy(n, rate, fee_rate) ==
  IF n = 0 THEN NoTrade
  ELSE Trade(asset_to_sy_up(PaidFor(n, rate, fee_rate), py_index),
             asset_to_sy(BuyFee(n, rate, fee_rate), py_index),
             asset_to_sy(ReserveShare(BuyFee(n, rate, fee_rate)), py_index))

\* calc_trade for a user who sells n PT: the curve has no rate for a pool with
\* too much PT after the trade.
CanSell(n) ==
  wad_div(reserve_pt + n, reserve_pt + sy_to_asset(reserve_sy, py_index))
    <= MAX_PROPORTION
SellFee(n, rate, fee_rate) ==
  wad_div(wad_mul(wad_div(n, rate), fee_rate - WAD), fee_rate)
Sell(n, rate, fee_rate) ==
  LET pre_fee == wad_div(n, rate)
      fee == SellFee(n, rate, fee_rate)
  IN Trade(asset_to_sy(max(pre_fee, fee) - fee, py_index),
           asset_to_sy(fee, py_index),
           asset_to_sy(ReserveShare(fee), py_index))

\* The square root of a 64.64 number (a library) is rounded down.
IsFpSqrt(root, f) ==
  root * root <= f * CUBIT_ONE /\ f * CUBIT_ONE < (root + 1) * (root + 1)

\* sqrt_wad of the product of a first deposit, given that root: all the shares,
\* those to lock included.
IsInitialRoot(root, sy_amount, pt_amount) ==
  IsFpSqrt(root, wad_to_fp(wad_mul(sy_amount, pt_amount)))
InitialLp(root) == fp_to_wad(root)

\* calc_mint_lp on a pool that has liquidity: the limiting side is used in
\* full, the other one is rounded up.
MintTerms(minted, sy_used, pt_used) ==
  [lp |-> minted, sy |-> sy_used, pt |-> pt_used]
OtherSideDown(reserve, n) == (reserve * n) \div total_lp
OtherSide(reserve, n) == div_up(reserve * n, total_lp)
calc_mint_lp(sy_amount, pt_amount) ==
  LET lp_by_sy == (sy_amount * total_lp) \div reserve_sy
      lp_by_pt == (pt_amount * total_lp) \div reserve_pt
  IN IF lp_by_sy <= lp_by_pt
       THEN MintTerms(lp_by_sy, sy_amount, OtherSide(reserve_pt, lp_by_sy))
       ELSE MintTerms(lp_by_pt, OtherSide(reserve_sy, lp_by_pt), pt_amount)

\* calc_burn_lp: what n shares are worth of one reserve.
BurnRoundedUp(n, reserve) ==
  IF total_lp = 0 \/ n = 0 THEN 0 ELSE div_up(n * reserve, total_lp)
calc_burn_lp(n, reserve) ==
  IF total_lp = 0 \/ n = 0 THEN 0
  ELSE wad_mul(wad_div(n, total_lp), reserve)

\* What a swap sends to the treasury; without one the fee stays in the pool.
_get_effective_reserve_fee(trade) ==
  IF FeesToTreasury THEN trade.to_reserve ELSE 0

\* How much a swap that pays out sy_out takes from the SY reserve.
FeeForgotten(sy_out, trade) == sy_out
SyLeaving(sy_out, trade) == sy_out + _get_effective_reserve_fee(trade)

\* Where the minimum liquidity of the first mint goes.
_get_minimum_liquidity_recipient(receiver) == LockedAt

-----------------------------------------------------------------------------
Init ==
  /\ py_index \in Indexes
  /\ expired = FALSE /\ paused = FALSE
  /\ sy = [a \in Accounts |-> IF a \in Users THEN InitialTokens ELSE 0]
  /\ pt = sy
  /\ lp = [a \in Accounts |-> 0] /\ total_lp = 0
  /\ reserve_sy = 0 /\ reserve_pt = 0
  /\ lp_fees_collected = 0

-----------------------------------------------------------------------------
(***************************************************************************)
(* Liquidity.  The receiver of a mint is its caller; another receiver is a *)
(* mint with a transfer of the shares after it.                            *)
(***************************************************************************)

\* Both tokens are pulled from u and added to the reserves.
Deposit(u, sy_used, pt_used) ==
  /\ sy[u] >= sy_used /\ pt[u] >= pt_used
  /\ sy' = Move(sy, u, MKT, sy_used)
  /\ pt' = Move(pt, u, MKT, pt_used)
  /\ reserve_sy' = reserve_sy + sy_used
  /\ reserve_pt' = reserve_pt + pt_used
  /\ ImpliedRateDefined(reserve_sy', reserve_pt')
  /\ UNCHANGED <<env, paused, lp_fees_collected>>

\* The first mint locks the minimum liquidity.  (It also reverts if the initial
\* rate that set_initial_ln_implied_rate gives the deposit is below 1, a matter
\* of the free curve.)
MintFirst(u, sy_desired, pt_desired, root) ==
  LET minted == InitialLp(root)
      locked == _get_minimum_liquidity_recipient(u)
  IN
  /\ ~paused /\ ~expired
  /\ total_lp = 0
  /\ IsInitialRoot(root, sy_desired, pt_desired)
  /\ minted > MINIMUM_LIQUIDITY /\ minted <= MaxLp
  /\ lp' = [[lp EXCEPT ![locked] = @ + MINIMUM_LIQUIDITY]
               EXCEPT ![u] = @ + minted - MINIMUM_LIQUIDITY]
  /\ total_lp' = minted
  /\ Deposit(u, sy_desired, pt_desired)

MintMore(u, sy_desired, pt_desired) ==
  LET terms == calc_mint_lp(sy_desired, pt_desired) IN
  /\ ~paused /\ ~expired
  /\ total_lp > 0 /\ reserve_sy > 0 /\ reserve_pt > 0
  /\ terms.lp > 0 /\ total_lp + terms.lp <= MaxLp
  /\ lp' = [lp EXCEPT ![u] = @ + terms.lp]
  /\ total_lp' = total_lp + terms.lp
  /\ Deposit(u, terms.sy, terms.pt)

\* Larger roots would mint more than MaxLp.
RootBound == (MaxLp + 1) * CUBIT_ONE

mint(u, sy_desired, pt_desired) ==
  \/ \E root \in 0..RootBound : MintFirst(u, sy_desired, pt_desired, root)
  \/ MintMore(u, sy_desired, pt_desired)

\* Neither a pause nor expiry stops a burn.
burn_with_receivers(u, receiver_sy, receiver_pt, n) ==
  LET sy_out == calc_burn_lp(n, reserve_sy)
      pt_out == calc_burn_lp(n, reserve_pt)
  IN
  /\ 0 < n /\ n <= lp[u] /\ n <= total_lp
  /\ sy_out > 0 \/ pt_out > 0
  /\ sy_out <= reserve_sy /\ pt_out <= reserve_pt
  /\ sy_out <= sy[MKT] /\ pt_out <= pt[MKT]
  /\ lp' = [lp EXCEPT ![u] = @ - n]
  /\ total_lp' = total_lp - n
  /\ reserve_sy' = reserve_sy - sy_out
  /\ reserve_pt' = reserve_pt - pt_out
  /\ sy' = Move(sy, MKT, receiver_sy, sy_out)
  /\ pt' = Move(pt, MKT, receiver_pt, pt_out)
  /\ expired \/ ImpliedRateDefined(reserve_sy', reserve_pt')
  /\ UNCHANGED <<env, paused, lp_fees_collected>>

burn(u, receiver, n) == burn_with_receivers(u, receiver, receiver, n)

-----------------------------------------------------------------------------
(***************************************************************************)
(* Swaps.  The receiver is the caller; another receiver is this swap with  *)
(* a transfer after it.                                                    *)
(***************************************************************************)

Tradable ==
  /\ ~paused /\ ~expired
  /\ reserve_pt > 0
  /\ ImpliedRateDefined(reserve_sy, reserve_pt)

\* u pays pt_in and receives sy_out.
SellPt(u, pt_in, sy_out, trade) ==
  LET reserve_fee == _get_effective_reserve_fee(trade) IN
  /\ SyLeaving(sy_out, trade) <= reserve_sy
  /\ pt[u] >= pt_in /\ sy[MKT] >= sy_out + reserve_fee
  /\ reserve_sy' = reserve_sy - SyLeaving(sy_out, trade)
  /\ reserve_pt' = reserve_pt + pt_in
  /\ pt' = Move(pt, u, MKT, pt_in)
  /\ sy' = Move(Move(sy, MKT, u, sy_out), MKT, LockedAt, reserve_fee)
  /\ lp_fees_collected' = lp_fees_collected + trade.fee - reserve_fee
  /\ lp_fees_collected' <= MaxFees
  /\ ImpliedRateDefined(reserve_sy', reserve_pt')
  /\ UNCHANGED <<env, paused, shares>>

\* u pays sy_in and receives pt_out.
BuyPt(u, sy_in, pt_out, trade) ==
  LET reserve_fee == _get_effective_reserve_fee(trade) IN
  /\ pt_out <= pt[MKT]
  /\ sy[u] >= sy_in /\ sy[MKT] + sy_in >= reserve_fee
  /\ reserve_sy + sy_in >= reserve_fee
  /\ reserve_sy' = reserve_sy + sy_in - reserve_fee
  /\ reserve_pt' = reserve_pt - pt_out
  /\ pt' = Move(pt, MKT, u, pt_out)
  /\ sy' = Move(Move(sy, u, MKT, sy_in), MKT, LockedAt, reserve_fee)
  /\ lp_fees_collected' = lp_fees_collected + trade.fee - reserve_fee
  /\ lp_fees_collected' <= MaxFees
  /\ ImpliedRateDefined(reserve_sy', reserve_pt')
  /\ UNCHANGED <<env, paused, shares>>

swap_exact_pt_for_sy(u, exact_pt_in, rate, fee_rate) ==
  LET trade == Sell(exact_pt_in, rate, fee_rate) IN
  /\ Tradable /\ CanSell(exact_pt_in)
  /\ trade.net_sy < reserve_sy
  /\ SellPt(u, exact_pt_in, trade.net_sy, trade)

\* The search settles for some pt_in within its limits that yields at least
\* what is asked for; what it yields beyond that stays in the pool.
PtInLimit ==
  LET most == wad_mul(MAX_PROPORTION,
                      reserve_pt + sy_to_asset(reserve_sy, py_index))
  IN min(max(most, reserve_pt) - reserve_pt,
         reserve_pt * MAX_PT_IN_RESERVE_MULTIPLIER)

swap_pt_for_exact_sy(u, exact_sy_out, pt_in, rate, fee_rate) ==
  LET trade == Sell(pt_in, rate, fee_rate) IN
  /\ Tradable /\ CanSell(pt_in) /\ pt_in <= PtInLimit
  /\ exact_sy_out < reserve_sy
  /\ trade.net_sy >= exact_sy_out
  /\ SellPt(u, pt_in, exact_sy_out, trade)

swap_sy_for_exact_pt(u, exact_pt_out, rate, fee_rate) ==
  LET trade == Buy(exact_pt_out, rate, fee_rate) IN
  /\ Tradable /\ CanBuy(exact_pt_out, rate, fee_rate)
  /\ BuyPt(u, trade.net_sy, exact_pt_out, trade)

\* The search settles for some pt_out that costs at most what is paid, down
\* to none at all; the whole exact_sy_in is kept.
swap_exact_sy_for_pt(u, exact_sy_in, pt_out, rate, fee_rate) ==
  LET trade == Buy(pt_out, rate, fee_rate) IN
  /\ Tradable /\ CanBuy(pt_out, rate, fee_rate)
  /\ trade.net_sy <= exact_sy_in
  /\ BuyPt(u, exact_sy_in, pt_out, trade)

-----------------------------------------------------------------------------
(***************************************************************************)
(* Administration and environment                                          *)
(***************************************************************************)

skim ==
  /\ reserve_sy' = max(reserve_sy, sy[MKT])
  /\ reserve_pt' = max(reserve_pt, pt[MKT])
  /\ UNCHANGED <<env, paused, tokens, shares, lp_fees_collected>>

collect_fees ==
  /\ lp_fees_collected > 0
  /\ lp_fees_collected' = 0
  /\ UNCHANGED <<env, paused, tokens, shares, reserves>>

SetPaused(b) ==
  /\ paused # b
  /\ paused' = b
  /\ UNCHANGED <<env, tokens, shares, reserves, lp_fees_collected>>

\* Tokens sent to the pool without a call to it, and LP sent to anybody.
Donate(u, n) ==
  /\ \/ sy[u] >= n /\ sy' = Move(sy, u, MKT, n) /\ UNCHANGED pt
     \/ pt[u] >= n /\ pt' = Move(pt, u, MKT, n) /\ UNCHANGED sy
  /\ UNCHANGED <<env, paused, shares, reserves, lp_fees_collected>>

LpTransfer(u, v, n) ==
  /\ lp[u] >= n
  /\ lp' = Move(lp, u, v, n)
  /\ UNCHANGED <<env, paused, tokens, total_lp, reserves, lp_fees_collected>>

\* The PY index only grows (YieldToken proves it), until it is frozen.
IndexGrows(i) ==
  /\ ~expired /\ i > py_index
  /\ py_index' = i
  /\ UNCHANGED <<expired, paused, tokens, shares, reserves, lp_fees_collected>>

Expire ==
  /\ ~expired /\ expired' = TRUE
  /\ UNCHANGED <<py_index, paused, tokens, shares, reserves, lp_fees_collected>>

Liquidity ==
  \/ \E u \in Users, m, n \in Amounts : mint(u, m, n)
  \/ \E u \in Actors, a, b \in Users : \E n \in 1..lp[u] :
       burn(u, a, n) \/ burn_with_receivers(u, a, b, n)

Swap ==
  \E u \in Users, r \in CurveRates, f \in FeeRates, n \in Amounts :
    \/ swap_exact_pt_for_sy(u, n, r, f)
    \/ swap_sy_for_exact_pt(u, n, r, f)
    \/ \E m \in 0..reserve_pt : swap_exact_sy_for_pt(u, n, m, r, f)
    \/ \E m \in 1..pt[u] : swap_pt_for_exact_sy(u, n, m, r, f)

Administration == skim \/ collect_fees \/ \E b \in BOOLEAN : SetPaused(b)

Environment ==
  \/ \E u \in Users, n \in Amounts : Donate(u, n)
  \/ \E u \in Actors, v \in Holders : \E n \in 1..lp[u] : LpTransfer(u, v, n)
  \/ \E i \in Indexes : IndexGrows(i)
  \/ Expire

Next == Liquidity \/ Swap \/ Administration \/ Environment

Spec == Init /\ [][Next]_vars

-----------------------------------------------------------------------------
(***************************************************************************)
(* Properties                                                              *)
(***************************************************************************)

\* Every variable has its type.
TypeOK ==
  /\ py_index \in Indexes /\ expired \in BOOLEAN /\ paused \in BOOLEAN
  /\ sy \in [Accounts -> Nat] /\ pt \in [Accounts -> Nat]
  /\ lp \in [Accounts -> Nat] /\ total_lp \in Nat
  /\ reserve_sy \in Nat /\ reserve_pt \in Nat
  /\ lp_fees_collected \in Nat

\* The reserves, cached copies of the pool's balances, never exceed them: every
\* call that pays out, reserve fee and both receivers included, keeps them true.
ReservesBacked == reserve_sy <= sy[MKT] /\ reserve_pt <= pt[MKT]

\* No call takes more from a balance, a reserve or the shares than is there:
\* every variable stays a natural number and the reserves stay backed.  This
\* is the inductive invariant: each call checks the reserve it takes from.
Consistent == TypeOK /\ ReservesBacked

\* Nobody is paid out of tokens that were sent to the pool by mistake: what the
\* pool holds beyond its reserves shrinks only by becoming reserves.
SurplusUntouched ==
  [][ \/ UNCHANGED tokens
      \/ /\ sy'[MKT] - reserve_sy' >= sy[MKT] - reserve_sy
         /\ pt'[MKT] - reserve_pt' >= pt[MKT] - reserve_pt ]_vars

\* What a share of one reserve, before and after a call, is worth less after it
\* (compared by cross products).
ShareLoss(before, after) == before * total_lp' - after * total_lp

\* Minting never takes from the liquidity that is there: a share is worth no
\* less of either reserve afterwards.  A burn may: the supply it divides by is
\* rounded down to 64.64, so it may pay out too much, but never more than the
\* part (WAD - 1) / CUBIT_ONE of one share.
SharesNotDiluted ==
  [][ total_lp > 0 =>
        /\ total_lp' > total_lp => /\ ShareLoss(reserve_sy, reserve_sy') <= 0
                                   /\ ShareLoss(reserve_pt, reserve_pt') <= 0
        /\ total_lp' < total_lp =>
             /\ CUBIT_ONE * ShareLoss(reserve_sy, reserve_sy')
                  <= (WAD - 1) * (reserve_sy - reserve_sy')
             /\ CUBIT_ONE * ShareLoss(reserve_pt, reserve_pt')
                  <= (WAD - 1) * (reserve_pt - reserve_pt') ]_vars

\* A pool with shares has both reserves, so it can always be priced and divided
\* by: neither swaps, fees nor the rounding of burns empty one side.
ReservesPositive == total_lp > 0 => reserve_sy > 0 /\ reserve_pt > 0

\* The pool at the exchange rate of a trade, in units of CUBIT_ONE^2 PT: index
\* and rate are those of the code's arithmetic, rounded down to 64.64.
Worth(s, p, rate) ==
  s * wad_to_fp(py_index) * wad_to_fp(rate) + p * CUBIT_ONE * CUBIT_ONE
SellAt(rate) ==
  \E u \in Users, f \in FeeRates, n \in Amounts :
    \/ swap_exact_pt_for_sy(u, n, rate, f)
    \/ \E m \in 1..pt[u] : swap_pt_for_exact_sy(u, n, m, rate, f)
BuyAt(rate) ==
  \E u \in Users, f \in FeeRates, n \in Amounts :
    \/ swap_sy_for_exact_pt(u, n, rate, f)
    \/ \E m \in 0..reserve_pt : swap_exact_sy_for_pt(u, n, m, rate, f)

\* What a buyer pays to the pool and the treasury.
SyPaid == (sy'[MKT] + sy'[LockedAt]) - (sy[MKT] + sy[LockedAt])

\* At the rate it happens at, a sale of PT never costs the liquidity providers
\* anything, whatever is rounded and whatever the treasury takes; a purchase
\* costs them less than 1 + 2 * WAD / CUBIT_ONE units of asset and the part
\* 1 / CUBIT_ONE of what is paid, the precision of the index.
SwapCostsOnlyDust ==
  [][ \A r \in CurveRates :
        LET before == Worth(reserve_sy, reserve_pt, r)
            after == Worth(reserve_sy', reserve_pt', r)
        IN /\ after >= before \/ ~SellAt(r)
           /\ \/ after > before - wad_to_fp(r) * (CUBIT_ONE + 2 * WAD + SyPaid)
              \/ ~BuyAt(r) ]_vars

=============================================================================

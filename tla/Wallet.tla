------------------------------- MODULE Wallet -------------------------------
(***************************************************************************)
(* Accounts that submit the multicalls of the hooks of packages/frontend,  *)
(* or call the router themselves, against tokens that are already in       *)
(* place and pools and aggregators that answer anything.  The chain        *)
(* executes a transaction as a whole or not at all.                        *)
(***************************************************************************)
EXTENDS Hooks, TLC

CONSTANTS
  Amounts,        \* amounts entered
  Minima,         \* smallest amounts accepted, above zero (see Agreed)
  Answers,        \* amounts that a pool or the aggregator may answer
  InitialHolding, \* of each user in each token
  Backing,        \* SY the YT contract holds for the PT and YT in circulation
  MaxCalls,       \* transactions explored
  MaxGifts        \* transfers straight to a contract explored

ASSUME WalletAssumption ==
  /\ Amounts \cup Minima \subseteq Nat \ {0} /\ Answers \subseteq Nat
  /\ {InitialHolding, Backing, MaxCalls, MaxGifts} \subseteq Nat

VARIABLES
  balance,    \* [Tokens -> [Holders -> Nat]]
  allowance,  \* [Grants -> Nat]
  sy_reserve, \* SY the YT has accounted for; what it holds beyond that floats
  expired,    \* whether the pair has expired
  calls,      \* transactions so far
  gifts,      \* transfers so far that put tokens where nobody asked for them
  call        \* the last transaction, see NoCall

ledger == <<balance, allowance, sy_reserve>>
vars == <<balance, allowance, sy_reserve, expired, calls, gifts, call>>

\* by: who submitted it; for: who receives what it pays; gives, gets: at most
\* and at least how much; left: what an aggregator leaves with the router, see
\* Bought and Sold; shown: the change shown before it was confirmed;
\* estimate: what by would hold according to the calls built for the
\* estimate of the gas (nothing, if none are built); done: it succeeded;
\* failed: what kind of step failed.
NoCall == [hook |-> "none", by |-> "none", for |-> "none", gives |-> None, gets |-> None,
           left |-> None, shown |-> None, estimate |-> None, done |-> FALSE, failed |-> "none"]

At(f, token) == IF token \in DOMAIN f THEN f[token] ELSE 0

\* A pair that is backed, and users with something of everything.
Init ==
  /\ balance = [t \in Tokens |-> [h \in Holders |->
       IF h \in Users THEN InitialHolding ELSE IF t = SY /\ h = YTC THEN Backing ELSE 0]]
  /\ sy_reserve = Backing
  /\ allowance = [g \in Grants |-> 0]
  /\ expired = FALSE /\ calls = 0 /\ gifts = 0 /\ call = NoCall

-----------------------------------------------------------------------------
(* Transactions *)

World(refused) ==
  [ok |-> TRUE, failed |-> "none", balance |-> balance, allowance |-> allowance, reserve |-> sy_reserve,
   expired |-> expired, refused |-> refused]

Holdings(u, w) == [t \in Tokens |-> w.balance[t][u]]

\* u submits the steps; where the code builds the calls a second time to
\* estimate the gas, built holds those.
Submit(terms, steps, built) ==
  /\ calls < MaxCalls
  /\ calls' = calls + 1
  /\ \E refused \in BOOLEAN :
       LET after == Executed(World(refused), steps)
           simulated == Executed(World(refused), built)
       IN  IF after.ok
           THEN /\ balance' = after.balance
                /\ allowance' = after.allowance
                /\ sy_reserve' = after.reserve
                /\ call' = [NoCall EXCEPT
                     !.hook = terms.hook, !.by = terms.by, !.for = terms.for,
                     !.gives = terms.gives, !.gets = terms.gets, !.left = terms.left,
                     !.shown = terms.shown,
                     !.estimate = IF built = <<>> THEN None ELSE Holdings(terms.by, simulated),
                     !.done = TRUE]
           ELSE /\ UNCHANGED ledger
                /\ call' = [NoCall EXCEPT !.hook = terms.hook, !.by = terms.by,
                                             !.failed = after.failed]
  /\ UNCHANGED <<expired, gifts>>

\* The connected account pays at most gives and is to receive at least gets.
Terms(hook, u, gives, gets, shown) ==
  [hook |-> hook, by |-> u, for |-> u, gives |-> gives, gets |-> gets, left |-> None,
   shown |-> shown]

\* What the YT would answer now to n more SY, or to n more PT and YT.
Minted(n) == Rate * (balance[SY][YTC] - sy_reserve + n)
RedeemedPairs(n) == Smaller(balance[PT][YTC] + n, balance[YT][YTC] + n) \div Rate
RedeemedPT(n) == (balance[PT][YTC] + n) \div Rate

\* What an aggregator may do (see Aggregate in Router) when it sells underlying
\* to the router, and when it buys underlying from it; and what is then left
\* in the router: what the aggregator does not take, and of what it sells the
\* difference between what arrives and what is deposited.
Purchases(amounts) == [untaken : Answers, delivered : amounts, reported : amounts]
Sales == [untaken : Answers, delivered : Answers]
Bought(terms, trade) ==
  [terms EXCEPT !.left = Shift(Token, trade.untaken)
                         ++ Shift(Underlying, trade.delivered - trade.reported)]
Sold(token_in, terms, trade) == [terms EXCEPT !.left = Shift(token_in, trade.untaken)]

-----------------------------------------------------------------------------
(* The hooks *)

useSwap(u, n, min) ==
  \E direction \in {"buy_pt", "sell_pt", "buy_yt", "sell_yt"}, out \in Answers :
    LET x == [out |-> out, py |-> Minted(n), redeemed |-> RedeemedPairs(n)]
        t == resolveSwapTokens(direction)
    IN  Submit(Terms("useSwap", u,
                     IF direction = "sell_yt" THEN Shift(YT, n) ELSE Shift(t.input, n),
                     Shift(t.output, min), useSwap_onMutate(direction, n, min)),
               useSwap_mutationFn(direction, u, n, min, x), <<>>)

useSwapSyForPtWithApprox(u, n, min) ==
  \E out \in Answers :
    Submit(Terms("useSwapSyForPtWithApprox", u, Shift(SY, n), Shift(PT, min),
                 useSwapSyForPtWithApprox_onMutate(n, min)),
           useSwapSyForPtWithApprox_mutationFn(u, n, min, [out |-> out]), <<>>)

useSwapTokenForPt(u, n, min) ==
  \E trade \in Purchases(Answers), out \in Answers :
    Submit(Bought(Terms("useSwapTokenForPt", u, Shift(Token, n), Shift(PT, min),
                        useSwapTokenForPt_onMutate(n)), trade),
           useSwapTokenForPt_mutationFn(u, n, min, [trade |-> trade, out |-> out]), <<>>)

useSwapPtForToken(u, n, min) ==
  \E trade \in Sales, out \in Answers :
    Submit(Sold(Underlying, Terms("useSwapPtForToken", u, Shift(PT, n), Shift(Token, min),
                                  useSwapPtForToken_onMutate(n)), trade),
           useSwapPtForToken_mutationFn(u, n, min, [trade |-> trade, out |-> out]), <<>>)

useSwapTokenForYt(u, n, min) ==
  \E trade \in Purchases(Answers), out \in Answers :
    Submit(Bought(Terms("useSwapTokenForYt", u, Shift(Token, n), Shift(YT, min),
                        useSwapTokenForYt_onMutate(n)), trade),
           useSwapTokenForYt_mutationFn(u, n, min,
             [trade |-> trade, out |-> out, py |-> Minted(trade.reported)]), <<>>)

\* The form asks for a collateral; what is left of it is not given back but
\* sold with the proceeds.
useSwapYtForToken(u, n, min) ==
  \E collateral \in Amounts, trade \in Sales, out \in Answers :
    Submit(Sold(Underlying,
                Terms("useSwapYtForToken", u, Shift(YT, n) ++ Shift(SY, collateral),
                      Shift(Token, min), useSwapYtForToken_onMutate(n, collateral)), trade),
           useSwapYtForToken_mutationFn(u, n, collateral, min,
             [trade |-> trade, out |-> out, redeemed |-> RedeemedPairs(n)]), <<>>)

useRedeemPy(u, n, min) ==
  Submit(Terms("useRedeemPy", u, Shift(PT, n) ++ Shift(YT, n), Shift(SY, min),
               useRedeemPy_onMutate(n, min)),
         useRedeemPy_mutationFn(u, n, min, [redeemed |-> RedeemedPairs(n)]), <<>>)

useRedeemPtPostExpiry(u, n, min) ==
  Submit(Terms("useRedeemPtPostExpiry", u, Shift(PT, n), Shift(SY, min),
               useRedeemPtPostExpiry_onMutate(n, min)),
         useRedeemPtPostExpiry_mutationFn(u, n, min, [redeemed |-> RedeemedPT(n)]), <<>>)

useRedeemPyWithInterest(u, n) ==
  Submit(Terms("useRedeemPyWithInterest", u, Shift(PT, n) ++ Shift(YT, n), None,
               useRedeemPyWithInterest_onMutate(n)),
         useRedeemPyWithInterest_mutationFn(u, n), <<>>)

\* Supplying: lp for at most the amounts brought, of which sy and pt are used.
Supplied == [lp : Answers, sy : Answers, pt : Answers]
Burnt == [sy : Answers, pt : Answers]

useAddLiquidity(u, n, min) ==
  \E pt \in Amounts, x \in Supplied :
    Submit(Terms("useAddLiquidity", u, Shift(SY, n) ++ Shift(PT, pt), Shift(LP, min),
                 useAddLiquidity_onMutate(n, pt, min)),
           useAddLiquidity_mutationFn(u, n, pt, min, x), buildAddLiquidityCalls(u, n, pt, min, x))

useRemoveLiquidity(u, n, min) ==
  \E min_pt \in Minima, x \in Burnt :
    Submit(Terms("useRemoveLiquidity", u, Shift(LP, n), Shift(SY, min) ++ Shift(PT, min_pt),
                 useRemoveLiquidity_onMutate(n, min, min_pt)),
           useRemoveLiquidity_mutationFn(u, n, min, min_pt, x),
           buildRemoveLiquidityCalls(u, n, min, min_pt, x))

\* A part of what is brought is swapped for out of the other token.
Zapped(x, swapped, out) == x @@ [swapped |-> swapped, out |-> out]

useAddLiquiditySingleSy(u, n, min) ==
  \E swapped, out \in Answers, s \in Supplied :
    LET x == Zapped(s, swapped, out) IN
    Submit(Terms("useAddLiquiditySingleSy", u, Shift(SY, n), Shift(LP, min),
                 useAddLiquiditySingleSy_onMutate(n, min)),
           useAddLiquiditySingleSy_mutationFn(u, n, min, x),
           buildAddLiquiditySingleSyCalls(u, n, min, x))

useAddLiquiditySinglePt(u, n, min) ==
  \E swapped, out \in Answers, s \in Supplied :
    LET x == Zapped(s, swapped, out) IN
    Submit(Terms("useAddLiquiditySinglePt", u, Shift(PT, n), Shift(LP, min),
                 useAddLiquiditySinglePt_onMutate(n, min)),
           useAddLiquiditySinglePt_mutationFn(u, n, min, x),
           buildAddLiquiditySinglePtCalls(u, n, min, x))

useAddLiquiditySingleSyWithApprox(u, n, min) ==
  \E swapped, out \in Answers, s \in Supplied :
    LET x == Zapped(s, swapped, out) IN
    Submit(Terms("useAddLiquiditySingleSyWithApprox", u, Shift(SY, n), Shift(LP, min),
                 useAddLiquiditySingleSyWithApprox_onMutate(n, min)),
           useAddLiquiditySingleSyWithApprox_mutationFn(u, n, min, x),
           buildAddLiquiditySingleSyWithApproxCalls(u, n, min, x))

useRemoveLiquiditySingleSy(u, n, min) ==
  \E out \in Answers, b \in Burnt :
    LET x == b @@ [out |-> out] IN
    Submit(Terms("useRemoveLiquiditySingleSy", u, Shift(LP, n), Shift(SY, min),
                 useRemoveLiquiditySingleSy_onMutate(n, min)),
           useRemoveLiquiditySingleSy_mutationFn(u, n, min, x),
           buildRemoveLiquiditySingleSyCalls(u, n, min, x))

useRemoveLiquiditySinglePt(u, n, min) ==
  \E out \in Answers, b \in Burnt :
    LET x == b @@ [out |-> out] IN
    Submit(Terms("useRemoveLiquiditySinglePt", u, Shift(LP, n), Shift(PT, min),
                 useRemoveLiquiditySinglePt_onMutate(n, min)),
           useRemoveLiquiditySinglePt_mutationFn(u, n, min, x),
           buildRemoveLiquiditySinglePtCalls(u, n, min, x))

useAddLiquiditySingleToken(u, n, min) ==
  \E trade \in Purchases(Amounts), swapped, out \in Answers, s \in Supplied :
    LET x == Zapped(s, swapped, out) @@ [trade |-> trade] IN
    Submit(Bought(Terms("useAddLiquiditySingleToken", u, Shift(Token, n), Shift(LP, min),
                        useAddLiquiditySingleToken_onMutate(n, min)), trade),
           useAddLiquiditySingleToken_mutationFn(u, n, min, x),
           buildAddLiquiditySingleTokenCalls(u, n, min, x))

useAddLiquiditySingleTokenKeepYt(u, n, min) ==
  \E min_yt \in Minima, trade \in Purchases(Answers), swapped, out \in Answers, s \in Supplied :
    LET x == Zapped(s, swapped, out) @@ [trade |-> trade, py |-> Minted(trade.reported)] IN
    Submit(Bought(Terms("useAddLiquiditySingleTokenKeepYt", u, Shift(Token, n),
                        Shift(LP, min) ++ Shift(YT, min_yt),
                        useAddLiquiditySingleTokenKeepYt_onMutate(n, min, min_yt)), trade),
           useAddLiquiditySingleTokenKeepYt_mutationFn(u, n, min, min_yt, x),
           buildAddLiquiditySingleTokenKeepYtCalls(u, n, min, min_yt, x))

useRemoveLiquiditySingleToken(u, n, min) ==
  \E out \in Answers, trade \in Sales, b \in Burnt :
    LET x == b @@ [out |-> out, trade |-> trade] IN
    Submit(Sold(Underlying,
                Terms("useRemoveLiquiditySingleToken", u, Shift(LP, n), Shift(Token, min),
                      useRemoveLiquiditySingleToken_onMutate(n, min)), trade),
           useRemoveLiquiditySingleToken_mutationFn(u, n, min, x),
           buildRemoveLiquiditySingleTokenCalls(u, n, min, x))

useRolloverLp(u, n, min) ==
  \E b \in Burnt, s \in Supplied :
    Submit(Terms("useRolloverLp", u, Shift(LP, n), Shift(LPnew, min), useRolloverLp_onMutate(n, min)),
           useRolloverLp_mutationFn(u, n, min, b, s), buildRolloverLpCalls(u, n, min, b, s))

\* The cached allowance: unknown, the present one, or an older one.
Cached == {undefined, 0} \cup Amounts

useMint(u, n, min) ==
  \E cached \in Cached :
    LET calls_built == useMint_buildMintCalls(u, n, cached, min, Minted(n)) IN
    Submit(Terms("useMint", u, Shift(SY, n), Shift(PT, min) ++ Shift(YT, min), None),
           calls_built, calls_built)

useSimpleDeposit(u, n) ==
  LET min == calculateMinOutput(n, Slippage) IN
  \E cached \in Cached :
    Submit(Terms("useSimpleDeposit", u, Shift(Underlying, n), Shift(PT, min) ++ Shift(YT, min),
                 None),
           buildDepositAndEarnCalls(u, n, cached, Minted(n)), <<>>)

useSimpleWithdraw(u, n) ==
  LET min == calculateMinOutput(calculateMinOutput(n, Slippage), Slippage) IN
  \E cached \in Cached :
    Submit(Terms("useSimpleWithdraw", u, Shift(PT, n) ++ Shift(YT, n), Shift(Underlying, min), None),
           buildWithdrawCalls(u, n, expired, cached,
                              IF expired THEN RedeemedPT(n) ELSE RedeemedPairs(n)), <<>>)

useWrapToSy(u, n) ==
  \E cached \in Cached :
    LET calls_built == useWrapToSy_buildWrapCalls(u, n, cached) IN
    Submit(Terms("useWrapToSy", u, Shift(Underlying, n),
                 Shift(SY, calculateMinOutput(n, Slippage)), None), calls_built, calls_built)

useUnwrapSy(u, n) ==
  LET calls_built == useUnwrapSy_buildUnwrapCalls(u, n) IN
  Submit(Terms("useUnwrapSy", u, Shift(SY, n), Shift(Underlying, calculateMinOutput(n, Slippage)),
               None), calls_built, calls_built)

-----------------------------------------------------------------------------
(* Callers that are not the frontend: the entry points no hook uses, and   *)
(* receivers other than the caller.                                        *)

Direct(entry, u, r, gives, gets) ==
  [Terms(entry, u, gives, gets, None) EXCEPT !.for = r]

Others(u, r, n, min) ==
  \/ Submit(Direct("mint_py_and_keep", u, r, Shift(SY, n), Shift(PT, min) ++ Shift(YT, min)),
            Allow(SY, u, n) \o mint_py_and_keep(u, r, n, min, Minted(n)), <<>>)
  \/ Submit(Direct("redeem_py_to_sy", u, r, Shift(PT, n) ++ Shift(YT, n), Shift(SY, min)),
            Allow(PT, u, n) \o Allow(YT, u, n)
            \o redeem_py_to_sy(u, r, n, min, RedeemedPairs(n)), <<>>)
  \/ \E spent \in Answers :
       \/ Submit(Direct("swap_sy_for_exact_pt", u, r, Shift(SY, n), Shift(PT, min)),
                 Allow(SY, u, n) \o swap_for_exact(SY, PT, u, r, min, n, spent), <<>>)
       \/ Submit(Direct("swap_pt_for_exact_sy", u, r, Shift(PT, n), Shift(SY, min)),
                 Allow(PT, u, n) \o swap_for_exact(PT, SY, u, r, min, n, spent), <<>>)
       \/ Submit(Direct("swap_exact_yt_for_sy", u, r, Shift(YT, n) ++ Shift(SY, n), Shift(SY, min)),
                 Allow(YT, u, n) \o Allow(SY, u, n)
                 \o swap_exact_yt_for_sy(u, r, n, n, min, spent, RedeemedPairs(n)), <<>>)
  \/ \E trade \in Sales :
       Submit(Sold(Token, Direct("swap_tokens_to_tokens", u, r, Shift(Token, n),
                                 Shift(Underlying, min)), trade),
              Allow(Token, u, n) \o swap_tokens_to_tokens(u, r, n, min, trade), <<>>)
  \/ \E trade \in Purchases(Answers), x \in Supplied :
       Submit(Bought(Direct("add_liquidity_dual_token_and_pt", u, r,
                            Shift(Token, n) ++ Shift(PT, n), Shift(LP, min)), trade),
              Allow(Token, u, n) \o Allow(PT, u, n)
              \o add_liquidity_dual_token_and_pt(u, r, n, n, min, trade, x), <<>>)
  \/ \E trade \in Sales, x \in Burnt :
       Submit(Sold(Underlying, Direct("remove_liquidity_dual_token_and_pt", u, r, Shift(LP, n),
                                      Shift(Token, min) ++ Shift(PT, min)), trade),
              Allow(LP, u, n)
              \o remove_liquidity_dual_token_and_pt(u, r, n, min, min, x, trade), <<>>)

\* Tokens sent to a contract by mistake, or staged in an earlier transaction.
Gift(u, token, to, n) ==
  /\ gifts < MaxGifts /\ balance[token][u] >= n
  /\ gifts' = gifts + 1
  /\ balance' = Moved(World(FALSE), token, u, to, n).balance
  /\ UNCHANGED <<allowance, sy_reserve, expired, calls, call>>

Expire ==
  /\ ~expired /\ expired' = TRUE
  /\ UNCHANGED <<ledger, calls, gifts, call>>

Hook(u, n, min) ==
  \/ useSwap(u, n, min) \/ useSwapSyForPtWithApprox(u, n, min)
  \/ useSwapTokenForPt(u, n, min) \/ useSwapPtForToken(u, n, min)
  \/ useSwapTokenForYt(u, n, min) \/ useSwapYtForToken(u, n, min)
  \/ useRedeemPy(u, n, min) \/ useRedeemPtPostExpiry(u, n, min) \/ useRedeemPyWithInterest(u, n)
  \/ useAddLiquidity(u, n, min) \/ useRemoveLiquidity(u, n, min)
  \/ useAddLiquiditySingleSy(u, n, min) \/ useAddLiquiditySinglePt(u, n, min)
  \/ useAddLiquiditySingleSyWithApprox(u, n, min)
  \/ useRemoveLiquiditySingleSy(u, n, min) \/ useRemoveLiquiditySinglePt(u, n, min)
  \/ useAddLiquiditySingleToken(u, n, min) \/ useAddLiquiditySingleTokenKeepYt(u, n, min)
  \/ useRemoveLiquiditySingleToken(u, n, min) \/ useRolloverLp(u, n, min)
  \/ useMint(u, n, min) \/ useSimpleDeposit(u, n) \/ useSimpleWithdraw(u, n)
  \/ useWrapToSy(u, n) \/ useUnwrapSy(u, n)

Next ==
  \/ \E u \in Users, n \in Amounts, min \in Minima : Hook(u, n, min)
  \/ \E u, r \in Users, n \in Amounts, min \in Minima : Others(u, r, n, min)
  \/ \E u \in Users, token \in {SY, PT, YT, Underlying}, to \in {this, YTC, SYC}, n \in Amounts :
       Gift(u, token, to, n)
  \/ Expire

Spec == Init /\ [][Next]_vars

-----------------------------------------------------------------------------
(* Properties *)

Submitted == calls' # calls
Change(token, h) == balance'[token][h] - balance[token][h]

\* router.cairo: an entry point moves everything it took out of the router
\* again, and leaves nothing more staged at the YT or SY contract for
\* whoever calls next.  What an aggregator does not do as it says is not
\* made up for: the tokens it does not take stay in the router, and so does
\* what it delivers beyond its report on the way into SY; what it delivers
\* less than that, the router pays out of what it happens to hold.
NothingLeft == [][Submitted =>
  /\ \A t \in Tokens : Change(t, this) = At(call'.left, t)
  /\ \A t \in {PT, YT} : Change(t, YTC) <= 0
  /\ Change(SY, YTC) <= sy_reserve' - sy_reserve
  /\ Change(SY, SYC) = 0]_vars

\* The account that submits a call pays at most what it entered, the receiver
\* gets at least the minimum, and no other account loses: whatever the pools
\* answer, and whatever lies in the contracts.  (The minima are above zero:
\* with min_sy_out = 0 swap_exact_yt_for_sy may cost collateral.)
Agreed == [][Submitted /\ call'.done =>
  \A u \in Users, t \in Tokens :
    Change(t, u) >= (IF u = call'.for THEN At(call'.gets, t) ELSE 0)
                    - (IF u = call'.by THEN At(call'.gives, t) ELSE 0)]_vars

\* A call spends what it approves: neither the account nor the router leaves
\* an allowance larger than it found.  (The markets are excepted: what the
\* router approves for a swap of unknown price is not taken back.)
AllowancesSpent == [][Submitted =>
  \A g \in Grants : g[3] \notin {Market, MarketNew} => allowance'[g] <= allowance[g]]_vars

\* The balances shown before the confirmation promise no more than the
\* confirmed call brings (but for useRedeemPyWithInterest, which says that
\* its SY is approximate).
ShownIsGuaranteed == [][Submitted /\ call'.done /\ call'.hook # "useRedeemPyWithInterest" =>
  \A t \in DOMAIN call'.shown : Change(t, call'.by) >= call'.shown[t]]_vars

\* The calls built to estimate the gas end where the submitted ones end.
EstimateIsTrue == [][Submitted /\ call'.done =>
  \A t \in DOMAIN call'.estimate : call'.estimate[t] = balance'[t][call'.by]]_vars

\* shared/starknet/transaction-builder.ts builds the calls "for the simplified
\* UI mode": no call fails because the entry point cannot read its calldata.
CalldataFits == call.failed # "decode"
=============================================================================

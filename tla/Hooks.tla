------------------------------- MODULE Hooks -------------------------------
(***************************************************************************)
(* packages/frontend: the transaction that each hook submits, as the       *)
(* approvals it asks for and its one call (..._mutationFn, build...Calls), *)
(* the change of balances it shows before the transaction is confirmed     *)
(* (..._onMutate), and the balances it puts back when the wallet refuses   *)
(* (..._onError).  u is the connected account and receives what the call   *)
(* pays; x holds the answers of the pools and of the aggregator.           *)
(***************************************************************************)
EXTENDS Router

\* Changes of balances: of one token, and of those of f and g (an operator of
\* its own, since the provers cannot unfold the one of module TLC).
Shift(token, n) == [t \in {token} |-> n]
f ++ g ==
  [t \in DOMAIN f \cup DOMAIN g |-> IF t \in DOMAIN f THEN f[t] ELSE g[t]]
None == [t \in {} |-> 0]

Allow(token, u, n) == <<Approve(token, u, this, n)>>

\* The parameters of the entry points whose calldata is put together by hand.
Parameters ==
  LET u4 == <<"address", "address", "u256", "u256", "u64">>
  IN [deposit |-> <<"address", "address", "u256", "u256">>,
      redeem |-> <<"address", "u256", "address", "u256", "bool">>,
      mint_py_from_sy |-> u4, redeem_py_to_sy |-> u4, redeem_pt_post_expiry |-> u4,
      add_liquidity |-> <<"address", "address", "u256", "u256", "u256", "u64">>,
      remove_liquidity |-> <<"address", "address", "u256", "u256", "u256", "u64">>,
      add_liquidity_single_sy |-> u4, add_liquidity_single_pt |-> u4,
      add_liquidity_single_sy_with_approx |->
        <<"address", "address", "u256", "u256", "ApproxParams", "u64">>,
      remove_liquidity_single_sy |-> u4, remove_liquidity_single_pt |-> u4,
      rollover_lp |-> u4,
      swap_exact_sy_for_pt_with_approx |->
        <<"address", "address", "u256", "u256", "ApproxParams", "u64">>,
      swap_exact_token_for_pt |-> <<"address", "address", "TokenInput", "u256", "u64">>,
      swap_exact_pt_for_token |-> <<"address", "address", "u256", "TokenOutput", "u64">>,
      swap_exact_token_for_yt |->
        <<"address", "address", "address", "TokenInput", "u256", "u64">>,
      swap_exact_yt_for_token |->
        <<"address", "address", "address", "u256", "u256", "TokenOutput", "u64">>,
      add_liquidity_single_token |-> <<"address", "address", "TokenInput", "u256", "u64">>,
      add_liquidity_single_token_keep_yt |->
        <<"address", "address", "TokenInput", "u256", "u256", "u64">>,
      remove_liquidity_single_token |-> <<"address", "address", "u256", "TokenOutput", "u64">>]

\* The entry point reads its parameters from the calldata, one after the
\* other, and fails unless it meets all of them and nothing more.
Encoded(entrypoint, calldata) == <<Decode(calldata, Parameters[entrypoint])>>

-----------------------------------------------------------------------------
(* features/swap *)

useSwap_mutationFn(direction, u, n, min, x) ==
  CASE direction = "buy_pt" -> Allow(SY, u, n) \o swap_exact(SY, PT, u, u, n, min, x.out)
    [] direction = "sell_pt" -> Allow(PT, u, n) \o swap_exact(PT, SY, u, u, n, min, x.out)
    [] direction = "buy_yt" ->
         Allow(SY, u, n) \o swap_exact_sy_for_yt(u, u, n, min, x.py, x.out)
    [] direction = "sell_yt" ->
         Allow(YT, u, n) \o Allow(SY, u, 4 * n)
         \o swap_exact_yt_for_sy(u, u, n, 4 * n, min, x.out, x.redeemed)

resolveSwapTokens(direction) ==
  CASE direction = "buy_pt" -> [input |-> SY, output |-> PT]
    [] direction = "sell_pt" -> [input |-> PT, output |-> SY]
    [] direction = "buy_yt" -> [input |-> SY, output |-> YT]
    [] direction = "sell_yt" -> [input |-> YT, output |-> SY]

useSwap_onMutate(direction, n, min) ==
  Shift(resolveSwapTokens(direction).input, -n) ++ Shift(resolveSwapTokens(direction).output, min)
useSwap_onError(direction) ==
  {resolveSwapTokens(direction).input, resolveSwapTokens(direction).output}

useSwapSyForPtWithApprox_mutationFn(u, n, min, x) ==
  Allow(SY, u, n)
  \o Encoded("swap_exact_sy_for_pt_with_approx",
             <<"address", "address", "u256", "u256", "ApproxParams", "u64">>)
  \o swap_exact(SY, PT, u, u, n, min, x.out)
useSwapSyForPtWithApprox_onMutate(n, min) == Shift(SY, -n) ++ Shift(PT, min)
useSwapSyForPtWithApprox_onError == {SY, PT}

\* Only what is paid is shown where the output depends on an aggregator.
useSwapTokenForPt_mutationFn(u, n, min, x) ==
  Allow(Token, u, n)
  \o Encoded("swap_exact_token_for_pt", <<"address", "address", "TokenInput", "u256", "u64">>)
  \o swap_exact_token_for_pt(u, u, n, min, x.trade, x.out)
useSwapTokenForPt_onMutate(n) == Shift(Token, -n)
useSwapTokenForPt_onError == {Token}

useSwapPtForToken_mutationFn(u, n, min, x) ==
  Allow(PT, u, n)
  \o Encoded("swap_exact_pt_for_token", <<"address", "address", "u256", "TokenOutput", "u64">>)
  \o swap_exact_pt_for_token(u, u, n, min, x.out, x.trade)
useSwapPtForToken_onMutate(n) == Shift(PT, -n)
useSwapPtForToken_onError == {PT}

useSwapTokenForYt_mutationFn(u, n, min, x) ==
  Allow(Token, u, n)
  \o Encoded("swap_exact_token_for_yt",
             <<"address", "address", "address", "TokenInput", "u256", "u64">>)
  \o swap_exact_token_for_yt(u, u, n, min, x.trade, x.py, x.out)
useSwapTokenForYt_onMutate(n) == Shift(Token, -n)
useSwapTokenForYt_onError == {Token}

useSwapYtForToken_mutationFn(u, n, collateral, min, x) ==
  Allow(YT, u, n) \o Allow(SY, u, collateral)
  \o Encoded("swap_exact_yt_for_token",
             <<"address", "address", "address", "u256", "u256", "TokenOutput", "u64">>)
  \o swap_exact_yt_for_token(u, u, n, collateral, min, x.out, x.redeemed, x.trade)
useSwapYtForToken_onMutate(n, collateral) == Shift(YT, -n) ++ Shift(SY, -collateral)
useSwapYtForToken_onError == {YT, SY}

-----------------------------------------------------------------------------
(* features/redeem *)

useRedeemPy_mutationFn(u, n, min, x) ==
  Allow(PT, u, n) \o Allow(YT, u, n) \o redeem_py_to_sy(u, u, n, min, x.redeemed)
useRedeemPy_onMutate(n, min) == Shift(PT, -n) ++ Shift(YT, -n) ++ Shift(SY, min)

\* Mutant: the SY shown as received stays.
useRedeemPy_onError_py_only == {PT, YT}
useRedeemPy_onError == {PT, YT, SY}

\* Mutant: the SY shown is what is asked for, not what is guaranteed.
useRedeemPtPostExpiry_shows_amount(n, min) == Shift(PT, -n) ++ Shift(SY, n)

useRedeemPtPostExpiry_mutationFn(u, n, min, x) ==
  Allow(PT, u, n) \o redeem_pt_post_expiry(u, u, n, min, x.redeemed)
useRedeemPtPostExpiry_onMutate(n, min) == Shift(PT, -n) ++ Shift(SY, min)
useRedeemPtPostExpiry_onError == {PT, SY}

\* Straight to the YT contract, without interest: the tokens go there first,
\* and there is no minimum.
useRedeemPyWithInterest_mutationFn(u, n) ==
  <<Send(PT, u, YTC, n), Send(YT, u, YTC, n), RedeemPY(u)>>
useRedeemPyWithInterest_onMutate(n) == Shift(PT, -n) ++ Shift(YT, -n) ++ Shift(SY, n)
useRedeemPyWithInterest_onError == {PT, YT, SY}

-----------------------------------------------------------------------------
(* features/liquidity *)

useAddLiquidity_mutationFn(u, sy, pt, min, x) ==
  Allow(SY, u, sy) \o Allow(PT, u, pt) \o add_liquidity(u, u, sy, pt, min, x)
buildAddLiquidityCalls(u, sy, pt, min, x) ==
  Allow(SY, u, sy) \o Allow(PT, u, pt)
  \o Encoded("add_liquidity", <<"address", "address", "u256", "u256", "u256", "u64">>)
  \o add_liquidity(u, u, sy, pt, min, x)
useAddLiquidity_onMutate(sy, pt, min) == Shift(SY, -sy) ++ Shift(PT, -pt) ++ Shift(LP, min)
useAddLiquidity_onError == {SY, PT, LP}

useRemoveLiquidity_mutationFn(u, n, min_sy, min_pt, x) ==
  Allow(LP, u, n) \o remove_liquidity(u, u, n, min_sy, min_pt, x)
buildRemoveLiquidityCalls(u, n, min_sy, min_pt, x) ==
  Allow(LP, u, n)
  \o Encoded("remove_liquidity", <<"address", "address", "u256", "u256", "u256", "u64">>)
  \o remove_liquidity(u, u, n, min_sy, min_pt, x)
useRemoveLiquidity_onMutate(n, min_sy, min_pt) ==
  Shift(SY, min_sy) ++ Shift(PT, min_pt) ++ Shift(LP, -n)
useRemoveLiquidity_onError == {SY, PT, LP}

useAddLiquiditySingleSy_mutationFn(u, n, min, x) ==
  Allow(SY, u, n) \o add_liquidity_single(SY, u, u, n, min, x.swapped, x.out, x)
\* Mutant: the estimate leaves the approval out.
buildAddLiquiditySingleSyCalls_unapproved(u, n, min, x) ==
  Encoded("add_liquidity_single_sy", <<"address", "address", "u256", "u256", "u64">>)
  \o add_liquidity_single(SY, u, u, n, min, x.swapped, x.out, x)
buildAddLiquiditySingleSyCalls(u, n, min, x) ==
  Allow(SY, u, n)
  \o Encoded("add_liquidity_single_sy", <<"address", "address", "u256", "u256", "u64">>)
  \o add_liquidity_single(SY, u, u, n, min, x.swapped, x.out, x)
useAddLiquiditySingleSy_onMutate(n, min) == Shift(SY, -n) ++ Shift(LP, min)
useAddLiquiditySingleSy_onError == {SY, LP}

useAddLiquiditySinglePt_mutationFn(u, n, min, x) ==
  Allow(PT, u, n) \o add_liquidity_single(PT, u, u, n, min, x.swapped, x.out, x)
buildAddLiquiditySinglePtCalls(u, n, min, x) ==
  Allow(PT, u, n)
  \o Encoded("add_liquidity_single_pt", <<"address", "address", "u256", "u256", "u64">>)
  \o add_liquidity_single(PT, u, u, n, min, x.swapped, x.out, x)
useAddLiquiditySinglePt_onMutate(n, min) == Shift(PT, -n) ++ Shift(LP, min)
useAddLiquiditySinglePt_onError == {PT, LP}

useAddLiquiditySingleSyWithApprox_mutationFn(u, n, min, x) ==
  Allow(SY, u, n)
  \o Encoded("add_liquidity_single_sy_with_approx",
             <<"address", "address", "u256", "u256", "ApproxParams", "u64">>)
  \o add_liquidity_single(SY, u, u, n, min, x.swapped, x.out, x)
buildAddLiquiditySingleSyWithApproxCalls(u, n, min, x) ==
  Allow(SY, u, n)
  \o Encoded("add_liquidity_single_sy_with_approx",
             <<"address", "address", "u256", "u256", "ApproxParams", "u64">>)
  \o add_liquidity_single(SY, u, u, n, min, x.swapped, x.out, x)
useAddLiquiditySingleSyWithApprox_onMutate(n, min) == Shift(SY, -n) ++ Shift(LP, min)
useAddLiquiditySingleSyWithApprox_onError == {SY, LP}

useRemoveLiquiditySingleSy_mutationFn(u, n, min, x) ==
  Allow(LP, u, n) \o remove_liquidity_single_sy(u, u, n, min, x, x.out)
buildRemoveLiquiditySingleSyCalls(u, n, min, x) ==
  Allow(LP, u, n)
  \o Encoded("remove_liquidity_single_sy", <<"address", "address", "u256", "u256", "u64">>)
  \o remove_liquidity_single_sy(u, u, n, min, x, x.out)
useRemoveLiquiditySingleSy_onMutate(n, min) == Shift(LP, -n) ++ Shift(SY, min)
useRemoveLiquiditySingleSy_onError == {LP, SY}

useRemoveLiquiditySinglePt_mutationFn(u, n, min, x) ==
  Allow(LP, u, n) \o remove_liquidity_single_pt(u, u, n, min, x, x.out)
buildRemoveLiquiditySinglePtCalls(u, n, min, x) ==
  Allow(LP, u, n)
  \o Encoded("remove_liquidity_single_pt", <<"address", "address", "u256", "u256", "u64">>)
  \o remove_liquidity_single_pt(u, u, n, min, x, x.out)
useRemoveLiquiditySinglePt_onMutate(n, min) == Shift(LP, -n) ++ Shift(PT, min)
useRemoveLiquiditySinglePt_onError == {LP, PT}

useAddLiquiditySingleToken_mutationFn(u, n, min, x) ==
  Allow(Token, u, n)
  \o Encoded("add_liquidity_single_token", <<"address", "address", "TokenInput", "u256", "u64">>)
  \o add_liquidity_single_token(u, u, n, min, x.trade, x.swapped, x.out, x)
buildAddLiquiditySingleTokenCalls(u, n, min, x) ==
  Allow(Token, u, n)
  \o Encoded("add_liquidity_single_token", <<"address", "address", "TokenInput", "u256", "u64">>)
  \o add_liquidity_single_token(u, u, n, min, x.trade, x.swapped, x.out, x)
useAddLiquiditySingleToken_onMutate(n, min) == Shift(Token, -n) ++ Shift(LP, min)
useAddLiquiditySingleToken_onError == {Token, LP}

useAddLiquiditySingleTokenKeepYt_mutationFn(u, n, min, min_yt, x) ==
  Allow(Token, u, n)
  \o Encoded("add_liquidity_single_token_keep_yt",
             <<"address", "address", "TokenInput", "u256", "u256", "u64">>)
  \o add_liquidity_single_token_keep_yt(u, u, n, min, min_yt, x.trade, x.py, x.swapped, x.out, x)
buildAddLiquiditySingleTokenKeepYtCalls(u, n, min, min_yt, x) ==
  Allow(Token, u, n)
  \o Encoded("add_liquidity_single_token_keep_yt",
             <<"address", "address", "TokenInput", "u256", "u256", "u64">>)
  \o add_liquidity_single_token_keep_yt(u, u, n, min, min_yt, x.trade, x.py, x.swapped, x.out, x)
useAddLiquiditySingleTokenKeepYt_onMutate(n, min, min_yt) ==
  Shift(Token, -n) ++ Shift(LP, min) ++ Shift(YT, min_yt)
useAddLiquiditySingleTokenKeepYt_onError == {Token, LP, YT}

useRemoveLiquiditySingleToken_mutationFn(u, n, min, x) ==
  Allow(LP, u, n)
  \o Encoded("remove_liquidity_single_token", <<"address", "address", "u256", "TokenOutput", "u64">>)
  \o remove_liquidity_single_token(u, u, n, min, x, x.out, x.trade)
buildRemoveLiquiditySingleTokenCalls(u, n, min, x) ==
  Allow(LP, u, n)
  \o Encoded("remove_liquidity_single_token", <<"address", "address", "u256", "TokenOutput", "u64">>)
  \o remove_liquidity_single_token(u, u, n, min, x, x.out, x.trade)
useRemoveLiquiditySingleToken_onMutate(n, min) == Shift(LP, -n) ++ Shift(Token, min)
useRemoveLiquiditySingleToken_onError == {LP, Token}

useRolloverLp_mutationFn(u, n, min, x, y) == Allow(LP, u, n) \o rollover_lp(u, n, min, x, y)
buildRolloverLpCalls(u, n, min, x, y) ==
  Allow(LP, u, n)
  \o Encoded("rollover_lp", <<"address", "address", "u256", "u256", "u64">>)
  \o rollover_lp(u, n, min, x, y)
useRolloverLp_onMutate(n, min) == Shift(LP, -n) ++ Shift(LPnew, min)
useRolloverLp_onError == {LP, LPnew}

-----------------------------------------------------------------------------
(* features/earn, features/mint and shared/starknet/transaction-builder.ts. *)
(* The allowance is read from a cache: it may be unknown, or out of date.   *)

undefined == -1
needsApproval(allowance, n) == allowance = undefined \/ allowance < n
calculateMinOutput(n, slippageBps) == (n * (10000 - slippageBps)) \div 10000
Slippage == 50

ApproveIfNeeded(token, u, spender, allowance, n) ==
  IF needsApproval(allowance, n) THEN <<Approve(token, u, spender, n)>> ELSE <<>>

\* sy_component.cairo deposit and redeem, one SY for one underlying.
deposit(u, n, min) ==
  <<Pull(Underlying, u, SYC, Outside, n), Send(SY, Outside, u, n), Require(n >= min)>>
redeem(u, n, min) ==
  <<Send(SY, u, Outside, n), Send(Underlying, Outside, u, n), Require(n >= min)>>

buildDepositToSyCall(u, n, min) ==
  Encoded("deposit", <<"address", "u256", "u256">>) \o deposit(u, n, min)
buildUnwrapSyCall(u, n, min) ==
  Encoded("redeem", <<"address", "u256", "u256", "bool">>) \o redeem(u, n, min)
buildMintPyCall(u, n, min, py) ==
  Encoded("mint_py_from_sy", <<"address", "address", "u256", "u256", "u64">>)
  \o mint_py_from_sy(u, u, n, min, py)
buildRedeemPyToSyCall(u, n, min, sy) ==
  Encoded("redeem_py_to_sy", <<"address", "address", "u256", "u256", "u64">>)
  \o redeem_py_to_sy(u, u, n, min, sy)
buildRedeemPtPostExpiryCall(u, n, min, sy) ==
  Encoded("redeem_pt_post_expiry", <<"address", "address", "u256", "u256", "u64">>)
  \o redeem_pt_post_expiry(u, u, n, min, sy)

buildDepositAndEarnCalls(u, n, allowance, py) ==
  ApproveIfNeeded(Underlying, u, SYC, allowance, n)
  \o buildDepositToSyCall(u, n, calculateMinOutput(n, Slippage))
  \o ApproveIfNeeded(SY, u, this, allowance, n)
  \o buildMintPyCall(u, n, calculateMinOutput(n, Slippage), py)

buildWithdrawCalls(u, n, is_expired, allowance, redeemed) ==
  LET min == calculateMinOutput(n, Slippage) IN
  ApproveIfNeeded(PT, u, this, allowance, n)
  \o (IF is_expired
      THEN buildRedeemPtPostExpiryCall(u, n, min, redeemed)
      ELSE ApproveIfNeeded(YT, u, this, allowance, n)
           \o buildRedeemPyToSyCall(u, n, min, redeemed))
  \o buildUnwrapSyCall(u, min, calculateMinOutput(min, Slippage))

\* Mutant: more is approved than is spent.
useMint_buildMintCalls_twice(u, n, allowance, min, py) ==
  ApproveIfNeeded(SY, u, this, allowance, 2 * n) \o mint_py_from_sy(u, u, n, min, py)

useMint_buildMintCalls(u, n, allowance, min, py) ==
  ApproveIfNeeded(SY, u, this, allowance, n)
  \o Encoded("mint_py_from_sy", <<"address", "address", "u256", "u256", "u64">>)
  \o mint_py_from_sy(u, u, n, min, py)

useWrapToSy_buildWrapCalls(u, n, allowance) ==
  ApproveIfNeeded(Underlying, u, SYC, allowance, n)
  \o Encoded("deposit", <<"address", "u256", "u256">>)
  \o deposit(u, n, calculateMinOutput(n, Slippage))

useUnwrapSy_buildUnwrapCalls(u, n) ==
  Encoded("redeem", <<"address", "u256", "u256", "bool">>)
  \o redeem(u, n, calculateMinOutput(n, Slippage))
=============================================================================

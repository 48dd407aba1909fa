------------------------------- MODULE Router -------------------------------
(***************************************************************************)
(* contracts/src/router.cairo: each entry point as the sequence of token   *)
(* movements, approvals and assertions it makes, one after the other, in   *)
(* one transaction that reverts as a whole when one of them fails.         *)
(*                                                                         *)
(* The amounts that the Market answers, and what the aggregator takes,     *)
(* delivers and reports, are whatever they may be: an entry point takes    *)
(* them as its arguments x and trade.  The floating balances of the YT,    *)
(* which decide what it mints and redeems, are kept.                       *)
(***************************************************************************)
EXTENDS Integers, Sequences

CONSTANTS
  Users,   \* accounts
  Rate     \* assets per SY, fixed here (YieldToken lets it move)

ASSUME RateAssumption == Rate \in Nat \ {0}

SY == "SY"    PT == "PT"    YT == "YT"
LP == "LP"             \* the LP token of the market
LPnew == "LPnew"       \* that of another market with the same SY and PT
Token == "token"       \* what the aggregator trades for the underlying
Underlying == "underlying"
Tokens == {SY, PT, YT, LP, LPnew, Token, Underlying}

this == "router"
YTC == "yt"            \* the YT contract; tokens staged there float
SYC == "sy"            \* the SY contract; SY staged there is redeemed
Market == "market"     \* as spender; its holdings are not kept
MarketNew == "marketNew"
Aggregator == "aggregator"
Outside == "outside"   \* pools, minters and burners
Holders == Users \cup {this, YTC, SYC}

\* Who may spend whose tokens, as <<token, owner, spender>>.
Grants == (Tokens \X Users \X {this, SYC})
          \cup ({SY, PT} \X {this} \X {Market, MarketNew})
          \cup ({Token, Underlying} \X {this} \X {Aggregator, SYC})

-----------------------------------------------------------------------------
(* What a transaction does, step by step.  A world is what it works on:    *)
(* balances, allowances, the SY the YT has accounted for, whether the pair *)
(* has expired, whether the router refuses the call (it is paused, or the  *)
(* deadline has passed), and the kind of the step that failed, if one did. *)

Send(token, from, to, n) ==
  [do |-> "transfer", token |-> token, from |-> from, to |-> to, n |-> n]
Pull(token, from, by, to, n) ==
  [do |-> "transfer_from", token |-> token, from |-> from, by |-> by, to |-> to, n |-> n]
Approve(token, owner, spender, n) ==
  [do |-> "approve", grant |-> <<token, owner, spender>>, n |-> n]
Require(holds) == [do |-> "assert", holds |-> holds]
Open == [do |-> "not_expired"]
Enter == [do |-> "enter"]
Decode(calldata, parameters) ==
  [do |-> "decode", calldata |-> calldata, parameters |-> parameters]
MintPY(pt_to, yt_to) == [do |-> "mint_py", pt_to |-> pt_to, yt_to |-> yt_to]
RedeemPY(to) == [do |-> "redeem_py", to |-> to]
RedeemPT(to) == [do |-> "redeem_py_post_expiry", to |-> to]

If(holds, w) == IF holds THEN w ELSE [w EXCEPT !.ok = FALSE]

Moved(w, token, from, to, n) ==
  If(from \in Holders => w.balance[token][from] >= n,
     [w EXCEPT !.balance[token] =
        [h \in Holders |-> @[h] + (IF h = to THEN n ELSE 0) - (IF h = from THEN n ELSE 0)]])

Spent(w, grant, n) == If(w.allowance[grant] >= n, [w EXCEPT !.allowance[grant] = @ - n])

Smaller(a, b) == IF a < b THEN a ELSE b

\* yt.cairo mint_py: PT and YT for all SY that floats.
PYMinted(w, pt_to, yt_to) ==
  LET py == Rate * (w.balance[SY][YTC] - w.reserve)
      minted == Moved(Moved(w, PT, Outside, pt_to, py), YT, Outside, yt_to, py)
  IN  If(py > 0 /\ ~w.expired, [minted EXCEPT !.reserve = w.balance[SY][YTC]])

\* _sync_reserve after paying.
Redeemed(w, burnt, to, py) ==
  LET paid == Moved(burnt, SY, YTC, to, py \div Rate)
  IN  If(py > 0, [paid EXCEPT !.reserve = paid.balance[SY][YTC]])

\* yt.cairo redeem_py: SY for the pairs of PT and YT that float.
PYRedeemed(w, to) ==
  LET py == Smaller(w.balance[PT][YTC], w.balance[YT][YTC])
      burnt == Moved(Moved(w, PT, YTC, Outside, py), YT, YTC, Outside, py)
  IN  If(~w.expired, Redeemed(w, burnt, to, py))

\* yt.cairo redeem_py_post_expiry: SY for the PT that floats.
PTRedeemed(w, to) ==
  LET py == w.balance[PT][YTC]
  IN  If(w.expired, Redeemed(w, Moved(w, PT, YTC, Outside, py), to, py))

Done(w, s) ==
  CASE s.do = "transfer" -> Moved(w, s.token, s.from, s.to, s.n)
    [] s.do = "transfer_from" ->
         Moved(Spent(w, <<s.token, s.from, s.by>>, s.n), s.token, s.from, s.to, s.n)
    [] s.do = "approve" -> [w EXCEPT !.allowance[s.grant] = s.n]
    [] s.do = "assert" -> If(s.holds, w)
    [] s.do = "decode" -> If(s.calldata = s.parameters, w)
    [] s.do = "not_expired" -> If(~w.expired, w)
    [] s.do = "enter" -> If(~w.refused, w)
    [] s.do = "mint_py" -> PYMinted(w, s.pt_to, s.yt_to)
    [] s.do = "redeem_py" -> PYRedeemed(w, s.to)
    [] s.do = "redeem_py_post_expiry" -> PTRedeemed(w, s.to)

Step(w, s) ==
  LET after == Done(w, s) IN
  IF ~w.ok THEN w ELSE IF after.ok THEN after ELSE [after EXCEPT !.failed = s.do]

\* The transaction: all steps, or none.
Executed(w, steps) ==
  LET after[i \in 0..Len(steps)] == IF i = 0 THEN w ELSE Step(after[i - 1], steps[i])
  IN  after[Len(steps)]

-----------------------------------------------------------------------------
(* What the entry points have in common.  u is the caller, r the receiver  *)

Take(token, u, n) == Pull(token, u, this, this, n)
Give(token, to, n) == Send(token, this, to, n)

\* market.swap_exact_...: n of one token for out of the other, paid to `to`.
Swap(market, token_in, n, token_out, out, to) ==
  <<Open, Require(n > 0), Approve(token_in, this, market, n),
    Pull(token_in, this, market, Outside, n), Send(token_out, Outside, to, out)>>

\* market.mint: at most the desired amounts x.sy of sy, x.pt of pt for x.lp.
Supply(market, token_lp, sy, pt, x, r) ==
  <<Approve(SY, this, market, sy), Approve(PT, this, market, pt), Open,
    Require(sy > 0 /\ pt > 0 /\ x.lp > 0 /\ x.sy <= sy /\ x.pt <= pt),
    Pull(SY, this, market, Outside, x.sy), Pull(PT, this, market, Outside, x.pt),
    Send(token_lp, Outside, r, x.lp)>>

\* market.burn of the router's LP.
Withdraw(token_lp, n, x, to) ==
  <<Send(token_lp, this, Outside, n), Require(x.sy > 0 \/ x.pt > 0),
    Send(SY, Outside, to, x.sy), Send(PT, Outside, to, x.pt)>>

\* Mutant: what the pool did not use of the PT is not given back.
Refunds_sy_only(u, sy, pt, x) == <<Give(SY, u, sy - x.sy)>>

\* What the pool did not use goes back to the caller.
Refunds(u, sy, pt, x) == <<Give(SY, u, sy - x.sy), Give(PT, u, pt - x.pt)>>

\* Part of the input is traded, the rest supplied with what it brought.
Zap(token, n, swapped, bought, x, u, r) ==
  IF token = SY
    THEN Swap(Market, SY, swapped, PT, bought, this)
         \o Supply(Market, LP, n - swapped, bought, x, r)
    ELSE Swap(Market, PT, swapped, SY, bought, this)
         \o Supply(Market, LP, bought, n - swapped, x, r)
ZapRefunds(token, n, swapped, bought, x, u) ==
  IF token = SY THEN Refunds(u, n - swapped, bought, x)
                ELSE Refunds(u, bought, n - swapped, x)

\* The caller names the aggregator, which may do less than it is asked for and
\* say something else: of the n that it may spend it leaves trade.untaken, it
\* delivers trade.delivered and reports trade.reported.
Aggregate(token_in, n, token_out, trade) ==
  <<Approve(token_in, this, Aggregator, n), Require(trade.untaken <= n),
    Pull(token_in, this, Aggregator, Outside, n - trade.untaken),
    Send(token_out, Outside, this, trade.delivered), Approve(token_in, this, Aggregator, 0)>>

\* Token to SY: the aggregator, then the deposit (one SY for one underlying)
\* of what the aggregator reports, whatever has arrived.
Wrapped(u, n, trade) ==
  <<Take(Token, u, n)>> \o Aggregate(Token, n, Underlying, trade)
  \o <<Require(trade.reported > 0), Approve(Underlying, this, SYC, trade.reported),
       Pull(Underlying, this, SYC, Outside, trade.reported),
       Send(SY, Outside, this, trade.reported), Approve(Underlying, this, SYC, 0)>>

\* _swap_output_through_aggregator: what arrived is measured, and paid to the
\* receiver; the report is ignored.
Measured(token_in, n, token_out, trade, min, r) ==
  Aggregate(token_in, n, token_out, trade)
  \o <<Require(trade.delivered > 0 /\ trade.delivered >= min),
       Give(token_out, r, trade.delivered)>>

\* SY to token: staged at the SY contract, redeemed from there, aggregated.
Unwrapped(n, trade, min, r) ==
  <<Give(SY, SYC, n), Require(n > 0), Send(SY, SYC, Outside, n),
    Send(Underlying, Outside, this, n)>>
  \o Measured(Underlying, n, Token, trade, min, r)

-----------------------------------------------------------------------------
(* PT and YT *)

mint_py_from_sy(u, r, n, min, py) ==
  <<Enter, Take(SY, u, n), Give(SY, YTC, n), MintPY(r, r), Require(py >= min)>>

redeem_py_to_sy(u, r, n, min, sy) ==
  <<Enter, Pull(PT, u, this, YTC, n), Pull(YT, u, this, YTC, n), RedeemPY(r), Require(sy >= min)>>

redeem_pt_post_expiry(u, r, n, min, sy) ==
  <<Enter, Pull(PT, u, this, YTC, n), RedeemPT(r), Require(sy >= min)>>

\* mint_py_from_sy, with the market only named in it.
mint_py_and_keep(u, r, n, min, py) == mint_py_from_sy(u, r, n, min, py)

-----------------------------------------------------------------------------
(* Liquidity *)

add_liquidity(u, r, sy, pt, min, x) ==
  <<Enter, Take(SY, u, sy), Take(PT, u, pt)>> \o Supply(Market, LP, sy, pt, x, r)
  \o <<Require(x.lp >= min)>> \o Refunds(u, sy, pt, x)

\* Mutant: one of the two minima is not checked.
remove_liquidity_sy_checked(u, r, n, min_sy, min_pt, x) ==
  <<Enter, Take(LP, u, n)>> \o Withdraw(LP, n, x, r) \o <<Require(x.sy >= min_sy)>>

remove_liquidity(u, r, n, min_sy, min_pt, x) ==
  <<Enter, Take(LP, u, n)>> \o Withdraw(LP, n, x, r)
  \o <<Require(x.sy >= min_sy), Require(x.pt >= min_pt)>>

\* add_liquidity_single_sy, add_liquidity_single_sy_with_approx (the caller's
\* bounds only guide the search for the part to swap), add_liquidity_single_pt.
add_liquidity_single(token, u, r, n, min, swapped, bought, x) ==
  <<Enter, Take(token, u, n), Require(swapped <= n)>> \o Zap(token, n, swapped, bought, x, u, r)
  \o <<Require(x.lp >= min)>> \o ZapRefunds(token, n, swapped, bought, x, u)

remove_liquidity_single_sy(u, r, n, min, x, bought) ==
  <<Enter, Take(LP, u, n)>> \o Withdraw(LP, n, x, this) \o Swap(Market, PT, x.pt, SY, bought, this)
  \o <<Require(x.sy + bought >= min), Give(SY, r, x.sy + bought)>>

remove_liquidity_single_pt(u, r, n, min, x, bought) ==
  <<Enter, Take(LP, u, n)>> \o Withdraw(LP, n, x, this) \o Swap(Market, SY, x.sy, PT, bought, this)
  \o <<Require(x.pt + bought >= min), Give(PT, r, x.pt + bought)>>

\* From a market to another with the same SY and PT.
rollover_lp(u, n, min, x, y) ==
  <<Enter, Take(LP, u, n)>> \o Withdraw(LP, n, x, this)
  \o Supply(MarketNew, LPnew, x.sy, x.pt, y, u)
  \o <<Require(y.lp >= min)>> \o Refunds(u, x.sy, x.pt, y)

-----------------------------------------------------------------------------
(* Swaps *)

\* swap_exact_sy_for_pt (and with_approx, whose tolerance may only refuse
\* more), swap_exact_pt_for_sy: the market pays the receiver, and checks.
swap_exact(token_in, token_out, u, r, n, min, out) ==
  <<Enter, Take(token_in, u, n)>> \o Swap(Market, token_in, n, token_out, out, r)
  \o <<Require(out >= min)>>

\* swap_sy_for_exact_pt, swap_pt_for_exact_sy: what is not spent goes back.
swap_for_exact(token_in, token_out, u, r, out, max, spent) ==
  <<Enter, Take(token_in, u, max), Require(spent <= max), Open, Require(out > 0),
    Approve(token_in, this, Market, max), Pull(token_in, this, Market, Outside, spent),
    Send(token_out, Outside, r, out), Give(token_in, u, max - spent)>>

\* All SY is split, the PT sold, and YT and proceeds paid out.
BuyYT(r, sy, min, py, sold) ==
  <<Give(SY, YTC, sy), MintPY(this, this)>> \o Swap(Market, PT, py, SY, sold, this)
  \o <<Give(YT, r, py), Give(SY, r, sold), Require(py >= min)>>

swap_exact_sy_for_yt(u, r, n, min, py, sold) ==
  <<Enter, Take(SY, u, n)>> \o BuyYT(r, n, min, py, sold)

\* The PT to pair the YT with is bought from the collateral, and both redeemed.
SellYT(u, n, collateral, spent) ==
  <<Require(n > 0 /\ collateral > 0), Take(YT, u, n), Take(SY, u, collateral),
    Approve(SY, this, Market, collateral), Open, Require(spent <= collateral),
    Pull(SY, this, Market, Outside, spent), Send(PT, Outside, this, n),
    Give(PT, YTC, n), Give(YT, YTC, n), RedeemPY(this)>>

swap_exact_yt_for_sy(u, r, n, collateral, min, spent, redeemed) ==
  <<Enter>> \o SellYT(u, n, collateral, spent)
  \o <<Require(IF redeemed >= spent THEN redeemed - spent >= min ELSE min = 0),
       Give(SY, r, redeemed + collateral - spent)>>

-----------------------------------------------------------------------------
(* Through the aggregator *)

swap_exact_token_for_pt(u, r, n, min, trade, out) ==
  <<Enter>> \o Wrapped(u, n, trade) \o Swap(Market, SY, trade.reported, PT, out, r)
  \o <<Require(out >= min)>>

swap_exact_pt_for_token(u, r, n, min, sy, trade) ==
  <<Enter, Take(PT, u, n)>> \o Swap(Market, PT, n, SY, sy, this) \o Unwrapped(sy, trade, min, r)

swap_exact_token_for_yt(u, r, n, min, trade, py, sold) ==
  <<Enter>> \o Wrapped(u, n, trade) \o BuyYT(r, trade.reported, min, py, sold)

swap_exact_yt_for_token(u, r, n, collateral, min, spent, redeemed, trade) ==
  <<Enter>> \o SellYT(u, n, collateral, spent)
  \o Unwrapped(redeemed + collateral - spent, trade, min, r)

swap_tokens_to_tokens(u, r, n, min, trade) ==
  <<Enter, Take(Token, u, n)>> \o Measured(Token, n, Underlying, trade, min, r)

add_liquidity_single_token(u, r, n, min, trade, swapped, bought, x) ==
  <<Enter>> \o Wrapped(u, n, trade) \o <<Require(swapped <= trade.reported)>>
  \o Zap(SY, trade.reported, swapped, bought, x, u, r) \o <<Require(x.lp >= min)>> \o ZapRefunds(SY, trade.reported, swapped, bought, x, u)

add_liquidity_single_token_keep_yt(u, r, n, min, min_yt, trade, py, swapped, bought, x) ==
  <<Enter>> \o Wrapped(u, n, trade)
  \o <<Give(SY, YTC, trade.reported), MintPY(this, r), Require(py >= min_yt), Require(swapped <= py)>>
  \o Zap(PT, py, swapped, bought, x, u, r)
  \o <<Require(x.lp >= min)>> \o ZapRefunds(PT, py, swapped, bought, x, u)

add_liquidity_dual_token_and_pt(u, r, n, pt, min, trade, x) ==
  <<Enter, Take(PT, u, pt)>> \o Wrapped(u, n, trade)
  \o Supply(Market, LP, trade.reported, pt, x, r) \o <<Require(x.lp >= min)>> \o Refunds(u, trade.reported, pt, x)

remove_liquidity_dual_token_and_pt(u, r, n, min, min_pt, x, trade) ==
  <<Enter, Take(LP, u, n)>> \o Withdraw(LP, n, x, this)
  \o <<Require(x.pt >= min_pt), Give(PT, r, x.pt)>> \o Unwrapped(x.sy, trade, min, r)

remove_liquidity_single_token(u, r, n, min, x, bought, trade) ==
  <<Enter, Take(LP, u, n)>> \o Withdraw(LP, n, x, this) \o Swap(Market, PT, x.pt, SY, bought, this)
  \o Unwrapped(x.sy + bought, trade, min, r)
=============================================================================

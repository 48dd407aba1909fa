---------------------------- MODULE BalanceCache ----------------------------
(***************************************************************************)
(* The balances a page of packages/frontend shows to one account: the      *)
(* query cache filled by useTokenBalance, the optimistic updates that the  *)
(* hooks make while the wallet is asked for a signature, their rollback,   *)
(* and useTransaction, which waits for the confirmation instead.           *)
(*                                                                         *)
(* JavaScript runs one task at a time: onMutate, onError and onSettled are *)
(* each one step, though they await, because what they await resolves      *)
(* before the next network answer or timer is served.                      *)
(***************************************************************************)
EXTENDS Hooks, Functions

CONSTANTS
  Pages,        \* sets of tokens that a page may show together
  Initial,      \* the account's balance of each token at first
  Amount,       \* amount entered
  Minimum,      \* its minimum
  Bonus,        \* by how much an execution may exceed what was shown
  MaxEvents     \* transactions begun, transfers by others, failed requests

ASSUME CacheAssumption ==
  /\ \A page \in Pages : page \subseteq Tokens
  /\ {Initial, Amount, Minimum, MaxEvents} \subseteq Nat
  /\ Bonus \subseteq Nat

VARIABLES
  watched,    \* tokens with a mounted useTokenBalance
  chain,      \* [Tokens -> Nat], the account's balances
  version,    \* [Tokens -> Nat], how often each has changed
  cache,      \* [Tokens -> Nat \cup {undefined}], what the page shows
  fetch,      \* [Tokens -> the request in flight]
  mutations,  \* sequence of what has been begun, with its stage
  events,     \* transactions, transfers and failures so far
  overtaken,  \* tokens that an onMutate wrote while their request was in flight
  owed        \* [Tokens -> Nat], the version when a success last asked anew

vars == <<watched, chain, version, cache, fetch, mutations, events, overtaken, owed>>

NoFetch == [at |-> "none", value |-> 0, version |-> 0]
Asked == [NoFetch EXCEPT !.at = "asked"]

\* What each hook shows, and what it restores.
Optimistic ==
  LET m(shown, restored) == [shown |-> shown, restored |-> restored]
      n == Amount   k == Minimum
  IN {m(useSwap_onMutate(d, n, k), useSwap_onError(d)) :
        d \in {"buy_pt", "sell_pt", "buy_yt", "sell_yt"}}
     \cup
     {m(useSwapSyForPtWithApprox_onMutate(n, k), useSwapSyForPtWithApprox_onError),
      m(useSwapTokenForPt_onMutate(n), useSwapTokenForPt_onError),
      m(useSwapPtForToken_onMutate(n), useSwapPtForToken_onError),
      m(useSwapTokenForYt_onMutate(n), useSwapTokenForYt_onError),
      m(useSwapYtForToken_onMutate(n, n), useSwapYtForToken_onError),
      m(useRedeemPy_onMutate(n, k), useRedeemPy_onError),
      m(useRedeemPtPostExpiry_onMutate(n, k), useRedeemPtPostExpiry_onError),
      m(useRedeemPyWithInterest_onMutate(n), useRedeemPyWithInterest_onError),
      m(useAddLiquidity_onMutate(n, n, k), useAddLiquidity_onError),
      m(useRemoveLiquidity_onMutate(n, k, k), useRemoveLiquidity_onError),
      m(useAddLiquiditySingleSy_onMutate(n, k), useAddLiquiditySingleSy_onError),
      m(useAddLiquiditySinglePt_onMutate(n, k), useAddLiquiditySinglePt_onError),
      m(useAddLiquiditySingleSyWithApprox_onMutate(n, k), useAddLiquiditySingleSyWithApprox_onError),
      m(useRemoveLiquiditySingleSy_onMutate(n, k), useRemoveLiquiditySingleSy_onError),
      m(useRemoveLiquiditySinglePt_onMutate(n, k), useRemoveLiquiditySinglePt_onError),
      m(useAddLiquiditySingleToken_onMutate(n, k), useAddLiquiditySingleToken_onError),
      m(useAddLiquiditySingleTokenKeepYt_onMutate(n, k, k), useAddLiquiditySingleTokenKeepYt_onError),
      m(useRemoveLiquiditySingleToken_onMutate(n, k), useRemoveLiquiditySingleToken_onError),
      m(useRolloverLp_onMutate(n, k), useRolloverLp_onError)}

\* Those of useTransaction show nothing in advance; they refetch some balances
\* on success (useMint and useSimpleDeposit not those of the PT and YT), or all.
Awaited ==
  LET m(change, refetched) == [change |-> change, refetched |-> refetched]
      n == Amount   k == Minimum
  IN {m(Shift(SY, -n) ++ Shift(PT, k) ++ Shift(YT, k), {SY}),                  \* useMint
      m(Shift(Underlying, -n) ++ Shift(SY, k), {Underlying, SY}),              \* useWrapToSy
      m(Shift(SY, -n) ++ Shift(Underlying, k), {SY, Underlying}),              \* useUnwrapSy
      m(Shift(Underlying, -n) ++ Shift(PT, k) ++ Shift(YT, k), {Underlying}),  \* useSimpleDeposit
      m(Shift(PT, -n) ++ Shift(YT, -n) ++ Shift(Underlying, k), {PT, YT, Underlying}),
                                                                               \* useSimpleWithdraw
      m(Shift(SY, k), Tokens)}                                     \* useClaimInterestAndRewards

\* What of either concerns a page.
OnPage == [page \in Pages |->
  {[shown |-> Restrict(m.shown, DOMAIN m.shown \cap page), restored |-> m.restored \cap page] :
     m \in Optimistic}]
AwaitedOnPage == [page \in Pages |->
  {[change |-> Restrict(m.change, DOMAIN m.change \cap page), refetched |-> m.refetched \cap page] :
     m \in Awaited}]

Init ==
  /\ watched \in Pages
  /\ chain = [t \in Tokens |-> Initial] /\ version = [t \in Tokens |-> 0]
  /\ cache = [t \in Tokens |-> undefined]
  /\ fetch = [t \in Tokens |-> IF t \in watched THEN Asked ELSE NoFetch]
  /\ mutations = <<>> /\ events = 0
  /\ overtaken = {} /\ owed = [t \in Tokens |-> 0]

-----------------------------------------------------------------------------
(* useTokenBalance *)

\* Mutant: the balance is asked for only while it is unknown.
Poll_unknown(t) ==
  /\ t \in watched /\ fetch[t] = NoFetch /\ cache[t] = undefined
  /\ fetch' = [fetch EXCEPT ![t] = Asked]
  /\ overtaken' = overtaken \ {t}
  /\ UNCHANGED <<watched, chain, version, cache, mutations, events, owed>>

\* refetchInterval: every 15 s, unless a request is in flight.
Poll(t) ==
  /\ t \in watched /\ fetch[t] = NoFetch
  /\ fetch' = [fetch EXCEPT ![t] = Asked]
  /\ overtaken' = overtaken \ {t}
  /\ UNCHANGED <<watched, chain, version, cache, mutations, events, owed>>

\* The node answers with the balance it has.
Read(t) ==
  /\ fetch[t].at = "asked"
  /\ fetch' = [fetch EXCEPT ![t] = [at |-> "read", value |-> chain[t], version |-> version[t]]]
  /\ UNCHANGED <<watched, chain, version, cache, mutations, events, overtaken, owed>>

Deliver(t) ==
  /\ fetch[t].at = "read"
  /\ cache' = [cache EXCEPT ![t] = fetch[t].value]
  /\ fetch' = [fetch EXCEPT ![t] = NoFetch]
  /\ mutations' = [i \in DOMAIN mutations |-> [mutations[i] EXCEPT !.untouched = @ \ {t}]]
  /\ UNCHANGED <<watched, chain, version, events, overtaken, owed>>

\* A request and its retry fail; what was shown stays.
FetchFails(t) ==
  /\ events < MaxEvents /\ fetch[t] # NoFetch
  /\ events' = events + 1
  /\ fetch' = [fetch EXCEPT ![t] = NoFetch]
  /\ UNCHANGED <<watched, chain, version, cache, mutations, overtaken, owed>>

-----------------------------------------------------------------------------
(* The optimistic hooks *)

\* Mutant: nothing is cancelled.
Cancelled_nothing(tokens) == fetch

\* cancelQueries: the answer of a request in flight is dropped.
Cancelled(tokens) == [t \in Tokens |-> IF t \in tokens THEN NoFetch ELSE fetch[t]]

\* Mutant: a request in flight is taken for the new one.
Refetched_joined(tokens) ==
  [t \in Tokens |-> IF t \in tokens \cap watched /\ fetch[t] = NoFetch THEN Asked ELSE fetch[t]]

\* invalidateQueries(['token-balance']), refetch(): the balance is asked for
\* again, and the answer of a request in flight dropped; but a first request,
\* in flight while nothing is known yet, is taken for the new one.
Renewed(tokens) == {t \in tokens \cap watched : fetch[t] = NoFetch \/ cache[t] # undefined}
Refetched(tokens) == [t \in Tokens |-> IF t \in Renewed(tokens) THEN Asked ELSE fetch[t]]

Over == [stage |-> "over", awaited |-> FALSE, change |-> None, restored |-> {},
         refetched |-> {}, previous |-> None, untouched |-> {}]

Larger(a, b) == IF a > b THEN a ELSE b
Known(tokens) == {t \in tokens : cache[t] # undefined}

\* mutate(): onMutate, after which the wallet asks for the signature.
Mutate(m) ==
  LET shown == DOMAIN m.shown IN
  /\ events < MaxEvents /\ shown # {}
  /\ events' = events + 1
  /\ fetch' = Cancelled(shown)
  /\ cache' = [t \in Tokens |->
       IF t \in Known(shown) THEN Larger(cache[t] + m.shown[t], 0) ELSE cache[t]]
  /\ mutations' = Append(
       [i \in DOMAIN mutations |-> [mutations[i] EXCEPT !.untouched = @ \ shown]],
       [stage |-> "signing", awaited |-> FALSE, change |-> m.shown, restored |-> m.restored,
        refetched |-> {}, previous |-> [t \in watched |-> cache[t]], untouched |-> shown])
  /\ overtaken' = overtaken \cup {t \in shown : fetch[t] # NoFetch}
  /\ UNCHANGED <<watched, chain, version, owed>>

\* account.execute throws: onError puts back what was known, onSettled
\* invalidates every balance.
Reject(i) ==
  LET m == mutations[i] IN
  /\ m.stage = "signing" /\ ~m.awaited
  /\ cache' = [t \in Tokens |->
       IF t \in m.restored /\ m.previous[t] # undefined THEN m.previous[t] ELSE cache[t]]
  /\ fetch' = Refetched(Tokens)
  /\ mutations' = [j \in DOMAIN mutations |->
       IF j = i THEN Over
       ELSE [mutations[j] EXCEPT !.untouched = @ \ m.restored]]
  /\ overtaken' = overtaken \ Renewed(Tokens)
  /\ UNCHANGED <<watched, chain, version, events, owed>>

\* account.execute returns the hash: onSettled, before the transaction is in
\* a block.
Submit(i) ==
  /\ mutations[i].stage = "signing" /\ ~mutations[i].awaited
  /\ mutations' = [mutations EXCEPT ![i] =
       [@ EXCEPT !.stage = "submitted", !.restored = {}, !.previous = None, !.untouched = {}]]
  /\ fetch' = Refetched(Tokens)
  /\ overtaken' = overtaken \ Renewed(Tokens)
  /\ UNCHANGED <<watched, chain, version, cache, events, owed>>

-----------------------------------------------------------------------------
(* useTransaction *)

Execute(m) ==
  /\ events < MaxEvents /\ m.change # None
  /\ events' = events + 1
  /\ mutations' = Append(mutations,
       [stage |-> "signing", awaited |-> TRUE, change |-> m.change, restored |-> {},
        refetched |-> m.refetched, previous |-> None, untouched |-> {}])
  /\ UNCHANGED <<watched, chain, version, cache, fetch, overtaken, owed>>

\* The wallet refuses (status "error"), or hands in the transaction
\* ("pending"): nothing is shown or asked for.
Answered(i) ==
  /\ mutations[i].stage = "signing" /\ mutations[i].awaited
  /\ \/ mutations' = [mutations EXCEPT ![i].stage = "submitted"]
     \/ mutations' = [mutations EXCEPT ![i] = Over]
  /\ UNCHANGED <<watched, chain, version, cache, fetch, events, overtaken, owed>>

\* waitForTransaction returns (status "success"): the hook refetches.
Succeed(i) ==
  LET tokens == mutations[i].refetched IN
  /\ mutations[i].stage = "included" /\ mutations[i].awaited
  /\ mutations' = [mutations EXCEPT ![i] = Over]
  /\ fetch' = Refetched(tokens)
  /\ overtaken' = overtaken \ Renewed(tokens)
  /\ owed' = [t \in Tokens |-> IF t \in Renewed(tokens) THEN version[t] ELSE owed[t]]
  /\ UNCHANGED <<watched, chain, version, cache, events>>

-----------------------------------------------------------------------------
(* The chain *)

\* A transaction is executed, and moves at least what was shown ...
Include(i) ==
  LET m == mutations[i] IN
  /\ m.stage = "submitted"
  /\ \A t \in DOMAIN m.change : chain[t] + m.change[t] >= 0
  /\ \E bonus \in Bonus :
       chain' = [t \in Tokens |->
         IF t \in DOMAIN m.change THEN chain[t] + m.change[t] + bonus ELSE chain[t]]
  /\ version' = [t \in Tokens |-> version[t] + (IF t \in DOMAIN m.change THEN 1 ELSE 0)]
  /\ mutations' = [mutations EXCEPT ![i] = IF m.awaited THEN [m EXCEPT !.stage = "included"] ELSE Over]
  /\ UNCHANGED <<watched, cache, fetch, events, overtaken, owed>>

\* ... or reverts.  Only useTransaction may learn of it (status "error"), and
\* only if waitForTransaction counts a reverted transaction as failed.
Revert(i) ==
  /\ mutations[i].stage = "submitted"
  /\ \/ mutations' = [mutations EXCEPT ![i] = Over]
     \/ mutations[i].awaited /\ mutations' = [mutations EXCEPT ![i].stage = "included"]
  /\ UNCHANGED <<watched, chain, version, cache, fetch, events, overtaken, owed>>

Transfer(t) ==
  /\ events < MaxEvents /\ t \in watched
  /\ events' = events + 1
  /\ chain' = [chain EXCEPT ![t] = @ + 1]
  /\ version' = [version EXCEPT ![t] = @ + 1]
  /\ UNCHANGED <<watched, cache, fetch, mutations, overtaken, owed>>

Next ==
  \/ \E t \in Tokens : Poll(t) \/ Read(t) \/ Deliver(t) \/ FetchFails(t) \/ Transfer(t)
  \/ \E m \in OnPage[watched] : Mutate(m)
  \/ \E m \in AwaitedOnPage[watched] : Execute(m)
  \/ \E i \in DOMAIN mutations :
       Reject(i) \/ Submit(i) \/ Answered(i) \/ Succeed(i) \/ Include(i) \/ Revert(i)

\* The timer fires, and the node answers.  Neither the user nor the chain
\* has to do anything.
Fairness == \A t \in UNION Pages : WF_vars(Poll(t)) /\ WF_vars(Read(t)) /\ WF_vars(Deliver(t))

Spec == Init /\ [][Next]_vars /\ Fairness

-----------------------------------------------------------------------------
(* Properties *)

\* onMutate: "Cancel any outgoing refetches to prevent overwriting optimistic
\* update": no answer asked for before an optimistic update replaces it.
NoStaleOverwrite == [][\A t \in Tokens : Deliver(t) => t \notin overtaken]_vars

\* onError: a refused mutation leaves no trace on the balances that nothing
\* else has written since.
RefusalLeavesNoTrace == [][\A i \in DOMAIN mutations :
  Reject(i) => \A t \in mutations[i].untouched : cache'[t] = mutations[i].previous[t]]_vars

\* useTransaction: what is shown after "success" of a balance that the hook
\* refetches includes the transaction, if the balance was known at "success"
\* or not being asked for.  (A first request still in flight then may have
\* been answered before the transaction, and the refetch does not replace it.)
SuccessIsSeen == [][\A t \in Tokens : Deliver(t) => fetch[t].version >= owed[t]]_vars

\* refetchInterval: whatever was shown in advance, rolled back in a wrong
\* order, lost or missed, the page ends up showing the balances of the chain.
CatchesUp == <>[](\A t \in watched : cache[t] = chain[t])
=============================================================================

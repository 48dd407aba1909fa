# Formal models of Horizon Protocol

Horizon is a yield-tokenisation protocol on Starknet. A yield-bearing asset is
wrapped as SY; SY is split into PT (principal, redeemable after expiry) and YT
(the yield until expiry); PT trades against SY in an expiring AMM. The contracts
(`contracts/src`, Cairo) hold the assets. Around them the repository has a
frontend that builds transactions, an indexer that turns events into tables,
and scripts that deploy and upgrade. This directory holds TLA+ models of these
parts, TLC configurations that check them on small instances, and TLAPS proofs
that hold for every value of the constants.

All paths below are relative to the repository root.

## The system

| Component | Files | State | Operations |
|---|---|---|---|
| SY token | `contracts/src/components/sy_component.cairo`, `tokens/sy.cairo`, `tokens/sy_with_rewards.cairo` | ERC20 balances, rate watermark, allowed tokens in and out, pause flag | deposit, redeem, transfer, exchange_rate, pause |
| PT token | `tokens/pt.cairo` | ERC20 balances, its YT, pause flag | mint and burn (YT only), transfer, initialize_yt |
| YT token | `tokens/yt.cairo` | ERC20 balances, PY index and its same-block cache, index at expiry, per-user interest checkpoints, cached SY reserve, treasury counter, fee rate | mint_py, redeem_py and their batch forms, redeem_py_with_interest, redeem_py_post_expiry, redeem_due_interest, flash_mint_py, update_py_index, treasury claim, admin calls |
| Reward manager | `components/reward_manager_component.cairo` (embedded in SYWithRewards, YT and Market) | per reward token: global index and last seen balance; per user: index and accrued rewards | hook before every balance change, claim_rewards |
| Fixed-point math | `libraries/math.cairo`, `libraries/math_fp.cairo` | none | WAD and 64.64 arithmetic |
| Market | `market/amm.cairo`, `market/market_math_fp.cairo` | SY and PT reserves, LP supply, fee counter, implied rate, TWAP ring | mint, burn, four swaps, skim, collect_fees, oracle calls, admin calls |
| TWAP library | `libraries/oracle_lib.cairo` | ring buffer of cumulative rate observations | initialize, write, grow, observe |
| Index oracle | `oracles/pragma_index_oracle.cairo` | stored index, pause flag, configuration | update_index, index, emergency_set_index, pause |
| LP price oracles | `oracles/py_lp_oracle.cairo`, `oracles/pt_yt_lp_oracle*.cairo` | none | views over Market and YT |
| Factories | `factory.cairo`, `market/market_factory.cairo` | registries, fee configuration, class hashes | create, set configuration |
| Router | `router.cairo` | pause flag, reentrancy lock; no balances between calls | multi-step flows over SY, YT, Market and an aggregator, multicall |
| Router previews | `router_static.cairo` | none | views |
| Transaction hooks | `packages/frontend/src/features/*/model`, `shared/starknet/transaction-builder.ts` | none of their own | build a multicall, show its effect in advance, roll that back |
| Balance cache | `features/portfolio/model/useTokenBalance.ts`, `shared/hooks/useTransaction.ts`, `providers/QueryProvider.tsx` | cached balances, requests in flight, pending mutations | poll, cancel, update, roll back, refetch |
| Indexer process | `packages/indexer/src/indexers`, `lib/plugins.ts`, `start.sh` | tables, cursor and filters in the database; stream filter in memory | discover, transform, commit, undo, restart |
| Event decoding | `packages/indexer/src/lib/validation.ts`, `lib/utils.ts`, `schema/index.ts` | none | validate, decode, fill the columns |
| Indexer maintenance | `packages/indexer/scripts`, `lib/health.ts` | none | empty tables, health answers |
| User interface | the rest of `packages/frontend` | view state | pages, charts, read-only API routes |
| Deployment scripts | `deploy/scripts/deploy.sh`, `upgrade.sh`, `reset-env.sh` | `.env` file, exported addresses; the chain | declare, deploy, record, create pairs and markets, upgrade, reset |
| Other scripts | `mainnet.deploy.sh`, `deploy-fork.sh` | the same | the same steps without resuming |

### How the parts interact

* The caller of YT and Market operations does not pass amounts: it first
  transfers tokens in, and the operation consumes what floats. What floats is
  the difference between a balance and a cached reserve, so staged tokens of
  one actor are within reach of the next caller.
* YT reads the SY exchange rate on almost every call. SY reads it from an index
  oracle. YT keeps a watermark (the PY index), a same-block cache of it, and
  freezes it at the first call after expiry.
* YT drives PT: it is the only minter and burner.
* Every transfer of YT, SYWithRewards and LP tokens first runs the reward hook
  for both parties.
* Market asks YT for the PY index before every trade and writes the previous
  implied rate into the TWAP ring before replacing it.
* flash_mint_py and the Market swaps call back into the caller.
* Router stages tokens at YT, SY and Market, calls them and passes on what they
  answer. It holds nothing between calls, and keeps allowances only to markets.
* A hook of the frontend asks the account for one multicall: approvals, as the
  cached allowance suggests, and one call of Router, SY or YT. The wallet may
  refuse, the transaction may revert, and the page learns of neither directly.
* The factories' events tell the indexer which SY, YT and Market contracts to
  follow; the tables are only as complete as this discovery.
* The scripts write addresses and class hashes into `.env`; the next run trusts
  them, and frontend and indexer take their constants from the export.

### What is hard, and what has to hold

The contracts run single-threaded, every call is atomic and a failed call
reverts, so there is no preemption inside a call. What makes them hard:

* **Order of calls by different actors.** Anyone may call between two calls of a
  user: staged tokens, the first sync of a block, the first call after expiry,
  the first mint of an empty pool are races.
* **Cached state.** The SY reserve of YT, the reserves of Market, the PY index
  and its same-block cache, the last seen reward balance and the stored rate of
  the TWAP are copies of something that changes without them.
* **Callbacks.** A flash mint runs its receiver's code in the middle of a call;
  Market has no reentrancy guard.
* **Rounding.** WAD numbers are converted to 64.64 numbers and back around each
  operation, always downwards; the sums of many rounded claims draw on one
  balance, and what is rounded down as a divisor is rounded up in the result.
* **Boundaries.** Expiry, a full or growing ring, an empty pool, an empty reward
  supply, the 96% limit of PT in a pool.
* **Pauses.** Three tokens and a market are paused separately.

Outside the contracts nothing is atomic but a database transaction, a
transaction of the chain and a JavaScript task:

* **Reorganisations.** The indexer writes blocks that may be orphaned, and whose
  transactions may return elsewhere with the same hash.
* **Crashes and restarts.** The indexer may end between any two steps, a stream
  may stay silent; a script may end between a deployment and its record, and takes
  the first hexadecimal text for an answer, also out of an error message.
* **Interleavings.** Polls, optimistic updates, refusals, confirmations and
  transfers by others reach one cache in any order.
* **Hand-made encodings.** Calldata and event words are put together and taken
  apart felt by felt, against interfaces kept in another language.

| Component | Correct when |
|---|---|
| YT and PT | what YT copies agrees with what it is copied from, in callbacks too (`Consistent`), the view of the index is the index (`ViewAgrees`), what is owed never outgrows what backs it beyond rounding (`Solvent`), interest is earned only by holding YT while the index grows (`NoUnearnedInterest`) and lost only by being paid, up to rounding (`ClaimsOnlyPaidOut`), the index never falls and freezes once captured (`IndexWatermark`), pauses of PT and YT lock nobody in (`WaysOutOpen`) |
| Reward manager | what it remembers agrees with balances and holdings (`Consistent`), all claims are covered (`RewardsCovered`), no arrival is hidden (`NothingSwallowed`), moving shares moves no rewards (`NoUnearnedRewards`), claims are paid in full (`RewardsOnlyPaidOut`) |
| TWAP ring | what is stored is exact and in order (`Consistent`), each target in reach is answered exactly (`ObserveExact`), history is dropped only when the ring is full (`HistoryKept`) |
| Market | reserves never exceed balances (`Consistent`), nothing is paid out of tokens that are not reserves (`SurplusUntouched`), mints take nothing from the shares that are there and burns at most rounding (`SharesNotDiluted`), swaps cost the providers at most rounding (`SwapCostsOnlyDust`), no reserve is emptied under the shares (`ReservesPositive`) |
| Router and hooks | a call leaves nothing behind but what its own aggregator did not do as it said (`NothingLeft`), takes no more and brings no less than agreed (`Agreed`), leaves no larger allowance (`AllowancesSpent`), is shown in advance for no more than it guarantees (`ShownIsGuaranteed`), is estimated as it is submitted (`EstimateIsTrue`) and can be read by the entry point (`CalldataFits`) |
| Balance cache | no older answer replaces an optimistic update (`NoStaleOverwrite`), a refusal leaves no trace (`RefusalLeavesNoTrace`), what is refetched after success includes the transaction, unless the refetch joins the first request (`SuccessIsSeen`), and the page ends up with the balances of the chain (`CatchesUp`) |
| Indexer | tables, cursor, filters and process agree (`Consistent`), the tables are always those of one chain of blocks (`ImplementsTable`), rows say what the events said and every kind of event is asked for (`DecodedAsEmitted`), and the tables reach the head of the chain, or a block with a row they cannot hold, unless leftover triggers keep the process down (`CatchesUp`) |
| Deployment | recorded and exported contracts belong together, PT and YT of one expiry included, and the export is complete (`Linked`), none is lost (`NoOrphans`) or replaced (`RecordedStays`), recorded classes exist (`HashesDeclared`), each but for names that a failed command set; a script ends for a reason (`EndsWell`) |
| SY token | the records of the rate agree and losses are announced (`Consistent`), the tokens cover the shares together and every holder can leave, paused or not (`ExitOpen`) |
| Index oracle | what was recorded is the least it answers ever after, although the view does not store (`RecordedIndexKept`) |
| Factories | a registry never forgets or replaces an entry (planned) |

## The modules

    MathFp ---- YieldToken ---- YieldToken_proofs
       |   \--- Market -------- Market_proofs
       |   \--- RewardManager - RewardManager_proofs
       |   \--- IndexOracle --- SYToken ---- SYToken_proofs
       |                           \------- MCSYToken
       \------- MathFp_proofs   (arithmetic that these four proof modules cite)
    OracleLib - TwapOracle ---- TwapOracle_proofs
    Router ---- Hooks --------- Wallet
                     \--------- BalanceCache - BalanceCache_proofs
    EventRows - Indexer ------- Operations_proofs
       |            \---------- MCIndexer
       \------- EventTable      (instantiated by Indexer: what it implements)
    EventLayouts - EventDecoders - MCIndexer
    Deploy -------------------- Operations_proofs

A line means EXTENDS, from left to right. The TLC configurations carry the name
of the module they check (`Indexer_core` and `SYToken_core` of what MCIndexer and
MCSYToken instantiate).

Six modules define `Consistent`: the conjunction of the type invariant and of
the parts that the code keeps in agreement. It is the inductive invariant, so
TLC checks the same formula that the proofs are about:

| Module | Parts of `Consistent` |
|---|---|
| YieldToken | `TypeOK`, `ReserveBacked`, `SupplyParity`, `CheckpointsBehindIndex`, `CacheCoherent` |
| RewardManager | `TypeOK`, `LastBalanceBacked`, `HoldersCheckpointed`, an index of at least WAD, `SupplyHeld`, `EntitlementsCovered` |
| TwapOracle | `TypeOK`, `ObservationsTrue`, `RingOrdered`, `OldestIsOldest`, `SegmentsStraight` |
| Market | `TypeOK`, `ReservesBacked` |
| SYToken | `TypeOK`, `LossesAnnounced`, `AtLeastOne` |
| Indexer | `TypeOK`, `NoPhantomRows`, `NothingMissed`, `RestartKeepsWatching`, `WatchesAnnounced` |

### MathFp

`libraries/math_fp.cairo`: `wad_mul`, `wad_div`, the upward divisions and the
SY/asset conversions. A product or quotient of WAD numbers goes through cubit's
64.64 format and truncates at each of its three or four steps; the model keeps
each truncation. `WAD` and `CUBIT_ONE` (10^18 and 2^64 in the code) are
parameters. Their ratio is 18.446... in the code and 18.375 (147 and 8) in `yt_core`
and `market_core`, so conversions lose units and divisors are rounded there as
they are on chain; it is 1 in the other runs, which use `WAD` alone or, in
`yt_full_backing`, need no rounding for their answer.

### IndexOracle and SYToken

`IndexOracle` is `oracles/pragma_index_oracle.cairo`: the recorded index and what
`index()` answers from one feed or from the ratio of two, with the scaling by
decimals. The feed is Pragma's: it may quote any price or fail at any time
(`NewQuote`). `update_index` and `emergency_set_index` record, the pauses choose
between feed and record.

`SYToken` is `components/sy_component.cairo` with the hooks of `tokens/sy.cairo`,
extends it, and reads its rate from that oracle or from a vault. The accepted
tokens of either direction are chosen at the start. `deposit`, `redeem` (from the
caller or, with `burn_from_internal_balance`, from the contract's own SY) first
record the rate and emit the events about it (`notices` are those of the last
call); `transfer` stands for both transfers; `Donate` is a transfer of an
underlying token by anybody. `RateAnswers` is false where reading the rate
panics, and the call with it.

### YieldToken

`tokens/yt.cairo` with the PT ledger of `tokens/pt.cairo`, and SY as YT sees it.

* State: the storage variables of YT under their names; `user_interest_state` is
  split in its two halves. `sy`, `pt` and `yt` are ERC20 balances. `rate` is what
  `SY.exchange_rate()` answers; it moves at any time and in both directions, also
  within a block. `expired` and `cacheFresh` are what the code derives from the
  block's time and number.
* One action per entry point: `mint_py`, `mint_py_multi`, `redeem_py`,
  `redeem_py_multi`, `redeem_py_with_interest`, `redeem_py_post_expiry`,
  `redeem_due_interest` (the variant with rewards changes the same state here),
  `update_py_index`, `redeem_post_expiry_interest_for_treasury`,
  `set_interest_fee_rate`, `pause`, `unpause`, the three plain transfers,
  and the environment's `RateChange` and `NextBlock`.
* `flash_mint_py` is the one call with a callback in the middle. It is split:
  `FlashMintBegin` up to the callback, `FlashMintEnd` from there on. In between,
  only the receiver acts, and only through calls that the reentrancy guard
  permits. A receiver that does not repay makes the whole call revert; in the
  model its steps are a dead end that `FlashMintEnd` does not leave. The
  properties cover these states too (`Solvent` counts `flash.due` as the backing,
  the SY that the call must leave behind), except for `FullyBacked` and
  `WaysOutOpen`, which are about the states between calls.
* The holders of claims are `Users` and `Treasury`; the treasury may trade like
  anybody. `PARTS` belongs to the properties: a common multiple of the rates, in
  parts of which what is owed can be written without rounding.
* Assumed: the treasury address is set; 256-bit overflow reverts and is not
  reached; batches have two entries.

### RewardManager

`components/reward_manager_component.cairo`. The host's ERC20 hook
(`update_rewards_for_two`, before every change of balances) is part of `Mint`,
`Burn` and `Transfer`; `claim_rewards` and `update_user_rewards` are the other
entry points, `RewardsArrive` is a transfer of reward tokens to the host. The host itself may hold
shares (YT does while tokens are staged), and a claim for it pays rewards to
itself; both are in the model. Reward tokens are assumed to be none of the
tokens the host keeps for other reasons: the code cannot tell them apart and
would count a deposit as rewards.

### OracleLib and TwapOracle

`OracleLib` has the pure functions of `libraries/oracle_lib.cairo`, binary search
included (a recursive function, not a RECURSIVE operator). `TwapOracle` is the
part of `market/amm.cairo` that uses them: `_update_implied_rate` (with which
every state-changing Market call ends), `increase_observations_cardinality_next`
and the reads. The value of a new rate is free. The history variable `truth` is
the exact sum of the rate over time and is what the ring is compared with.

### Market

`market/amm.cairo` with the trade, mint and burn formulas of
`market/market_math_fp.cairo`.

* State: reserves, shares and the fee counter under the code's names, and the
  balances of SY and PT, which the reserves are cached copies of.
* One action per call: `mint` (its first and its later form), `burn`,
  `burn_with_receivers`, the four swaps, `skim`, `collect_fees`, pausing. Tokens
  sent to the pool (`Donate`), share transfers, growth of the PY index and expiry
  are the environment.
* The curve is free: a trade happens at any exchange rate of `CurveRates` and any
  effective fee of `FeeRates`, both at least 1, as `get_exchange_rate` and the fee
  formula guarantee. Everything computed from them is as in the code. So the
  properties hold for every curve, and say nothing about the price being right.
* The two searches (`swap_exact_sy_for_pt`, `swap_pt_for_exact_sy`) settle for
  any amount that meets their condition; the code's bisection finds one of them.
* `get_ln_implied_rate` reverts above 96% PT; that is kept as a guard of every
  call that ends with it.
* Where the curve alone decides that a call reverts (a rate below 1 at the first
  mint, a bisection that meets an impossible price), the model lets it succeed:
  it has more behaviours than the code there, never fewer.
* A swap's callback is its last step, after all effects and transfers, so what
  the caller does in it is the next action.
* Receivers are callers except in `burn`: another receiver amounts to a transfer
  afterwards.
* Left out: `set_scalar_root` (only changes the curve), the 128-bit limit of the
  packed reserves (reverts), SY being paused, slippage limits (the caller picks the
  amounts anyway), previews.

### Router, Hooks and Wallet

`contracts/src/router.cairo`, the hooks of `packages/frontend` that trade, mint,
redeem, wrap and move liquidity, and accounts that use both.

* `Router` has one operator per entry point: the sequence of transfers,
  approvals, mints, burns and assertions of its one transaction, in the order of
  the code. `Executed` runs such a sequence on a world of balances and
  allowances, and fails as a whole when a step fails. What a pool answers is the
  argument `x`; what the YT mints and redeems follows from what floats there, so
  tokens left there by others count. The aggregator is whatever contract the
  caller names: of what it may spend it leaves `trade.untaken`, it delivers
  `trade.delivered` and reports `trade.reported`, all three independent. On the way
  into SY the router deposits what was reported (`Wrapped`), on the way out it
  measures what arrived (`Measured`); `NothingLeft` says what is left or drawn on
  in either case, and that nothing else is.
* `Hooks` has per hook the multicall it submits (`..._mutationFn`, `build...`),
  the change it shows before the confirmation (`..._onMutate`) and what it puts
  back (`..._onError`). Approvals depend on a cached allowance, which is any value.
  Where the code builds the calls a second time for the estimate of the fee,
  so does the module. `Parameters` are the signatures of the entry points whose
  calldata the frontend puts together by hand.
* `Wallet` submits them: one action per hook, direct calls of the router by an
  account, tokens sent to a contract by mistake, and expiry.
* Left out: claims of interest and rewards, the faucet, `multicall`, roles. The
  pools' balances are not kept: pools answer anything, `Market` says what they do.

### BalanceCache

`useTokenBalance`, the optimistic hooks and `useTransaction` over the
react-query cache. A page shows some tokens; `Mutate`, `Reject` and `Submit` are
onMutate, onError and onSettled; `Execute`, `Answered` and `Succeed` are
useTransaction; `Poll`, `Read`, `Deliver` and `FetchFails` are a request and its
end; `Refetched` is an invalidation, which replaces a request in flight only
where something is cached, and otherwise joins it, as react-query's `fetch`
does; `Include`, `Revert` and `Transfer` are the chain. What the hooks show and
restore comes from `Hooks`. `version`, `overtaken` and `owed` only serve the
properties. Each handler is one step although it awaits, because what it awaits
is resolved before the next answer or timer is served.

### EventRows, EventTable, Indexer and MCIndexer

* `EventRows` defines blocks, events, the rows a block gives, and which contracts
  a chain announces.
* `EventTable` is the promise to the readers of the tables: the table is always
  that of one chain of blocks, extended by whole blocks or cut back.
* `Indexer` is one process: `Discover` (factory() extends filters and stream),
  `Deliver` and `Commit` (transform() and the transaction that writes rows and
  cursor), `CommitFails` (a row that its column cannot hold, outside of the try
  around each event), `Invalidate` (the plugin's undo), `Crash`, `Hang`,
  `StreamTimeout`, `Boot` and `StartUp`, between which a crash may leave triggers
  that make every later `Boot` fail until `Restart`, a new start of the container,
  drops them; and the chain, `ProduceBlock` and `Reorganise`. The database is
  `rows`, `checkpoint`, `filters` and `triggers`, the memory of the process
  `watching` and `block`. The cursor is kept as the blocks it stands for.
* All six indexers are instances: those of factories and router have no
  discovery (everything is `Known`), those of SY, YT and Market do.
* The Apibara plugin and stream are external; how rows are undone and filters
  persisted is modelled from what the indexers configure.

### EventLayouts and EventDecoders

All 55 kinds of event: the layout in the ABI, the columns of the table, the
schema of `validation.ts`, the decoder of the branch in transform(), and the
filters for listed and for discovered contracts. A word is the name of the member
it comes from and the part it is (felt, half of a u256, piece of a byte array
of varying length), so a column filled from the wrong word shows. `MCIndexer`
composes this with `Indexer`: an event of the small instance stands for an event
of any kind.

### Deploy

The three scripts against one `.env` and one chain. A script is the list of
commands it still has to execute; what it keeps in shell variables is lost when
it ends. `Fails` and `Interrupt` end it at any command, and the source may be
edited between runs. The error paths are those of the scripts:

* `Submitted`: a transaction was executed, and sncast says so, or fails all the same,
  or its answer has no address ("Could not extract address"); then the script ends
  and what it deployed is not recorded. That sncast reports a success and the
  transaction is not executed is assumed not to happen.
* `declare_class` records the first hash in what sncast prints, also when the
  declaration failed; `call_contract` records the first 0x string whether or not
  the read failed, and PT and YT of a pair even when there is none.
  `get_new_class_hash` of `upgrade.sh` takes the first 0x string too. These strings
  are `Hexes`, and `misread` remembers the names they reached until they are set
  properly or reset: those names, and no others, are excused by the properties.
* `upgrade_contract` of an address that belongs to something else replaces the class
  of that (`Replaced`), or fails with or without an effect.

Class hashes are numbers of versions of the source: equal only for the same class
and version, except that an error message may hold one of them. `update_env` is one
step; its last line empties `.env` before writing it, and an interruption inside
that line, which would lose every name, is not modelled.

Deployments are idempotent by name as in
`deploy_contract` ("Check if already deployed"). `upgrade.sh` goes through all
upgradeable classes and passes over those that were not selected. One module holds
the proofs about this module and Indexer, hence the names `DeployInit`, `DeployNext`
and `DeploySpec`.

## Runs

| Run | Question | Result |
|---|---|---|
| `sy` | deposits and exits over several tokens, the rate from a vault or from feeds that fail | holds |
| `yt_core` | the whole life of a pair with a user and the treasury as holders: all operations, batches with different receivers, a rate that moves both ways, lossy conversions, PT and SY paused at any time | holds |
| `yt_full_backing` | is everything owed covered after expiry too? | no |
| `rm_core` | reward accounting under any order of movements and arrivals | holds |
| `twap` | the ring against the exact sum of the rate | holds |
| `market_core` | the pool with a treasury that takes 75% of the fees: all calls in any order | holds |
| `router` | every hook and entry point, with pools and aggregators that answer anything and tokens left everywhere | holds |
| `client_wrap` | can the entry points read the calldata? | no |
| `balances` | one or two balances on a page, two events of any kind in any order | holds |
| `indexer` | discovery, reorganisation, crash, silent stream, rows that do not fit, leftover triggers, restart; all decoders | holds |
| `deploy` | two runs of the scripts and resets between them, stopped anywhere, with answers of sncast that are lost or misread | holds |
| `upgrade` | does a script end only for a reason? | no |

### What the violated runs show

* `yt_full_backing`: the treasury's post-expiry claim is computed in assets,
  `total_yt * (current - expiry) / expiry`, and paid as SY, from the same SY that
  backs the PT. `redeem_py_post_expiry` already gives the PT its share at the
  expiry index, so what remains owed exceeds what is held. `Solvent` is the form
  that does hold: up to rounding everything is covered except for what the
  treasury was paid (`post_expiry_sy_for_treasury` counts as backing).
  The whitepaper (`whitepaper/sections/05_economic_analysis.tex`) says
  redemption cannot run out.
* `client_wrap`: the frontend passes SY.deposit and SY.redeem a parameter less
  than they have (`transaction-builder.ts:83-130` against
  `contracts/src/interfaces/i_sy.cairo:36-58`), so wrapping, unwrapping, the
  simple deposit and the simple withdrawal revert.
* `upgrade`: `((UPGRADES_NEEDED++))` has status 1 when the counter was 0, which
  under `set -e` ends `upgrade.sh` at the first class it looks at. The properties
  of `deploy` hold of both readings of that command: older shells go on.

Before expiry the code can overpay too, but only by rounding: `redeem_py` and the
interest divide by an index that was rounded down to 64.64, so the sum of what is
paid can exceed the SY by a few parts in `WAD` and `CUBIT_ONE`. An exact form of
`Solvent` therefore fails (`WAD` 8, `CUBIT_ONE` 147, rates 8 and 11, `InitialSY` 80:
a principal of 58 and interest of 23 are paid from 80), and the last holder's call
would revert for a unit. `Solvent` bounds the gap by what each call pays and
credits: at the scale of the code about one part in 10^18 and four in 2^64 of it.

The three largest runs are `indexer` (709,864 distinct states), `balances`
(531,088) and `deploy` (518,756).

### Deadlock and fairness

Contracts act only when called, and nothing in the code guarantees that anybody
calls: their models state no fairness and no liveness. What matters instead is
that a call is possible when it should be, which `WaysOutOpen` says with
ENABLED, of whoever the SY suffices for (that it does is `Solvent`). Deadlock
checking is on for them. It is off for `Wallet`, `BalanceCache`, `Indexer` and
`Deploy`, which stop when the bounded number of events is used up and nothing is
left to do.

* Indexer: weak fairness of `Work`, the steps the process itself takes. A running
  process goes on; `run_indexer` of `start.sh` restarts one that ended, for ever;
  the five minute timeout ends one whose stream is silent. The chain and failures
  are not fair: they may stop, and `CatchesUp` says what follows when they do.
  `Restart` is not fair either: nothing in the repository starts the container
  again, so `CatchesUp` leaves out the runs in which triggers stay behind.
* BalanceCache: weak fairness of `Poll`, `Read` and `Deliver`: the timer of
  `refetchInterval` fires every 15 s and the node answers. No user and no
  transaction has to proceed. A request may fail together with its retry, a
  bounded number of times.

### Bounds

| Bound | Value | Why it is enough |
|---|---|---|
| `WAD`, `CUBIT_ONE` | 8 and 147 in `yt_core` and `market_core`; 2 to 10 in the others | the ratio of the code to 0.4%, not an integer either: every conversion loses units, and a divisor is rounded often enough for a payment to come out a unit too high |
| `Rates`, `Indexes` | 8 and 11; 8 and 12 | a rise and a fall, the fall below a watermark; 40/11 and 8/12 do not come out even |
| `InitialSY`, `Amounts`, `BatchAmounts`, `PARTS` of YieldToken | 40, {40}, {15, 25}, 88 | one position, opened and closed whole or in two parts by a batch, large enough against `WAD` for interest to be more than rounding; 88 = 8 * 11. The proofs have no bound |
| `Pausable` | PT and SY, in `yt_core` | a paused YT and a paused PT refuse the same calls, so PT stands for both |
| SYToken: `MaxShares`, `MaxDonated`, `Tokens`, `Answers` | 2, 1, 2; 1, 1.5 and 0 | SY from both tokens leaves through either; quotes with fewer and more decimals than the index, a ratio that rounds, feeds that fail and a denominator of 0 |
| `RewardSupply`, `MaxShares`, `MaxIndex` | 3, 3, 5 | arrivals of less than one index unit per share occur, so truncation does |
| `MaxTime`, `MAX_CARDINALITY` | 5 seconds after the start, 4 slots | the ring fills, grows from any index and wraps, with several seconds between observations |
| `MaxLp`, `MaxFees`, `InitialTokens`, `Amounts` of Market | 4, 2, 6, {2, 4, 5} | the pool is entered twice, left in parts, emptied and entered again, by amounts in and out of proportion to it |
| `MINIMUM_LIQUIDITY`, `MAX_PROPORTION` | 1, 6/8 | the limit on PT is reached by swaps, burns and skims |
| `CurveRates`, `FeeRates`, `ReserveFeePercent` | 9/8; 1 and 6; 75 | a rate that truncates, trades with and without a fee, a fee of which part leaves and part stays |
| Wallet: `MaxCalls`, `MaxGifts`, `Amounts`, `Answers` | 1, 1, {2, 4}, {0, 2} | the properties are about one call from any state; gifts, cached allowances and expiry provide the disturbed states, answers fall short of and meet what is asked |
| BalanceCache: `Pages`, `MaxEvents` | SY with PT, LP alone; 2 | two mutations overlap, or one with a transfer or a failed request; two tokens show that each is restored |
| Indexer: `MaxHeight`, `MaxBlockSize`, `MaxReorgs`, `MaxFailures` | 2, 2, 2, 1 | announcement and events in one block and in two, before and after the cursor, orphaned and back again, and again; the proofs have no bound |
| Deploy: `Pairs`, `MaxRuns`, `MaxVersion`, `Hexes`, `MaxMisread` | 2, 2, 2, {1}, 1 | an interrupted run and its resumption, a reset and a new deployment, an upgrade of what is complete or half done, with two instances; resets are not counted; one pair recorded, the other half done; the 1 of a message names the first contract as an address and the first version as a hash, so it is sometimes right by chance; one misread name at a time, the others go on from it; the proofs have no bound |

The cubit square root is bounded by `RootBound`, above which a first mint would
exceed `MaxLp`. Batches of two suffice for the sum of their amounts to be
compared with what floats. Flash mints use the amounts of `Amounts`.

## Proofs

All proofs hold for every value of the constants that meets the named
assumptions of the modules: any number of users and tokens (finite: an address is
a felt252), rates of at least `WAD`, fees, amounts, any `CUBIT_ONE >= WAD`; any
rates, times and number of slots; any contracts, events and blocks, and any
number of reorganisations and failures; any finite set of pairs, any selections of
`upgrade.sh`, any texts in error messages, any number of runs, of misread names and
of versions of the source. `MAX_PROPORTION < WAD` is the code's 96%.
`PARTS` is any common multiple of the rates and constrains nothing else.

| Module | Theorems |
|---|---|
| `MathFp_proofs` | products, divisions and sums (what a total over accounts does when one summand changes, when all are scaled or when two functions are added); types, monotonicity and rounding of the fixed-point operations; `RoundTripNeverProfits`: SY to assets and back at one index never gains |
| `YieldToken_proofs` | `Safety`, and from it `TypeCorrect`, `ReserveIsBacked`, `SuppliesPaired`, `CheckpointsBehind`, `ViewIsExact`, `IndexIsWatermark`; `SolventUpToRounding` with `NothingOwedAtFirst`, `ClaimsAreOnlyPaidOut`, `InterestIsEarned` |
| `RewardManager_proofs` | `Safety`, `TypeCorrect`, `LastBalanceIsBacked`, `EveryHolderCheckpointed`, `IndexOnlyGrows`; `ClaimsAreCovered`, `NothingUnearned`, `OnlyPaidOut`, `SeenIsSpread` |
| `Market_proofs` | `Safety`, `TypeCorrect`, `ReservesAreBacked`, `SurplusIsUntouched`; `ReservesStay`, `SharesKeepTheirValue`, `SwapsCostOnlyDust` |
| `TwapOracle_proofs` | `Safety`, `HistoryIsKept`, `EveryTargetAnswered` |
| `SYToken_proofs` | `Safety`, `ExitStaysOpen`, `RecordedIndexIsKept` |
| `Operations_proofs` | of Indexer: `Safety`, `IndexerImplementsTable`; of Deploy: `DeployInvariant`, `AlwaysLinked`, `NothingOrphaned`, `OnlyDeclared`, `RecordsStay` |
| `BalanceCache_proofs` | `Safety`, `NothingStaleShown`, `RefusalsLeaveNoTrace`, `SuccessesAreSeen` |

`Safety` is `Spec => []Consistent` in each.

**Sums and recursion.** `SumFunction` is a fold, a function defined by recursion
over the finite sets, and the library's induction theorems cannot be used here.
`MathFp_proofs` shows instead that a non-empty set of numbers has a least
element and a non-empty family of subsets of a finite set a minimal one
(`LeastNumber`, `MinimalSubset`, from the well-foundedness of the library), that
the recursion of the fold therefore has a solution (`FoldExists`), and proves
facts about sums by a minimal counterexample. The binary search of the ring is
treated the same way.

**YieldToken.** The strengthening is `CacheCoherent`: a fresh cache holds the
stored index and exists only before expiry, and an index is captured only after
it. `ViewAgrees` follows from it and could not be proved alone, because nothing
else ties the cache that the view reads to the stored index that the next call
uses. `Rates >= WAD > 0` is needed so that 0 can mean "no checkpoint" and "not
captured". Each action has a lemma, and shared helpers (sync, checkpoint,
payout) have one each.

`Solvent` and `ClaimsOnlyPaidOut` compare what is owed before and after a call.
`InterestBounds` and `PrincipalBounds` say how far the code's interest and
principal, through three truncated conversions, may be from the exact value in
parts of 1/`PARTS`, on either side. Every step is then shown to be of one shape: it
`Accrues`, that is it moves the checkpoints of some holders to one index and pays
interest to at most one of them, and it is `Funded`, that is the change of the PT
supply is met by the change of the backing up to the rounding of the principal that is
paid (the `Balanced...` lemmas, one for each action, `NextBalanced`). `OwedTotals`
sums the holders and `SolvencyStep` adds both up: a rising index moves worth from
PT to YT without changing their sum because of `SupplyParity`, which is why that
invariant also says that the supply of YT is the sum of its balances.
`NothingOwedAtFirst` is the start, so that the bounds of the steps add up to one
on the gap of any history.

**RewardManager.** The invariant relates checkpoints, the global index and the
balance seen last. The index starts at `WAD`, so a checkpoint of a holder is
never 0, which the code reads as "never interacted". `RewardsCovered` is not
inductive, since it speaks of rounded claims: `EntitlementsCovered` says the same
before rounding, in parts of 1/`WAD`, and `SupplyHeld` that the supply the index
is spread over is what the holders have. The action properties follow from what
the hook does to the claims of the two parties and leaves alone of all others
(`ClaimAfterHook`, `StepKinds`).

**Market.** `TypeOK` and `ReservesBacked` are inductive together: each call
checks the reserve it takes from. The work is in the types: that no trade gives the
treasury more than its fee (`Trades`) needs the monotonicity of `wad_div` through
the 64.64 format, and that a purchase divides by no zero needs the assertion
on the exchange rate. `SurplusIsUntouched` follows from the same lemmas, since they
track reserves and balances side by side.

For `ReservesPositive` a burn has to leave something: what it pays out exceeds its
exact share only because the supply it divides by is rounded down, by less than
`WAD / CUBIT_ONE` of a share, and at least one share remains (`BurnBound`,
`BurnLeaves`); swaps end with a rate, which the guards on the proportion of PT
deny to an empty side (`NoRateAfter`). `SharesNotDiluted` sharpens the same bound.
`SwapCostsOnlyDust` follows a trade through its products and quotients, each with
its loss (`ProductLoss`, `QuotientLoss`): those of a sale all favour the pool,
those of a purchase lose at most the bound that the property states.

**TwapOracle.** A stored sum is right because it was right when it was the newest
and the past is not rewritten. That the slot taken for the oldest is the oldest
does not follow from that: it needs `RingOrdered`, the order of all written slots
around the ring and that unwritten ones lie only behind it. This survives growth
only because the ring grows when its newest observation is in its last slot,
which is what `write` of `oracle_lib.cairo` waits for.

`ObserveExact` needs two things more: that the sum is straight between
neighbours (`SegmentsStraight`, a part of the invariant), so that interpolation divides
without remainder, and that the binary search of `oracle_lib.cairo` ends with the two
neighbours of the target (`SearchFinds`: the interval halves and always
has the target inside, over the slots in the order of the ring, `RingIsChain`).

**SYToken.** The types need that a feed which answers yields a natural number,
hence that no scale and no accepted denominator is zero (`DecimalsAssumption`,
the assertion on the price). `AtLeastOne` needs the oracle's floor, the recorded
index, which starts at `WAD` and which every step of the oracle keeps or raises;
`RecordedIndexIsKept` is that floor in the state after the step. `ExitOpen` asks for
a call that can be made now; that some token is there for it follows from
`Covered`, the sums of SY and of tokens to redeem for, which every call changes alike.

**Indexer.** `Commit` adds the rows of a block at a new height, and all earlier
rows have lower ones (`NoPhantomRows`), so the conflict clause drops none of
them. They include all events of announced contracts because the process
watches those (`WatchesAnnounced`), also those announced in the block itself, for
which it was delivered again. After a crash the watching comes from the filters,
and after an undo from those with a lower height: hence `RestartKeepsWatching`
speaks of every height up to the cursor, not only of the cursor. For the
refinement, `Commit` is `Extend`, `Invalidate` is `Rewind`, and every other step
leaves the table alone.

**BalanceCache.** `Consistent` (of the proof module) says what the earlier steps leave
behind: no request is in flight for a balance that an optimistic update wrote
after it was asked for, nor for one without a mounted hook (`RequestsRecent`);
what was read is no older than the last success whose refetch asked anew
(`AnswersRecent`); and what a refusal would put back is still what was there, or
was unknown and still is (`RefusalsExact`). The last needs that every hook
restores all that it shows (`ShownIsRestored`), a lemma about the twenty hooks
as they are written.

**Deploy.** `DeployInv` adds to the properties what a script that is half done
relies on. Its list of commands begins with the second half of at most one step
(`Shape`: a contract on the chain to be recorded, a pair to be read, a class to be
counted as upgraded), and the rest are commands of its text. Each of them finds
set what it needs once those before it are done (`InOrder`). This follows from the
order of the texts and is kept from one command to the next, since what a command
leaves unset, a failure or a failed read, ends the run or counts as a disturbance.
So a contract is deployed with addresses that are set, and every name that is
set, unless misread, refers to names that are (`Complete`).

That PT and YT of a pair have one expiry is `Paired`. It needs the moment between the
two reads: `Shape` says that the PT just read was made for the expiry of `.env`
(`HasPT`), for which the YT is then asked, and a pair whose PT is recorded is not
created again. Only where the read of the PT failed can a later run record the YT
of another expiry; such a PT is among the misread names. `Linked` follows from both.

What is read back from a factory is the contract that was just made only if there
is one answer: `Unique` (one PT, one YT and one market for what they are made of), for
which `Twins` (a YT comes with its PT) is needed, since the factory looks only for
the PT before it makes both. `Accounted` says that
every contract is in `.env` or is what the command under way is about to record;
between commands, and at the end, nothing is under way, which is `NoOrphans`.
A transaction that was executed without a report ends the script and counts as a
disturbance, so it is never under way (`UnheardStep`).
`HashesDeclared` needs of `Shape` that an upgrade is counted as performed only
after its class was declared or the upgrade refused. `RecordedStays` follows from
`Shape` as well: the second half of a step concerns a name that is not set yet.

**Only model-checked.** `WaysOutOpen` uses ENABLED, and both `CatchesUp` are
liveness: out of the provers' reach. `DecodedAsEmitted` ranges over the 55 kinds of
event, which TLC enumerates in full. The properties of Wallet are about one call
from any state, over a fixed list of hooks and entry points: what can vary beyond
that is amounts.

## Remarks on the code

Met while modelling; the models follow the code in each.

Contracts:

* PT and YT supplies are equal only until expiry (`C_interfaces.tex` says
  always); YT accrues until the first call after expiry rather than until expiry.
* Rewards that arrive while a host has no shares go to its first holder. A
  reward token that the host also keeps for other reasons would count deposits
  as rewards (`reward_manager_component.cairo:283`).
* The comment of `index()` says it can only increase (`pragma_index_oracle.cairo:200`):
  what it answered from a quote that nobody recorded with `update_index` is taken
  back when the quote falls or the oracle is paused. YT keeps its own watermark.
* `SY.redeem` reads the rate to announce it, so a feed that fails blocks every
  exit until the oracle is paused, although `sy.cairo:68` promises exits in
  emergencies. Where a token is accepted but not given out, SY made from it
  exits only through what others deposited.
* A change of the rate that follows a rate of 0 is not announced
  (`sy_component.cairo:435`: meant for the first call).
* Pausing SY blocks the payout of every redemption of PT (`sy.cairo:84`;
  `whitepaper/sections/07_governance.tex:235` promises exits).
* The minimum liquidity of a first mint goes to the treasury where there is one
  (`amm.cairo:1855`), which may burn it.
* What a buyer of PT owes is rounded down in assets before it is rounded up in
  SY (`market_math_fp.cairo:390`), at an index that is itself rounded down to 64.64;
  `SwapCostsOnlyDust` bounds the loss.
* A divisor is rounded down when it is converted to 64.64, so quotients may come
  out too high: a burn may take up to (WAD - 1) / 2^64 of a share from the others
  (`SharesNotDiluted`), and YT may pay a few units more than it holds for, at worst
  refusing the last claim until a unit of SY is sent to it (`Solvent`).
* Donated PT skimmed into the reserves can lift the share of PT above 96%; every
  call that computes the implied rate, `burn` included, then reverts until expiry
  or until SY is skimmed too (`amm.cairo:752`, `1517`).
* Tokens staged at YT or Market belong to whoever calls next, by design.
* The router's comment "Loss scenario - will fail slippage check below" is not
  true with `min_sy_out = 0`: the swap then costs collateral. After swaps of
  unknown price an allowance of the router to the market remains.
* `multicall` calls entry points with the router itself as their caller.
* On the way into SY the router deposits what the aggregator reports, not what it
  delivered (`router.cairo:1625-1647` and four more entry points; on the way out
  it measures, line 2594): a report that is too small leaves underlying in the
  router, one that is too large spends what happens to lie there. The tests'
  aggregator can be told to do so (`set_reported_output` of `mock_aggregator`).
* `swap_exact_pt_for_token` for the underlying reverts; removing liquidity into
  one token and rolling over revert after expiry; `swap_exact_yt_for_token`
  sells collateral that was not needed.

Frontend:

* `calculateMinSyOut` takes one SY per asset as the minimum, so redeeming reverts
  once the index exceeds the slippage (`useRedeem.ts:370`; also in
  `buildWithdrawCalls` and `useMint`). `deadlineMinutes` is not used.
* Hooks other than those that spend an allowance do not invalidate it, so a
  cached one may be stale for 15 s; the call then fails or approves again.
* Two overlapping mutations that fail restore snapshots of each other until the
  next poll; after a submission the optimistic value flips back until the block
  is there; `useMint` and `useSimpleDeposit` refetch SY or the underlying only.
* A refetch after a confirmation joins the first request of a balance that is not
  known yet. That one may have been answered before the transaction, and the page
  shows the older balance until the next poll.

Indexer:

* SY contracts are discovered only through `YieldContractsCreated`, so their
  events before it are not indexed (`packages/indexer/README.md:7` says all are).
* `expiry` is a u64 in the event and a signed bigint in the tables
  (`schema/index.ts:43`); a pair with an expiry of 2^63 or more makes the insert of
  its block fail at every attempt, and the indexer stays before that block.
* Triggers that a crash during the start leaves behind are dropped only when
  the container starts (`start.sh:29-34`), not by the loop that restarts an indexer.
* `reset-checkpoints.ts` empties 23 of 54 tables; the lag of
  `health.ts:13` is the time since a block was processed, not the distance to the
  head of the chain.

Scripts:

* Seeding liquidity passes SY.deposit four of its six felts, so
  `SEED_LIQUIDITY=true` ends `deploy.sh` before the export.
* `upgrade.sh` records the class hash after the first instance of several; when
  it ends there the others are never upgraded. A refused upgrade counts as
  done and its undeclared hash is recorded. The hashes the factories hold are not
  updated.
* An invocation returns at submission, so a read after it may be unanswered; the
  pair or market is then missing or half recorded. A resumed run has another
  expiry and creates another pair: after an unanswered read of the PT, a run cut
  between recording PT and YT leaves PT and YT of different expiry in `.env`.
* `declare_class` and `call_contract` of `deploy.sh` take a 0x string from an error
  message for their result (lines 208-228, 371), and a deployment whose answer has
  no address, or that sncast reports as failed after submitting it, is lost
  (lines 335, 344). `upgrade.sh` also takes any 0x string for the new class hash.
* `reset-env.sh` keeps `ROUTER_STATIC_ADDRESS` and `PY_LP_ORACLE_ADDRESS`;
  `mainnet.deploy.sh` takes any 64 hexadecimal digits in the output for an
  address; the image's command, `docker-deploy.sh`, does not exist.

## Not modelled

| Part | Why |
|---|---|
| `market/market_math.cairo` | legacy; no contract uses it |
| `exp`, `ln`, `pow` of `math_fp.cairo` and the curve | real-valued series; free rates instead |
| allowances of the tokens, roles, ownership, upgrades of contracts | library components, unrelated to the accounting (the allowances of the router's callers are in `Wallet`) |
| LP price oracles, previews, static router | views over modelled state |
| factories | planned |
| `set_config` of the index oracle | parameters handed to Pragma; the feed answers anything |
| pages, charts, API routes, types generated from the ABIs | layout and read-only queries |
| indexer maintenance, other scripts | single commands, or the steps of `deploy.sh` without resuming |

## Plan

Built so far: the accounting of the contracts and the source of their rate, the
path of a transaction from a hook through the router, the cache that shows its
effect, the indexer with its refinement, and the scripts. What remains, in order:

1. An abstract ledger of entitlements that `YieldToken` (principal and interest)
   and `RewardManager` implement, stated as a refinement.
2. A composition of `Market` and `TwapOracle`, and an abstract history that the
   ring implements.
3. `Factory` and `MarketFactory`: registries and fee overrides; then the router on
   real pools instead of free answers.
4. The read side of the frontend: portfolio values rebuilt from indexed events,
   rate limits.
5. Proofs: what a call of the `Router` leaves behind, and the refinements of 1 and 2.

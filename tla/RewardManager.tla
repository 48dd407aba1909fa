--------------------------- MODULE RewardManager ---------------------------
(***************************************************************************)
(* Reward distribution to the holders of a share token:                    *)
(* contracts/src/components/reward_manager_component.cairo, embedded in    *)
(* YT, in SY with rewards and in the Market's LP token.                    *)
(*                                                                         *)
(* Reward tokens simply arrive at the host contract.  The component        *)
(* notices them by comparing its balance with the one it saw last, and     *)
(* spreads them over the shares with a global index.  The host's ERC20     *)
(* hook runs before every change of a share balance, so that a holder is   *)
(* credited for the shares held until then.                                *)
(*                                                                         *)
(* A reward token is assumed to be none of the tokens that the host moves  *)
(* for other reasons (its deposits, its reserves).                         *)
(***************************************************************************)
EXTENDS MathFp, Functions, FiniteSets

CONSTANTS
  Accounts,      \* holders of shares
  Host,          \* the contract that embeds the component; may hold shares
  RewardTokens,  \* the registered reward tokens
  Amounts,       \* amounts of a mint, a burn, a transfer or an arrival
  RewardSupply,  \* bound: rewards of one token that ever arrive
  MaxShares,     \* bound: shares in circulation
  MaxIndex       \* bound: index above which the host stops claiming for itself

ASSUME HostAssumption == Host \in Accounts
\* An address is a felt252.
ASSUME AccountsAssumption == IsFiniteSet(Accounts)
ASSUME AmountsAssumption == Amounts \subseteq Nat
ASSUME BoundsAssumption ==
  RewardSupply \in Nat /\ MaxShares \in Nat /\ MaxIndex \in Nat

VARIABLES
  shares, total_supply,  \* the host's ERC20 balances and supply
  undelivered,           \* rewards that have not arrived yet
  reward_balance,        \* the host's balance of each reward token
  reward_last_balance,   \* the balance seen last
  reward_index,          \* global index of each reward token
  user_reward_index,     \* checkpoint of each account, 0 if it has none
  user_accrued           \* credited and unclaimed

ledger  == <<shares, total_supply>>
rewards == <<undelivered, reward_balance>>
vars == <<ledger, rewards, reward_last_balance, reward_index,
          user_reward_index, user_accrued>>

-----------------------------------------------------------------------------
(***************************************************************************)
(* The component                                                           *)
(***************************************************************************)

\* Rewards that arrived since they were last looked at.
NewRewardsWhenEmpty(t) ==
  IF reward_balance[t] > reward_last_balance[t]
    THEN reward_balance[t] - reward_last_balance[t] ELSE 0
NewRewards(t) ==
  IF total_supply > 0 /\ reward_balance[t] > reward_last_balance[t]
    THEN reward_balance[t] - reward_last_balance[t] ELSE 0

\* The global index and the last balance after _update_global_reward_index.
\* Without shares nothing is distributed, and nothing is seen either.
IndexRoundedUp(t) ==
  IF total_supply = 0 THEN reward_index[t]
  ELSE reward_index[t]
         + (NewRewards(t) * WAD + total_supply - 1) \div total_supply
SyncedIndex(t) ==
  IF total_supply = 0 THEN reward_index[t]
  ELSE reward_index[t] + (NewRewards(t) * WAD) \div total_supply
SyncedLast(t) == reward_last_balance[t] + NewRewards(t)

\* What an account with a checkpoint has earned since, at index i.
NewlyAccruedFrom(u, t, i) ==
  IF i > user_reward_index[u][t]
    THEN (shares[u] * (i - user_reward_index[u][t])) \div WAD ELSE 0
NewlyAccrued(u, t, i) ==
  IF user_reward_index[u][t] # 0 /\ i > user_reward_index[u][t]
    THEN (shares[u] * (i - user_reward_index[u][t])) \div WAD ELSE 0

\* What u could claim now.
Claimable(u, t) == user_accrued[u][t] + NewlyAccrued(u, t, SyncedIndex(t))

_update_global_reward_index ==
  reward_index' = [t \in RewardTokens |-> SyncedIndex(t)]

\* The checkpoints of the accounts of S at the synced index.
Checkpoints(S) ==
  [u \in Accounts |->
     IF u \in S THEN [t \in RewardTokens |-> SyncedIndex(t)]
     ELSE user_reward_index[u]]
AccrualsOverwritten(S) ==
  [u \in Accounts |->
     IF u \in S THEN [t \in RewardTokens |->
                        NewlyAccrued(u, t, SyncedIndex(t))]
     ELSE user_accrued[u]]
Accruals(S) ==
  [u \in Accounts |->
     IF u \in S THEN [t \in RewardTokens |-> Claimable(u, t)]
     ELSE user_accrued[u]]

\* update_rewards_for_two and update_user_rewards: the accounts of S (without
\* the zero address) are brought up to date.
HookSenderOnly(from, to) == {from}
HookAccounts(from, to) == {from, to}
update_rewards(S) ==
  /\ _update_global_reward_index
  /\ reward_last_balance' = [t \in RewardTokens |-> SyncedLast(t)]
  /\ user_reward_index' = Checkpoints(S)
  /\ user_accrued' = Accruals(S)

-----------------------------------------------------------------------------
Init ==
  /\ shares = [u \in Accounts |-> 0]
  /\ total_supply = 0
  /\ undelivered = [t \in RewardTokens |-> RewardSupply]
  /\ reward_balance = [t \in RewardTokens |-> 0]
  /\ reward_last_balance = reward_balance
  /\ reward_index = [t \in RewardTokens |-> WAD]
  /\ user_reward_index = [u \in Accounts |-> [t \in RewardTokens |-> 0]]
  /\ user_accrued = [u \in Accounts |-> [t \in RewardTokens |-> 0]]

(***************************************************************************)
(* The host's share token                                                  *)
(***************************************************************************)

Mint(to, n) ==
  /\ total_supply + n <= MaxShares
  /\ update_rewards({to})
  /\ shares' = [shares EXCEPT ![to] = @ + n]
  /\ total_supply' = total_supply + n
  /\ UNCHANGED rewards

Burn(from, n) ==
  /\ shares[from] >= n /\ total_supply >= n
  /\ update_rewards({from})
  /\ shares' = [shares EXCEPT ![from] = @ - n]
  /\ total_supply' = total_supply - n
  /\ UNCHANGED rewards

Transfer(from, to, n) ==
  /\ shares[from] >= n
  /\ update_rewards(HookAccounts(from, to))
  /\ shares' = [[shares EXCEPT ![from] = @ - n] EXCEPT ![to] = @ + n]
  /\ UNCHANGED <<total_supply, rewards>>

\* update_user_rewards on its own: YT calls it whenever it checkpoints
\* interest, SY with rewards after a deposit.
update_user_rewards(u) ==
  /\ update_rewards({u})
  /\ UNCHANGED <<ledger, rewards>>

(***************************************************************************)
(* Claims: anyone may claim for u, who is paid every reward token at once. *)
(* An accrual above the last balance underflows and reverts the claim.  A  *)
(* claim for the host pays the host: its rewards come back as new ones.    *)
(***************************************************************************)

ClaimKeepsLast(u) == [t \in RewardTokens |-> SyncedLast(t)]
LastAfterClaim(u) ==
  [t \in RewardTokens |-> SyncedLast(t) - Claimable(u, t)]

CanClaim(u) ==
  /\ \A t \in RewardTokens : Claimable(u, t) <= SyncedLast(t)
  /\ u = Host => \A t \in RewardTokens : reward_index[t] < MaxIndex

claim_rewards(u) ==
  /\ CanClaim(u)
  /\ _update_global_reward_index
  /\ user_reward_index' = Checkpoints({u})
  /\ user_accrued' =
       [Accruals({u}) EXCEPT ![u] = [t \in RewardTokens |-> 0]]
  /\ reward_last_balance' = LastAfterClaim(u)
  /\ reward_balance' =
       IF u = Host THEN reward_balance
       ELSE [t \in RewardTokens |-> reward_balance[t] - Claimable(u, t)]
  /\ UNCHANGED <<ledger, undelivered>>

\* Rewards are sent to the host, without a call to it.
RewardsArrive(t, n) ==
  /\ undelivered[t] >= n
  /\ undelivered' = [undelivered EXCEPT ![t] = @ - n]
  /\ reward_balance' = [reward_balance EXCEPT ![t] = @ + n]
  /\ UNCHANGED <<ledger, reward_last_balance, reward_index,
                 user_reward_index, user_accrued>>

Next ==
  \/ \E u \in Accounts, n \in Amounts : Mint(u, n) \/ Burn(u, n)
  \/ \E u, v \in Accounts, n \in Amounts : Transfer(u, v, n)
  \/ \E u \in Accounts : update_user_rewards(u) \/ claim_rewards(u)
  \/ \E t \in RewardTokens, n \in Amounts : RewardsArrive(t, n)

Spec == Init /\ [][Next]_vars

-----------------------------------------------------------------------------
(***************************************************************************)
(* Properties                                                              *)
(***************************************************************************)

\* Every variable has its type.
TypeOK ==
  /\ shares \in [Accounts -> Nat] /\ total_supply \in Nat
  /\ undelivered \in [RewardTokens -> Nat]
  /\ reward_balance \in [RewardTokens -> Nat]
  /\ reward_last_balance \in [RewardTokens -> Nat]
  /\ reward_index \in [RewardTokens -> Nat]
  /\ user_reward_index \in [Accounts -> [RewardTokens -> Nat]]
  /\ user_accrued \in [Accounts -> [RewardTokens -> Nat]]

\* The balance seen last never exceeds the balance: it is what the component
\* subtracts, so an excess would hide the next rewards from everybody.
LastBalanceBacked ==
  \A t \in RewardTokens : reward_last_balance[t] <= reward_balance[t]

\* A holder's checkpoint exists and is not ahead of the index: no holder
\* misses rewards for want of a checkpoint, and none earns them twice.
HoldersCheckpointed ==
  \A u \in Accounts, t \in RewardTokens :
    /\ user_reward_index[u][t] <= reward_index[t]
    /\ shares[u] > 0 => user_reward_index[u][t] >= WAD

\* The supply, over which new rewards are spread, is what the holders have.
SupplyHeld == SumFunction(shares) = total_supply

\* What u is entitled to of t at index i, in parts of 1/WAD and before any
\* rounding: the credited rewards and those of the shares held since.
EntitledAt(u, t, i) ==
  user_accrued[u][t] * WAD + shares[u] * (i - user_reward_index[u][t])

\* Before rounding too, what has been seen covers what has been promised.
EntitlementsCovered ==
  \A t \in RewardTokens :
    SumFunction([u \in Accounts |-> EntitledAt(u, t, reward_index[t])])
      <= reward_last_balance[t] * WAD

\* What the component remembers (the balance seen last, the checkpoints, the
\* index) agrees with balances and holdings in every state.  That a holder has
\* a checkpoint needs that the index is never 0, the mark of "none".  This is
\* the inductive invariant.
Consistent ==
  /\ TypeOK
  /\ LastBalanceBacked
  /\ HoldersCheckpointed
  /\ \A t \in RewardTokens : reward_index[t] >= WAD
  /\ SupplyHeld
  /\ EntitlementsCovered

\* All claims together are covered by what the component has seen, whatever
\* the order of arrivals, transfers and claims: no claim ever reverts on
\* underflow and none is paid out of another's rewards.
RewardsCovered ==
  \A t \in RewardTokens :
    SumFunction([u \in Accounts |-> Claimable(u, t)]) <= SyncedLast(t)

\* The index and the checkpoints only grow.
IndexGrows ==
  [][ \A t \in RewardTokens :
        /\ reward_index'[t] >= reward_index[t]
        /\ \A u \in Accounts :
             user_reward_index'[u][t] >= user_reward_index[u][t] ]_vars

\* A claim grows only when rewards arrive, when the host's own rewards are
\* recycled, or for the first holder of an empty host: moving, minting and
\* burning shares credits nobody with rewards earned by another.
NoUnearnedRewards ==
  [][ \A u \in Accounts, t \in RewardTokens :
        Claimable(u, t)' > Claimable(u, t) =>
          \/ reward_balance'[t] > reward_balance[t]
          \/ u # Host /\ Claimable(Host, t)' < Claimable(Host, t)
          \/ total_supply = 0 ]_vars

\* A claim shrinks only by being paid, in full; except the host's own.
RewardsOnlyPaidOut ==
  [][ \A u \in Accounts \ {Host}, t \in RewardTokens :
        Claimable(u, t)' < Claimable(u, t) =>
          reward_balance[t] - reward_balance'[t] = Claimable(u, t) ]_vars

\* Rewards are recorded as seen only once they are spread: those that arrive
\* while nobody holds shares wait for a holder.  The exception is the
\* truncation of the index: rewards below one unit of it per share are lost.
NothingSwallowed ==
  [][ \A t \in RewardTokens :
        reward_last_balance'[t] > reward_last_balance[t]
          => \/ reward_index'[t] > reward_index[t]
             \/ (reward_balance[t] - reward_last_balance[t]) * WAD
                  < total_supply ]_vars

=============================================================================

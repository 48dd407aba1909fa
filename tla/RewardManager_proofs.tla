------------------------ MODULE RewardManager_proofs ------------------------
(***************************************************************************)
(* Safety of the reward accounting for any holders, reward tokens, amounts *)
(* and bounds.                                                             *)
(***************************************************************************)
EXTENDS RewardManager, MathFp_proofs

-----------------------------------------------------------------------------
\* The total of g over the accounts.
Total(g) == SumFunctionOnSet(g, Accounts)

LEMMA SumIsTotal == ASSUME NEW g, DOMAIN g = Accounts PROVE SumFunction(g) = Total(g)
BY DEF SumFunction, Total

\* A total follows when one account's share of it changes.
LEMMA TotalChanges ==
  ASSUME NEW f, NEW g, NEW e \in Accounts,
         \A u \in Accounts : f[u] \in Int /\ g[u] \in Int,
         \A u \in Accounts \ {e} : g[u] = f[u]
  PROVE  Total(g) = Total(f) + (g[e] - f[e]) /\ Total(f) \in Int
<1>1. IsFiniteSet(Accounts)
  BY AccountsAssumption
<1>2. SumFunctionOnSet(g, Accounts)
        = SumFunctionOnSet(f, Accounts) + (g[e] - f[e])
  BY <1>1, SumChanges
<1>3. SumFunctionOnSet(f, Accounts) \in Int
  BY <1>1, SumInt
<1> QED BY <1>2, <1>3 DEF Total

\* Multiplication and division stay within the natural numbers.
LEMMA ScaledNat ==
  ASSUME NEW a \in Nat, NEW b \in Nat, NEW c \in Nat, c # 0
  PROVE  (a * b) \div c \in Nat
<1>1. a * b \in Nat
  OBVIOUS
<1> QED BY <1>1, SMT

\* Synchronising a token looks at no more than the balance and only raises
\* the index.
LEMMA SyncFacts ==
  ASSUME Consistent, NEW t \in RewardTokens
  PROVE  /\ NewRewards(t) \in Nat
         /\ SyncedLast(t) \in Nat /\ SyncedLast(t) <= reward_balance[t]
         /\ SyncedIndex(t) \in Nat /\ SyncedIndex(t) >= reward_index[t]
         /\ SyncedIndex(t) >= WAD /\ SyncedIndex(t) # 0
<1>1. /\ reward_balance[t] \in Nat /\ reward_last_balance[t] \in Nat
      /\ reward_last_balance[t] <= reward_balance[t]
      /\ reward_index[t] \in Nat /\ reward_index[t] >= WAD
      /\ total_supply \in Nat /\ WAD \in Nat \ {0}
  BY WadAssumption DEF Consistent, TypeOK, LastBalanceBacked
<1>2. NewRewards(t) \in Nat
      /\ reward_last_balance[t] + NewRewards(t) <= reward_balance[t]
  BY <1>1 DEF NewRewards
<1>3. total_supply # 0 => (NewRewards(t) * WAD) \div total_supply \in Nat
  BY <1>1, <1>2, ScaledNat
<1>4. SyncedIndex(t) \in Nat /\ SyncedIndex(t) >= reward_index[t]
  BY <1>1, <1>3 DEF SyncedIndex
<1> QED BY <1>1, <1>2, <1>4 DEF SyncedLast

\* A claim is a natural number.
LEMMA ClaimableType ==
  ASSUME Consistent, NEW u \in Accounts, NEW t \in RewardTokens
  PROVE  Claimable(u, t) \in Nat
<1>1. /\ user_accrued[u][t] \in Nat /\ user_reward_index[u][t] \in Nat
      /\ shares[u] \in Nat /\ SyncedIndex(t) \in Nat /\ WAD \in Nat \ {0}
  BY SyncFacts, WadAssumption DEF Consistent, TypeOK
<1>2. NewlyAccrued(u, t, SyncedIndex(t)) \in Nat
  <2>1. CASE user_reward_index[u][t] # 0
             /\ SyncedIndex(t) > user_reward_index[u][t]
    <3>1. SyncedIndex(t) - user_reward_index[u][t] \in Nat
      BY <1>1, <2>1
    <3> QED BY <1>1, <2>1, <3>1, ScaledNat DEF NewlyAccrued
  <2>2. CASE ~(user_reward_index[u][t] # 0
               /\ SyncedIndex(t) > user_reward_index[u][t])
    BY <2>2 DEF NewlyAccrued
  <2> QED BY <2>1, <2>2
<1> QED BY <1>1, <1>2 DEF Claimable

-----------------------------------------------------------------------------
(* What is promised and what covers it *)

\* The values behind a claim.
LEMMA AccountFacts ==
  ASSUME Consistent, NEW u \in Accounts, NEW t \in RewardTokens
  PROVE  /\ user_accrued[u][t] \in Nat /\ user_reward_index[u][t] \in Nat
         /\ shares[u] \in Nat /\ reward_index[t] \in Nat
         /\ user_reward_index[u][t] <= reward_index[t]
         /\ shares[u] > 0 => user_reward_index[u][t] # 0
         /\ reward_last_balance[t] \in Nat /\ total_supply \in Nat
         /\ WAD \in Nat \ {0}
BY WadAssumption DEF Consistent, TypeOK, HoldersCheckpointed

LEMMA EntitledType ==
  ASSUME Consistent, NEW u \in Accounts, NEW t \in RewardTokens, NEW i \in Nat,
         reward_index[t] <= i
  PROVE  /\ EntitledAt(u, t, i) \in Nat
         /\ user_accrued[u][t] * WAD \in Nat
         /\ i - user_reward_index[u][t] \in Nat
         /\ shares[u] * (i - user_reward_index[u][t]) \in Nat
<1>1. /\ user_accrued[u][t] * WAD \in Nat
      /\ i - user_reward_index[u][t] \in Nat
  BY AccountFacts, MulNat
<1>2. shares[u] * (i - user_reward_index[u][t]) \in Nat
  BY <1>1, AccountFacts, MulNat
<1> QED BY <1>1, <1>2 DEF EntitledAt

\* The supply is what the accounts have.
LEMMA SharesTotal == Consistent => Total(shares) = total_supply
BY SumIsTotal DEF Consistent, TypeOK, SupplyHeld

\* What the index rises by, over all shares, is at most what arrived.
LEMMA SpreadAtMostArrived ==
  ASSUME Consistent, NEW t \in RewardTokens
  PROVE  /\ SyncedIndex(t) - reward_index[t] \in Nat
         /\ (SyncedIndex(t) - reward_index[t]) * total_supply
              <= NewRewards(t) * WAD
         /\ NewRewards(t) * WAD \in Nat
<1>1. NewRewards(t) * WAD \in Nat /\ total_supply \in Nat /\ reward_index[t] \in Nat
  BY SyncFacts, WadAssumption, MulNat DEF Consistent, TypeOK
<1>2. CASE total_supply = 0
  BY <1>1, <1>2 DEF SyncedIndex
<1>3. CASE total_supply # 0
  <2>1. /\ (NewRewards(t) * WAD) \div total_supply \in Nat
        /\ ((NewRewards(t) * WAD) \div total_supply) * total_supply
             <= NewRewards(t) * WAD
    BY <1>1, <1>3, DivBounds
  <2>2. SyncedIndex(t) - reward_index[t] = (NewRewards(t) * WAD) \div total_supply
    BY <1>1, <1>3, <2>1 DEF SyncedIndex
  <2> QED BY <1>1, <2>1, <2>2
<1> QED BY <1>2, <1>3

\* Synchronising the index keeps the entitlements covered.
LEMMA SyncKeepsCover ==
  ASSUME Consistent, NEW t \in RewardTokens
  PROVE  Total([u \in Accounts |-> EntitledAt(u, t, SyncedIndex(t))])
           <= SyncedLast(t) * WAD
<1> DEFINE i == reward_index[t]
           d == SyncedIndex(t) - i
           f == [u \in Accounts |-> EntitledAt(u, t, i)]
           h == [u \in Accounts |-> EntitledAt(u, t, SyncedIndex(t))]
<1>1. d \in Nat /\ d * total_supply <= NewRewards(t) * WAD
      /\ NewRewards(t) * WAD \in Nat
  BY SpreadAtMostArrived
<1>2. SyncedIndex(t) \in Nat /\ i \in Nat /\ i <= SyncedIndex(t)
  BY SyncFacts DEF Consistent, TypeOK
<1>3. ASSUME NEW u \in Accounts
      PROVE  f[u] \in Int /\ shares[u] \in Int /\ h[u] = f[u] + d * shares[u]
  <2>1. /\ shares[u] \in Nat /\ user_reward_index[u][t] \in Nat
        /\ user_accrued[u][t] * WAD \in Nat
        /\ i - user_reward_index[u][t] \in Nat
        /\ shares[u] * (i - user_reward_index[u][t]) \in Nat
    BY <1>2, AccountFacts, EntitledType
  <2>2. SyncedIndex(t) - user_reward_index[u][t]
          = (i - user_reward_index[u][t]) + d
    BY <1>2, <2>1
  <2>3. \A a, b, c \in Int : a * (b + c) = a * b + c * a /\ c * a \in Int
    OBVIOUS
  <2>4. shares[u] * (SyncedIndex(t) - user_reward_index[u][t])
          = shares[u] * (i - user_reward_index[u][t]) + d * shares[u]
        /\ d * shares[u] \in Int
    <3> HIDE DEF d
    <3> QED BY <1>1, <2>1, <2>2, <2>3
  <2> QED BY <2>1, <2>4 DEF EntitledAt
<1>4. Total(f) <= reward_last_balance[t] * WAD
  BY SumIsTotal DEF Consistent, EntitlementsCovered
<1>5. Total(h) = Total(f) + d * total_supply
  <2> HIDE DEF f, h, d
  <2>1. Total(h) = Total(f) + d * Total(shares)
    BY <1>1, <1>3, AccountsAssumption, SumLinear DEF Total
  <2> QED BY <2>1, SharesTotal
<1>6. Total(f) \in Int
  <2> HIDE DEF f
  <2> QED BY <1>3, AccountsAssumption, SumInt DEF Total
<1>7. /\ SyncedLast(t) * WAD = reward_last_balance[t] * WAD + NewRewards(t) * WAD
      /\ reward_last_balance[t] * WAD \in Nat
  <2>1. reward_last_balance[t] \in Nat /\ NewRewards(t) \in Nat /\ WAD \in Nat
    BY SyncFacts, WadAssumption DEF Consistent, TypeOK
  <2>2. \A a, b, c \in Int : (a + b) * c = a * c + b * c
    OBVIOUS
  <2> QED BY <2>1, <2>2, MulNat DEF SyncedLast
<1>8. d * total_supply \in Int
  BY <1>1, MulNat DEF Consistent, TypeOK
<1> HIDE DEF f, h, d
<1>9. Total(h) <= SyncedLast(t) * WAD
  BY <1>1, <1>4, <1>5, <1>6, <1>7, <1>8
<1> QED BY <1>9 DEF h

\* A claim is what its account is entitled to, rounded down.
LEMMA ClaimWithinEntitlement ==
  ASSUME Consistent, NEW u \in Accounts, NEW t \in RewardTokens
  PROVE  /\ Claimable(u, t) * WAD <= EntitledAt(u, t, SyncedIndex(t))
         /\ Claimable(u, t) * WAD \in Nat
         /\ EntitledAt(u, t, SyncedIndex(t)) \in Nat
<1> DEFINE i == SyncedIndex(t)
           earned == shares[u] * (i - user_reward_index[u][t])
           new == NewlyAccrued(u, t, i)
<1>1. i \in Nat /\ reward_index[t] <= i
  BY SyncFacts
<1>2. /\ EntitledAt(u, t, i) = user_accrued[u][t] * WAD + earned
      /\ EntitledAt(u, t, i) \in Nat /\ earned \in Nat
      /\ user_accrued[u][t] * WAD \in Nat
  BY <1>1, EntitledType DEF EntitledAt
<1>3. WAD \in Nat \ {0} /\ user_accrued[u][t] \in Nat
  BY AccountFacts
<1>4. new \in Nat /\ new * WAD <= earned
  <2>1. CASE user_reward_index[u][t] # 0 /\ i > user_reward_index[u][t]
    <3>1. new = earned \div WAD
      BY <2>1 DEF NewlyAccrued
    <3> HIDE DEF earned, new
    <3> QED BY <1>2, <1>3, <3>1, DivBounds
  <2>2. CASE ~(user_reward_index[u][t] # 0 /\ i > user_reward_index[u][t])
    <3>1. new = 0
      BY <2>2 DEF NewlyAccrued
    <3> HIDE DEF earned, new
    <3> QED BY <1>2, <1>3, <3>1
  <2> QED BY <2>1, <2>2
<1>5. Claimable(u, t) = user_accrued[u][t] + new
  BY DEF Claimable
<1>6. \A a, b, c \in Nat : (a + b) * c = a * c + b * c /\ (a + b) * c \in Nat
  OBVIOUS
<1> HIDE DEF earned, new
<1>7. Claimable(u, t) * WAD = user_accrued[u][t] * WAD + new * WAD
      /\ Claimable(u, t) * WAD \in Nat /\ new * WAD \in Nat
  BY <1>3, <1>4, <1>5, <1>6, MulNat
<1> QED BY <1>2, <1>4, <1>7

\* All claims on a token together are covered by what has been seen of it.
LEMMA ClaimsCovered ==
  ASSUME Consistent, NEW t \in RewardTokens
  PROVE  Total([u \in Accounts |-> Claimable(u, t)]) <= SyncedLast(t)
<1> DEFINE c == [u \in Accounts |-> Claimable(u, t)]
           w == [u \in Accounts |-> Claimable(u, t) * WAD]
           z == [u \in Accounts |-> 0]
           h == [u \in Accounts |-> EntitledAt(u, t, SyncedIndex(t))]
<1>1. \A u \in Accounts :
        /\ c[u] \in Nat /\ w[u] = 0 + WAD * c[u] /\ w[u] \in Int
        /\ w[u] <= h[u] /\ h[u] \in Int /\ z[u] = 0
  BY ClaimWithinEntitlement, ClaimableType, WadAssumption
<1>2. Total(h) <= SyncedLast(t) * WAD
  BY SyncKeepsCover
<1> HIDE DEF c, w, h, z
<1>3. Total(w) <= Total(h) /\ Total(w) \in Int /\ Total(h) \in Int
  BY <1>1, AccountsAssumption, SumMonotone, SumInt DEF Total
<1>4. Total(w) = Total(z) + WAD * Total(c)
  BY <1>1, WadAssumption, AccountsAssumption, SumLinear DEF Total
<1>5. Total(z) = 0 /\ Total(c) \in Nat
  BY <1>1, AccountsAssumption, SumZero, SumNat DEF Total
<1>6. SyncedLast(t) \in Nat /\ WAD \in Nat \ {0}
  BY SyncFacts, WadAssumption
<1>7. \A a, b \in Nat, k \in Nat \ {0} : k * a <= b * k => a <= b
  OBVIOUS
<1>8. WAD * Total(c) <= SyncedLast(t) * WAD
  <2>1. WAD * Total(c) \in Nat /\ SyncedLast(t) * WAD \in Nat
    BY <1>5, <1>6, MulNat
  <2> QED BY <1>2, <1>3, <1>4, <1>5, <2>1
<1>9. Total(c) <= SyncedLast(t)
  BY <1>5, <1>6, <1>7, <1>8
<1> QED BY <1>9 DEF c

-----------------------------------------------------------------------------
(* The steps *)

\* Bringing the accounts of S up to date keeps the component's variables
\* typed, raises the index, and gives every account of S a checkpoint.
LEMMA UpdateFacts ==
  ASSUME Consistent, NEW S \in SUBSET Accounts,
         _update_global_reward_index, user_reward_index' = Checkpoints(S)
  PROVE  /\ reward_index' \in [RewardTokens -> Nat]
         /\ user_reward_index' \in [Accounts -> [RewardTokens -> Nat]]
         /\ Accruals(S) \in [Accounts -> [RewardTokens -> Nat]]
         /\ \A t \in RewardTokens :
              reward_index'[t] >= WAD /\ reward_index'[t] >= reward_index[t]
         /\ \A u \in Accounts, t \in RewardTokens :
              /\ user_reward_index'[u][t] <= reward_index'[t]
              /\ user_reward_index'[u][t] >= user_reward_index[u][t]
              /\ u \in S => user_reward_index'[u][t] >= WAD
<1>1. \A t \in RewardTokens :
        /\ reward_index'[t] = SyncedIndex(t)
        /\ SyncedIndex(t) \in Nat /\ SyncedIndex(t) >= WAD
        /\ SyncedIndex(t) >= reward_index[t]
  BY SyncFacts DEF _update_global_reward_index
<1>2. reward_index' \in [RewardTokens -> Nat]
  BY <1>1 DEF _update_global_reward_index
<1>3. user_reward_index' \in [Accounts -> [RewardTokens -> Nat]]
  BY <1>1 DEF Checkpoints, Consistent, TypeOK
<1>4. Accruals(S) \in [Accounts -> [RewardTokens -> Nat]]
  BY ClaimableType DEF Accruals, Consistent, TypeOK
<1>5. ASSUME NEW u \in Accounts, NEW t \in RewardTokens
      PROVE  /\ user_reward_index'[u][t] <= reward_index'[t]
             /\ user_reward_index'[u][t] >= user_reward_index[u][t]
             /\ u \in S => user_reward_index'[u][t] >= WAD
  <2>1. /\ user_reward_index[u][t] \in Nat /\ reward_index[t] \in Nat
        /\ user_reward_index[u][t] <= reward_index[t]
    BY DEF Consistent, TypeOK, HoldersCheckpointed
  <2>2. CASE u \in S
    BY <1>1, <2>1, <2>2, WadAssumption DEF Checkpoints
  <2>3. CASE u \notin S
    BY <1>1, <2>1, <2>3 DEF Checkpoints
  <2> QED BY <2>2, <2>3
<1> QED BY <1>1, <1>2, <1>3, <1>4, <1>5

\* What the accounts are entitled to after they were brought up to date: those
\* of S the rewards they are credited, the others what they were.
LEMMA EntitledAfter ==
  ASSUME Consistent, NEW S \in SUBSET Accounts,
         _update_global_reward_index, user_reward_index' = Checkpoints(S),
         NEW u \in Accounts, NEW t \in RewardTokens, shares'[u] \in Nat,
         user_accrued'[u][t] \in Nat,
         u \notin S => /\ shares'[u] = shares[u]
                       /\ user_accrued'[u][t] = user_accrued[u][t]
  PROVE  /\ u \in S => EntitledAt(u, t, reward_index[t])'
                         = user_accrued'[u][t] * WAD
         /\ u \notin S => EntitledAt(u, t, reward_index[t])'
                            = EntitledAt(u, t, SyncedIndex(t))
<1>1. SyncedIndex(t) \in Nat /\ reward_index'[t] = SyncedIndex(t)
  BY SyncFacts DEF _update_global_reward_index
<1>2. user_accrued'[u][t] * WAD \in Nat
  BY WadAssumption, MulNat
<1>3. CASE u \in S
  <2>1. user_reward_index'[u][t] = SyncedIndex(t)
    BY <1>3 DEF Checkpoints
  <2>2. shares'[u] * (reward_index'[t] - user_reward_index'[u][t]) = 0
    BY <1>1, <2>1
  <2> QED BY <1>2, <1>3, <2>2 DEF EntitledAt
<1>4. CASE u \notin S
  <2>1. user_reward_index'[u] = user_reward_index[u]
    BY <1>4 DEF Checkpoints
  <2> QED BY <1>1, <1>4, <2>1 DEF EntitledAt
<1> QED BY <1>3, <1>4

\* What every call that runs the hook has in common: it brings the accounts of
\* S up to date before anyone outside S receives or gives shares.
LEMMA HookStep ==
  ASSUME Consistent, NEW S \in SUBSET Accounts, update_rewards(S),
         UNCHANGED rewards,
         shares' \in [Accounts -> Nat], total_supply' \in Nat,
         \A u \in Accounts \ S : shares'[u] = shares[u],
         Total(shares') = total_supply'
  PROVE  Consistent'
<1>1. /\ _update_global_reward_index /\ user_reward_index' = Checkpoints(S)
      /\ user_accrued' = Accruals(S)
      /\ reward_last_balance' = [t \in RewardTokens |-> SyncedLast(t)]
      /\ undelivered' = undelivered /\ reward_balance' = reward_balance
  BY DEF update_rewards, rewards
<1>2. TypeOK'
  BY <1>1, UpdateFacts, SyncFacts DEF Consistent, TypeOK
<1>3. LastBalanceBacked'
  BY <1>1, SyncFacts DEF LastBalanceBacked
<1>4. ASSUME NEW u \in Accounts, NEW t \in RewardTokens, shares'[u] > 0
      PROVE  user_reward_index'[u][t] >= WAD
  <2>1. CASE u \in S
    BY <1>1, <2>1, UpdateFacts
  <2>2. CASE u \notin S
    <3>1. shares[u] > 0 /\ user_reward_index[u][t] >= WAD
      BY <1>4, <2>2 DEF Consistent, HoldersCheckpointed
    <3>2. user_reward_index'[u][t] = user_reward_index[u][t]
      BY <1>1, <2>2 DEF Checkpoints
    <3> QED BY <3>1, <3>2
  <2> QED BY <2>1, <2>2
<1>5. HoldersCheckpointed'
  BY <1>1, <1>4, UpdateFacts DEF HoldersCheckpointed
<1>6. SupplyHeld'
  BY SumIsTotal DEF SupplyHeld
<1>7. ASSUME NEW t \in RewardTokens
      PROVE  Total([u \in Accounts |-> EntitledAt(u, t, reward_index[t])'])
               <= reward_last_balance'[t] * WAD
  <2> DEFINE f == [u \in Accounts |-> EntitledAt(u, t, SyncedIndex(t))]
             g == [u \in Accounts |-> EntitledAt(u, t, reward_index[t])']
  <2>1. ASSUME NEW u \in Accounts
        PROVE  f[u] \in Int /\ g[u] \in Int /\ g[u] <= f[u]
    <3>1. /\ Claimable(u, t) * WAD <= f[u] /\ f[u] \in Nat
          /\ Claimable(u, t) * WAD \in Nat
      BY ClaimWithinEntitlement
    <3>2. user_accrued'[u][t] = IF u \in S THEN Claimable(u, t)
                                ELSE user_accrued[u][t]
      BY <1>1 DEF Accruals
    <3>3. user_accrued'[u][t] \in Nat
      BY <1>2 DEF TypeOK
    <3>4. /\ u \in S => g[u] = Claimable(u, t) * WAD
          /\ u \notin S => g[u] = f[u]
      BY <1>1, <3>2, <3>3, EntitledAfter
    <3> HIDE DEF f, g
    <3> QED BY <3>1, <3>4
  <2>2. Total(f) <= SyncedLast(t) * WAD
    BY SyncKeepsCover
  <2>3. reward_last_balance'[t] = SyncedLast(t) /\ SyncedLast(t) * WAD \in Nat
    BY <1>1, SyncFacts, MulNat, WadAssumption
  <2> HIDE DEF f, g
  <2>4. Total(g) <= Total(f) /\ Total(g) \in Int /\ Total(f) \in Int
    BY <2>1, AccountsAssumption, SumMonotone, SumInt DEF Total
  <2>5. Total(g) <= reward_last_balance'[t] * WAD
    BY <2>2, <2>3, <2>4
  <2> QED BY <2>5 DEF g
<1>8. EntitlementsCovered'
  BY <1>7, SumIsTotal DEF EntitlementsCovered
<1> QED BY <1>1, <1>2, <1>3, <1>5, <1>6, <1>8, UpdateFacts DEF Consistent

LEMMA MintStep ==
  ASSUME Consistent, NEW to \in Accounts, NEW n \in Amounts, Mint(to, n)
  PROVE  Consistent'
<1>1. n \in Nat /\ {to} \in SUBSET Accounts
  BY AmountsAssumption
<1>2. /\ update_rewards({to}) /\ UNCHANGED rewards
      /\ shares' = [shares EXCEPT ![to] = @ + n]
      /\ total_supply' = total_supply + n
  BY DEF Mint
<1>3. /\ shares \in [Accounts -> Nat] /\ total_supply \in Nat
      /\ shares' \in [Accounts -> Nat] /\ total_supply' \in Nat
      /\ \A u \in Accounts \ {to} : shares'[u] = shares[u]
      /\ shares'[to] = shares[to] + n
  BY <1>1, <1>2 DEF Consistent, TypeOK
<1>4. Total(shares') = total_supply'
  <2>1. Total(shares') = Total(shares) + (shares'[to] - shares[to])
    BY <1>3, TotalChanges
  <2> QED BY <1>1, <1>2, <1>3, <2>1, SharesTotal
<1> QED BY <1>1, <1>2, <1>3, <1>4, HookStep

LEMMA BurnStep ==
  ASSUME Consistent, NEW from \in Accounts, NEW n \in Amounts, Burn(from, n)
  PROVE  Consistent'
<1>1. n \in Nat /\ {from} \in SUBSET Accounts
  BY AmountsAssumption
<1>2. /\ update_rewards({from}) /\ UNCHANGED rewards
      /\ shares' = [shares EXCEPT ![from] = @ - n] /\ shares[from] >= n
      /\ total_supply' = total_supply - n /\ total_supply >= n
  BY DEF Burn
<1>3. /\ shares \in [Accounts -> Nat] /\ total_supply \in Nat
      /\ shares' \in [Accounts -> Nat] /\ total_supply' \in Nat
      /\ \A u \in Accounts \ {from} : shares'[u] = shares[u]
      /\ shares'[from] = shares[from] - n
  BY <1>1, <1>2 DEF Consistent, TypeOK
<1>4. Total(shares') = total_supply'
  <2>1. Total(shares') = Total(shares) + (shares'[from] - shares[from])
    BY <1>3, TotalChanges
  <2> QED BY <1>1, <1>2, <1>3, <2>1, SharesTotal
<1> QED BY <1>1, <1>2, <1>3, <1>4, HookStep

LEMMA TransferStep ==
  ASSUME Consistent, NEW from \in Accounts, NEW to \in Accounts, NEW n \in Amounts,
         Transfer(from, to, n)
  PROVE  Consistent'
<1> DEFINE g == [shares EXCEPT ![from] = @ - n]
<1>1. n \in Nat /\ {from, to} \in SUBSET Accounts
  BY AmountsAssumption
<1>2. /\ update_rewards({from, to}) /\ UNCHANGED rewards
      /\ shares' = [g EXCEPT ![to] = @ + n] /\ shares[from] >= n
      /\ total_supply' = total_supply
  BY DEF Transfer, HookAccounts
<1>3. /\ shares \in [Accounts -> Nat] /\ total_supply \in Nat
      /\ g \in [Accounts -> Nat] /\ g[from] = shares[from] - n
      /\ \A u \in Accounts \ {from} : g[u] = shares[u]
  BY <1>1, <1>2 DEF Consistent, TypeOK
<1> HIDE DEF g
<1>4. /\ shares' \in [Accounts -> Nat] /\ total_supply' \in Nat
      /\ \A u \in Accounts \ {to} : shares'[u] = g[u]
      /\ shares'[to] = g[to] + n
      /\ \A u \in Accounts \ {from, to} : shares'[u] = shares[u]
  BY <1>1, <1>2, <1>3
<1>5. /\ Total(g) = Total(shares) + (g[from] - shares[from])
      /\ Total(shares') = Total(g) + (shares'[to] - g[to])
      /\ Total(shares) \in Int
  BY <1>3, <1>4, TotalChanges
<1>6. Total(shares') = total_supply'
  BY <1>1, <1>2, <1>3, <1>4, <1>5, SharesTotal
<1> QED BY <1>1, <1>2, <1>4, <1>6, HookStep

LEMMA SyncStep ==
  ASSUME Consistent, NEW u \in Accounts, update_user_rewards(u)
  PROVE  Consistent'
<1>1. {u} \in SUBSET Accounts
  OBVIOUS
<1>2. /\ update_rewards({u}) /\ UNCHANGED rewards
      /\ shares' = shares /\ total_supply' = total_supply
  BY DEF update_user_rewards, ledger
<1>3. /\ shares' \in [Accounts -> Nat] /\ total_supply' \in Nat
      /\ Total(shares') = total_supply'
  BY <1>2, SharesTotal DEF Consistent, TypeOK
<1> QED BY <1>1, <1>2, <1>3, HookStep

\* A claim lowers the balance and the last balance together; the host's lowers
\* only the latter.
LEMMA ClaimStep ==
  ASSUME Consistent, NEW u \in Accounts, claim_rewards(u)
  PROVE  Consistent'
<1>1. /\ {u} \in SUBSET Accounts
      /\ _update_global_reward_index /\ user_reward_index' = Checkpoints({u})
      /\ user_accrued' =
           [Accruals({u}) EXCEPT ![u] = [t \in RewardTokens |-> 0]]
      /\ reward_last_balance' = LastAfterClaim(u)
      /\ shares' = shares /\ total_supply' = total_supply
      /\ undelivered' = undelivered
  BY DEF claim_rewards, ledger
<1>2. \A t \in RewardTokens :
        /\ Claimable(u, t) \in Nat /\ SyncedLast(t) \in Nat
        /\ Claimable(u, t) <= SyncedLast(t)
        /\ SyncedLast(t) <= reward_balance[t] /\ reward_balance[t] \in Nat
  BY SyncFacts, ClaimableType DEF claim_rewards, CanClaim, Consistent, TypeOK
<1>3. \A t \in RewardTokens :
        reward_last_balance'[t] = SyncedLast(t) - Claimable(u, t)
  BY <1>1 DEF LastAfterClaim
<1>4. /\ reward_last_balance' \in [RewardTokens -> Nat]
      /\ reward_balance' \in [RewardTokens -> Nat]
      /\ LastBalanceBacked'
  <2>1. reward_last_balance' \in [RewardTokens -> Nat]
    BY <1>1, <1>2 DEF LastAfterClaim
  <2>2. CASE u = Host
    <3>1. reward_balance' = reward_balance
      BY <2>2 DEF claim_rewards
    <3> QED BY <1>2, <1>3, <2>1, <3>1 DEF LastBalanceBacked, Consistent, TypeOK
  <2>3. CASE u # Host
    <3>1. reward_balance' =
            [t \in RewardTokens |-> reward_balance[t] - Claimable(u, t)]
      BY <2>3 DEF claim_rewards
    <3>2. reward_balance' \in [RewardTokens -> Nat]
      BY <1>2, <3>1
    <3> QED BY <1>2, <1>3, <2>1, <3>1, <3>2 DEF LastBalanceBacked
  <2> QED BY <2>2, <2>3, <2>1
<1>5. user_accrued' \in [Accounts -> [RewardTokens -> Nat]]
  <2>1. Accruals({u}) \in [Accounts -> [RewardTokens -> Nat]]
    BY <1>1, UpdateFacts
  <2> QED BY <1>1, <2>1
<1>6. TypeOK'
  BY <1>1, <1>4, <1>5, UpdateFacts DEF Consistent, TypeOK
<1>7. ASSUME NEW v \in Accounts, NEW t \in RewardTokens, shares'[v] > 0
      PROVE  user_reward_index'[v][t] >= WAD
  <2>1. user_reward_index[v][t] >= WAD /\ user_reward_index[v][t] \in Nat
        /\ user_reward_index'[v][t] \in Nat
    <3>1. shares[v] > 0
      BY <1>1, <1>7
    <3>2. user_reward_index' \in [Accounts -> [RewardTokens -> Nat]]
      BY <1>6 DEF TypeOK
    <3> QED BY <3>1, <3>2 DEF Consistent, TypeOK, HoldersCheckpointed
  <2>2. user_reward_index'[v][t] >= user_reward_index[v][t]
    BY <1>1, UpdateFacts
  <2> QED BY <2>1, <2>2, WadAssumption
<1>8. HoldersCheckpointed'
  BY <1>1, <1>7, UpdateFacts DEF HoldersCheckpointed
<1>9. SupplyHeld'
  BY <1>1 DEF Consistent, SupplyHeld
<1>10. ASSUME NEW t \in RewardTokens
       PROVE  Total([v \in Accounts |-> EntitledAt(v, t, reward_index[t])'])
                <= reward_last_balance'[t] * WAD
  <2> DEFINE f == [v \in Accounts |-> EntitledAt(v, t, SyncedIndex(t))]
             g == [v \in Accounts |-> EntitledAt(v, t, reward_index[t])']
             c == Claimable(u, t)
             h == [v \in Accounts |-> IF v = u THEN c * WAD ELSE f[v]]
  <2>1. c \in Nat /\ c * WAD \in Nat /\ c * WAD <= f[u]
    BY ClaimWithinEntitlement, ClaimableType
  <2>2. \A v \in Accounts : f[v] \in Int
    BY ClaimWithinEntitlement
  <2>3. g[u] = 0 /\ \A v \in Accounts \ {u} : g[v] = f[v]
    <3>1. ASSUME NEW v \in Accounts
          PROVE  /\ user_accrued'[v][t] \in Nat
                 /\ shares'[v] \in Nat /\ shares'[v] = shares[v]
                 /\ v # u => user_accrued'[v][t] = user_accrued[v][t]
                 /\ v = u => user_accrued'[v][t] = 0
      <4>1. Accruals({u}) \in [Accounts -> [RewardTokens -> Nat]]
        BY <1>1, UpdateFacts
      <4>2. v # u => Accruals({u})[v] = user_accrued[v]
        BY DEF Accruals
      <4> QED BY <1>1, <1>6, <4>1, <4>2 DEF TypeOK
    <3>2. EntitledAt(u, t, reward_index[t])' = user_accrued'[u][t] * WAD
      BY <1>1, <3>1, EntitledAfter
    <3>3. \A v \in Accounts \ {u} :
            EntitledAt(v, t, reward_index[t])' = EntitledAt(v, t, SyncedIndex(t))
      BY <1>1, <3>1, EntitledAfter
    <3>4. user_accrued'[u][t] * WAD = 0
      BY <3>1, WadAssumption
    <3> QED BY <3>2, <3>3, <3>4
  <2>4. Total(f) <= SyncedLast(t) * WAD
    BY SyncKeepsCover
  <2>5. \A v \in Accounts : h[v] = IF v = u THEN c * WAD ELSE f[v]
    OBVIOUS
  <2> HIDE DEF f, g, h, c
  <2>6. Total(h) <= Total(f) /\ Total(h) \in Int /\ Total(f) \in Int
    BY <2>1, <2>2, <2>5, AccountsAssumption, SumMonotone, SumInt DEF Total
  <2>7. Total(g) = Total(h) + (g[u] - h[u])
    <3>1. /\ \A v \in Accounts : h[v] \in Int /\ g[v] \in Int
          /\ \A v \in Accounts \ {u} : g[v] = h[v]
      BY <2>1, <2>2, <2>3, <2>5
    <3> QED BY <3>1, TotalChanges
  <2>8. /\ reward_last_balance'[t] = SyncedLast(t) - c
        /\ SyncedLast(t) \in Nat /\ WAD \in Nat
    BY <1>2, <1>3, WadAssumption DEF c
  <2>9. /\ (SyncedLast(t) - c) * WAD = SyncedLast(t) * WAD - c * WAD
        /\ SyncedLast(t) * WAD \in Nat
    <3>1. \A x, y, z \in Int : (x - y) * z = x * z - y * z
      OBVIOUS
    <3> QED BY <2>1, <2>8, <3>1, MulNat
  <2>10. Total(g) <= reward_last_balance'[t] * WAD
    BY <2>1, <2>3, <2>4, <2>5, <2>6, <2>7, <2>8, <2>9
  <2> QED BY <2>10 DEF g
<1>11. EntitlementsCovered'
  BY <1>10, SumIsTotal DEF EntitlementsCovered
<1> QED BY <1>1, <1>4, <1>6, <1>8, <1>9, <1>11, UpdateFacts DEF Consistent

LEMMA ArriveStep ==
  ASSUME Consistent, NEW t \in RewardTokens, NEW n \in Amounts, RewardsArrive(t, n)
  PROVE  Consistent'
<1>1. n \in Nat
  BY AmountsAssumption
<1>2. TypeOK'
  BY <1>1 DEF RewardsArrive, Consistent, TypeOK, ledger
<1>3. LastBalanceBacked'
  BY <1>1 DEF RewardsArrive, Consistent, TypeOK, LastBalanceBacked
<1>4. HoldersCheckpointed' /\ \A s \in RewardTokens : reward_index'[s] >= WAD
  BY DEF RewardsArrive, Consistent, HoldersCheckpointed, ledger
<1>5. SupplyHeld' /\ EntitlementsCovered'
  BY DEF RewardsArrive, Consistent, SupplyHeld, EntitlementsCovered, EntitledAt,
         ledger
<1> QED BY <1>2, <1>3, <1>4, <1>5 DEF Consistent

-----------------------------------------------------------------------------
LEMMA InitConsistent == Init => Consistent
<1> SUFFICES ASSUME Init PROVE Consistent
  OBVIOUS
<1>1. TypeOK /\ LastBalanceBacked /\ HoldersCheckpointed
  BY WadAssumption, BoundsAssumption
     DEF Init, TypeOK, LastBalanceBacked, HoldersCheckpointed
<1>2. \A t \in RewardTokens : reward_index[t] >= WAD
  BY WadAssumption DEF Init
<1>3. SupplyHeld
  <2>1. SumFunction(shares) = Total(shares)
    BY SumIsTotal DEF Init
  <2>2. Total(shares) = 0 /\ total_supply = 0
    BY AccountsAssumption, SumZero DEF Init, Total
  <2> QED BY <2>1, <2>2 DEF SupplyHeld
<1>4. ASSUME NEW t \in RewardTokens
      PROVE  Total([u \in Accounts |-> EntitledAt(u, t, reward_index[t])])
               <= reward_last_balance[t] * WAD
  <2>1. \A u \in Accounts : EntitledAt(u, t, reward_index[t]) = 0
    BY WadAssumption DEF Init, EntitledAt
  <2>2. Total([u \in Accounts |-> EntitledAt(u, t, reward_index[t])]) = 0
    BY <2>1, AccountsAssumption, SumZero DEF Total
  <2>3. reward_last_balance[t] * WAD = 0
    BY WadAssumption DEF Init
  <2> QED BY <2>2, <2>3
<1>5. EntitlementsCovered
  BY <1>4, SumIsTotal DEF EntitlementsCovered
<1> QED BY <1>1, <1>2, <1>3, <1>5 DEF Consistent

LEMMA NextConsistent == Consistent /\ [Next]_vars => Consistent'
<1> SUFFICES ASSUME Consistent, [Next]_vars PROVE Consistent'
  OBVIOUS
<1>1. CASE \E u \in Accounts, n \in Amounts : Mint(u, n) \/ Burn(u, n)
  BY <1>1, MintStep, BurnStep
<1>2. CASE \E u, v \in Accounts, n \in Amounts : Transfer(u, v, n)
  BY <1>2, TransferStep
<1>3. CASE \E u \in Accounts : update_user_rewards(u) \/ claim_rewards(u)
  BY <1>3, SyncStep, ClaimStep
<1>4. CASE \E t \in RewardTokens, n \in Amounts : RewardsArrive(t, n)
  BY <1>4, ArriveStep
<1>5. CASE UNCHANGED vars
  BY <1>5 DEF vars, ledger, rewards, Consistent, TypeOK, LastBalanceBacked,
              HoldersCheckpointed, SupplyHeld, EntitlementsCovered, EntitledAt
<1> QED BY <1>1, <1>2, <1>3, <1>4, <1>5 DEF Next

\* However shares and rewards move, what the component remembers agrees with
\* balances and holdings.
THEOREM Safety == Spec => []Consistent
<1> QED BY InitConsistent, NextConsistent, PTL DEF Spec

\* Every variable keeps its type; no subtraction of the component underflows.
THEOREM TypeCorrect == Spec => []TypeOK
<1>1. Consistent => TypeOK
  BY DEF Consistent
<1> QED BY <1>1, Safety, PTL

\* The balance seen last never exceeds the balance.
THEOREM LastBalanceIsBacked == Spec => []LastBalanceBacked
<1>1. Consistent => LastBalanceBacked
  BY DEF Consistent
<1> QED BY <1>1, Safety, PTL

\* Every holder has a checkpoint and none is ahead of the index.
THEOREM EveryHolderCheckpointed == Spec => []HoldersCheckpointed
<1>1. Consistent => HoldersCheckpointed
  BY DEF Consistent
<1> QED BY <1>1, Safety, PTL

\* The global index and every checkpoint only grow.
THEOREM IndexOnlyGrows == Spec => IndexGrows
<1> DEFINE G == \A t \in RewardTokens :
                  /\ reward_index'[t] >= reward_index[t]
                  /\ \A u \in Accounts :
                       user_reward_index'[u][t] >= user_reward_index[u][t]
<1>1. ASSUME Consistent, [Next]_vars PROVE G
  <2>1. CASE \E S \in SUBSET Accounts :
               _update_global_reward_index
                 /\ user_reward_index' = Checkpoints(S)
    BY <1>1, <2>1, UpdateFacts
  <2>2. CASE UNCHANGED <<reward_index, user_reward_index>>
    BY <1>1, <2>2 DEF Consistent, TypeOK
  <2>3. ASSUME NEW u \in Accounts, NEW v \in Accounts, NEW n \in Amounts,
               Mint(u, n) \/ Burn(u, n) \/ Transfer(u, v, n)
        PROVE  \E S \in SUBSET Accounts :
                 _update_global_reward_index
                   /\ user_reward_index' = Checkpoints(S)
    <3>1. {u} \in SUBSET Accounts /\ {u, v} \in SUBSET Accounts
      OBVIOUS
    <3> QED BY <2>3, <3>1 DEF Mint, Burn, Transfer, HookAccounts,
                              update_rewards
  <2>4. ASSUME NEW u \in Accounts,
               update_user_rewards(u) \/ claim_rewards(u)
        PROVE  \E S \in SUBSET Accounts :
                 _update_global_reward_index
                   /\ user_reward_index' = Checkpoints(S)
    <3>1. {u} \in SUBSET Accounts
      OBVIOUS
    <3> QED BY <2>4, <3>1
            DEF update_user_rewards, update_rewards, claim_rewards
  <2>5. CASE \/ \E t \in RewardTokens, n \in Amounts : RewardsArrive(t, n)
             \/ UNCHANGED vars
    BY <2>2, <2>5 DEF RewardsArrive, vars
  <2> QED BY <1>1, <2>1, <2>3, <2>4, <2>5 DEF Next
<1>2. Consistent /\ [Next]_vars => [G]_vars
  BY <1>1
<1> QED BY <1>2, Safety, PTL DEF Spec, IndexGrows

-----------------------------------------------------------------------------
(* Who gains and who loses by a step *)

\* All claims together are covered by what the component has seen: the last
\* claimant is paid as the first.
THEOREM ClaimsAreCovered == Spec => []RewardsCovered
<1>1. Consistent => RewardsCovered
  BY ClaimsCovered, SumIsTotal DEF RewardsCovered
<1> QED BY <1>1, Safety, PTL

\* What s shares earn from a checkpoint to index i.
Earned(s, checkpoint, i) ==
  IF checkpoint # 0 /\ i > checkpoint THEN (s * (i - checkpoint)) \div WAD ELSE 0

LEMMA ClaimIsCreditAndEarned ==
  ASSUME NEW u, NEW t
  PROVE  Claimable(u, t) = user_accrued[u][t]
           + Earned(shares[u], user_reward_index[u][t], SyncedIndex(t))
BY DEF Claimable, NewlyAccrued, Earned

LEMMA ClaimAfterwards ==
  ASSUME NEW u, NEW t
  PROVE  Claimable(u, t)' = user_accrued'[u][t]
           + Earned(shares'[u], user_reward_index'[u][t], SyncedIndex(t)')
BY DEF Claimable, NewlyAccrued, Earned

\* Earnings grow with the index; nothing is earned at the checkpoint itself, or
\* without shares.
LEMMA EarnedFacts ==
  ASSUME NEW s \in Nat, NEW c \in Nat, NEW i \in Nat, NEW j \in Nat, i <= j
  PROVE  /\ Earned(s, c, i) \in Nat /\ Earned(s, c, j) \in Nat
         /\ Earned(s, c, i) <= Earned(s, c, j)
         /\ Earned(s, i, i) = 0
         /\ s = 0 => Earned(s, c, j) = 0
<1>1. WAD \in Nat \ {0}
  BY WadAssumption
<1>2. \A k \in Nat : k > c => /\ k - c \in Nat
                              /\ s * (k - c) \in Nat
                              /\ (s * (k - c)) \div WAD \in Nat
  <2>1. \A k \in Nat : k > c => k - c \in Nat /\ s * (k - c) \in Nat
    BY MulNat
  <2> QED BY <1>1, <2>1, DivBounds
<1>3. \A k \in Nat : Earned(s, c, k) \in Nat
  BY <1>2 DEF Earned
<1>4. Earned(s, c, i) <= Earned(s, c, j)
  <2>1. CASE c # 0 /\ i > c
    <3>1. s * (i - c) <= s * (j - c)
      <4>1. (i - c) * s <= (j - c) * s
        BY <1>2, <2>1, MulMono
      <4> QED BY <4>1
    <3>2. (s * (i - c)) \div WAD <= (s * (j - c)) \div WAD
      BY <1>1, <1>2, <2>1, <3>1, DivMono
    <3> QED BY <2>1, <3>2 DEF Earned
  <2>2. CASE ~(c # 0 /\ i > c)
    <3>1. Earned(s, c, i) = 0
      BY <2>2 DEF Earned
    <3> QED BY <1>3, <3>1
  <2> QED BY <2>1, <2>2
<1>5. s = 0 => Earned(s, c, j) = 0
  <2>1. \A k \in Int : 0 * k = 0
    OBVIOUS
  <2>2. 0 \div WAD = 0
    BY <1>1
  <2>3. j - c \in Int
    OBVIOUS
  <2> QED BY <2>1, <2>2, <2>3 DEF Earned
<1> QED BY <1>3, <1>4, <1>5 DEF Earned

\* Everything that has arrived has been seen, unless nobody has shares.
LEMMA SyncedFacts ==
  ASSUME Consistent, NEW t \in RewardTokens
  PROVE  /\ total_supply # 0 => SyncedLast(t) = reward_balance[t]
         /\ total_supply = 0 => /\ SyncedIndex(t) = reward_index[t]
                                /\ SyncedLast(t) = reward_last_balance[t]
         /\ reward_balance[t] \in Nat
<1>1. /\ reward_balance[t] \in Nat /\ reward_last_balance[t] \in Nat
      /\ reward_last_balance[t] <= reward_balance[t] /\ total_supply \in Nat
  BY DEF Consistent, TypeOK, LastBalanceBacked
<1> QED BY <1>1 DEF SyncedLast, NewRewards, SyncedIndex

\* The index of the next synchronisation is not below the one recorded.
SyncRaises ==
  \A t \in RewardTokens :
    SyncedIndex(t) \in Nat /\ SyncedIndex(t) >= reward_index[t]

LEMMA SyncRaisesIndex == Consistent => SyncRaises
BY SyncFacts DEF SyncRaises

LEMMA SyncRaisesNext == Consistent /\ [Next]_vars => SyncRaises'
<1>1. Consistent => SyncRaises
  BY SyncRaisesIndex
<1>2. Consistent /\ [Next]_vars => Consistent'
  BY NextConsistent
<1> QED BY <1>1, <1>2, PTL

\* When everything was seen and nothing arrives, the index stays.
LEMMA NothingNew ==
  ASSUME NEW t \in RewardTokens, reward_index'[t] \in Nat, total_supply' \in Nat,
         reward_balance'[t] \in Nat, reward_last_balance'[t] \in Nat,
         total_supply' # 0 => reward_balance'[t] <= reward_last_balance'[t]
  PROVE  SyncedIndex(t)' = reward_index'[t]
<1>1. NewRewards(t)' = 0
  BY DEF NewRewards
<1>2. NewRewards(t)' * WAD = 0
  BY <1>1, WadAssumption
<1>3. \A n \in Nat \ {0} : 0 \div n = 0
  OBVIOUS
<1> QED BY <1>2, <1>3 DEF SyncedIndex

\* A step that runs the hook takes nothing from anyone, and gives nothing to
\* anyone unless nobody had shares.
LEMMA ClaimAfterHook ==
  ASSUME Consistent, Consistent', SyncRaises',
         NEW S \in SUBSET Accounts, update_rewards(S), UNCHANGED rewards,
         \A u \in Accounts \ S : shares'[u] = shares[u],
         NEW u \in Accounts, NEW t \in RewardTokens
  PROVE  /\ Claimable(u, t) \in Nat /\ Claimable(u, t)' \in Nat
         /\ Claimable(u, t)' >= Claimable(u, t)
         /\ total_supply # 0 => Claimable(u, t)' = Claimable(u, t)
<1>1. /\ reward_index'[t] = SyncedIndex(t)
      /\ reward_last_balance'[t] = SyncedLast(t)
      /\ reward_balance' = reward_balance
      /\ user_reward_index' = Checkpoints(S) /\ user_accrued' = Accruals(S)
  BY DEF update_rewards, _update_global_reward_index, rewards
<1>2. /\ SyncedIndex(t) \in Nat /\ SyncedIndex(t)' \in Nat
      /\ SyncedIndex(t)' >= SyncedIndex(t)
  BY <1>1, SyncFacts DEF SyncRaises
<1>3. total_supply # 0 => SyncedIndex(t)' = SyncedIndex(t)
  <2>1. /\ reward_balance'[t] \in Nat /\ reward_last_balance'[t] \in Nat
        /\ reward_index'[t] \in Nat /\ total_supply' \in Nat
    BY DEF Consistent, TypeOK
  <2> QED BY <1>1, <2>1, SyncedFacts, NothingNew
<1>4. /\ shares[u] \in Nat /\ user_reward_index[u][t] \in Nat
      /\ user_accrued[u][t] \in Nat
      /\ shares'[u] \in Nat
  BY DEF Consistent, TypeOK
<1>5. Claimable(u, t) \in Nat
  BY ClaimableType
<1>6. CASE u \in S
  <2>1. /\ user_accrued'[u][t] = Claimable(u, t)
        /\ user_reward_index'[u][t] = SyncedIndex(t)
    BY <1>1, <1>6 DEF Accruals, Checkpoints
  <2>2. Claimable(u, t)' = Claimable(u, t)
          + Earned(shares'[u], SyncedIndex(t), SyncedIndex(t)')
    BY <2>1, ClaimAfterwards
  <2>3. /\ Earned(shares'[u], SyncedIndex(t), SyncedIndex(t)') \in Nat
        /\ Earned(shares'[u], SyncedIndex(t), SyncedIndex(t)) = 0
    BY <1>2, <1>4, EarnedFacts
  <2> QED BY <1>3, <1>5, <2>2, <2>3
<1>7. CASE u \notin S
  <2>1. /\ user_accrued'[u][t] = user_accrued[u][t]
        /\ user_reward_index'[u][t] = user_reward_index[u][t]
        /\ shares'[u] = shares[u]
    BY <1>1, <1>7 DEF Accruals, Checkpoints
  <2>2. Claimable(u, t)' = user_accrued[u][t]
          + Earned(shares[u], user_reward_index[u][t], SyncedIndex(t)')
    BY <2>1, ClaimAfterwards
  <2>3. Claimable(u, t) = user_accrued[u][t]
          + Earned(shares[u], user_reward_index[u][t], SyncedIndex(t))
    BY ClaimIsCreditAndEarned
  <2>4. /\ Earned(shares[u], user_reward_index[u][t], SyncedIndex(t)) \in Nat
        /\ Earned(shares[u], user_reward_index[u][t], SyncedIndex(t)') \in Nat
        /\ Earned(shares[u], user_reward_index[u][t], SyncedIndex(t))
             <= Earned(shares[u], user_reward_index[u][t], SyncedIndex(t)')
    BY <1>2, <1>4, EarnedFacts
  <2> QED BY <1>3, <1>4, <2>2, <2>3, <2>4
<1> QED BY <1>6, <1>7

\* Who runs the hook in a step of the share token or of a user.
LEMMA HookRuns ==
  ASSUME Consistent,
         NEW u \in Accounts, NEW v \in Accounts, NEW n \in Amounts,
         Mint(u, n) \/ Burn(u, n) \/ Transfer(u, v, n) \/ update_user_rewards(u)
  PROVE  \E S \in SUBSET Accounts :
           /\ update_rewards(S) /\ UNCHANGED rewards
           /\ \A w \in Accounts \ S : shares'[w] = shares[w]
<1>1. /\ {u} \in SUBSET Accounts /\ {u, v} \in SUBSET Accounts
      /\ shares \in [Accounts -> Nat]
  BY DEF Consistent, TypeOK
<1>2. CASE Mint(u, n)
  <2>1. \A w \in Accounts \ {u} : shares'[w] = shares[w]
    BY <1>1, <1>2 DEF Mint
  <2> QED BY <1>1, <1>2, <2>1 DEF Mint
<1>3. CASE Burn(u, n)
  <2>1. \A w \in Accounts \ {u} : shares'[w] = shares[w]
    BY <1>1, <1>3 DEF Burn
  <2> QED BY <1>1, <1>3, <2>1 DEF Burn
<1>4. CASE Transfer(u, v, n)
  <2>1. \A w \in Accounts \ {u, v} : shares'[w] = shares[w]
    BY <1>1, <1>4 DEF Transfer
  <2> QED BY <1>1, <1>4, <2>1 DEF Transfer, HookAccounts
<1>5. CASE update_user_rewards(u)
  BY <1>1, <1>5 DEF update_user_rewards, ledger
<1> QED BY <1>2, <1>3, <1>4, <1>5

\* An arrival takes nothing from anyone; it gives only in the token that
\* arrived.
LEMMA ClaimAfterArrival ==
  ASSUME Consistent, Consistent',
         NEW a \in RewardTokens, NEW n \in Amounts, RewardsArrive(a, n),
         NEW u \in Accounts, NEW t \in RewardTokens
  PROVE  /\ Claimable(u, t) \in Nat /\ Claimable(u, t)' \in Nat
         /\ Claimable(u, t)' >= Claimable(u, t)
         /\ Claimable(u, t)' # Claimable(u, t)
              => reward_balance'[t] > reward_balance[t]
<1> DEFINE s == shares[u]  c == user_reward_index[u][t]
<1>1. /\ n \in Nat /\ reward_balance \in [RewardTokens -> Nat]
      /\ reward_balance' = [reward_balance EXCEPT ![a] = @ + n]
      /\ shares' = shares /\ total_supply' = total_supply
      /\ reward_last_balance' = reward_last_balance
      /\ reward_index' = reward_index
      /\ user_reward_index' = user_reward_index /\ user_accrued' = user_accrued
  BY AmountsAssumption DEF RewardsArrive, ledger, Consistent, TypeOK
<1>2. /\ reward_balance'[t] >= reward_balance[t]
      /\ reward_balance[t] \in Nat /\ reward_balance'[t] \in Nat
  BY <1>1
<1>3. /\ s \in Nat /\ c \in Nat /\ user_accrued[u][t] \in Nat
      /\ reward_index[t] \in Nat /\ reward_last_balance[t] \in Nat
      /\ total_supply \in Nat /\ WAD \in Nat \ {0}
  BY AccountFacts
<1>4. reward_balance'[t] = reward_balance[t] => SyncedIndex(t)' = SyncedIndex(t)
  BY <1>1 DEF SyncedIndex, NewRewards
<1>5. SyncedIndex(t) \in Nat /\ SyncedIndex(t)' \in Nat
      /\ SyncedIndex(t) <= SyncedIndex(t)'
  <2>1. /\ NewRewards(t) \in Nat /\ NewRewards(t)' \in Nat
        /\ NewRewards(t) <= NewRewards(t)'
    BY <1>1, <1>2, <1>3 DEF NewRewards
  <2>2. CASE total_supply = 0
    BY <1>1, <1>3, <2>2 DEF SyncedIndex
  <2>3. CASE total_supply # 0
    <3>1. /\ NewRewards(t) * WAD \in Nat /\ NewRewards(t)' * WAD \in Nat
          /\ NewRewards(t) * WAD <= NewRewards(t)' * WAD
      BY <1>3, <2>1, MulNat, MulMono
    <3>2. /\ (NewRewards(t) * WAD) \div total_supply \in Nat
          /\ (NewRewards(t)' * WAD) \div total_supply \in Nat
          /\ (NewRewards(t) * WAD) \div total_supply
               <= (NewRewards(t)' * WAD) \div total_supply
      BY <1>3, <2>3, <3>1, DivBounds, DivMono
    <3> QED BY <1>1, <1>3, <2>3, <3>2 DEF SyncedIndex
  <2> QED BY <2>2, <2>3
<1>6. Claimable(u, t) = user_accrued[u][t] + Earned(s, c, SyncedIndex(t))
  BY ClaimIsCreditAndEarned
<1>7. Claimable(u, t)' = user_accrued[u][t] + Earned(s, c, SyncedIndex(t)')
  BY <1>1, ClaimAfterwards
<1>8. /\ Earned(s, c, SyncedIndex(t)) \in Nat
      /\ Earned(s, c, SyncedIndex(t)') \in Nat
      /\ Earned(s, c, SyncedIndex(t)) <= Earned(s, c, SyncedIndex(t)')
  <2> HIDE DEF s, c
  <2> QED BY <1>3, <1>5, EarnedFacts
<1> HIDE DEF s, c
<1> QED BY <1>2, <1>3, <1>4, <1>6, <1>7, <1>8

\* The values after a claim by v.
LEMMA ClaimChanges ==
  ASSUME Consistent, NEW v \in Accounts, claim_rewards(v), NEW t \in RewardTokens
  PROVE  /\ shares' = shares /\ total_supply' = total_supply
         /\ reward_index'[t] = SyncedIndex(t) /\ SyncedIndex(t) \in Nat
         /\ reward_last_balance'[t] = SyncedLast(t) - Claimable(v, t)
         /\ SyncedLast(t) \in Nat
         /\ Claimable(v, t) \in Nat /\ Claimable(v, t) <= SyncedLast(t)
         /\ reward_balance'[t] = reward_balance[t]
                                   - (IF v = Host THEN 0 ELSE Claimable(v, t))
         /\ user_accrued'[v][t] = 0 /\ user_reward_index'[v][t] = SyncedIndex(t)
         /\ \A u \in Accounts \ {v} :
              /\ user_accrued'[u][t] = user_accrued[u][t]
              /\ user_reward_index'[u][t] = user_reward_index[u][t]
<1>1. /\ shares' = shares /\ total_supply' = total_supply
      /\ reward_index'[t] = SyncedIndex(t) /\ SyncedIndex(t) \in Nat
      /\ reward_last_balance'[t] = SyncedLast(t) - Claimable(v, t)
      /\ SyncedLast(t) \in Nat
      /\ Claimable(v, t) \in Nat /\ Claimable(v, t) <= SyncedLast(t)
  BY SyncFacts, ClaimableType
     DEF claim_rewards, CanClaim, LastAfterClaim, _update_global_reward_index,
         ledger
<1>2. reward_balance'[t] = reward_balance[t]
                             - (IF v = Host THEN 0 ELSE Claimable(v, t))
  <2>1. reward_balance[t] \in Nat
    BY DEF Consistent, TypeOK
  <2>2. CASE v = Host
    BY <2>1, <2>2 DEF claim_rewards
  <2>3. CASE v # Host
    BY <2>3 DEF claim_rewards
  <2> QED BY <2>2, <2>3
<1>3. /\ user_reward_index'[v][t] = SyncedIndex(t)
      /\ \A u \in Accounts \ {v} :
           user_reward_index'[u][t] = user_reward_index[u][t]
  BY DEF claim_rewards, Checkpoints
<1>4. /\ user_accrued'[v][t] = 0
      /\ \A u \in Accounts \ {v} : user_accrued'[u][t] = user_accrued[u][t]
  <2>1. Accruals({v}) \in [Accounts -> [RewardTokens -> Nat]]
    BY ClaimableType DEF Accruals, Consistent, TypeOK
  <2>2. \A u \in Accounts \ {v} : Accruals({v})[u] = user_accrued[u]
    BY DEF Accruals
  <2> QED BY <2>1, <2>2 DEF claim_rewards
<1> QED BY <1>1, <1>2, <1>3, <1>4

\* The claim of anyone but the host leaves the other claims as they are.
LEMMA OthersAfterClaim ==
  ASSUME Consistent, Consistent', NEW v \in Accounts \ {Host}, claim_rewards(v),
         NEW u \in Accounts, NEW t \in RewardTokens
  PROVE  IF u = v THEN Claimable(u, t)' = 0
                  ELSE Claimable(u, t)' = Claimable(u, t)
<1>1. SyncedIndex(t)' = SyncedIndex(t)
  <2>1. /\ reward_balance'[t] \in Nat /\ reward_last_balance'[t] \in Nat
        /\ reward_index'[t] \in Nat /\ total_supply' \in Nat
    BY DEF Consistent, TypeOK
  <2>2. total_supply' # 0 => reward_balance'[t] <= reward_last_balance'[t]
    BY <2>1, ClaimChanges, SyncedFacts
  <2> QED BY <2>1, <2>2, NothingNew, ClaimChanges
<1>2. CASE u = v
  <2>1. Claimable(u, t)' = 0 + Earned(shares[u], SyncedIndex(t), SyncedIndex(t))
    BY <1>1, <1>2, ClaimAfterwards, ClaimChanges
  <2>2. Earned(shares[u], SyncedIndex(t), SyncedIndex(t)) = 0
    BY ClaimChanges DEF Earned
  <2> QED BY <1>2, <2>1, <2>2
<1>3. CASE u # v
  BY <1>1, <1>3, ClaimAfterwards, ClaimIsCreditAndEarned, ClaimChanges
<1> QED BY <1>2, <1>3

\* A claim for the host pays the host, which recycles its rewards: the others
\* lose nothing, and gain only what the host no longer can claim.
LEMMA OthersAfterHostClaim ==
  ASSUME Consistent, Consistent', SyncRaises', claim_rewards(Host),
         NEW t \in RewardTokens
  PROVE  /\ Claimable(Host, t)' <= Claimable(Host, t)
         /\ Claimable(Host, t) \in Nat /\ Claimable(Host, t)' \in Nat
         /\ \A u \in Accounts \ {Host} :
              /\ Claimable(u, t) \in Nat /\ Claimable(u, t)' \in Nat
              /\ Claimable(u, t)' >= Claimable(u, t)
              /\ Claimable(u, t)' > Claimable(u, t)
                   => Claimable(Host, t)' < Claimable(Host, t)
<1> DEFINE c == Claimable(Host, t)
           hs == shares[Host]
           i == SyncedIndex(t)
           j == SyncedIndex(t)'
<1>1. /\ Host \in Accounts /\ WAD \in Nat \ {0}
      /\ hs \in Nat /\ total_supply \in Nat
      /\ c \in Nat /\ i \in Nat /\ j \in Nat /\ i <= j
  <2>1. i \in Nat /\ reward_index'[t] = i /\ c \in Nat
    BY HostAssumption, ClaimChanges
  <2>2. j \in Nat /\ j >= reward_index'[t]
    BY DEF SyncRaises
  <2> QED BY <2>1, <2>2, HostAssumption, AccountFacts
<1>2. Claimable(Host, t)' = Earned(hs, i, j) /\ Earned(hs, i, j) \in Nat
  <2>1. Claimable(Host, t)' = 0 + Earned(hs, i, j)
    BY <1>1, ClaimAfterwards, ClaimChanges
  <2>2. Earned(hs, i, j) \in Nat
    <3> HIDE DEF hs, i, j
    <3> QED BY <1>1, EarnedFacts
  <2> QED BY <2>1, <2>2
\* The index rises by at most the host's claim over the supply.
<1>3. (j - i) * total_supply <= c * WAD /\ c * WAD \in Nat /\ j - i \in Nat
  <2>1. c * WAD \in Nat /\ j - i \in Nat
    BY <1>1, MulNat
  <2>2. CASE total_supply = 0
    <3>1. (j - i) * total_supply = 0
      BY <2>1, <2>2
    <3> QED BY <2>1, <3>1
  <2>3. CASE total_supply # 0
    <3>1. /\ reward_balance'[t] = reward_balance[t]
          /\ reward_last_balance'[t] = reward_balance[t] - c
          /\ total_supply' = total_supply /\ reward_index'[t] = i
          /\ reward_balance[t] \in Nat
      <4>1. SyncedLast(t) = reward_balance[t] /\ reward_balance[t] \in Nat
        BY <2>3, SyncedFacts
      <4> QED BY <1>1, <4>1, ClaimChanges
    <3>2. NewRewards(t)' = c
      BY <1>1, <2>3, <3>1 DEF NewRewards
    <3>3. j = i + (c * WAD) \div total_supply
      BY <2>3, <3>1, <3>2 DEF SyncedIndex
    <3>4. /\ (c * WAD) \div total_supply \in Nat
          /\ ((c * WAD) \div total_supply) * total_supply <= c * WAD
      BY <1>1, <2>1, <2>3, DivBounds
    <3>5. j - i = (c * WAD) \div total_supply
      <4> HIDE DEF c, i, j
      <4> QED BY <1>1, <3>3, <3>4
    <3> QED BY <2>1, <3>4, <3>5
  <2> QED BY <2>2, <2>3
<1>4. hs <= total_supply /\ \A u \in Accounts \ {Host} : hs + shares[u] <= total_supply
  <2>1. \A u \in Accounts : shares[u] \in Nat
    BY AccountFacts
  <2> QED BY <1>1, <2>1, AccountsAssumption, SharesTotal, SumBounds, SumBoundsTwo
          DEF Total
<1>5. hs * (j - i) \in Nat /\ hs * (j - i) <= c * WAD
      /\ (hs < total_supply /\ j > i => hs * (j - i) < c * WAD)
  <2> HIDE DEF c, hs, i, j
  <2>1. (j - i) * hs <= (j - i) * total_supply
    <3>1. hs * (j - i) <= total_supply * (j - i)
      BY <1>1, <1>3, <1>4, MulMono
    <3> QED BY <1>1, <1>3, <3>1
  <2>2. hs < total_supply /\ j > i => (j - i) * hs < (j - i) * total_supply
    <3>1. \A x, y \in Nat, d \in Nat \ {0} : x < y => d * x < d * y
      OBVIOUS
    <3> QED BY <1>1, <1>3, <3>1
  <2>3. /\ hs * (j - i) = (j - i) * hs /\ (j - i) * hs \in Nat
        /\ (j - i) * total_supply \in Nat
    BY <1>1, <1>3, MulNat
  <2> QED BY <1>3, <2>1, <2>2, <2>3
<1>6. /\ Earned(hs, i, j) <= c
      /\ hs < total_supply /\ j > i => Earned(hs, i, j) < c
  <2> HIDE DEF c, hs, i, j
  <2>1. CASE i # 0 /\ j > i
    <3> DEFINE q == (hs * (j - i)) \div WAD
    <3>1. Earned(hs, i, j) = q
      BY <2>1 DEF Earned
    <3>2. q \in Nat /\ q * WAD <= hs * (j - i)
      BY <1>1, <1>5, DivBounds
    <3> HIDE DEF q
    <3>3. \A x, y \in Nat, k \in Nat \ {0} : x * k <= y * k => x <= y
      OBVIOUS
    <3>4. \A x, y \in Nat, k \in Nat \ {0} : x * k < y * k => x < y
      OBVIOUS
    <3>5. q * WAD <= c * WAD /\ q * WAD \in Nat
      BY <1>1, <1>3, <1>5, <3>2, MulNat
    <3>6. hs < total_supply /\ j > i => q * WAD < c * WAD
      BY <1>3, <1>5, <3>2, <3>5
    <3> QED BY <1>1, <3>1, <3>2, <3>3, <3>4, <3>5, <3>6
  <2>2. CASE ~(i # 0 /\ j > i)
    <3>1. Earned(hs, i, j) = 0 /\ ~(j > i)
      <4>1. i # 0
        BY SyncFacts DEF i
      <4> QED BY <2>2, <4>1 DEF Earned
    <3> QED BY <1>1, <3>1
  <2> QED BY <2>1, <2>2
<1>7. ASSUME NEW u \in Accounts \ {Host}
      PROVE  /\ Claimable(u, t) \in Nat /\ Claimable(u, t)' \in Nat
             /\ Claimable(u, t)' >= Claimable(u, t)
             /\ Claimable(u, t)' > Claimable(u, t) => hs < total_supply /\ j > i
  <2> DEFINE s == shares[u]  p == user_reward_index[u][t]  a == user_accrued[u][t]
  <2>1. s \in Nat /\ p \in Nat /\ a \in Nat
    BY AccountFacts
  <2>2. Claimable(u, t) = a + Earned(s, p, i)
    BY ClaimIsCreditAndEarned
  <2>3. Claimable(u, t)' = a + Earned(s, p, j)
    BY <1>1, ClaimAfterwards, ClaimChanges
  <2>4. hs + s <= total_supply
    BY <1>4
  <2>5. i \in Nat /\ j \in Nat /\ i <= j
    BY <1>1
  <2> HIDE DEF s, p, a, hs, i, j
  <2>6. /\ Earned(s, p, i) \in Nat /\ Earned(s, p, j) \in Nat
        /\ Earned(s, p, i) <= Earned(s, p, j)
    BY <2>1, <2>5, EarnedFacts
  <2>7. s = 0 => /\ Earned(s, p, i) = 0 /\ Earned(s, p, j) = 0
    BY <2>1, <2>5, EarnedFacts
  <2> QED BY <1>1, <2>1, <2>2, <2>3, <2>4, <2>5, <2>6, <2>7
<1> QED BY <1>1, <1>2, <1>6, <1>7

\* The three ways in which a step treats the claims on t.
LEMMA StepKinds ==
  ASSUME Consistent, [Next]_vars, NEW u \in Accounts, NEW t \in RewardTokens
  PROVE  \* nobody claims
         \/ /\ Claimable(u, t) \in Nat /\ Claimable(u, t)' >= Claimable(u, t)
            /\ Claimable(u, t)' \in Nat
            /\ Claimable(u, t)' # Claimable(u, t)
                 => total_supply = 0 \/ reward_balance'[t] > reward_balance[t]
         \* a claim that is paid
         \/ \E v \in Accounts \ {Host} :
              /\ Claimable(v, t) \in Nat /\ reward_balance[t] \in Nat
              /\ reward_balance'[t] = reward_balance[t] - Claimable(v, t)
              /\ u = v => Claimable(u, t)' = 0
              /\ u # v => Claimable(u, t)' = Claimable(u, t)
         \* a claim for the host
         \/ /\ Claimable(u, t) \in Nat /\ Claimable(u, t)' \in Nat
            /\ u = Host => Claimable(u, t)' <= Claimable(u, t)
            /\ u # Host => /\ Claimable(u, t)' >= Claimable(u, t)
                           /\ Claimable(u, t)' > Claimable(u, t) =>
                                Claimable(Host, t)' < Claimable(Host, t)
<1>1. Consistent' /\ SyncRaises'
  BY NextConsistent, SyncRaisesNext
<1>2. ASSUME NEW x \in Accounts, NEW y \in Accounts, NEW n \in Amounts,
             \/ Mint(x, n) \/ Burn(x, n) \/ Transfer(x, y, n)
             \/ update_user_rewards(x)
      PROVE  /\ Claimable(u, t) \in Nat /\ Claimable(u, t)' >= Claimable(u, t)
             /\ Claimable(u, t)' \in Nat
             /\ Claimable(u, t)' # Claimable(u, t) => total_supply = 0
  <2>1. PICK S \in SUBSET Accounts :
           /\ update_rewards(S) /\ UNCHANGED rewards
           /\ \A w \in Accounts \ S : shares'[w] = shares[w]
    BY <1>2, HookRuns
  <2> QED BY <1>1, <2>1, ClaimAfterHook
<1>3. ASSUME NEW x \in Accounts, update_user_rewards(x)
      PROVE  /\ Claimable(u, t) \in Nat /\ Claimable(u, t)' >= Claimable(u, t)
             /\ Claimable(u, t)' \in Nat
             /\ Claimable(u, t)' # Claimable(u, t) => total_supply = 0
  <2>1. /\ {x} \in SUBSET Accounts /\ update_rewards({x}) /\ UNCHANGED rewards
        /\ \A w \in Accounts \ {x} : shares'[w] = shares[w]
    BY <1>3 DEF update_user_rewards, ledger
  <2> QED BY <1>1, <2>1, ClaimAfterHook
<1>4. CASE \E x \in Accounts, n \in Amounts : Mint(x, n) \/ Burn(x, n)
  BY <1>2, <1>4
<1>5. CASE \E x, y \in Accounts, n \in Amounts : Transfer(x, y, n)
  BY <1>2, <1>5
<1>6. ASSUME NEW v \in Accounts, claim_rewards(v), v # Host
      PROVE  /\ Claimable(v, t) \in Nat /\ reward_balance[t] \in Nat
             /\ reward_balance'[t] = reward_balance[t] - Claimable(v, t)
             /\ u = v => Claimable(u, t)' = 0
             /\ u # v => Claimable(u, t)' = Claimable(u, t)
  <2>1. reward_balance[t] \in Nat
    BY SyncedFacts
  <2>2. /\ Claimable(v, t) \in Nat
        /\ reward_balance'[t] = reward_balance[t] - Claimable(v, t)
    BY <1>6, ClaimChanges
  <2>3. IF u = v THEN Claimable(u, t)' = 0
                 ELSE Claimable(u, t)' = Claimable(u, t)
    BY <1>1, <1>6, OthersAfterClaim
  <2> QED BY <2>1, <2>2, <2>3
<1>7. ASSUME claim_rewards(Host)
      PROVE  /\ Claimable(u, t) \in Nat /\ Claimable(u, t)' \in Nat
             /\ u = Host => Claimable(u, t)' <= Claimable(u, t)
             /\ u # Host => /\ Claimable(u, t)' >= Claimable(u, t)
                            /\ Claimable(u, t)' > Claimable(u, t) =>
                                 Claimable(Host, t)' < Claimable(Host, t)
  <2>1. CASE u = Host
    BY <1>1, <1>7, <2>1, OthersAfterHostClaim
  <2>2. CASE u # Host
    BY <1>1, <1>7, <2>2, OthersAfterHostClaim
  <2> QED BY <2>1, <2>2
<1>8. CASE \E a \in RewardTokens, n \in Amounts : RewardsArrive(a, n)
  BY <1>1, <1>8, ClaimAfterArrival
<1>9. CASE UNCHANGED vars
  <2>1. Claimable(u, t)' = Claimable(u, t)
    BY <1>9 DEF vars, ledger, rewards, Claimable, NewlyAccrued, SyncedIndex,
                NewRewards
  <2> QED BY <2>1, ClaimableType
<1> QED BY <1>3, <1>4, <1>5, <1>6, <1>7, <1>8, <1>9 DEF Next

\* No step credits anyone with rewards that did not arrive: a claim grows by
\* an arrival, by what the host gives up, or as the first holder's.
THEOREM NothingUnearned == Spec => NoUnearnedRewards
<1> DEFINE A == \A u \in Accounts, t \in RewardTokens :
                  Claimable(u, t)' > Claimable(u, t) =>
                    \/ reward_balance'[t] > reward_balance[t]
                    \/ u # Host /\ Claimable(Host, t)' < Claimable(Host, t)
                    \/ total_supply = 0
<1>1. ASSUME Consistent, [Next]_vars,
             NEW u \in Accounts, NEW t \in RewardTokens,
             Claimable(u, t)' > Claimable(u, t)
      PROVE  \/ reward_balance'[t] > reward_balance[t]
             \/ u # Host /\ Claimable(Host, t)' < Claimable(Host, t)
             \/ total_supply = 0
  <2>1. Claimable(u, t) \in Nat
    BY <1>1, ClaimableType
  <2> QED BY <1>1, <2>1, StepKinds
<1>2. Consistent /\ [Next]_vars => [A]_vars
  BY <1>1
<1> QED BY <1>2, Safety, PTL DEF Spec, NoUnearnedRewards

\* No step takes a claim away: it is paid in full or not at all.
THEOREM OnlyPaidOut == Spec => RewardsOnlyPaidOut
<1> DEFINE A == \A u \in Accounts \ {Host}, t \in RewardTokens :
                  Claimable(u, t)' < Claimable(u, t) =>
                    reward_balance[t] - reward_balance'[t] = Claimable(u, t)
<1>1. ASSUME Consistent, [Next]_vars,
             NEW u \in Accounts \ {Host}, NEW t \in RewardTokens,
             Claimable(u, t)' < Claimable(u, t)
      PROVE  reward_balance[t] - reward_balance'[t] = Claimable(u, t)
  <2>1. Claimable(u, t) \in Nat
    BY <1>1, ClaimableType
  <2>2. \E v \in Accounts \ {Host} :
          /\ Claimable(v, t) \in Nat /\ reward_balance[t] \in Nat
          /\ reward_balance'[t] = reward_balance[t] - Claimable(v, t)
          /\ u = v => Claimable(u, t)' = 0
          /\ u # v => Claimable(u, t)' = Claimable(u, t)
    BY <1>1, <2>1, StepKinds
  <2> QED BY <1>1, <2>1, <2>2
<1>2. Consistent /\ [Next]_vars => [A]_vars
  BY <1>1
<1> QED BY <1>2, Safety, PTL DEF Spec, RewardsOnlyPaidOut

\* Rewards that are looked at are spread, except for less than one unit of the
\* index per share; with no shares they wait.
THEOREM SeenIsSpread == Spec => NothingSwallowed
<1> DEFINE A == \A t \in RewardTokens :
                  reward_last_balance'[t] > reward_last_balance[t]
                    => \/ reward_index'[t] > reward_index[t]
                       \/ (reward_balance[t] - reward_last_balance[t]) * WAD
                            < total_supply
<1>1. ASSUME Consistent, NEW t \in RewardTokens,
             reward_index'[t] = SyncedIndex(t),
             reward_last_balance'[t] <= SyncedLast(t),
             reward_last_balance'[t] > reward_last_balance[t],
             reward_last_balance'[t] \in Int
      PROVE  \/ reward_index'[t] > reward_index[t]
             \/ (reward_balance[t] - reward_last_balance[t]) * WAD < total_supply
  <2> DEFINE n == NewRewards(t) * WAD
  <2>1. /\ reward_last_balance[t] \in Nat /\ reward_index[t] \in Nat
        /\ total_supply \in Nat
    BY <1>1, AccountFacts DEF Consistent, TypeOK
  <2>2. /\ NewRewards(t) \in Nat /\ n \in Nat
        /\ SyncedLast(t) = reward_last_balance[t] + NewRewards(t)
    BY <1>1, SyncFacts, MulNat, WadAssumption DEF SyncedLast
  <2>3. NewRewards(t) # 0
    BY <1>1, <2>1, <2>2
  <2>4. /\ total_supply # 0
        /\ NewRewards(t) = reward_balance[t] - reward_last_balance[t]
    BY <2>3 DEF NewRewards
  <2>5. /\ n \div total_supply \in Nat
        /\ n < (n \div total_supply) * total_supply + total_supply
    <3> HIDE DEF n
    <3> QED BY <2>1, <2>2, <2>4, DivBounds
  <2>6. reward_index'[t] = reward_index[t] + n \div total_supply
    BY <1>1, <2>4 DEF SyncedIndex
  <2>7. CASE n \div total_supply = 0
    <3>1. (n \div total_supply) * total_supply = 0
      BY <2>1, <2>7
    <3>2. n < total_supply
      <4> HIDE DEF n
      <4> QED BY <2>1, <2>2, <2>5, <3>1
    <3> QED BY <2>4, <3>2
  <2>8. CASE n \div total_supply # 0
    <3> HIDE DEF n
    <3> QED BY <2>1, <2>5, <2>6, <2>8
  <2> QED BY <2>7, <2>8
<1>2. ASSUME Consistent, [Next]_vars, NEW t \in RewardTokens
      PROVE  \/ reward_last_balance'[t] = reward_last_balance[t]
             \/ /\ reward_index'[t] = SyncedIndex(t)
                /\ reward_last_balance'[t] <= SyncedLast(t)
                /\ reward_last_balance'[t] \in Int
  <2>1. SyncedLast(t) \in Nat
    BY <1>2, SyncFacts
  <2>2. ASSUME NEW S \in SUBSET Accounts, update_rewards(S)
        PROVE  /\ reward_index'[t] = SyncedIndex(t)
               /\ reward_last_balance'[t] <= SyncedLast(t)
               /\ reward_last_balance'[t] \in Int
    BY <2>1, <2>2 DEF update_rewards, _update_global_reward_index
  <2>3. ASSUME NEW u \in Accounts, NEW v \in Accounts, NEW n \in Amounts,
               \/ Mint(u, n) \/ Burn(u, n) \/ Transfer(u, v, n)
               \/ update_user_rewards(u)
        PROVE  /\ reward_index'[t] = SyncedIndex(t)
               /\ reward_last_balance'[t] <= SyncedLast(t)
               /\ reward_last_balance'[t] \in Int
    BY <1>2, <2>2, <2>3, HookRuns
  <2>4. ASSUME NEW u \in Accounts, update_user_rewards(u)
        PROVE  /\ reward_index'[t] = SyncedIndex(t)
               /\ reward_last_balance'[t] <= SyncedLast(t)
               /\ reward_last_balance'[t] \in Int
    <3>1. {u} \in SUBSET Accounts
      OBVIOUS
    <3> QED BY <2>2, <2>4, <3>1 DEF update_user_rewards
  <2>5. ASSUME NEW u \in Accounts, claim_rewards(u)
        PROVE  /\ reward_index'[t] = SyncedIndex(t)
               /\ reward_last_balance'[t] <= SyncedLast(t)
               /\ reward_last_balance'[t] \in Int
    BY <1>2, <2>5, ClaimChanges
  <2>6. CASE (\E a \in RewardTokens, n \in Amounts : RewardsArrive(a, n))
             \/ UNCHANGED vars
    BY <2>6 DEF RewardsArrive, vars
  <2> QED BY <1>2, <2>3, <2>4, <2>5, <2>6 DEF Next
<1>3. ASSUME Consistent, [Next]_vars PROVE A
  <2> TAKE t \in RewardTokens
  <2> HAVE reward_last_balance'[t] > reward_last_balance[t]
  <2>1. reward_last_balance[t] \in Nat
    BY <1>3 DEF Consistent, TypeOK
  <2>2. reward_last_balance'[t] # reward_last_balance[t]
    BY <2>1
  <2> QED BY <1>1, <1>2, <1>3, <2>2
<1>4. Consistent /\ [Next]_vars => [A]_vars
  BY <1>3
<1> QED BY <1>4, Safety, PTL DEF Spec, NothingSwallowed

=============================================================================

-------------------------- MODULE YieldToken_proofs --------------------------
(***************************************************************************)
(* Safety of the PT/YT accounting for any accounts, rates, fees, amounts   *)
(* and fixed-point units.                                                  *)
(*                                                                         *)
(* The invariants are proved together, as Consistent: the reserve and parity     *)
(* facts need the types; the types of the interest need the checkpoints to *)
(* be behind the index; and the checkpoints stay behind it because the     *)
(* same-block cache can only be hit when it holds the stored index, and    *)
(* the index can only be captured after expiry (CacheCoherent).            *)
(***************************************************************************)
EXTENDS YieldToken, MathFp_proofs

-----------------------------------------------------------------------------
(***************************************************************************)
(* Ledgers                                                                 *)
(***************************************************************************)

\* Crediting an account keeps a ledger a ledger and changes one balance.
LEMMA CreditType ==
  ASSUME NEW f \in [Accounts -> Nat], NEW a \in Accounts, NEW n \in Nat
  PROVE  /\ Credit(f, a, n) \in [Accounts -> Nat]
         /\ \A x \in Accounts :
              Credit(f, a, n)[x] = IF x = a THEN f[x] + n ELSE f[x]
BY DEF Credit

\* Debiting at most what an account has does too.
LEMMA DebitType ==
  ASSUME NEW f \in [Accounts -> Nat], NEW a \in Accounts, NEW n \in Nat,
         f[a] >= n
  PROVE  /\ Debit(f, a, n) \in [Accounts -> Nat]
         /\ \A x \in Accounts :
              Debit(f, a, n)[x] = IF x = a THEN f[x] - n ELSE f[x]
BY DEF Debit

\* A covered transfer keeps a ledger a ledger, and takes only from its source.
LEMMA MoveType ==
  ASSUME NEW f \in [Accounts -> Nat], NEW a \in Accounts, NEW b \in Accounts,
         NEW n \in Nat, f[a] >= n
  PROVE  /\ Move(f, a, b, n) \in [Accounts -> Nat]
         /\ \A x \in Accounts : x # a => Move(f, a, b, n)[x] >= f[x]
<1> DEFINE g == Debit(f, a, n)
<1>1. /\ g \in [Accounts -> Nat]
      /\ \A x \in Accounts : g[x] = IF x = a THEN f[x] - n ELSE f[x]
  BY DebitType
<1> HIDE DEF g
<1>2. /\ Credit(g, b, n) \in [Accounts -> Nat]
      /\ \A x \in Accounts :
           Credit(g, b, n)[x] = IF x = b THEN g[x] + n ELSE g[x]
  BY <1>1, CreditType
<1>3. ASSUME NEW x \in Accounts, x # a PROVE Credit(g, b, n)[x] >= f[x]
  BY <1>1, <1>2, <1>3
<1> QED BY <1>2, <1>3 DEF Move, g

LEMMA AccountsFinite ==
  IsFiniteSet(Accounts) /\ IsFiniteSet(Holders) /\ YTC \in Accounts
    /\ Holders \subseteq Accounts /\ Accounts \ {YTC} = Holders
<1>1. IsFiniteSet(Users \cup {YTC, Treasury})
  <2>1. IsFiniteSet({YTC} \cup {Treasury})
    BY FS_Singleton, FS_Union
  <2>2. {YTC} \cup {Treasury} = {YTC, Treasury}
    OBVIOUS
  <2> QED BY <2>1, <2>2, FiniteAssumption, FS_Union
<1>2. IsFiniteSet(Accounts)
  BY <1>1 DEF Accounts
<1> QED BY <1>2, FS_Subset DEF Holders, Accounts

\* The total of a ledger is a natural number.
LEMMA TotalIsSum ==
  ASSUME NEW f \in [Accounts -> Nat]
  PROVE  SumFunction(f) = SumFunctionOnSet(f, Accounts) /\ SumFunction(f) \in Nat
<1>1. SumFunction(f) = SumFunctionOnSet(f, Accounts)
  BY DEF SumFunction
<1>2. SumFunctionOnSet(f, Accounts) \in Nat
  BY AccountsFinite, SumNat
<1> QED BY <1>1, <1>2

\* When one balance changes, the total changes by as much.
LEMMA TotalChanges ==
  ASSUME NEW f \in [Accounts -> Nat], NEW g \in [Accounts -> Nat],
         NEW a \in Accounts, \A x \in Accounts : x # a => g[x] = f[x]
  PROVE  SumFunction(g) = SumFunction(f) + (g[a] - f[a])
<1>1. SumFunctionOnSet(g, Accounts)
        = SumFunctionOnSet(f, Accounts) + (g[a] - f[a])
  BY AccountsFinite, SumChanges
<1> QED BY <1>1, TotalIsSum

\* What a credit adds to a ledger, a debit takes away; a transfer keeps the
\* total.
LEMMA LedgerTotals ==
  ASSUME NEW f \in [Accounts -> Nat], NEW a \in Accounts, NEW b \in Accounts,
         NEW n \in Nat
  PROVE  /\ SumFunction(Credit(f, a, n)) = SumFunction(f) + n
         /\ f[a] >= n => SumFunction(Debit(f, a, n)) = SumFunction(f) - n
         /\ f[a] >= n => SumFunction(Move(f, a, b, n)) = SumFunction(f)
<1>1. ASSUME NEW g \in [Accounts -> Nat], NEW c \in Accounts
      PROVE  SumFunction(Credit(g, c, n)) = SumFunction(g) + n
  <2> DEFINE h == Credit(g, c, n)
  <2>1. h \in [Accounts -> Nat]
        /\ \A x \in Accounts : h[x] = IF x = c THEN g[x] + n ELSE g[x]
    BY CreditType
  <2> HIDE DEF h
  <2>2. SumFunction(h) = SumFunction(g) + (h[c] - g[c])
    BY <2>1, TotalChanges
  <2>3. h[c] - g[c] = n /\ SumFunction(g) \in Nat
    BY <2>1, TotalIsSum
  <2> QED BY <2>2, <2>3 DEF h
<1>2. ASSUME f[a] >= n
      PROVE  /\ SumFunction(Debit(f, a, n)) = SumFunction(f) - n
             /\ SumFunction(Move(f, a, b, n)) = SumFunction(f)
  <2> DEFINE h == Debit(f, a, n)
  <2>1. h \in [Accounts -> Nat]
        /\ \A x \in Accounts : h[x] = IF x = a THEN f[x] - n ELSE f[x]
    BY <1>2, DebitType
  <2> HIDE DEF h
  <2>2. SumFunction(h) = SumFunction(f) + (h[a] - f[a])
    BY <2>1, TotalChanges
  <2>3. h[a] - f[a] = -n /\ SumFunction(f) \in Nat
    BY <2>1, TotalIsSum
  <2>4. SumFunction(Credit(h, b, n)) = SumFunction(h) + n
    BY <1>1, <2>1
  <2> QED BY <2>2, <2>3, <2>4 DEF h, Move
<1> QED BY <1>1, <1>2

-----------------------------------------------------------------------------
(***************************************************************************)
(* The index                                                               *)
(***************************************************************************)

\* What a synced index can be: a rate, at or above the stored one, and equal
\* to it once captured or cached.
LEMMA SyncedIndexFacts ==
  ASSUME Consistent
  PROVE  /\ SyncedIndex \in Rates /\ SyncedIndex \in Nat
         /\ SyncedIndex >= WAD /\ SyncedIndex # 0
         /\ py_index_stored \in Nat
         /\ SyncedIndex >= py_index_stored
         /\ Captured => SyncedIndex = py_index_stored
BY RatesAssumption, WadAssumption
   DEF Consistent, TypeOK, CheckpointsBehindIndex, CacheCoherent, SyncedIndex,
       _fetch_current_index, max, Captured

\* _update_py_index keeps the index variables typed and coherent.
LEMMA UpdateIndex ==
  ASSUME Consistent, _update_py_index, expired' = expired
  PROVE  /\ py_index_stored' \in Rates /\ py_index_stored' = SyncedIndex
         /\ py_index_at_expiry' \in Rates \cup {0}
         /\ cached_index' \in Rates \cup {0}
         /\ cacheFresh' \in BOOLEAN
         /\ cacheFresh' => ~expired' /\ cached_index' = py_index_stored'
         /\ Captured' => expired'
         /\ expired => Captured'
         /\ Captured => Captured'
         /\ Captured' => py_index_at_expiry' = py_index_stored'
         /\ py_index_stored' >= py_index_stored
         /\ Captured => /\ py_index_stored' = py_index_stored
                        /\ py_index_at_expiry' = py_index_at_expiry
<1>1. CASE expired
  BY <1>1, SyncedIndexFacts
     DEF Consistent, TypeOK, CacheCoherent, CheckpointsBehindIndex, Captured,
         _update_py_index
<1>2. CASE ~expired
  <2>1. ~Captured
    BY <1>2 DEF Consistent, CacheCoherent
  <2>2. cacheFresh => SyncedIndex = py_index_stored
    BY <1>2 DEF SyncedIndex
  <2> QED
    BY <1>2, <2>1, <2>2, SyncedIndexFacts
       DEF Consistent, TypeOK, CacheCoherent, Captured, _update_py_index
<1> QED BY <1>1, <1>2 DEF Consistent, TypeOK

-----------------------------------------------------------------------------
(***************************************************************************)
(* Interest                                                                *)
(***************************************************************************)

\* Interest between two rates is a natural number: its denominator is not 0.
LEMMA InterestBetweenType ==
  ASSUME NEW b \in Nat, NEW i \in Rates, NEW j \in Rates, i <= j
  PROVE  InterestBetween(b, i, j) \in Nat
<1>1. i \in Nat /\ j \in Nat /\ i >= WAD /\ j >= WAD
  BY RatesAssumption
<1>2. wad_mul(i, j) \in Nat \ {0}
  BY <1>1, ProductAtLeastOne, WadType, WadAssumption
<1>3. j - i \in Nat
  BY <1>1
<1>4. wad_mul(b, j - i) \in Nat
  BY <1>3, WadType
<1> QED BY <1>2, <1>4, WadType DEF InterestBetween

\* What an account has accrued at an index is a natural number.
LEMMA NewInterestType ==
  ASSUME Consistent, NEW a \in Accounts, NEW j \in Rates
  PROVE  NewInterest(a, j) \in Nat
<1>1. CASE user_index[a] > 0 /\ yt[a] > 0 /\ j > user_index[a]
  <2>1. /\ user_index[a] \in Rates /\ user_index[a] \in Nat /\ yt[a] \in Nat
        /\ j \in Nat
    BY <1>1, RatesAssumption DEF Consistent, TypeOK
  <2>2. InterestBetween(yt[a], user_index[a], j) \in Nat
    BY <1>1, <2>1, InterestBetweenType
  <2> QED BY <1>1, <2>2 DEF NewInterest
<1>2. CASE ~(user_index[a] > 0 /\ yt[a] > 0 /\ j > user_index[a])
  BY <1>2 DEF NewInterest
<1> QED BY <1>1, <1>2

\* Checkpointing any set of accounts leaves every checkpoint at or below the
\* new index, positive for those checkpointed, and every accrual natural.
LEMMA CheckpointFacts ==
  ASSUME Consistent, NEW S \in SUBSET Accounts
  PROVE  /\ IndexAfter(S) \in [Accounts -> Rates \cup {0}]
         /\ InterestAfter(S) \in [Accounts -> Nat]
         /\ \A a \in Accounts : IndexAfter(S)[a] <= SyncedIndex
         /\ \A a \in Accounts :
              (a \in S /\ a # YTC) \/ user_index[a] > 0
                => IndexAfter(S)[a] > 0
         /\ InterestAfter(S)[YTC] = 0
<1>1. ASSUME NEW a \in Accounts PROVE NewInterest(a, SyncedIndex) \in Nat
  BY SyncedIndexFacts, NewInterestType
<1>2. IndexAfter(S) \in [Accounts -> Rates \cup {0}]
  BY SyncedIndexFacts DEF Consistent, TypeOK, IndexAfter
<1>3. InterestAfter(S) \in [Accounts -> Nat]
  BY <1>1 DEF Consistent, TypeOK, InterestAfter
<1>4. ASSUME NEW a \in Accounts PROVE IndexAfter(S)[a] <= SyncedIndex
  <2>1. user_index[a] <= SyncedIndex
    BY SyncedIndexFacts, RatesAssumption
       DEF Consistent, TypeOK, CheckpointsBehindIndex
  <2> QED BY <2>1, SyncedIndexFacts DEF IndexAfter
<1>5. ASSUME NEW a \in Accounts,
             (a \in S /\ a # YTC) \/ user_index[a] > 0
      PROVE  IndexAfter(S)[a] > 0
  BY <1>5, SyncedIndexFacts, WadAssumption DEF IndexAfter, Checkpointed
<1>6. InterestAfter(S)[YTC] = 0
  BY DEF Consistent, CheckpointsBehindIndex, InterestAfter, Checkpointed,
         Accounts
<1> QED BY <1>2, <1>3, <1>4, <1>5, <1>6

\* The fee on an interest payment is at most the payment.
LEMMA FeeFacts ==
  ASSUME Consistent, NEW n \in Nat
  PROVE  interest_fee(n) \in Nat /\ interest_fee(n) <= n
<1>1. interest_fee_rate \in Nat /\ interest_fee_rate <= WAD
  BY FeeAssumption, WadAssumption DEF Consistent, TypeOK
<1> QED BY <1>1, FractionBound, WadType DEF interest_fee

\* A covered interest payment keeps the SY ledger typed.
LEMMA PayInterestType ==
  ASSUME Consistent, NEW f \in [Accounts -> Nat], NEW r \in Accounts, NEW n \in Nat,
         CanPayInterest(f, r, n)
  PROVE  PayInterest(f, r, n) \in [Accounts -> Nat]
<1>1. interest_fee(n) \in Nat /\ n - interest_fee(n) \in Nat
  BY FeeFacts
<1>2. YTC \in Accounts /\ Treasury \in Accounts
  BY DEF Accounts
<1>3. PayOut(f, r, n - interest_fee(n)) \in [Accounts -> Nat]
  BY <1>1, <1>2, MoveType DEF PayOut, CanPayInterest, CanPay
<1> HIDE DEF Consistent
<1>4. Move(PayOut(f, r, n - interest_fee(n)), YTC, Treasury, interest_fee(n))
        \in [Accounts -> Nat]
  BY <1>1, <1>2, <1>3, MoveType DEF CanPayInterest, CanPay
<1> QED BY <1>4 DEF PayInterest, PayOut

-----------------------------------------------------------------------------
(***************************************************************************)
(* What rounding makes of interest and principal.  Worth(i) is the exact   *)
(* value of an asset unit at index i, so b * (Worth(i) - Worth(j)) is the  *)
(* exact interest of a balance b; the lemmas bound the difference between  *)
(* what the code computes and this, in both directions.  The facts about   *)
(* numbers come first, and then the operators of the model.                *)
(***************************************************************************)

\* The exact value of an asset unit at a rate: at most one SY, and falling as
\* the rate grows.
LEMMA WorthFacts ==
  /\ PARTS \in Nat \ {0}
  /\ \A i \in Rates : /\ Worth(i) \in Nat /\ Worth(i) <= PARTS
                      /\ i * Worth(i) = WAD * PARTS
  /\ \A i, j \in Rates : i <= j => Worth(j) <= Worth(i)
<1> DEFINE d(i) == PARTS \div i
<1>1. PARTS \in Nat \ {0} /\ WAD \in Nat \ {0}
  BY PartsAssumption, WadAssumption
<1>2. ASSUME NEW i \in Rates PROVE d(i) \in Nat /\ d(i) * i = PARTS
  <2>1. i \in Nat \ {0} /\ PARTS % i = 0
    BY RatesAssumption, PartsAssumption, WadAssumption
  <2> QED BY <1>1, <2>1
<1> HIDE DEF d
<1>3. ASSUME NEW i \in Rates
      PROVE  /\ WAD * d(i) \in Nat /\ WAD * d(i) <= PARTS
             /\ i * (WAD * d(i)) = WAD * PARTS
  <2>1. i \in Nat /\ WAD <= i
    BY RatesAssumption
  <2>2. WAD * d(i) <= i * d(i)
    BY <1>1, <1>2, <2>1, MulMono
  <2>3. i * (WAD * d(i)) = WAD * (d(i) * i) /\ i * d(i) = d(i) * i
    BY <1>1, <1>2, <2>1
  <2> QED BY <1>1, <1>2, <2>2, <2>3, MulNat
<1>4. ASSUME NEW i \in Rates, NEW j \in Rates, i <= j
      PROVE  WAD * d(j) <= WAD * d(i)
  <2>1. i \in Nat \ {0} /\ j \in Nat
    BY RatesAssumption, WadAssumption
  <2>2. i * d(j) <= j * d(j)
    BY <1>2, <1>4, <2>1, MulMono
  <2>3. d(j) * i <= d(i) * i
    BY <1>2, <2>1, <2>2
  <2>4. d(j) <= d(i)
    BY <1>2, <2>1, <2>3, MulCancel
  <2>5. d(j) * WAD <= d(i) * WAD
    BY <1>1, <1>2, <2>4, MulMono
  <2> QED BY <1>1, <1>2, <2>5
<1> QED BY <1>1, <1>3, <1>4 DEF Worth, d

LEMMA InterestOverNumbers ==
  ASSUME NEW C \in Nat \ {0}, NEW W \in Nat \ {0}, NEW D \in Nat \ {0},
         NEW b \in Nat, NEW i \in Nat, NEW j \in Nat, NEW R \in Nat,
         NEW m \in Nat, NEW f \in Nat, NEW x \in Nat, NEW y \in Nat,
         i <= j, i * x = W * D, j * y = W * D, x <= D, y <= x,
         R * f <= m * C, m * W <= b * (j - i),
         i * j * C <= f * W * W + (i + j) * W + 2 * W * W + W * C
  PROVE  R * D * (W * C) <= b * (x - y) * (W * C) + R * (D * (C + 4 * W))
<1> DEFINE k == j - i  e == x - y  q == W * D  v == x * y
<1>1. k \in Nat /\ e \in Nat /\ q \in Nat \ {0} /\ v \in Nat
  <2>1. q # 0
    OBVIOUS
  <2> QED BY <2>1, MulNat
<1>2. (i * j) * v = q * q /\ k * v = q * e /\ (i + j) * v = q * (x + y)
  <2>1. (i * j) * (x * y) = (i * x) * (j * y)
    OBVIOUS
  <2>2. i * (x * y) = (i * x) * y /\ j * (x * y) = (j * y) * x
    OBVIOUS
  <2>3. (j - i) * (x * y) = (j * y) * x - (i * x) * y
    BY <2>2
  <2>4. (i + j) * (x * y) = (i * x) * y + (j * y) * x
    BY <2>2
  <2>5. /\ (W * D) * x - (W * D) * y = (W * D) * (x - y)
        /\ (W * D) * y + (W * D) * x = (W * D) * (x + y)
    OBVIOUS
  <2> QED BY <2>1, <2>3, <2>4, <2>5
<1>3. v <= D * D
  <2>1. x * y <= D * y
    BY MulMono
  <2>2. y * D <= D * D
    BY MulMono
  <2> QED BY <2>1, <2>2
<1>4. R * f * (W * W) <= b * k * (W * C)
  <2>1. (R * f) * (W * W) <= (m * C) * (W * W)
    BY MulNat, MulMono
  <2>2. (m * W) * (W * C) <= (b * k) * (W * C)
    BY <1>1, MulNat, MulMono
  <2>3. (m * C) * (W * W) = (m * W) * (W * C)
    OBVIOUS
  <2> QED BY <2>1, <2>2, <2>3
<1> HIDE DEF k, e, q, v
<1>5. (i * j * C) * R <= (f * W * W + (i + j) * W + 2 * W * W + W * C) * R
  BY MulNat, MulMono
<1> DEFINE u == (i + j) * W + 2 * W * W + W * C
<1>6. u \in Nat /\ b * k * (W * C) \in Nat /\ i * j * C * R \in Nat
  BY <1>1, MulNat
<1>7. i * j * C * R <= b * k * (W * C) + u * R
  <2>1. (f * W * W + (i + j) * W + 2 * W * W + W * C) * R
          = R * f * (W * W) + u * R
    OBVIOUS
  <2>2. u * R \in Nat
    BY <1>6, MulNat
  <2> QED BY <1>4, <1>5, <1>6, <2>1, <2>2
<1>8. (i * j * C * R) * v <= (b * k * (W * C) + u * R) * v
  <2>1. b * k * (W * C) + u * R \in Nat
    BY <1>6, MulNat
  <2> QED BY <1>1, <1>6, <1>7, <2>1, MulMono
<1>9. (i * j * C * R) * v = (R * C * q) * q
  <2>1. (i * j * C * R) * v = (i * j * v) * (C * R)
    BY <1>1
  <2> QED BY <1>1, <1>2, <2>1
<1>10. (b * k * (W * C)) * v = (b * e * (W * C)) * q
  <2>1. (b * k * (W * C)) * v = (k * v) * (b * (W * C))
    BY <1>1
  <2> QED BY <1>1, <1>2, <2>1
<1>11. u * v <= (D * (C + 4 * W)) * q
  <2>1. u * v = ((i + j) * v) * W + v * (2 * W * W + W * C)
    BY <1>1
  <2>2. (x + y) * (q * W) <= (2 * D) * (q * W)
    BY <1>1, MulNat, MulMono
  <2>3. ((i + j) * v) * W <= (2 * D) * (q * W)
    BY <1>1, <1>2, <2>2
  <2>4. v * (2 * W * W + W * C) <= (D * D) * (2 * W * W + W * C)
    BY <1>1, <1>3, MulNat, MulMono
  <2>5. (2 * D) * (q * W) + (D * D) * (2 * W * W + W * C)
          = (D * (C + 4 * W)) * q
    <3>1. q = W * D
      BY DEF q
    <3> QED BY <3>1
  <2> DEFINE r == ((i + j) * v) * W  s == v * (2 * W * W + W * C)
             rr == (2 * D) * (q * W)  ss == (D * D) * (2 * W * W + W * C)
             t == (D * (C + 4 * W)) * q  uv == u * v
  <2>6. /\ uv = r + s /\ r <= rr /\ s <= ss /\ rr + ss = t
        /\ r \in Nat /\ s \in Nat /\ rr \in Nat /\ ss \in Nat /\ t \in Nat
        /\ uv \in Nat
    <3>1. /\ r \in Nat /\ s \in Nat /\ rr \in Nat /\ ss \in Nat /\ t \in Nat
      BY <1>1, MulNat
    <3>2. uv \in Nat
      BY <1>1, <1>6, MulNat
    <3> QED BY <2>1, <2>3, <2>4, <2>5, <3>1, <3>2
  <2>7. uv <= t
    <3> HIDE DEF r, s, rr, ss, t, uv
    <3> QED BY <2>6
  <2> QED BY <2>7
<1>12. (u * R) * v <= (R * (D * (C + 4 * W))) * q
  <2>1. (u * v) * R <= ((D * (C + 4 * W)) * q) * R
    BY <1>1, <1>6, <1>11, MulNat, MulMono
  <2>2. (u * v) * R = (u * R) * v
    BY <1>1, <1>6
  <2>3. ((D * (C + 4 * W)) * q) * R = (R * (D * (C + 4 * W))) * q
    BY <1>1
  <2> QED BY <2>1, <2>2, <2>3
<1> HIDE DEF u
<1> DEFINE l == R * C * q  g == b * e * (W * C)  h == R * (D * (C + 4 * W))
<1>13. l \in Nat /\ g \in Nat /\ h \in Nat
  BY <1>1, MulNat
<1>14. l * q <= (g + h) * q
  <2>1. (b * k * (W * C) + u * R) * v = (b * k * (W * C)) * v + (u * R) * v
    BY <1>1, <1>6, MulNat
  <2>2. (g + h) * q = g * q + h * q
    BY <1>1, <1>13
  <2>3. l * q <= g * q + (u * R) * v
    BY <1>8, <1>9, <1>10, <2>1
  <2>4. /\ l * q \in Nat /\ g * q \in Nat /\ h * q \in Nat /\ (u * R) * v \in Nat
    BY <1>1, <1>6, <1>13, MulNat
  <2>5. (u * R) * v <= h * q
    BY <1>12
  <2> HIDE DEF l, g, h
  <2> QED BY <2>2, <2>3, <2>4, <2>5
<1>15. l <= g + h
  <2> HIDE DEF l, g, h
  <2>1. g + h \in Nat
    BY <1>13
  <2> QED BY <1>1, <1>13, <1>14, <2>1, MulCancel
<1>16. l = R * D * (W * C)
  <2>1. q = W * D
    BY DEF q
  <2> QED BY <2>1
<1> QED BY <1>15, <1>16 DEF e

LEMMA InterestLossNumbers ==
  ASSUME NEW C \in Nat \ {0}, NEW W \in Nat \ {0}, NEW D \in Nat \ {0},
         NEW b \in Nat, NEW i \in Nat, NEW j \in Nat, NEW R \in Nat,
         NEW m \in Nat, NEW f \in Nat, NEW x \in Nat, NEW y \in Nat,
         i <= j, i * x = W * D, j * y = W * D, x <= D, y <= x,
         m * C * C <= (R * C + C + 2 * W) * f, f * W * W <= i * j * C,
         b * (j - i) * C <= m * C * W + (b + (j - i)) * W + W * W + C * W
  PROVE  b * (x - y) * C <= R * D * C + D * (b + 2 * C + 4 * W)
<1> DEFINE k == j - i  e == x - y  q == W * D  v == x * y  Q == R * C + C + 2 * W
           ij == i * j
<1>1. /\ k \in Nat /\ e \in Nat /\ q \in Nat \ {0} /\ v \in Nat /\ Q \in Nat
      /\ e <= D /\ ij \in Nat
  <2>1. q # 0
    OBVIOUS
  <2> QED BY <2>1, MulNat
<1>2. ij * v = q * q /\ k * v = q * e
  <2>1. (i * j) * (x * y) = (i * x) * (j * y)
    OBVIOUS
  <2>2. i * (x * y) = (i * x) * y /\ j * (x * y) = (j * y) * x
    OBVIOUS
  <2>3. (j - i) * (x * y) = (j * y) * x - (i * x) * y
    BY <2>2
  <2>4. (W * D) * x - (W * D) * y = (W * D) * (x - y)
    OBVIOUS
  <2> QED BY <2>1, <2>3, <2>4
<1>3. v <= D * D
  <2>1. x * y <= D * y
    BY MulMono
  <2>2. y * D <= D * D
    BY MulMono
  <2> QED BY <2>1, <2>2
<1>4. m * C * C <= Q * f /\ f * W * W <= ij * C
      /\ b * k * C <= m * C * W + (b + k) * W + W * W + C * W
  OBVIOUS
<1>5. q = W * D
  OBVIOUS
<1> HIDE DEF k, e, q, v, Q, ij
<1> DEFINE u == (b + k) * W + W * W + C * W
<1>6. u \in Nat /\ b * k * C \in Nat
  BY <1>1, MulNat
<1>7. (b * k * C) * W <= Q * ij + u * W
  <2>1. (m * C * C) * (W * W) <= (Q * f) * (W * W)
    BY <1>1, <1>4, MulNat, MulMono
  <2>2. (f * W * W) * Q <= (ij * C) * Q
    BY <1>1, <1>4, MulNat, MulMono
  <2>3. (b * k * C) * (C * W) <= (m * C * W + u) * (C * W)
    <3>1. m * C * W + u \in Nat /\ b * k * C <= m * C * W + u
      <4>1. m * C * W \in Nat
        BY MulNat
      <4>2. m * C * W + (b + k) * W + W * W + C * W = m * C * W + u
        BY <1>1, <4>1
      <4>3. b * k * C <= m * C * W + u
        BY <1>4, <4>2
      <4> HIDE DEF u
      <4> QED BY <1>6, <4>1, <4>3
    <3> QED BY <1>6, <3>1, MulNat, MulMono
  <2>4. /\ (Q * f) * (W * W) = (f * W * W) * Q
        /\ (ij * C) * Q = (Q * ij) * C
        /\ (b * k * C) * (C * W) = ((b * k * C) * W) * C
    BY <1>1
  <2>5. (m * C * W + u) * (C * W) = (m * C * C) * (W * W) + (u * W) * C
    BY <1>6
  <2>6. /\ (m * C * C) * (W * W) \in Nat /\ (u * W) * C \in Nat
        /\ (f * W * W) * Q \in Nat /\ (Q * ij) * C \in Nat
        /\ Q * ij \in Nat /\ u * W \in Nat /\ (b * k * C) * W \in Nat
        /\ ((b * k * C) * W) * C \in Nat
    BY <1>1, <1>6, MulNat
  <2>7. ((b * k * C) * W) * C <= (Q * ij) * C + (u * W) * C
    BY <2>1, <2>2, <2>3, <2>4, <2>5, <2>6
  <2> DEFINE l == (b * k * C) * W  g == Q * ij  h == u * W
  <2>8. l * C <= g * C + h * C /\ l \in Nat /\ g \in Nat /\ h \in Nat
    BY <2>6, <2>7
  <2> HIDE DEF l, g, h
  <2>9. g * C + h * C = (g + h) * C /\ g + h \in Nat
    BY <2>8
  <2>10. l <= g + h
    BY <2>8, <2>9, MulCancel
  <2> QED BY <2>10 DEF l, g, h
<1>8. ((b * k * C) * W) * v <= (Q * ij + u * W) * v
  <2>1. (b * k * C) * W \in Nat /\ Q * ij + u * W \in Nat
    BY <1>1, <1>6, MulNat
  <2> QED BY <1>1, <1>7, <2>1, MulMono
<1>9. ((b * k * C) * W) * v = (b * e * C * W) * q
  <2>1. ((b * k * C) * W) * v = (k * v) * (b * C * W)
    BY <1>1
  <2> QED BY <1>1, <1>2, <2>1
<1>10. (Q * ij) * v = (Q * q) * q
  <2>1. (Q * ij) * v = (ij * v) * Q
    BY <1>1
  <2> QED BY <1>1, <1>2, <2>1
<1>11. u * v <= (D * (b + 2 * W + C)) * q
  <2>1. u * v = (b * W + W * W + C * W) * v + (k * v) * W
    BY <1>1
  <2>2. v * (b * W + W * W + C * W) <= (D * D) * (b * W + W * W + C * W)
    BY <1>1, <1>3, MulNat, MulMono
  <2>3. e * (q * W) <= D * (q * W)
    BY <1>1, MulNat, MulMono
  <2>4. (k * v) * W = e * (q * W)
    BY <1>1, <1>2
  <2>5. (D * D) * (b * W + W * W + C * W) + D * (q * W)
          = (D * (b + 2 * W + C)) * q
    BY <1>5
  <2>6. (b * W + W * W + C * W) * v = v * (b * W + W * W + C * W)
    BY <1>1
  <2> DEFINE r == (b * W + W * W + C * W) * v  s == (k * v) * W
             rr == (D * D) * (b * W + W * W + C * W)  ss == D * (q * W)
             t == (D * (b + 2 * W + C)) * q  uv == u * v
  <2>7. /\ uv = r + s /\ r <= rr /\ s <= ss /\ rr + ss = t
        /\ r \in Nat /\ s \in Nat /\ rr \in Nat /\ ss \in Nat /\ t \in Nat
        /\ uv \in Nat
    <3>1. /\ r \in Nat /\ s \in Nat /\ rr \in Nat /\ ss \in Nat /\ t \in Nat
      BY <1>1, MulNat
    <3>2. uv \in Nat
      BY <1>1, <1>6, MulNat
    <3> QED BY <2>1, <2>2, <2>3, <2>4, <2>5, <2>6, <3>1, <3>2
  <2>8. uv <= t
    <3> HIDE DEF r, s, rr, ss, t, uv
    <3> QED BY <2>7
  <2> QED BY <2>8
<1>12. (u * W) * v <= (D * (b + 2 * W + C) * W) * q
  <2>1. (u * v) * W <= ((D * (b + 2 * W + C)) * q) * W
    BY <1>1, <1>6, <1>11, MulNat, MulMono
  <2>2. (u * v) * W = (u * W) * v
    BY <1>1, <1>6
  <2>3. ((D * (b + 2 * W + C)) * q) * W = (D * (b + 2 * W + C) * W) * q
    BY <1>1
  <2> QED BY <2>1, <2>2, <2>3
<1> DEFINE l == b * e * C * W  g == Q * q  h == D * (b + 2 * W + C) * W
<1>13. l \in Nat /\ g \in Nat /\ h \in Nat
  BY <1>1, MulNat
<1>14. l * q <= g * q + h * q
  <2>1. (Q * ij + u * W) * v = (Q * ij) * v + (u * W) * v
    BY <1>1, <1>6, MulNat
  <2>2. l * q <= g * q + (u * W) * v
    BY <1>8, <1>9, <1>10, <2>1
  <2>3. /\ l * q \in Nat /\ g * q \in Nat /\ h * q \in Nat /\ (u * W) * v \in Nat
    BY <1>1, <1>6, <1>13, MulNat
  <2>4. (u * W) * v <= h * q
    BY <1>12
  <2> HIDE DEF l, g, h, u
  <2> QED BY <2>2, <2>3, <2>4
<1>15. l <= g + h
  <2> HIDE DEF l, g, h
  <2>1. g + h \in Nat /\ g * q + h * q = (g + h) * q
    BY <1>1, <1>13
  <2> QED BY <1>1, <1>13, <1>14, <2>1, MulCancel
<1>16. (b * e * C) * W <= (Q * D + D * (b + 2 * W + C)) * W
  <2>1. g = (Q * D) * W
    BY <1>1, <1>5
  <2>2. (Q * D + D * (b + 2 * W + C)) * W = (Q * D) * W + h
    BY <1>1
  <2> QED BY <1>15, <2>1, <2>2
<1>17. b * e * C <= Q * D + D * (b + 2 * W + C)
  <2>1. b * e * C \in Nat /\ Q * D + D * (b + 2 * W + C) \in Nat
    BY <1>1, MulNat
  <2> QED BY <1>16, <2>1, MulCancel
<1>18. Q * D + D * (b + 2 * W + C) = R * D * C + D * (b + 2 * C + 4 * W)
  BY DEF Q
<1> QED BY <1>17, <1>18 DEF e

\* Interest that the code computes is above the exact interest by at most the
\* part 1/WAD + 4/CUBIT_ONE of itself, and below it by at most some units and
\* the part 1/CUBIT_ONE of the balance.
LEMMA InterestBounds ==
  ASSUME NEW b \in Nat, NEW i \in Rates, NEW j \in Rates, i <= j
  PROVE  /\ InterestBetween(b, i, j) * PARTS * (WAD * CUBIT_ONE)
              <= b * (Worth(i) - Worth(j)) * (WAD * CUBIT_ONE)
                 + InterestBetween(b, i, j) * (PARTS * (CUBIT_ONE + 4 * WAD))
         /\ b * (Worth(i) - Worth(j)) * CUBIT_ONE
              <= InterestBetween(b, i, j) * PARTS * CUBIT_ONE
                 + PARTS * (b + 2 * CUBIT_ONE + 4 * WAD)
<1> DEFINE m == wad_mul(b, j - i)  d == wad_mul(i, j)  f == wad_to_fp(d)
           R == InterestBetween(b, i, j)
<1>1. /\ i \in Nat /\ j \in Nat /\ j - i \in Nat /\ i >= WAD /\ j >= WAD
      /\ CUBIT_ONE \in Nat \ {0} /\ WAD \in Nat \ {0} /\ PARTS \in Nat \ {0}
  BY RatesAssumption, CubitAssumption, WadAssumption, PartsAssumption
<1>2. /\ m \in Nat /\ d \in Nat /\ d >= WAD /\ d \in Nat \ {0} /\ R \in Nat
  <2>1. m \in Nat /\ d \in Nat /\ d >= WAD
    BY <1>1, WadType, ProductAtLeastOne
  <2>2. R \in Nat
    BY InterestBetweenType
  <2> HIDE DEF m, d, R
  <2> QED BY <1>1, <2>1, <2>2
<1>3. f \in Nat
  BY <1>2, ConversionType
<1>4. /\ R * f <= m * CUBIT_ONE
      /\ m * CUBIT_ONE * CUBIT_ONE < (R * CUBIT_ONE + CUBIT_ONE + 2 * WAD) * f
  BY <1>2, QuotientBound, QuotientLoss DEF InterestBetween
<1>5. /\ m * WAD <= b * (j - i) /\ d * WAD <= i * j
      /\ b * (j - i) * CUBIT_ONE
           <= m * CUBIT_ONE * WAD + (b + (j - i)) * WAD + WAD * WAD
              + CUBIT_ONE * WAD
      /\ i * j * CUBIT_ONE
           <= d * CUBIT_ONE * WAD + (i + j) * WAD + WAD * WAD
              + CUBIT_ONE * WAD
  BY <1>1, ProductBound, ProductLoss
<1>6. f * WAD <= d * CUBIT_ONE /\ d * CUBIT_ONE < f * WAD + WAD
  BY <1>2, ImageBounds
<1>7. /\ Worth(i) \in Nat /\ Worth(j) \in Nat /\ Worth(j) <= Worth(i)
      /\ Worth(i) <= PARTS
      /\ i * Worth(i) = WAD * PARTS /\ j * Worth(j) = WAD * PARTS
  BY WorthFacts
<1> HIDE DEF m, d, f, R
<1> DEFINE C == CUBIT_ONE  dC == d * C
<1>8. dC \in Nat /\ f * WAD \in Nat /\ i * j \in Nat /\ d * WAD \in Nat
  BY <1>1, <1>2, <1>3, MulNat
<1>9. f * WAD * WAD <= i * j * C
  <2>1. (f * WAD) * WAD <= dC * WAD
    BY <1>1, <1>6, <1>8, MulMono
  <2>2. (d * WAD) * C <= (i * j) * C
    BY <1>1, <1>5, <1>8, MulMono
  <2>3. dC * WAD = (d * WAD) * C
    BY <1>1, <1>2
  <2>4. /\ (f * WAD) * WAD \in Nat /\ dC * WAD \in Nat /\ (i * j) * C \in Nat
    BY <1>1, <1>8, MulNat
  <2> HIDE DEF dC, C
  <2> QED BY <2>1, <2>2, <2>3, <2>4
<1>10. i * j * C <= f * WAD * WAD + (i + j) * WAD + 2 * WAD * WAD + WAD * C
  <2>1. dC * WAD <= (f * WAD + WAD) * WAD
    <3>1. f * WAD + WAD \in Nat /\ dC <= f * WAD + WAD
      BY <1>1, <1>6, <1>8
    <3> QED BY <1>1, <1>8, <3>1, MulMono
  <2>2. (f * WAD + WAD) * WAD = f * WAD * WAD + WAD * WAD
    BY <1>1, <1>3
  <2>3. /\ f * WAD * WAD \in Nat /\ WAD * WAD \in Nat /\ (i + j) * WAD \in Nat
        /\ WAD * C \in Nat /\ dC * WAD \in Nat /\ i * j * C \in Nat
    BY <1>1, <1>3, <1>8, MulNat
  <2>4. i * j * C <= dC * WAD + (i + j) * WAD + WAD * WAD + C * WAD
    BY <1>5
  <2>5. C * WAD = WAD * C /\ 2 * WAD * WAD = WAD * WAD + WAD * WAD
    BY <1>1
  <2> HIDE DEF dC, C
  <2> QED BY <2>1, <2>2, <2>3, <2>4, <2>5
<1>11. R * PARTS * (WAD * C)
         <= b * (Worth(i) - Worth(j)) * (WAD * C) + R * (PARTS * (C + 4 * WAD))
  BY <1>1, <1>2, <1>3, <1>4, <1>5, <1>7, <1>10, InterestOverNumbers
<1>12. b * (Worth(i) - Worth(j)) * C
         <= R * PARTS * C + PARTS * (b + 2 * C + 4 * WAD)
  <2>1. m * C * C <= (R * C + C + 2 * WAD) * f
    <3>1. m * C * C \in Nat /\ (R * C + C + 2 * WAD) * f \in Nat
      BY <1>1, <1>2, <1>3, MulNat
    <3> QED BY <1>4, <3>1
  <2> QED BY <1>1, <1>2, <1>3, <1>5, <1>7, <1>9, <2>1, InterestLossNumbers
<1> QED BY <1>11, <1>12 DEF R

\* SY buys no more than its exact worth of the pair, and the pair is paid at
\* most the same part above its exact worth.
LEMMA PrincipalBounds ==
  ASSUME NEW n \in Nat, NEW j \in Rates
  PROVE  /\ sy_to_asset(n, j) * Worth(j) <= n * PARTS
         /\ asset_to_sy(n, j) * PARTS * (WAD * CUBIT_ONE)
              <= n * Worth(j) * (WAD * CUBIT_ONE)
                 + asset_to_sy(n, j) * (PARTS * (CUBIT_ONE + 4 * WAD))
<1> DEFINE C == CUBIT_ONE  W == WAD  D == PARTS  w == Worth(j)
           m == sy_to_asset(n, j)  p == asset_to_sy(n, j)  f == wad_to_fp(j)
<1>1. /\ j \in Nat \ {0} /\ C \in Nat \ {0} /\ W \in Nat \ {0}
      /\ D \in Nat \ {0} /\ w \in Nat /\ w <= D /\ j * w = W * D
  BY RatesAssumption, CubitAssumption, WadAssumption, WorthFacts
<1>2. /\ m \in Nat /\ p \in Nat /\ f \in Nat
      /\ m * W <= n * j /\ p * f <= n * C /\ j * C < f * W + W
  BY <1>1, WadType, ConversionType, ProductBound, QuotientBound, ImageBounds
     DEF sy_to_asset, asset_to_sy
<1> HIDE DEF C, W, D, w, m, p, f
<1>3. m * w <= n * D
  <2>1. (m * W) * w <= (n * j) * w
    BY <1>1, <1>2, MulNat, MulMono
  <2>2. (n * j) * w = (j * w) * n
    BY <1>1
  <2>3. (W * D) * n = (n * D) * W /\ (m * W) * w = (m * w) * W
    BY <1>1, <1>2
  <2>4. (m * w) * W <= (n * D) * W
    BY <1>1, <2>1, <2>2, <2>3
  <2>5. m * w \in Nat /\ n * D \in Nat
    BY <1>1, <1>2, MulNat
  <2> QED BY <1>1, <2>4, <2>5, MulCancel
<1>4. p * D * (W * C) <= n * w * (W * C) + p * (D * (C + 4 * W))
  <2>1. (j * C) * p <= (f * W + W) * p
    <3>1. j * C \in Nat /\ f * W + W \in Nat /\ j * C <= f * W + W
      BY <1>1, <1>2, MulNat
    <3> QED BY <1>2, <3>1, MulMono
  <2>2. (p * f) * W <= (n * C) * W
    BY <1>1, <1>2, MulNat, MulMono
  <2> DEFINE l == p * j * C  g == n * (W * C)  h == p * W
  <2>3. l \in Nat /\ g \in Nat /\ h \in Nat /\ l <= g + h
    <3>1. (j * C) * p = l /\ (f * W + W) * p = (p * f) * W + h /\ (n * C) * W = g
      BY <1>1, <1>2
    <3>2. l \in Nat /\ g \in Nat /\ h \in Nat /\ (p * f) * W \in Nat
      BY <1>1, <1>2, MulNat
    <3> HIDE DEF l, g, h
    <3> QED BY <2>1, <2>2, <3>1, <3>2
  <2>4. l * w <= (g + h) * w
    <3> HIDE DEF l, g, h
    <3>1. g + h \in Nat
      BY <2>3
    <3> QED BY <1>1, <2>3, <3>1, MulMono
  <2>5. l * w = p * D * (W * C)
    <3>1. l * w = (j * w) * (p * C)
      BY <1>1, <1>2
    <3> QED BY <1>1, <1>2, <3>1
  <2>6. (g + h) * w = n * w * (W * C) + w * (p * W)
    BY <1>1, <1>2
  <2>7. w * (p * W) <= p * (D * (C + 4 * W))
    <3>1. w * (p * W) <= D * (p * W)
      BY <1>1, <1>2, MulNat, MulMono
    <3>2. W * (D * p) <= (C + 4 * W) * (D * p)
      <4>1. C + 4 * W \in Nat /\ W <= C + 4 * W
        BY <1>1
      <4> QED BY <1>1, <1>2, <4>1, MulNat, MulMono
    <3>3. D * (p * W) = W * (D * p) /\ (C + 4 * W) * (D * p) = p * (D * (C + 4 * W))
      BY <1>1, <1>2
    <3>4. w * (p * W) \in Nat /\ D * (p * W) \in Nat /\ (C + 4 * W) * (D * p) \in Nat
      BY <1>1, <1>2, MulNat
    <3> QED BY <3>1, <3>2, <3>3, <3>4
  <2>8. /\ n * w * (W * C) \in Nat /\ w * (p * W) \in Nat
        /\ p * (D * (C + 4 * W)) \in Nat /\ p * D * (W * C) \in Nat
    BY <1>1, <1>2, MulNat
  <2> HIDE DEF l, g, h
  <2> QED BY <2>4, <2>5, <2>6, <2>7, <2>8
<1> QED BY <1>3, <1>4 DEF C, W, D, w, m, p

-----------------------------------------------------------------------------
(***************************************************************************)
(* One step.  Shared parts first: what the checkpoints look like after a   *)
(* call that synchronises the index.                                       *)
(***************************************************************************)

\* A call that checkpoints S before crediting YT only to accounts of S (or to
\* holders of YT) keeps every checkpoint behind the index.
LEMMA CheckpointStep ==
  ASSUME Consistent, _update_py_index, expired' = expired, NEW S \in SUBSET Accounts,
         user_index' = IndexAfter(S), user_interest'[YTC] = 0,
         \A a \in Holders : yt'[a] > 0 => yt[a] > 0 \/ a \in S
  PROVE  CheckpointsBehindIndex'
<1>1. \A a \in Accounts : user_index'[a] <= py_index_stored'
  BY CheckpointFacts, UpdateIndex
<1>2. ASSUME NEW a \in Holders, yt'[a] > 0 PROVE user_index'[a] > 0
  <2>1. a \in Accounts /\ a # YTC
    BY DEF Holders
  <2>2. (a \in S /\ a # YTC) \/ user_index[a] > 0
    BY <1>2, <2>1 DEF Consistent, CheckpointsBehindIndex
  <2> QED BY <2>1, <2>2, CheckpointFacts
<1> QED BY <1>1, <1>2, UpdateIndex DEF CheckpointsBehindIndex

\* A call that checkpoints nobody and credits no YT does too.
LEMMA NoCheckpointStep ==
  ASSUME Consistent, _update_py_index, expired' = expired,
         user_index' = user_index, user_interest'[YTC] = 0,
         \A a \in Holders : yt'[a] > 0 => yt[a] > 0
  PROVE  CheckpointsBehindIndex'
<1>1. ASSUME NEW a \in Accounts PROVE user_index'[a] <= py_index_stored'
  <2>1. user_index[a] \in Nat /\ py_index_stored \in Nat
         /\ py_index_stored' \in Nat
    BY UpdateIndex, RatesAssumption DEF Consistent, TypeOK
  <2> QED BY <2>1, UpdateIndex DEF Consistent, CheckpointsBehindIndex
<1>2. \A a \in Holders : yt'[a] > 0 => user_index'[a] > 0
  BY DEF Consistent, CheckpointsBehindIndex
<1> QED BY <1>1, <1>2, UpdateIndex DEF CheckpointsBehindIndex

\* A call that leaves index, claims and YT alone.
LEMMA IndexUnchanged ==
  ASSUME Consistent, expired' = expired, UNCHANGED <<index, claims, yt>>,
         flash' \in {flash, Idle}
  PROVE  CheckpointsBehindIndex' /\ CacheCoherent'
BY DEF Consistent, CheckpointsBehindIndex, CacheCoherent, Captured, index, claims,
       NotEntered, Idle

\* A call that synchronises the index keeps the types and the cache coherent
\* if it keeps the type of whatever else it changes.
LEMMA SyncedStep ==
  ASSUME Consistent, _update_py_index, UNCHANGED <<env, admin>>,
         sy' \in [Accounts -> Nat], pt' \in [Accounts -> Nat],
         yt' \in [Accounts -> Nat], pt_supply' \in Nat, yt_supply' \in Nat,
         user_index' \in [Accounts -> Rates \cup {0}],
         user_interest' \in [Accounts -> Nat],
         sy_reserve' \in Nat, post_expiry_sy_for_treasury' \in Nat,
         flash' \in [receiver : Accounts, due : Nat],
         flash' = flash \/ ~expired
  PROVE  TypeOK' /\ CacheCoherent'
<1>1. TypeOK'
  BY UpdateIndex DEF Consistent, TypeOK, env, admin
<1>2. expired' => NotEntered'
  BY DEF Consistent, CacheCoherent, NotEntered, Idle, env
<1>3. CacheCoherent'
  BY <1>2, UpdateIndex DEF CacheCoherent, env
<1> QED BY <1>1, <1>3

\* A call that changes neither the supplies nor a balance of YT.
LEMMA ParityKept ==
  ASSUME Consistent, UNCHANGED <<yt, pt_supply, yt_supply>>,
         \/ _update_py_index /\ expired' = expired
         \/ py_index_at_expiry' = py_index_at_expiry
  PROVE  SupplyParity'
<1>1. Captured => Captured'
  BY UpdateIndex DEF Captured
<1> QED BY <1>1 DEF Consistent, SupplyParity

\* A call that leaves the index alone needs only the types of what it changes.
LEMMA UnsyncedStep ==
  ASSUME Consistent, UNCHANGED <<index, claims, yt, expired>>,
         rate' \in Rates,
         sy' \in [Accounts -> Nat], pt' \in [Accounts -> Nat],
         pt_supply' \in Nat, yt_supply' \in Nat,
         sy_reserve' \in Nat, UNCHANGED post_expiry_sy_for_treasury,
         interest_fee_rate' \in FeeRates \cup {0}, paused' \subseteq Pausable,
         flash' \in [receiver : Accounts, due : Nat], flash' \in {flash, Idle}
  PROVE  TypeOK' /\ CacheCoherent' /\ CheckpointsBehindIndex'
<1>1. TypeOK'
  BY DEF Consistent, TypeOK, index, claims
<1> QED BY <1>1, IndexUnchanged

\* The amounts at which SY and the pair are exchanged are natural numbers.
LEMMA ConversionTypes ==
  ASSUME Consistent, NEW n \in Nat
  PROVE  /\ sy_to_asset(n, SyncedIndex) \in Nat
         /\ asset_to_sy(n, SyncedIndex) \in Nat
BY SyncedIndexFacts, WadType DEF sy_to_asset, asset_to_sy

\* What floats is a natural number.
LEMMA FloatingType ==
  ASSUME Consistent
  PROVE  /\ get_floating_sy \in Nat /\ get_floating_pt \in Nat
         /\ get_floating_yt \in Nat
         /\ YTC \in Accounts /\ Treasury \in Accounts
         /\ Holders \subseteq Accounts /\ Users \subseteq Accounts
         /\ sy[YTC] \in Nat
BY DEF Consistent, TypeOK, Accounts, Holders, get_floating_sy, get_floating_pt,
       get_floating_yt

\* Burning the staged pair keeps the ledgers typed, takes as much from one
\* supply as from the other when equal amounts are staged, and credits nobody.
LEMMA BurnPairFacts ==
  ASSUME Consistent, BurnPair
  PROVE  /\ pt' \in [Accounts -> Nat] /\ yt' \in [Accounts -> Nat]
         /\ pt_supply' \in Nat /\ yt_supply' \in Nat
         /\ get_floating_pt = get_floating_yt /\ ~expired
              => pt_supply' = yt_supply'
         /\ SumFunction(yt') = yt_supply'
         /\ \A a \in Holders : yt'[a] > 0 => yt[a] > 0
<1>1. /\ YTC \in Accounts /\ get_floating_pt \in Nat /\ get_floating_yt \in Nat
      /\ pt \in [Accounts -> Nat] /\ yt \in [Accounts -> Nat]
      /\ pt_supply \in Nat /\ yt_supply \in Nat
  BY FloatingType DEF Consistent, TypeOK
<1>2. /\ pt' \in [Accounts -> Nat] /\ yt' \in [Accounts -> Nat]
      /\ \A a \in Accounts :
           yt'[a] = IF a = YTC THEN yt[a] - get_floating_yt ELSE yt[a]
  BY <1>1, DebitType DEF BurnPair, get_floating_pt, get_floating_yt
<1>3. pt_supply' \in Nat /\ yt_supply' \in Nat
  BY <1>1 DEF BurnPair
<1>4. get_floating_pt = get_floating_yt /\ ~expired
        => pt_supply' = yt_supply'
  BY <1>1 DEF BurnPair, Consistent, SupplyParity, CacheCoherent
<1>5. SumFunction(yt') = yt_supply'
  BY <1>1, LedgerTotals
     DEF BurnPair, Consistent, SupplyParity, get_floating_yt
<1> QED BY <1>2, <1>3, <1>4, <1>5 DEF Holders

-----------------------------------------------------------------------------
(***************************************************************************)
(* One lemma per kind of call: it preserves Consistent.                          *)
(***************************************************************************)

\* An SY transfer never takes from the YT contract, so it stays backed.
LEMMA SyTransferStep ==
  ASSUME Consistent, NEW u \in Holders, NEW v \in Accounts, NEW n \in Amounts,
         SyTransfer(u, v, n)
  PROVE  Consistent'
<1>1. n \in Nat /\ u \in Accounts /\ u # YTC /\ YTC \in Accounts
  BY AmountsAssumption DEF Holders, Accounts
<1>2. sy \in [Accounts -> Nat] /\ sy[u] >= n /\ sy' = Move(sy, u, v, n)
  BY DEF Consistent, TypeOK, SyTransfer
<1>3. sy' \in [Accounts -> Nat] /\ sy'[YTC] >= sy[YTC]
  BY <1>1, <1>2, MoveType
<1>4. TypeOK' /\ CacheCoherent' /\ CheckpointsBehindIndex'
  BY <1>3, UnsyncedStep DEF SyTransfer, Consistent, TypeOK, env, admin
<1>5. ReserveBacked' /\ SupplyParity'
  BY <1>1, <1>2, <1>3, ParityKept
     DEF SyTransfer, Consistent, TypeOK, ReserveBacked, env, index
<1> QED BY <1>4, <1>5 DEF Consistent

LEMMA PtTransferStep ==
  ASSUME Consistent, NEW u \in Holders, NEW v \in Accounts, NEW n \in Amounts,
         PtTransfer(u, v, n)
  PROVE  Consistent'
<1>1. n \in Nat /\ u \in Accounts
  BY AmountsAssumption DEF Holders
<1>2. pt \in [Accounts -> Nat] /\ pt[u] >= n /\ pt' = Move(pt, u, v, n)
  BY DEF Consistent, TypeOK, PtTransfer
<1>3. pt' \in [Accounts -> Nat]
  BY <1>1, <1>2, MoveType
<1>4. TypeOK' /\ CacheCoherent' /\ CheckpointsBehindIndex'
  BY <1>3, UnsyncedStep DEF PtTransfer, Consistent, TypeOK, env, admin
<1>5. ReserveBacked' /\ SupplyParity'
  BY ParityKept DEF PtTransfer, Consistent, ReserveBacked, env, index
<1> QED BY <1>4, <1>5 DEF Consistent

\* A YT transfer checkpoints both parties before the balance moves.
LEMMA YtTransferStep ==
  ASSUME Consistent, NEW u \in Holders, NEW v \in Accounts, NEW n \in Amounts,
         YtTransfer(u, v, n)
  PROVE  Consistent'
<1>1. n \in Nat /\ u \in Accounts /\ {u, v} \in SUBSET Accounts
  BY AmountsAssumption DEF Holders
<1>2. /\ yt \in [Accounts -> Nat] /\ yt[u] >= n /\ yt' = Move(yt, u, v, n)
      /\ _update_py_index /\ UNCHANGED <<env, admin>> /\ expired' = expired
      /\ user_index' = IndexAfter({u, v})
      /\ user_interest' = InterestAfter({u, v})
  BY DEF Consistent, TypeOK, YtTransfer, _update_user_interest, env
<1>3. /\ yt' \in [Accounts -> Nat]
      /\ \A a \in Accounts : a # u /\ a # v => yt'[a] = yt[a]
  <2>1. Debit(yt, u, n) \in [Accounts -> Nat]
        /\ \A x \in Accounts :
             Debit(yt, u, n)[x] = IF x = u THEN yt[x] - n ELSE yt[x]
    BY <1>1, <1>2, DebitType
  <2> QED BY <1>1, <1>2, <2>1, CreditType DEF Move
<1>4. /\ user_index' \in [Accounts -> Rates \cup {0}]
      /\ user_interest' \in [Accounts -> Nat]
  BY <1>1, <1>2, CheckpointFacts
<1>5. TypeOK' /\ CacheCoherent'
  BY <1>2, <1>3, <1>4, SyncedStep DEF YtTransfer, Consistent, TypeOK
<1>6. CheckpointsBehindIndex'
  BY <1>1, <1>2, <1>3, CheckpointFacts, CheckpointStep DEF Holders
<1>7. ReserveBacked' /\ SupplyParity'
  <2>1. SumFunction(yt') = yt_supply'
    BY <1>1, <1>2, LedgerTotals DEF YtTransfer, Consistent, SupplyParity
  <2>2. Captured => Captured'
    BY <1>2, UpdateIndex
  <2> QED
    BY <2>1, <2>2 DEF YtTransfer, Consistent, ReserveBacked, SupplyParity
<1> QED BY <1>5, <1>6, <1>7 DEF Consistent

\* What the three ways to mint have in common: they checkpoint the receivers
\* of YT, then credit as much PT as YT.
LEMMA MintStep ==
  ASSUME Consistent, _update_py_index, UNCHANGED <<env, admin, sy>>,
         NEW S \in SUBSET Accounts, _update_user_interest(S),
         NEW n \in Nat,
         pt' \in [Accounts -> Nat], yt' \in [Accounts -> Nat],
         \A a \in Accounts \ S : yt'[a] = yt[a],
         ~expired, SumFunction(yt') = SumFunction(yt) + n,
         pt_supply' = pt_supply + n, yt_supply' = yt_supply + n,
         sy_reserve' = sy[YTC] \/ sy_reserve' = sy_reserve,
         UNCHANGED post_expiry_sy_for_treasury,
         flash' \in [receiver : Accounts, due : Nat]
  PROVE  Consistent'
<1>1. /\ user_index' = IndexAfter(S) /\ user_interest' = InterestAfter(S)
      /\ expired' = expired
  BY DEF _update_user_interest, env
<1>2. /\ user_index' \in [Accounts -> Rates \cup {0}]
      /\ user_interest' \in [Accounts -> Nat] /\ user_interest'[YTC] = 0
  BY <1>1, CheckpointFacts
<1>3. /\ pt_supply' \in Nat /\ yt_supply' \in Nat
      /\ sy_reserve' \in Nat /\ ReserveBacked' /\ SupplyParity'
  BY <1>1, FloatingType
     DEF Consistent, TypeOK, ReserveBacked, SupplyParity, CacheCoherent
<1>4. TypeOK' /\ CacheCoherent'
  BY <1>2, <1>3, SyncedStep DEF Consistent, TypeOK
<1>5. CheckpointsBehindIndex'
  BY <1>1, <1>2, CheckpointStep DEF Holders
<1> QED BY <1>3, <1>4, <1>5 DEF Consistent

LEMMA MintPyStep ==
  ASSUME Consistent, NEW a \in Accounts, NEW b \in Accounts, mint_py(a, b)
  PROVE  Consistent'
<1> DEFINE n == sy_to_asset(get_floating_sy, SyncedIndex)
<1>1. n \in Nat
  BY FloatingType, ConversionTypes
<1>2. pt \in [Accounts -> Nat] /\ yt \in [Accounts -> Nat]
      /\ flash \in [receiver : Accounts, due : Nat]
  BY DEF Consistent, TypeOK
<1>3. /\ pt' = Credit(pt, a, n) /\ yt' = Credit(yt, b, n)
      /\ pt_supply' = pt_supply + n /\ yt_supply' = yt_supply + n
      /\ _update_py_index /\ _update_user_interest({b})
      /\ sy_reserve' = sy[YTC] /\ ~expired
      /\ UNCHANGED <<env, admin, sy, post_expiry_sy_for_treasury, flash>>
  BY DEF mint_py, ReserveAfter, MayMint
<1> HIDE DEF n
<1>4. pt' \in [Accounts -> Nat]
  BY <1>1, <1>2, <1>3, CreditType
<1>5. /\ yt' \in [Accounts -> Nat]
      /\ \A x \in Accounts \ {b} : yt'[x] = yt[x]
      /\ SumFunction(yt') = SumFunction(yt) + n
  <2>1. SumFunction(yt') = SumFunction(yt) + n
    BY <1>1, <1>2, <1>3, LedgerTotals
  <2> QED BY <1>1, <1>2, <1>3, <2>1 DEF Credit
<1>6. {b} \in SUBSET Accounts
  OBVIOUS
<1> QED BY <1>1, <1>2, <1>3, <1>4, <1>5, <1>6, MintStep

LEMMA FlashMintBeginStep ==
  ASSUME Consistent, NEW u \in Users, NEW m \in Amounts, FlashMintBegin(u, m)
  PROVE  Consistent'
<1> DEFINE n == sy_to_asset(m, SyncedIndex)
<1>1. n \in Nat /\ u \in Accounts /\ m \in Nat /\ sy[YTC] \in Nat
  BY FloatingType, ConversionTypes, AmountsAssumption
<1>2. pt \in [Accounts -> Nat] /\ yt \in [Accounts -> Nat]
  BY DEF Consistent, TypeOK
<1>3. /\ pt' = Credit(pt, u, n) /\ yt' = Credit(yt, u, n)
      /\ pt_supply' = pt_supply + n /\ yt_supply' = yt_supply + n
      /\ _update_py_index /\ _update_user_interest({u})
      /\ flash' = [receiver |-> u, due |-> sy[YTC] + m] /\ ~expired
      /\ UNCHANGED <<env, admin, sy, sy_reserve, post_expiry_sy_for_treasury>>
  BY DEF FlashMintBegin, MayMint
<1> HIDE DEF n
<1>4. /\ pt' \in [Accounts -> Nat] /\ yt' \in [Accounts -> Nat]
      /\ \A x \in Accounts \ {u} : yt'[x] = yt[x]
      /\ SumFunction(yt') = SumFunction(yt) + n
  <2>1. SumFunction(yt') = SumFunction(yt) + n
    BY <1>1, <1>2, <1>3, LedgerTotals
  <2> QED BY <1>1, <1>2, <1>3, <2>1 DEF Credit
<1>5. flash' \in [receiver : Accounts, due : Nat]
  BY <1>1, <1>3
<1>6. {u} \in SUBSET Accounts
  BY <1>1
<1> QED BY <1>1, <1>3, <1>4, <1>5, <1>6, MintStep

LEMMA MintMultiStep ==
  ASSUME Consistent, NEW pts \in Pairs(Accounts), NEW yts \in Pairs(Accounts),
         NEW m1 \in BatchAmounts, NEW m2 \in BatchAmounts,
         mint_py_multi(pts, yts, <<m1, m2>>)
  PROVE  Consistent'
<1> DEFINE n1 == sy_to_asset(m1, SyncedIndex)
           n2 == sy_to_asset(m2, SyncedIndex)
<1>1. n1 \in Nat /\ n2 \in Nat
  BY ConversionTypes, AmountsAssumption
<1>2. PICK p \in Accounts, q \in Accounts, a \in Accounts, b \in Accounts :
        pts = <<p, q>> /\ yts = <<a, b>>
  BY DEF Pairs
<1>3. pt \in [Accounts -> Nat] /\ yt \in [Accounts -> Nat]
      /\ flash \in [receiver : Accounts, due : Nat]
      /\ pt_supply \in Nat /\ yt_supply \in Nat
  BY DEF Consistent, TypeOK
<1>4. /\ pt' = Credit(Credit(pt, p, n1), q, n2)
      /\ yt' = Credit(Credit(yt, a, n1), b, n2)
      /\ pt_supply' = pt_supply + n1 + n2
      /\ yt_supply' = yt_supply + n1 + n2
      /\ _update_py_index /\ _update_user_interest({a, b})
      /\ sy_reserve' = sy[YTC] /\ ~expired
      /\ UNCHANGED <<env, admin, sy, post_expiry_sy_for_treasury, flash>>
  BY <1>2 DEF mint_py_multi, ReserveAfter, MayMint
<1> HIDE DEF n1, n2
<1>5. pt' \in [Accounts -> Nat]
  <2>1. Credit(pt, p, n1) \in [Accounts -> Nat]
    BY <1>1, <1>2, <1>3, CreditType
  <2> QED BY <1>1, <1>2, <1>4, <2>1, CreditType
<1>6. /\ yt' \in [Accounts -> Nat]
      /\ \A x \in Accounts \ {a, b} : yt'[x] = yt[x]
      /\ SumFunction(yt') = SumFunction(yt) + (n1 + n2)
  <2> DEFINE g == Credit(yt, a, n1)
  <2>1. /\ g \in [Accounts -> Nat]
        /\ \A x \in Accounts :
             g[x] = IF x = a THEN yt[x] + n1 ELSE yt[x]
    BY <1>1, <1>2, <1>3 DEF Credit
  <2>2. yt' = Credit(g, b, n2)
    BY <1>4
  <2>3. SumFunction(g) = SumFunction(yt) + n1
    BY <1>1, <1>2, <1>3, LedgerTotals
  <2> HIDE DEF g
  <2>4. /\ yt' \in [Accounts -> Nat]
        /\ \A x \in Accounts :
             yt'[x] = IF x = b THEN g[x] + n2 ELSE g[x]
    BY <1>1, <1>2, <2>1, <2>2 DEF Credit
  <2>5. SumFunction(yt') = SumFunction(g) + n2
    BY <1>1, <1>2, <2>1, <2>2, LedgerTotals
  <2> QED BY <1>1, <1>3, <2>1, <2>3, <2>4, <2>5, TotalIsSum
<1>7. /\ n1 + n2 \in Nat
      /\ pt_supply' = pt_supply + (n1 + n2)
      /\ yt_supply' = yt_supply + (n1 + n2)
  BY <1>1, <1>3, <1>4
<1>8. {a, b} \in SUBSET Accounts
  BY <1>2
<1> QED BY <1>3, <1>4, <1>5, <1>6, <1>7, <1>8, MintStep

LEMMA FlashMintEndStep ==
  ASSUME Consistent, FlashMintEnd
  PROVE  Consistent'
<1>1. sy_reserve' = sy[YTC] /\ sy' = sy /\ sy[YTC] \in Nat
  BY FloatingType DEF FlashMintEnd, ReserveAfter, ledger
<1>2. flash' \in [receiver : Accounts, due : Nat]
  BY FloatingType DEF FlashMintEnd, Idle
<1>3. TypeOK' /\ CacheCoherent' /\ CheckpointsBehindIndex'
  BY <1>1, <1>2, UnsyncedStep
     DEF FlashMintEnd, Consistent, TypeOK, env, admin, ledger
<1>4. ReserveBacked' /\ SupplyParity'
  BY <1>1, ParityKept
     DEF FlashMintEnd, Consistent, ReserveBacked, env, ledger, index
<1> QED BY <1>3, <1>4 DEF Consistent

\* What the mergers of a pair have in common, whatever they pay.
LEMMA MergeStep ==
  ASSUME Consistent, MayMerge, BurnPair, _update_py_index, UNCHANGED <<env, admin>>,
         sy' \in [Accounts -> Nat], sy_reserve' = sy'[YTC],
         NEW S \in SUBSET Accounts,
         \/ user_index' = user_index
         \/ user_index' = IndexAfter(S),
         user_interest' \in [Accounts -> Nat], user_interest'[YTC] = 0,
         UNCHANGED <<post_expiry_sy_for_treasury, flash>>
  PROVE  Consistent'
<1>1. expired' = expired /\ ~expired /\ get_floating_pt = get_floating_yt
  BY DEF MayMerge, env
<1>2. user_index' \in [Accounts -> Rates \cup {0}]
  BY CheckpointFacts DEF Consistent, TypeOK
<1>3. sy_reserve' \in Nat /\ ReserveBacked'
  BY FloatingType DEF ReserveBacked
<1>4. TypeOK' /\ CacheCoherent'
  BY <1>2, <1>3, BurnPairFacts, SyncedStep DEF Consistent, TypeOK
<1>5. CheckpointsBehindIndex'
  BY <1>1, BurnPairFacts, CheckpointStep, NoCheckpointStep
<1>6. SupplyParity'
  BY <1>1, <1>4, BurnPairFacts DEF SupplyParity, TypeOK
<1> QED BY <1>3, <1>4, <1>5, <1>6 DEF Consistent

LEMMA RedeemPyStep ==
  ASSUME Consistent, NEW a \in Holders, redeem_py(a)
  PROVE  Consistent'
<1> DEFINE n == asset_to_sy(get_floating_pt, SyncedIndex)
<1>1. n \in Nat /\ a \in Accounts /\ YTC \in Accounts /\ {} \in SUBSET Accounts
  BY FloatingType, ConversionTypes
<1>2. /\ sy' = Move(sy, YTC, a, n) /\ sy[YTC] >= n
      /\ sy \in [Accounts -> Nat] /\ user_interest \in [Accounts -> Nat]
      /\ MayMerge /\ BurnPair /\ _update_py_index /\ UNCHANGED <<env, admin>>
      /\ sy_reserve' = sy'[YTC]
      /\ user_index' = user_index /\ user_interest' = user_interest
      /\ user_interest[YTC] = 0
      /\ UNCHANGED <<post_expiry_sy_for_treasury, flash>>
  BY DEF redeem_py, PayOut, CanPay, ReserveAfter, claims, Consistent, TypeOK,
         CheckpointsBehindIndex
<1> HIDE DEF n
<1>3. sy' \in [Accounts -> Nat]
  BY <1>1, <1>2, MoveType
<1> QED BY <1>1, <1>2, <1>3, MergeStep

LEMMA RedeemMultiStep ==
  ASSUME Consistent, NEW rs \in Pairs(Holders),
         NEW m1 \in BatchAmounts, NEW m2 \in BatchAmounts,
         redeem_py_multi(rs, <<m1, m2>>)
  PROVE  Consistent'
<1> DEFINE n1 == asset_to_sy(m1, SyncedIndex)
           n2 == asset_to_sy(m2, SyncedIndex)
<1>1. n1 \in Nat /\ n2 \in Nat /\ YTC \in Accounts /\ {} \in SUBSET Accounts
  BY FloatingType, ConversionTypes, AmountsAssumption
<1>2. PICK a \in Accounts, b \in Accounts : rs = <<a, b>>
  BY DEF Pairs, Holders
<1> DEFINE paid1 == Move(sy, YTC, a, n1)
<1>3. /\ sy' = Move(paid1, YTC, b, n2) /\ sy[YTC] >= n1 /\ paid1[YTC] >= n2
      /\ sy \in [Accounts -> Nat] /\ user_interest \in [Accounts -> Nat]
      /\ MayMerge /\ BurnPair /\ _update_py_index /\ UNCHANGED <<env, admin>>
      /\ sy_reserve' = sy'[YTC]
      /\ user_index' = user_index /\ user_interest' = user_interest
      /\ user_interest[YTC] = 0
      /\ UNCHANGED <<post_expiry_sy_for_treasury, flash>>
  BY <1>2
     DEF redeem_py_multi, PayOut, CanPay, ReserveAfter, claims, Consistent, TypeOK,
         CheckpointsBehindIndex
<1> HIDE DEF n1, n2
<1>4. paid1 \in [Accounts -> Nat]
  BY <1>1, <1>3, MoveType
<1> HIDE DEF paid1
<1>5. sy' \in [Accounts -> Nat]
  BY <1>1, <1>3, <1>4, MoveType
<1> QED BY <1>1, <1>3, <1>5, MergeStep

\* Paying out an account's interest zeroes it after the checkpoint.
LEMMA InterestPaidType ==
  ASSUME Consistent, NEW c \in Accounts
  PROVE  /\ InterestAfter({c})[c] \in Nat
         /\ [InterestAfter({c}) EXCEPT ![c] = 0] \in [Accounts -> Nat]
         /\ [InterestAfter({c}) EXCEPT ![c] = 0][YTC] = 0
<1>1. {c} \in SUBSET Accounts /\ YTC \in Accounts
  BY DEF Accounts
<1>2. InterestAfter({c}) \in [Accounts -> Nat] /\ InterestAfter({c})[YTC] = 0
  BY <1>1, CheckpointFacts
<1> QED BY <1>1, <1>2

LEMMA RedeemWithInterestStep ==
  ASSUME Consistent, NEW c \in Holders, NEW a \in Holders,
         redeem_py_with_interest(c, a)
  PROVE  Consistent'
<1> DEFINE n == asset_to_sy(get_floating_pt, SyncedIndex)
           interest == InterestAfter({c})[c]
           paid1 == Move(sy, YTC, a, n)
<1>1. /\ n \in Nat /\ a \in Accounts /\ c \in Accounts /\ YTC \in Accounts
      /\ {c} \in SUBSET Accounts
  BY FloatingType, ConversionTypes
<1>2. interest \in Nat
      /\ [InterestAfter({c}) EXCEPT ![c] = 0] \in [Accounts -> Nat]
      /\ [InterestAfter({c}) EXCEPT ![c] = 0][YTC] = 0
  BY <1>1, InterestPaidType
<1>3. /\ sy' = PayInterest(paid1, a, interest) /\ sy[YTC] >= n
      /\ CanPayInterest(paid1, a, interest)
      /\ sy \in [Accounts -> Nat]
      /\ MayMerge /\ BurnPair /\ _update_py_index /\ UNCHANGED <<env, admin>>
      /\ sy_reserve' = sy'[YTC]
      /\ user_index' = IndexAfter({c})
      /\ user_interest' = [InterestAfter({c}) EXCEPT ![c] = 0]
      /\ UNCHANGED <<post_expiry_sy_for_treasury, flash>>
  BY DEF redeem_py_with_interest, PayOut, CanPay, ReserveAfter, Consistent, TypeOK
<1> HIDE DEF n, interest
<1>4. paid1 \in [Accounts -> Nat]
  BY <1>1, <1>3, MoveType
<1> HIDE DEF paid1
<1>5. sy' \in [Accounts -> Nat]
  BY <1>1, <1>2, <1>3, <1>4, PayInterestType
<1>6. user_interest' \in [Accounts -> Nat] /\ user_interest'[YTC] = 0
  BY <1>2, <1>3
<1> QED BY <1>1, <1>3, <1>5, <1>6, MergeStep

\* The index captured at expiry, by this call or before it, is a rate.
LEMMA ExpiryIndexFacts ==
  ASSUME Consistent
  PROVE  /\ ExpiryIndex \in Rates /\ ExpiryIndex \in Nat \ {0}
         /\ \A n \in Nat : asset_to_sy(n, ExpiryIndex) \in Nat
                           /\ TreasuryCarveOut(n) \in Nat
<1>1. ExpiryIndex \in Rates /\ ExpiryIndex \in Nat \ {0}
  <2>1. Captured => py_index_at_expiry = py_index_stored
    BY DEF Consistent, CheckpointsBehindIndex
  <2>2. ExpiryIndex \in Rates
    BY <2>1, SyncedIndexFacts DEF ExpiryIndex, Consistent, TypeOK
  <2> QED BY <2>2, RatesAssumption, WadAssumption
<1>2. ASSUME NEW n \in Nat PROVE asset_to_sy(n, ExpiryIndex) \in Nat
  BY <1>1, WadType DEF asset_to_sy
<1>3. ASSUME NEW n \in Nat PROVE TreasuryCarveOut(n) \in Nat
  <2>1. CASE rate > ExpiryIndex
    <3>1. rate \in Rates /\ rate \in Nat
      BY RatesAssumption DEF Consistent, TypeOK
    <3>2. InterestBetween(n, ExpiryIndex, rate) \in Nat
      BY <1>1, <2>1, <3>1, InterestBetweenType
    <3> QED BY <2>1, <3>2 DEF TreasuryCarveOut
  <2>2. CASE ~(rate > ExpiryIndex)
    BY <2>2 DEF TreasuryCarveOut
  <2> QED BY <2>1, <2>2
<1> QED BY <1>1, <1>2, <1>3

LEMMA RedeemPostExpiryStep ==
  ASSUME Consistent, NEW a \in Holders, redeem_py_post_expiry(a)
  PROVE  Consistent'
<1> DEFINE n == asset_to_sy(get_floating_pt, ExpiryIndex)
           t == TreasuryCarveOut(get_floating_pt)
           paid1 == Move(sy, YTC, Treasury, t)
<1>1. /\ n \in Nat /\ t \in Nat /\ a \in Accounts /\ YTC \in Accounts
      /\ Treasury \in Accounts
  BY FloatingType, ExpiryIndexFacts
<1>2. /\ sy' = Move(paid1, YTC, a, n) /\ sy[YTC] >= t /\ paid1[YTC] >= n
      /\ _update_py_index /\ UNCHANGED <<env, admin, claims, yt, yt_supply, flash>>
      /\ get_floating_pt <= pt_supply
      /\ pt' = Debit(pt, YTC, get_floating_pt)
      /\ pt_supply' = pt_supply - get_floating_pt
      /\ sy_reserve' = sy'[YTC]
      /\ post_expiry_sy_for_treasury' = post_expiry_sy_for_treasury + t
      /\ expired /\ expired' = expired
  BY DEF redeem_py_post_expiry, PayOut, CanPay, ReserveAfter, env
<1> HIDE DEF n, t
<1>3. /\ sy \in [Accounts -> Nat] /\ pt \in [Accounts -> Nat]
      /\ pt_supply \in Nat /\ yt_supply \in Nat
      /\ post_expiry_sy_for_treasury \in Nat
  BY DEF Consistent, TypeOK
<1>4. paid1 \in [Accounts -> Nat]
  BY <1>1, <1>2, <1>3, MoveType
<1> HIDE DEF paid1
<1>5. sy' \in [Accounts -> Nat]
  BY <1>1, <1>2, <1>4, MoveType
<1>6. pt' \in [Accounts -> Nat] /\ pt_supply' \in Nat
      /\ pt_supply' <= pt_supply
  BY <1>1, <1>2, <1>3, FloatingType, DebitType DEF get_floating_pt
<1>7. sy_reserve' \in Nat /\ ReserveBacked'
      /\ post_expiry_sy_for_treasury' \in Nat
  BY <1>1, <1>2, <1>3, <1>5 DEF ReserveBacked
<1>8. TypeOK' /\ CacheCoherent'
  BY <1>2, <1>5, <1>6, <1>7, SyncedStep DEF Consistent, TypeOK, claims
<1>9. CheckpointsBehindIndex'
  BY <1>2, NoCheckpointStep DEF claims, Consistent, CheckpointsBehindIndex
<1>10. SupplyParity'
  <2>1. Captured'
    BY <1>2, UpdateIndex
  <2> QED BY <1>2, <1>3, <1>6, <2>1 DEF Consistent, SupplyParity
<1> QED BY <1>7, <1>8, <1>9, <1>10 DEF Consistent

LEMMA ClaimNothingStep ==
  ASSUME Consistent, NEW c \in Accounts, ClaimNothing(c)
  PROVE  Consistent'
<1>1. /\ {c} \in SUBSET Accounts
      /\ _update_py_index /\ UNCHANGED <<env, admin>> /\ expired' = expired
      /\ user_index' = IndexAfter({c}) /\ user_interest' = InterestAfter({c})
      /\ UNCHANGED <<ledger, sy_reserve, post_expiry_sy_for_treasury, flash>>
  BY DEF ClaimNothing, _update_user_interest, env
<1>2. /\ user_index' \in [Accounts -> Rates \cup {0}]
      /\ user_interest' \in [Accounts -> Nat]
  BY <1>1, CheckpointFacts
<1>3. TypeOK' /\ CacheCoherent'
  BY <1>1, <1>2, SyncedStep DEF Consistent, TypeOK, ledger
<1>4. CheckpointsBehindIndex'
  BY <1>1, CheckpointFacts, CheckpointStep DEF ledger
<1>5. ReserveBacked' /\ SupplyParity'
  BY <1>1, ParityKept DEF Consistent, ReserveBacked, ledger
<1> QED BY <1>3, <1>4, <1>5 DEF Consistent

LEMMA ClaimInterestStep ==
  ASSUME Consistent, NEW c \in Accounts, ClaimInterest(c)
  PROVE  Consistent'
<1> DEFINE interest == InterestAfter({c})[c]
<1>1. interest \in Nat
      /\ [InterestAfter({c}) EXCEPT ![c] = 0] \in [Accounts -> Nat]
      /\ [InterestAfter({c}) EXCEPT ![c] = 0][YTC] = 0
  BY InterestPaidType
<1>2. /\ {c} \in SUBSET Accounts
      /\ _update_py_index /\ UNCHANGED <<env, admin>> /\ expired' = expired
      /\ CanPayInterest(sy, c, interest)
      /\ sy' = PayInterest(sy, c, interest) /\ sy_reserve' = sy'[YTC]
      /\ user_index' = IndexAfter({c})
      /\ user_interest' = [InterestAfter({c}) EXCEPT ![c] = 0]
      /\ UNCHANGED <<pt, yt, pt_supply, yt_supply,
                     post_expiry_sy_for_treasury, flash>>
  BY DEF ClaimInterest, ReserveAfter, env
<1> HIDE DEF interest
<1>3. sy' \in [Accounts -> Nat]
  BY <1>1, <1>2, PayInterestType DEF Consistent, TypeOK
<1>4. /\ user_index' \in [Accounts -> Rates \cup {0}]
      /\ user_interest' \in [Accounts -> Nat]
  BY <1>1, <1>2, CheckpointFacts
<1>5. sy_reserve' \in Nat /\ ReserveBacked'
  BY <1>2, <1>3, FloatingType DEF ReserveBacked
<1>6. TypeOK' /\ CacheCoherent'
  BY <1>2, <1>3, <1>4, <1>5, SyncedStep DEF Consistent, TypeOK
<1>7. CheckpointsBehindIndex'
  BY <1>1, <1>2, CheckpointStep
<1>8. SupplyParity'
  BY <1>2, ParityKept
<1> QED BY <1>5, <1>6, <1>7, <1>8 DEF Consistent

LEMMA UpdatePyIndexStep ==
  ASSUME Consistent, update_py_index
  PROVE  Consistent'
<1>1. /\ _update_py_index /\ UNCHANGED <<env, admin, ledger, claims>>
      /\ expired' = expired
      /\ UNCHANGED <<sy_reserve, post_expiry_sy_for_treasury, flash>>
  BY DEF update_py_index, env
<1>2. TypeOK' /\ CacheCoherent'
  BY <1>1, SyncedStep DEF Consistent, TypeOK, ledger, claims
<1>3. CheckpointsBehindIndex'
  BY <1>1, NoCheckpointStep
     DEF ledger, claims, Consistent, CheckpointsBehindIndex
<1>4. ReserveBacked' /\ SupplyParity'
  BY <1>1, ParityKept DEF Consistent, ReserveBacked, ledger
<1> QED BY <1>2, <1>3, <1>4 DEF Consistent

\* The treasury's claim pays only what it is still owed.
LEMMA TreasuryClaimStep ==
  ASSUME Consistent, redeem_post_expiry_interest_for_treasury
  PROVE  Consistent'
<1> DEFINE pays == rate > ExpiryIndex
                   /\ TreasuryOwed > post_expiry_sy_for_treasury
           n == TreasuryOwed - post_expiry_sy_for_treasury
<1>1. /\ _update_py_index /\ UNCHANGED <<env, admin, claims, flash>>
      /\ UNCHANGED <<pt, yt, pt_supply, yt_supply>>
      /\ expired' = expired
  BY DEF redeem_post_expiry_interest_for_treasury, env
<1>2. /\ sy' \in [Accounts -> Nat] /\ sy_reserve' \in Nat /\ ReserveBacked'
      /\ post_expiry_sy_for_treasury' \in Nat
  <2>1. CASE pays
    <3>1. TreasuryOwed \in Nat
      <4>1. rate - ExpiryIndex \in Nat /\ yt_supply \in Nat
        BY <2>1, ExpiryIndexFacts, RatesAssumption DEF Consistent, TypeOK
      <4>2. wad_mul(yt_supply, rate - ExpiryIndex) \in Nat
        BY <4>1, WadType
      <4> QED BY <4>2, ExpiryIndexFacts, WadType DEF TreasuryOwed
    <3>2. n \in Nat
      BY <2>1, <3>1 DEF Consistent, TypeOK
    <3>3. /\ sy' = Move(sy, YTC, Treasury, n) /\ sy[YTC] >= n
          /\ post_expiry_sy_for_treasury' = TreasuryOwed
          /\ sy_reserve' = sy'[YTC]
      BY <2>1 DEF redeem_post_expiry_interest_for_treasury, PayOut, CanPay,
                  ReserveAfter
    <3> HIDE DEF n, pays
    <3>4. sy' \in [Accounts -> Nat]
      BY <3>2, <3>3, FloatingType, MoveType DEF Consistent, TypeOK
    <3> QED BY <3>1, <3>3, <3>4, FloatingType DEF ReserveBacked
  <2>2. CASE ~pays
    <3>1. UNCHANGED <<sy, sy_reserve, post_expiry_sy_for_treasury>>
      BY <2>2 DEF redeem_post_expiry_interest_for_treasury
    <3> QED BY <3>1 DEF Consistent, TypeOK, ReserveBacked
  <2> QED BY <2>1, <2>2
<1> HIDE DEF pays, n
<1>3. TypeOK' /\ CacheCoherent'
  BY <1>1, <1>2, SyncedStep DEF Consistent, TypeOK, claims
<1>4. CheckpointsBehindIndex'
  BY <1>1, NoCheckpointStep DEF claims, Consistent, CheckpointsBehindIndex
<1>5. SupplyParity'
  BY <1>1, ParityKept
<1> QED BY <1>2, <1>3, <1>4, <1>5 DEF Consistent

LEMMA AdminStep ==
  ASSUME Consistent,
         \/ \E r \in FeeRates : set_interest_fee_rate(r)
         \/ \E t \in Pausable : pause(t) \/ unpause(t)
  PROVE  Consistent'
<1>1. /\ UNCHANGED <<env, ledger, index, claims, sy_reserve,
                     post_expiry_sy_for_treasury, flash>>
      /\ interest_fee_rate' \in FeeRates \cup {0} /\ paused' \subseteq Pausable
  BY DEF set_interest_fee_rate, pause, unpause, Consistent, TypeOK
<1>2. TypeOK' /\ CacheCoherent' /\ CheckpointsBehindIndex'
  BY <1>1, UnsyncedStep DEF Consistent, TypeOK, env, ledger
<1>3. ReserveBacked' /\ SupplyParity'
  BY <1>1, ParityKept DEF Consistent, ReserveBacked, env, ledger, index
<1> QED BY <1>2, <1>3 DEF Consistent

LEMMA RateChangeStep ==
  ASSUME Consistent, NEW r \in Rates, RateChange(r)
  PROVE  Consistent'
<1>1. TypeOK' /\ CacheCoherent' /\ CheckpointsBehindIndex'
  BY UnsyncedStep DEF RateChange, Consistent, TypeOK, ledger, admin
<1>2. ReserveBacked' /\ SupplyParity'
  BY ParityKept DEF RateChange, Consistent, ReserveBacked, ledger, index
<1> QED BY <1>1, <1>2 DEF Consistent

\* A new block empties the cache, and expiry is never undone.
LEMMA NextBlockStep ==
  ASSUME Consistent, NEW e \in BOOLEAN, NextBlock(e)
  PROVE  Consistent'
<1>1. TypeOK'
  BY DEF NextBlock, Consistent, TypeOK, ledger, claims, admin
<1>2. ReserveBacked' /\ SupplyParity'
  BY ParityKept DEF NextBlock, Consistent, TypeOK, ReserveBacked, ledger
<1>3. CheckpointsBehindIndex' /\ CacheCoherent'
  BY DEF NextBlock, Consistent, TypeOK, CheckpointsBehindIndex, CacheCoherent,
         Captured, NotEntered, Idle, ledger, claims
<1> QED BY <1>1, <1>2, <1>3 DEF Consistent

-----------------------------------------------------------------------------
(***************************************************************************)
(* The theorems.                                                           *)
(***************************************************************************)

LEMMA InitConsistent == Init => Consistent
<1> SUFFICES ASSUME Init PROVE Consistent
  OBVIOUS
<1>1. YTC \in Accounts /\ rate \in Nat
  BY RatesAssumption DEF Init, Accounts
<1>2. TypeOK
  BY <1>1, AmountsAssumption DEF Init, TypeOK, Idle
<1>3. ReserveBacked
  <2>1. YTC \notin Users
    BY AccountsAssumption
  <2> QED BY <1>1, <2>1 DEF Init, ReserveBacked
<1>4. CheckpointsBehindIndex /\ CacheCoherent
  BY <1>1 DEF Init, CheckpointsBehindIndex, CacheCoherent, Captured, Holders
<1>5. SupplyParity
  <2>1. yt \in [Accounts -> Nat] /\ \A a \in Accounts : yt[a] = 0
    BY DEF Init
  <2>2. SumFunctionOnSet(yt, Accounts) = 0
    BY <2>1, AccountsFinite, SumZero
  <2>3. SumFunction(yt) = 0
    BY <2>1, <2>2, TotalIsSum
  <2> QED BY <2>3 DEF Init, SupplyParity
<1> QED BY <1>2, <1>3, <1>4, <1>5 DEF Consistent

LEMMA NextConsistent == Consistent /\ [Next]_vars => Consistent'
<1> SUFFICES ASSUME Consistent, [Next]_vars PROVE Consistent'
  OBVIOUS
<1>1. CASE Transfer
  BY <1>1, SyTransferStep, PtTransferStep, YtTransferStep DEF Transfer
<1>2. CASE Mint
  BY <1>2, MintPyStep, FlashMintBeginStep, FlashMintEndStep DEF Mint
<1>3. CASE Redeem
  BY <1>3, RedeemPyStep, RedeemPostExpiryStep, RedeemWithInterestStep
     DEF Redeem
<1>4. CASE Batch
  BY <1>4, MintMultiStep, RedeemMultiStep DEF Batch
<1>5. CASE Claim
  BY <1>5, ClaimNothingStep, ClaimInterestStep DEF Claim, redeem_due_interest
<1>6. CASE update_py_index
  BY <1>6, UpdatePyIndexStep
<1>7. CASE Admin
  BY <1>7, TreasuryClaimStep, AdminStep DEF Admin
<1>8. CASE Environment
  BY <1>8, RateChangeStep, NextBlockStep DEF Environment
<1>9. CASE UNCHANGED vars
  BY <1>9 DEF vars, env, ledger, index, claims, admin, Consistent, TypeOK,
              ReserveBacked, SupplyParity, CheckpointsBehindIndex,
              CacheCoherent, Captured, NotEntered, Idle, Holders
<1> QED
  BY <1>1, <1>2, <1>3, <1>4, <1>5, <1>6, <1>7, <1>8, <1>9 DEF Next

\* Whatever is called in whatever order, callbacks of flash mints included, the
\* copies YT keeps agree with what they are copies of.
THEOREM Safety == Spec => []Consistent
<1>1. Init => Consistent
  BY InitConsistent
<1>2. Consistent /\ [Next]_vars => Consistent'
  BY NextConsistent
<1> QED BY <1>1, <1>2, PTL DEF Spec

\* Every variable keeps its type: in particular no u256 subtraction of the
\* modelled calls underflows.
THEOREM TypeCorrect == Spec => []TypeOK
<1>1. Consistent => TypeOK
  BY DEF Consistent
<1> QED BY <1>1, Safety, PTL

\* The accounted reserve never exceeds the SY the YT contract really has.
THEOREM ReserveIsBacked == Spec => []ReserveBacked
<1>1. Consistent => ReserveBacked
  BY DEF Consistent
<1> QED BY <1>1, Safety, PTL

\* PT and YT supplies are equal before expiry and PT never exceeds YT.
THEOREM SuppliesPaired == Spec => []SupplyParity
<1>1. Consistent => SupplyParity
  BY DEF Consistent
<1> QED BY <1>1, Safety, PTL

\* No checkpoint runs ahead of the stored index, so accrual never underflows.
THEOREM CheckpointsBehind == Spec => []CheckpointsBehindIndex
<1>1. Consistent => CheckpointsBehindIndex
  BY DEF Consistent
<1> QED BY <1>1, Safety, PTL

\* The index a view reports is the one the next call uses.
THEOREM ViewIsExact == Spec => []ViewAgrees
<1>1. Consistent => ViewAgrees
  <2> SUFFICES ASSUME Consistent PROVE ViewAgrees
    OBVIOUS
  <2>1. CASE expired
    BY <2>1 DEF Consistent, CacheCoherent, CheckpointsBehindIndex, ViewAgrees,
                py_index_current, SyncedIndex
  <2>2. CASE ~expired
    <3>1. py_index_stored > 0
      BY RatesAssumption, WadAssumption DEF Consistent, TypeOK
    <3> QED
      BY <2>2, <3>1 DEF Consistent, CacheCoherent, ViewAgrees, py_index_current,
                        SyncedIndex
  <2> QED BY <2>1, <2>2
<1> QED BY <1>1, Safety, PTL

\* Calls that leave the index variables alone.
LEMMA WatermarkUnchanged ==
  ASSUME Consistent, UNCHANGED <<py_index_stored, py_index_at_expiry>>
  PROVE  /\ py_index_stored' >= py_index_stored
         /\ Captured => py_index_stored' = py_index_stored
                        /\ py_index_at_expiry' = py_index_at_expiry
BY RatesAssumption DEF Consistent, TypeOK

\* The stored index never decreases, and never moves again once it has been
\* captured at expiry.
THEOREM IndexIsWatermark == Spec => IndexWatermark
<1> DEFINE W == /\ py_index_stored' >= py_index_stored
                /\ Captured => py_index_stored' = py_index_stored
                               /\ py_index_at_expiry' = py_index_at_expiry
<1>1. ASSUME Consistent, [Next]_vars PROVE W
  <2>1. CASE _update_py_index /\ expired' = expired
    BY <1>1, <2>1, UpdateIndex
  <2>2. CASE UNCHANGED <<py_index_stored, py_index_at_expiry>>
    BY <1>1, <2>2, WatermarkUnchanged
  <2>3. \/ _update_py_index /\ expired' = expired
        \/ UNCHANGED <<py_index_stored, py_index_at_expiry>>
    <3>1. CASE Transfer
      BY <3>1 DEF Transfer, SyTransfer, PtTransfer, YtTransfer, env, index
    <3>2. CASE Mint
      BY <3>2 DEF Mint, mint_py, FlashMintBegin, FlashMintEnd, env, index
    <3>3. CASE Redeem
      BY <3>3 DEF Redeem, redeem_py, redeem_py_with_interest,
                  redeem_py_post_expiry, env
    <3>4. CASE Batch
      <4>1. ASSUME NEW pts, NEW yts, NEW am, mint_py_multi(pts, yts, am)
            PROVE  _update_py_index /\ expired' = expired
        BY <4>1 DEF mint_py_multi, env
      <4>2. ASSUME NEW rs, NEW am, redeem_py_multi(rs, am)
            PROVE  _update_py_index /\ expired' = expired
        BY <4>2 DEF redeem_py_multi, env
      <4> QED BY <3>4, <4>1, <4>2 DEF Batch
    <3>5. CASE Claim
      BY <3>5 DEF Claim, redeem_due_interest, ClaimNothing, ClaimInterest, env
    <3>6. CASE update_py_index
      BY <3>6 DEF update_py_index, env
    <3>7. CASE Admin
      BY <3>7 DEF Admin, redeem_post_expiry_interest_for_treasury,
                  set_interest_fee_rate, pause, unpause, env, index
    <3>8. CASE Environment
      BY <3>8 DEF Environment, RateChange, NextBlock, index
    <3>9. CASE UNCHANGED vars
      BY <3>9 DEF vars, index
    <3> QED BY <1>1, <3>1, <3>2, <3>3, <3>4, <3>5, <3>6, <3>7, <3>8, <3>9
            DEF Next
  <2> QED BY <2>1, <2>2, <2>3
<1>2. Consistent /\ [Next]_vars => [W]_vars
  BY <1>1
<1> QED BY <1>2, Safety, PTL DEF Spec, IndexWatermark

-----------------------------------------------------------------------------
(***************************************************************************)
(* What a step does to the claims, and how it is paid for.                 *)
(*                                                                         *)
(* As the holders see it every step is of one form: the accounts of some S *)
(* are checkpointed at the stored index that the step leaves, and one of   *)
(* them, c, may be paid an amount n of its interest.  As the reserve sees  *)
(* it, the change of PT is matched by the change of the backing, up to the *)
(* rounding of the principal q that is paid.                               *)
(***************************************************************************)

Scale == WAD * CUBIT_ONE
Slack == PARTS * (CUBIT_ONE + 4 * WAD)

\* What the step pays u of its interest, when it pays n to c.
PaidTo(u, c, n) == IF u = c THEN n ELSE 0

Accrues(S, c, n, j) ==
  /\ py_index_stored' = j /\ j \in Rates /\ py_index_stored <= j
  /\ Captured => j = py_index_stored
  /\ n # 0 => c \in Holders \cap S
  /\ \A u \in Holders \ S :
       /\ user_index'[u] = user_index[u] /\ yt'[u] = yt[u]
       /\ user_interest'[u] = user_interest[u]
  /\ \A u \in Holders \cap S :
       /\ user_index'[u] = j
       /\ user_interest'[u] = user_interest[u] + NewInterest(u, j) - PaidTo(u, c, n)

Funded(n, q) ==
  /\ n + q <= PaidOut
  /\ (pt_supply' - pt_supply) * Worth(py_index_stored') * Scale
       <= PARTS * (Backing' - Backing + n) * Scale + q * Slack

\* The index that a call leaves when it synchronises the index.
LEMMA IndexLeft ==
  ASSUME Consistent, _update_py_index, expired' = expired
  PROVE  \E j \in Rates :
           /\ py_index_stored' = j /\ j = SyncedIndex /\ py_index_stored <= j
           /\ Captured => j = py_index_stored
BY UpdateIndex, SyncedIndexFacts

\* A call that checkpoints S and pays no interest.
LEMMA AccruesUnpaid ==
  ASSUME Consistent, _update_py_index, expired' = expired, NEW S \in SUBSET Accounts,
         _update_user_interest(S),
         \A u \in Holders \ S : yt'[u] = yt[u]
  PROVE  \E j \in Rates : Accrues(S, YTC, 0, j)
<1>1. PICK j \in Rates :
        /\ py_index_stored' = j /\ j = SyncedIndex /\ py_index_stored <= j
        /\ Captured => j = py_index_stored
  BY IndexLeft
<1>2. \A u \in Holders : u \in Accounts /\ u # YTC
  BY DEF Holders
<1>3. user_index' = IndexAfter(S) /\ user_interest' = InterestAfter(S)
  BY DEF _update_user_interest
<1>4. ASSUME NEW u \in Holders \ S
      PROVE  user_index'[u] = user_index[u] /\ user_interest'[u] = user_interest[u]
  BY <1>2, <1>3, <1>4 DEF IndexAfter, InterestAfter, Checkpointed
<1>5. ASSUME NEW u \in Holders \cap S
      PROVE  /\ user_index'[u] = j
             /\ user_interest'[u]
                  = user_interest[u] + NewInterest(u, j) - PaidTo(u, YTC, 0)
  <2>1. user_interest'[u] \in Nat
    BY <1>2, <1>3, CheckpointFacts
  <2>2. user_index'[u] = j /\ user_interest'[u] = user_interest[u] + NewInterest(u, j)
    BY <1>1, <1>2, <1>3 DEF IndexAfter, InterestAfter, Checkpointed
  <2>3. PaidTo(u, YTC, 0) = 0
    BY DEF PaidTo
  <2>4. user_interest[u] \in Nat /\ NewInterest(u, j) \in Nat
    BY <1>2, NewInterestType DEF Consistent, TypeOK
  <2> QED BY <2>2, <2>3, <2>4
<1>6. Accrues(S, YTC, 0, j)
  BY <1>1, <1>4, <1>5 DEF Accrues
<1> QED BY <1>6

\* A call that checkpoints one holder and pays it all its interest.
LEMMA AccruesPaid ==
  ASSUME Consistent, _update_py_index, expired' = expired, NEW c \in Holders,
         user_index' = IndexAfter({c}),
         user_interest' = [InterestAfter({c}) EXCEPT ![c] = 0],
         \A u \in Holders \ {c} : yt'[u] = yt[u]
  PROVE  \E j \in Rates : Accrues({c}, c, InterestAfter({c})[c], j)
<1> DEFINE n == InterestAfter({c})[c]
<1>1. PICK j \in Rates :
        /\ py_index_stored' = j /\ j = SyncedIndex /\ py_index_stored <= j
        /\ Captured => j = py_index_stored
  BY IndexLeft
<1>2. \A u \in Holders : u \in Accounts /\ u # YTC
  BY DEF Holders
<1>3. n \in Nat /\ InterestAfter({c}) \in [Accounts -> Nat]
      /\ n = user_interest[c] + NewInterest(c, j)
  <2>1. {c} \in SUBSET Accounts
    BY <1>2
  <2>2. InterestAfter({c}) \in [Accounts -> Nat]
    BY <2>1, CheckpointFacts
  <2> QED BY <1>1, <1>2, <2>2 DEF InterestAfter, Checkpointed
<1>4. ASSUME NEW u \in Holders \ {c}
      PROVE  user_index'[u] = user_index[u] /\ user_interest'[u] = user_interest[u]
  BY <1>2, <1>4 DEF IndexAfter, InterestAfter, Checkpointed
<1>5. user_index'[c] = j /\ user_interest'[c] = 0
  <2>1. user_index'[c] = j
    BY <1>1, <1>2 DEF IndexAfter, Checkpointed
  <2> QED BY <1>2, <1>3, <2>1
<1> HIDE DEF n
<1>6. user_interest[c] + NewInterest(c, j) - PaidTo(c, c, n) = 0
  <2>1. PaidTo(c, c, n) = n
    BY DEF PaidTo
  <2>2. user_interest[c] \in Nat /\ NewInterest(c, j) \in Nat
    BY <1>2, NewInterestType DEF Consistent, TypeOK
  <2> QED BY <1>3, <2>1, <2>2
<1>7. Accrues({c}, c, n, j)
  BY <1>1, <1>4, <1>5, <1>6 DEF Accrues
<1> QED BY <1>7 DEF n

\* A step that leaves the claims and the YT of the holders alone.
LEMMA AccruesNothing ==
  ASSUME Consistent, UNCHANGED claims,
         \/ _update_py_index /\ expired' = expired
         \/ UNCHANGED py_index_stored,
         \A u \in Holders : yt'[u] = yt[u]
  PROVE  \E j \in Rates : Accrues({}, YTC, 0, j)
<1>1. PICK j \in Rates : /\ py_index_stored' = j /\ py_index_stored <= j
                         /\ Captured => j = py_index_stored
  <2>1. CASE _update_py_index /\ expired' = expired
    BY <2>1, IndexLeft
  <2>2. CASE UNCHANGED py_index_stored
    BY <2>2, SyncedIndexFacts DEF Consistent, TypeOK
  <2> QED BY <2>1, <2>2
<1>2. Accrues({}, YTC, 0, j)
  BY <1>1 DEF Accrues, claims
<1> QED BY <1>2

\* The backing is an amount of SY.
LEMMA BackingType ==
  /\ Consistent => Backing \in Nat
  /\ Consistent' => Backing' \in Nat
BY DEF Consistent, TypeOK, Backing, NotEntered, Idle

\* The constants of the bound are natural numbers.
LEMMA ScaleType ==
  Scale \in Nat \ {0} /\ Slack \in Nat /\ PARTS \in Nat \ {0}
<1>1. /\ WAD \in Nat \ {0} /\ CUBIT_ONE \in Nat \ {0} /\ PARTS \in Nat \ {0}
  BY WadAssumption, CubitAssumption, PartsAssumption
<1>2. \A a, b \in Nat \ {0} : a * b \in Nat \ {0}
  OBVIOUS
<1> QED BY <1>1, <1>2 DEF Scale, Slack

\* PT that is minted is funded when the backing grows by the SY it is minted
\* for.
LEMMA FundedMint ==
  ASSUME Consistent, Consistent', NEW n \in Nat, NEW s \in Nat,
         n * Worth(py_index_stored') <= s * PARTS,
         pt_supply' = pt_supply + n, Backing + s <= Backing'
  PROVE  Funded(0, 0)
<1> DEFINE w == Worth(py_index_stored')  b == Backing' - Backing
<1>1. /\ w \in Nat /\ pt_supply \in Nat /\ PARTS \in Nat /\ Scale \in Nat
      /\ sy[YTC] \in Nat
  BY WorthFacts, ScaleType DEF Consistent, TypeOK, Accounts
<1>2. Backing \in Nat
  BY BackingType
<1>3. Backing' \in Nat
  BY BackingType
<1>4. b \in Nat /\ s <= b /\ pt_supply' - pt_supply = n
  <2>1. pt_supply' - pt_supply = n
    BY <1>1
  <2>2. \A x, y \in Nat : x + s <= y => y - x \in Nat /\ s <= y - x
    OBVIOUS
  <2>3. b \in Nat /\ s <= b
    BY <1>2, <1>3, <2>2
  <2> QED BY <2>1, <2>3
<1>5. sy'[YTC] \in Nat
  BY DEF Consistent, TypeOK, Accounts
<1>6. 0 + 0 <= PaidOut
  BY <1>1, <1>5 DEF PaidOut, max
<1> HIDE DEF w, b
<1>7. n * w <= PARTS * b
  <2>1. s * PARTS <= b * PARTS
    BY <1>1, <1>4, MulMono
  <2>2. n * w <= s * PARTS
    BY DEF w
  <2>3. n * w \in Nat /\ s * PARTS \in Nat /\ b * PARTS \in Nat
        /\ b * PARTS = PARTS * b
    BY <1>1, <1>4, MulNat
  <2> QED BY <2>1, <2>2, <2>3
<1>8. n * w * Scale <= PARTS * b * Scale
  BY <1>1, <1>4, <1>7, MulNat, MulMono
<1>9. b + 0 = b /\ 0 * Slack = 0 /\ PARTS * b * Scale + 0 = PARTS * b * Scale
  BY <1>1, <1>4, ScaleType, MulNat
<1>10. (pt_supply' - pt_supply) * w * Scale
         <= PARTS * (b + 0) * Scale + 0 * Slack
  BY <1>4, <1>8, <1>9
<1> QED BY <1>6, <1>10 DEF Funded, w, b

\* A step that burns m PT (or none), pays q SY for it and n of interest.
LEMMA FundedPay ==
  ASSUME Consistent, Consistent', NEW m \in Nat, NEW n \in Nat, NEW q \in Nat,
         q * PARTS * Scale <= m * Worth(py_index_stored') * Scale + q * Slack,
         pt_supply' = pt_supply - m, Backing <= Backing' + n + q, n + q <= PaidOut
  PROVE  Funded(n, q)
<1> DEFINE w == Worth(py_index_stored')  b == Backing' - Backing + n
<1>1. /\ w \in Nat /\ pt_supply \in Nat /\ PARTS \in Nat /\ Scale \in Nat
      /\ Slack \in Nat
  BY WorthFacts, ScaleType DEF Consistent, TypeOK
<1>2. Backing \in Nat
  BY BackingType
<1>3. Backing' \in Nat
  BY BackingType
<1>4. b \in Int /\ -q <= b /\ pt_supply' - pt_supply = -m
  <2>1. pt_supply' - pt_supply = -m
    BY <1>1
  <2>2. \A x, y \in Nat : x <= y + n + q => y - x + n \in Int /\ -q <= y - x + n
    OBVIOUS
  <2>3. b \in Int /\ -q <= b
    BY <1>2, <1>3, <2>2
  <2> QED BY <2>1, <2>3
<1>5. q * PARTS * Scale <= m * w * Scale + q * Slack
  OBVIOUS
<1> HIDE DEF w, b
<1> DEFINE k == b + q
<1>6. k \in Nat /\ b = k - q
  BY <1>4
<1> HIDE DEF k
<1>7. PARTS * b * Scale = PARTS * k * Scale - q * PARTS * Scale
  BY <1>1, <1>6
<1>8. (-m) * w * Scale = -(m * w * Scale)
  BY <1>1
<1>9. /\ PARTS * k * Scale \in Nat /\ q * PARTS * Scale \in Nat
      /\ m * w * Scale \in Nat /\ q * Slack \in Nat
  BY <1>1, <1>6, MulNat
<1>10. (pt_supply' - pt_supply) * w * Scale <= PARTS * b * Scale + q * Slack
  <2> DEFINE e1 == PARTS * k * Scale  e2 == q * PARTS * Scale
             e3 == m * w * Scale  e4 == q * Slack
  <2>1. /\ e1 \in Nat /\ e2 \in Nat /\ e3 \in Nat /\ e4 \in Nat
        /\ e2 <= e3 + e4
        /\ PARTS * b * Scale = e1 - e2
        /\ (pt_supply' - pt_supply) * w * Scale = -e3
    BY <1>4, <1>5, <1>7, <1>8, <1>9
  <2>2. (pt_supply' - pt_supply) * w * Scale <= PARTS * b * Scale + e4
    <3> HIDE DEF e1, e2, e3, e4
    <3> QED BY <2>1
  <2> QED BY <2>2
<1> QED BY <1>10 DEF Funded, w, b

\* A step that leaves PT and the backing alone, and takes no SY.
LEMMA FundedIdle ==
  ASSUME Consistent, Consistent', pt_supply' = pt_supply, Backing <= Backing'
  PROVE  Funded(0, 0)
<1>1. 0 * Worth(py_index_stored') <= 0 * PARTS
  BY WorthFacts, ScaleType DEF Consistent, TypeOK
<1>2. pt_supply' = pt_supply + 0 /\ Backing + 0 <= Backing'
  BY BackingType DEF Consistent, TypeOK
<1> QED BY <1>1, <1>2, FundedMint

\* A step that leaves the index alone raises nobody's claim.
LEMMA UnearnedStep ==
  ASSUME Consistent, Consistent', NEW S \in SUBSET Accounts, NEW c \in Accounts,
         NEW n \in Nat, NEW j \in Rates, Accrues(S, c, n, j),
         py_index_stored' = py_index_stored, NEW u \in Holders
  PROVE  Claimable(u)' <= Claimable(u)
<1>1. /\ u \in Accounts /\ j = py_index_stored /\ j \in Nat
      /\ user_interest[u] \in Nat /\ NewInterest(u, j) \in Nat
  BY NewInterestType, RatesAssumption DEF Accrues, Holders, Consistent, TypeOK
<1>2. CASE u \in S
  <2>1. /\ user_index'[u] = py_index_stored'
        /\ user_interest'[u]
             = user_interest[u] + NewInterest(u, j) - PaidTo(u, c, n)
    BY <1>2 DEF Accrues
  <2>2. Claimable(u)' = user_interest'[u] + 0
    BY <1>1, <2>1 DEF Claimable, NewInterest
  <2>3. PaidTo(u, c, n) \in Nat
    BY DEF PaidTo
  <2>4. Claimable(u) = user_interest[u] + NewInterest(u, j)
    BY <1>1 DEF Claimable
  <2> QED BY <1>1, <2>1, <2>2, <2>3, <2>4
<1>3. CASE u \notin S
  <2>1. Claimable(u)' = Claimable(u)
    BY <1>3 DEF Accrues, Claimable, NewInterest
  <2>2. Claimable(u) \in Nat
    BY <1>1 DEF Claimable
  <2> QED BY <2>1, <2>2
<1> QED BY <1>2, <1>3

LEMMA UncheckedNumbers ==
  ASSUME NEW K \in Nat, NEW E \in Nat, NEW D \in Nat, NEW C \in Nat,
         NEW b \in Nat, NEW d \in Nat, NEW o \in Int, NEW Z \in Nat
  PROVE  /\ (o + b * d) * K + (D * K - E) * 0 <= o * K + (d * K) * b + E * 0
         /\ (o - (o + b * d) - D * 0) * C <= Z
<1>1. b * d \in Nat
  BY MulNat
<1>2. (o + b * d) * K = o * K + (d * K) * b
  OBVIOUS
<1>3. o * K + (d * K) * b \in Int /\ (D * K - E) * 0 = 0 /\ E * 0 = 0
  OBVIOUS
<1>4. (o - (o + b * d) - D * 0) * C = -((b * d) * C)
  OBVIOUS
<1>5. (b * d) * C \in Nat
  BY <1>1, MulNat
<1> QED BY <1>2, <1>3, <1>4, <1>5

LEMMA CheckedNumbers ==
  ASSUME NEW K \in Nat, NEW E \in Nat, NEW D \in Nat, NEW C \in Nat,
         NEW b \in Nat, NEW d \in Nat, NEW Z \in Nat, NEW V \in Nat,
         NEW N \in Nat, NEW p \in Nat, NEW r \in Nat, NEW s \in Nat,
         NEW g \in Nat, s = r + N - p, s - r <= g,
         N * D * K <= V * K + N * E, V * C <= N * D * C + Z
  PROVE  /\ s * D * K + (D * K - E) * p
              <= (r * D + (V - b * d)) * K + (d * K) * b + E * g
         /\ (r * D + (V - b * d) - s * D - D * p) * C <= Z
<1>1. s * D * K + (D * K - E) * p = r * D * K + N * D * K - E * p
  <2>1. s = r + N - p
    OBVIOUS
  <2>2. (r + N - p) * D * K + (D * K - E) * p = r * D * K + N * D * K - E * p
    OBVIOUS
  <2> QED BY <2>1, <2>2
<1>2. (r * D + (V - b * d)) * K + (d * K) * b + E * g = r * D * K + V * K + E * g
  OBVIOUS
<1>3. N * E <= E * p + E * g
  <2>1. N <= p + g /\ p + g \in Nat
    OBVIOUS
  <2>2. N * E <= (p + g) * E
    BY <2>1, MulMono
  <2>3. (p + g) * E = E * p + E * g
    OBVIOUS
  <2> QED BY <2>2, <2>3
<1>4. /\ r * D * K \in Nat /\ N * D * K \in Nat /\ V * K \in Nat /\ N * E \in Nat
      /\ E * p \in Nat /\ E * g \in Nat
  BY MulNat
<1>5. r * D * K + N * D * K - E * p <= r * D * K + V * K + E * g
  <2> DEFINE x == r * D * K  y == N * D * K  z == V * K  t == N * E  ep == E * p
             eg == E * g
  <2>1. /\ x \in Nat /\ y \in Nat /\ z \in Nat /\ t \in Nat /\ ep \in Nat
        /\ eg \in Nat /\ y <= z + t /\ t <= ep + eg
    BY <1>3, <1>4
  <2>2. x + y - ep <= x + z + eg
    <3> HIDE DEF x, y, z, t, ep, eg
    <3> QED BY <2>1
  <2> QED BY <2>2
<1>6. (r * D + (V - b * d) - s * D - D * p) * C = V * C - N * D * C - b * d * C
  <2>1. s = r + N - p
    OBVIOUS
  <2>2. (r * D + (V - b * d) - (r + N - p) * D - D * p) * C
          = V * C - N * D * C - b * d * C
    OBVIOUS
  <2> QED BY <2>1, <2>2
<1>7. /\ V * C \in Nat /\ N * D * C \in Nat /\ b * d * C \in Nat
  BY MulNat
<1>8. V * C - N * D * C - b * d * C <= Z
  <2> DEFINE x == V * C  y == N * D * C  z == b * d * C
  <2>1. x \in Nat /\ y \in Nat /\ z \in Nat /\ x <= y + Z
    BY <1>7
  <2>2. x - y - z <= Z
    <3> HIDE DEF x, y, z
    <3> QED BY <2>1
  <2> QED BY <2>2
<1> QED BY <1>1, <1>2, <1>5, <1>6, <1>8

\* The exact interest of u from its checkpoint to the index j.
ExactInterest(u, j) ==
  IF user_index[u] > 0 THEN yt[u] * (Worth(user_index[u]) - Worth(j)) ELSE 0

\* What the code accrues to u is the exact interest, up to rounding.
LEMMA NewInterestBounds ==
  ASSUME Consistent, NEW u \in Holders, NEW j \in Rates, py_index_stored <= j
  PROVE  /\ ExactInterest(u, j) \in Nat
         /\ NewInterest(u, j) * PARTS * Scale
              <= ExactInterest(u, j) * Scale + NewInterest(u, j) * Slack
         /\ ExactInterest(u, j) * CUBIT_ONE
              <= NewInterest(u, j) * PARTS * CUBIT_ONE
                 + PARTS * (yt[u] + 2 * CUBIT_ONE + 4 * WAD)
<1>1. /\ u \in Accounts /\ yt[u] \in Nat /\ NewInterest(u, j) \in Nat
      /\ j \in Nat /\ CUBIT_ONE \in Nat /\ WAD \in Nat
      /\ PARTS \in Nat /\ Scale \in Nat /\ Slack \in Nat
      /\ py_index_stored \in Nat /\ user_index[u] <= py_index_stored
      /\ user_index[u] \in Nat
      /\ user_index[u] \in Rates \cup {0}
  BY NewInterestType, RatesAssumption, WadAssumption, CubitAssumption, ScaleType
     DEF Holders, Consistent, TypeOK, CheckpointsBehindIndex
<1>2. PARTS * (yt[u] + 2 * CUBIT_ONE + 4 * WAD) \in Nat
  <2>1. yt[u] + 2 * CUBIT_ONE + 4 * WAD \in Nat
    BY <1>1
  <2> QED BY <1>1, <2>1, MulNat
<1>3. CASE user_index[u] > 0 /\ yt[u] > 0 /\ j > user_index[u]
  <2> DEFINE i == user_index[u]
  <2>1. /\ i \in Rates /\ i <= j
        /\ NewInterest(u, j) = InterestBetween(yt[u], i, j)
        /\ ExactInterest(u, j) = yt[u] * (Worth(i) - Worth(j))
    BY <1>1, <1>3 DEF NewInterest, ExactInterest
  <2> HIDE DEF i
  <2>2. yt[u] * (Worth(i) - Worth(j)) \in Nat
    <3>1. Worth(i) - Worth(j) \in Nat
      BY <2>1, WorthFacts
    <3> QED BY <1>1, <3>1, MulNat
  <2> QED BY <1>1, <2>1, <2>2, InterestBounds DEF Scale, Slack
<1>4. CASE ~(user_index[u] > 0 /\ yt[u] > 0 /\ j > user_index[u])
  <2>1. NewInterest(u, j) = 0
    BY <1>4 DEF NewInterest
  <2>2. ExactInterest(u, j) = 0
    <3>1. CASE user_index[u] = 0
      BY <3>1 DEF ExactInterest
    <3>2. CASE user_index[u] > 0
      <4>1. yt[u] = 0 \/ j = user_index[u]
        BY <1>1, <1>4, <3>2
      <4>2. Worth(j) \in Nat /\ Worth(user_index[u]) \in Nat
        BY <1>1, <3>2, WorthFacts
      <4> QED BY <1>1, <3>2, <4>1, <4>2 DEF ExactInterest
    <3> QED BY <1>1, <3>1, <3>2
  <2>3. 0 * PARTS * Scale = 0 /\ 0 * Scale = 0 /\ 0 * Slack = 0
        /\ 0 * CUBIT_ONE = 0 /\ 0 * PARTS * CUBIT_ONE = 0
    BY <1>1
  <2> QED BY <1>2, <2>1, <2>2, <2>3
<1> QED BY <1>3, <1>4

\* What the step credits to u.
CreditedTo(u) == max(user_interest'[u] - user_interest[u], 0)

\* What becomes of the claim of one holder: it follows the value of its YT,
\* less what it is paid; rounding adds no more than the same part of what is
\* credited or paid, and takes no more than the bound of a checkpoint.
LEMMA OwedStep ==
  ASSUME Consistent, Consistent', NEW S \in SUBSET Accounts, NEW c \in Accounts,
         NEW n \in Nat, NEW j \in Rates, Accrues(S, c, n, j), NEW u \in Holders
  PROVE  /\ Owed(u) \in Int /\ Owed(u)' \in Int
         /\ PaidTo(u, c, n) \in Nat /\ CreditedTo(u) \in Nat
         /\ Owed(u)' * Scale + (PARTS * Scale - Slack) * PaidTo(u, c, n)
              <= Owed(u) * Scale
                 + ((Worth(py_index_stored) - Worth(j)) * Scale) * yt[u]
                 + Slack * CreditedTo(u)
         /\ (Owed(u) - Owed(u)' - PARTS * PaidTo(u, c, n)) * CUBIT_ONE
              <= PARTS * (yt[u] + 2 * CUBIT_ONE + 4 * WAD)
<1> DEFINE d == Worth(py_index_stored) - Worth(j)
           p == PaidTo(u, c, n)  g == CreditedTo(u)
           Z == PARTS * (yt[u] + 2 * CUBIT_ONE + 4 * WAD)
           V == ExactInterest(u, j)  N == NewInterest(u, j)
           r == user_interest[u]  s == user_interest'[u]  b == yt[u]
<1>1. /\ u \in Accounts /\ b \in Nat /\ N \in Nat /\ r \in Nat /\ s \in Nat
      /\ CUBIT_ONE \in Nat /\ WAD \in Nat
      /\ PARTS \in Nat /\ Scale \in Nat /\ Slack \in Nat
      /\ user_index[u] \in Rates \cup {0} /\ user_index[u] \in Nat
      /\ user_index[u] = 0 => b = 0
      /\ p \in Nat /\ g \in Nat /\ s - r <= g
      /\ py_index_stored \in Rates /\ py_index_stored' = j /\ py_index_stored <= j
      /\ j \in Nat /\ j > 0
  <2>1. /\ u \in Accounts /\ b \in Nat /\ N \in Nat /\ r \in Nat /\ s \in Nat
    BY NewInterestType DEF Holders, Consistent, TypeOK
  <2>2. p \in Nat
    BY DEF PaidTo
  <2>3. g \in Nat /\ s - r <= g
    <3> HIDE DEF r, s
    <3>1. CreditedTo(u) = max(s - r, 0)
      BY DEF CreditedTo, s, r
    <3> QED BY <2>1, <3>1 DEF max
  <2>4. user_index[u] \in Rates \cup {0} /\ (user_index[u] = 0 => b = 0)
    BY <2>1 DEF Consistent, TypeOK, CheckpointsBehindIndex
  <2> QED
    BY <2>1, <2>2, <2>3, <2>4, RatesAssumption, WadAssumption, CubitAssumption,
       ScaleType DEF Accrues, Consistent, TypeOK
<1>2. /\ Worth(py_index_stored) \in Nat /\ Worth(j) \in Nat /\ d \in Nat
      /\ user_index[u] > 0 => Worth(user_index[u]) \in Nat
  BY <1>1, WorthFacts
<1>3. Z \in Nat
  <2>1. yt[u] + 2 * CUBIT_ONE + 4 * WAD \in Nat
    BY <1>1
  <2> QED BY <1>1, <2>1, MulNat
<1>4. /\ V \in Nat /\ N * PARTS * Scale <= V * Scale + N * Slack
      /\ V * CUBIT_ONE <= N * PARTS * CUBIT_ONE + Z
  BY <1>1, NewInterestBounds
<1>5. Owed(u) = r * PARTS + (V - b * d)
  <2>1. CASE user_index[u] > 0
    <3> DEFINE x == Worth(user_index[u])  y == Worth(py_index_stored)  z == Worth(j)
    <3>1. Owed(u) = r * PARTS + b * (x - y) /\ V = b * (x - z) /\ d = y - z
          /\ x \in Nat /\ y \in Nat /\ z \in Nat
      BY <1>2, <2>1 DEF Owed, Earned, ExactInterest
    <3> HIDE DEF x, y, z, V, d
    <3>2. b * (x - y) = b * (x - z) - b * (y - z)
      BY <1>1, <3>1
    <3> QED BY <3>1, <3>2
  <2>2. CASE user_index[u] = 0
    <3>1. Owed(u) = r * PARTS + 0 /\ V = 0 /\ b = 0
      BY <1>1, <2>2 DEF Owed, Earned, ExactInterest
    <3>2. 0 - 0 * d = 0
      BY <1>2
    <3> QED BY <3>1, <3>2
  <2> QED BY <1>1, <2>1, <2>2
<1>6. CASE u \in S
  <2>1. /\ user_index'[u] = j /\ s = r + N - p
    BY <1>6 DEF Accrues
  <2>2. Owed(u)' = s * PARTS
    <3>1. Owed(u)' = s * PARTS + yt'[u] * (Worth(j) - Worth(j))
      BY <1>1, <2>1 DEF Owed, Earned
    <3>2. yt'[u] \in Nat
      BY <1>1 DEF Consistent, TypeOK
    <3>3. \A x, y, z \in Nat : x + y * (z - z) = x
      OBVIOUS
    <3> QED BY <1>1, <1>2, <3>1, <3>2, <3>3, MulNat
  <2> HIDE DEF d, p, g, Z, V, N, r, s, b
  <2>3. /\ s * PARTS * Scale + (PARTS * Scale - Slack) * p
             <= (r * PARTS + (V - b * d)) * Scale + (d * Scale) * b + Slack * g
        /\ (r * PARTS + (V - b * d) - s * PARTS - PARTS * p) * CUBIT_ONE <= Z
    BY <1>1, <1>2, <1>3, <1>4, <2>1, CheckedNumbers
  <2>4. Owed(u) \in Int /\ Owed(u)' \in Int
    BY <1>1, <1>2, <1>4, <1>5, <2>2
  <2>5. /\ Owed(u)' * Scale + (PARTS * Scale - Slack) * p
             <= Owed(u) * Scale + (d * Scale) * b + Slack * g
        /\ (Owed(u) - Owed(u)' - PARTS * p) * CUBIT_ONE <= Z
    <3>1. Owed(u) - Owed(u)' - PARTS * p
            = r * PARTS + (V - b * d) - s * PARTS - PARTS * p
      <4>1. /\ r * PARTS \in Nat /\ b * d \in Nat /\ s * PARTS \in Nat
            /\ PARTS * p \in Nat
        BY <1>1, <1>2, MulNat
      <4> QED BY <1>4, <1>5, <2>2, <4>1
    <3> QED BY <1>5, <2>2, <2>3, <3>1
  <2> QED BY <1>1, <2>4, <2>5 DEF d, p, g, Z, b
<1>7. CASE u \notin S
  <2>1. /\ user_index'[u] = user_index[u] /\ yt'[u] = b /\ s = r
        /\ p = 0 /\ g = 0
    <3>1. /\ user_index'[u] = user_index[u] /\ yt'[u] = b /\ s = r
      BY <1>7 DEF Accrues
    <3>2. p = 0
      BY <1>7 DEF Accrues, PaidTo
    <3>3. g = 0
      BY <1>1, <3>1 DEF CreditedTo, max
    <3> QED BY <3>1, <3>2, <3>3
  <2>2. Owed(u)' = r * PARTS + V
    BY <1>1, <2>1 DEF Owed, Earned, ExactInterest
  <2>3. Owed(u) \in Int /\ Owed(u)' = Owed(u) + b * d
    <3> HIDE DEF d, p, g, Z, V, N, r, s, b
    <3>1. r * PARTS \in Nat /\ b * d \in Nat
      BY <1>1, <1>2, MulNat
    <3> QED BY <1>4, <1>5, <2>2, <3>1
  <2> HIDE DEF d, p, g, Z, V, N, r, s, b
  <2>4. /\ (Owed(u) + b * d) * Scale + (PARTS * Scale - Slack) * 0
             <= Owed(u) * Scale + (d * Scale) * b + Slack * 0
        /\ (Owed(u) - (Owed(u) + b * d) - PARTS * 0) * CUBIT_ONE <= Z
    BY <1>1, <1>2, <1>3, <2>3, UncheckedNumbers
  <2>5. Owed(u)' \in Int
    BY <1>1, <1>2, <2>3
  <2> QED BY <1>1, <2>1, <2>3, <2>4, <2>5 DEF d, p, g, Z, b
<1> QED BY <1>6, <1>7

LEMMA ShortfallNumbers ==
  ASSUME NEW K \in Nat, NEW E \in Nat, NEW D \in Nat, NEW o1 \in Int, NEW o2 \in Int,
         NEW n \in Nat, NEW q \in Nat, NEW g \in Nat, NEW t \in Nat,
         NEW w1 \in Nat, NEW w2 \in Nat, NEW p1 \in Nat, NEW p2 \in Nat,
         NEW b1 \in Nat, NEW b2 \in Nat, NEW y \in Nat,
         w2 <= w1, y <= p1 \/ w1 = w2, n + q <= t,
         o2 * K + (D * K - E) * n <= o1 * K + ((w1 - w2) * K) * y + E * g,
         (p2 - p1) * w2 * K <= D * (b2 - b1 + n) * K + q * E
  PROVE  ((p2 * w2 + o2 - D * b2) - (p1 * w1 + o1 - D * b1)) * K <= (t + g) * E
<1>1. ((w1 - w2) * K) * y <= ((w1 - w2) * K) * p1
  <2>1. (w1 - w2) * K \in Nat
    <3>1. w1 - w2 \in Nat
      OBVIOUS
    <3> QED BY <3>1, MulNat
  <2>2. CASE y <= p1
    <3>1. y * ((w1 - w2) * K) <= p1 * ((w1 - w2) * K)
      BY <2>1, <2>2, MulMono
    <3> HIDE <2>1
    <3> DEFINE m == (w1 - w2) * K
    <3>2. m \in Nat /\ y * m <= p1 * m
      BY <2>1, <3>1
    <3> HIDE DEF m
    <3>3. y * m = m * y /\ p1 * m = m * p1
      BY <3>2
    <3>4. m * y <= m * p1
      BY <3>2, <3>3
    <3> QED BY <3>4 DEF m
  <2>3. CASE w1 = w2
    <3>1. (w1 - w2) * K = 0
      BY <2>3
    <3> QED BY <3>1
  <2> QED BY <2>2, <2>3
<1> DEFINE a1 == o1 * K  a2 == o2 * K  e1 == E * n  e2 == q * E  e3 == E * g
           f == D * K * n  h1 == p1 * w1 * K  h2 == p2 * w2 * K  h3 == p1 * w2 * K
           r1 == D * b1 * K  r2 == D * b2 * K  v == ((w1 - w2) * K) * y
<1>2. /\ a1 \in Int /\ a2 \in Int /\ e1 \in Nat /\ e2 \in Nat /\ e3 \in Nat
      /\ f \in Nat /\ h1 \in Nat /\ h2 \in Nat /\ h3 \in Nat
      /\ r1 \in Nat /\ r2 \in Nat /\ v \in Int
  <2>1. \A i, j \in Int : i * j \in Int
    OBVIOUS
  <2>2. w1 - w2 \in Int
    OBVIOUS
  <2> QED BY <2>1, <2>2, MulNat
<1>3. a2 + f - e1 <= a1 + v + e3
  <2>1. (D * K - E) * n = f - e1
    OBVIOUS
  <2>2. a2 + (D * K - E) * n <= a1 + v + e3
    OBVIOUS
  <2> QED BY <2>1, <2>2
<1>4. v <= h1 - h3
  <2>1. ((w1 - w2) * K) * p1 = h1 - h3
    OBVIOUS
  <2> QED BY <1>1, <2>1
<1>5. h2 - h3 <= r2 - r1 + f + e2
  <2>1. (p2 - p1) * w2 * K = h2 - h3
    OBVIOUS
  <2>2. D * (b2 - b1 + n) * K = r2 - r1 + f
    OBVIOUS
  <2>3. (p2 - p1) * w2 * K <= D * (b2 - b1 + n) * K + e2
    OBVIOUS
  <2> QED BY <2>1, <2>2, <2>3
<1>6. e1 + e2 <= t * E
  <2>1. (n + q) * E <= t * E
    <3>1. n + q \in Nat
      OBVIOUS
    <3> QED BY <3>1, MulMono
  <2>2. (n + q) * E = e1 + e2
    OBVIOUS
  <2> QED BY <2>1, <2>2
<1>7. ((p2 * w2 + o2 - D * b2) - (p1 * w1 + o1 - D * b1)) * K
        = h2 + a2 - r2 - h1 - a1 + r1
  OBVIOUS
<1>8. (t + g) * E = t * E + e3 /\ t * E \in Nat
  BY MulNat
<1>9. h2 + a2 - r2 - h1 - a1 + r1 <= t * E + e3
  <2> DEFINE te == t * E
  <2>1. te \in Nat /\ e1 + e2 <= te
    BY <1>6, <1>8
  <2> HIDE DEF a1, a2, e1, e2, e3, f, h1, h2, h3, r1, r2, v, te
  <2>2. h2 + a2 - r2 - h1 - a1 + r1 <= te + e3
    BY <1>2, <1>3, <1>4, <1>5, <2>1
  <2> QED BY <2>2 DEF te
<1> QED BY <1>7, <1>8, <1>9

\* The YT of the holders is at most the supply.
LEMMA HeldYt ==
  ASSUME Consistent
  PROVE  /\ SumFunctionOnSet(yt, Holders) \in Nat
         /\ SumFunctionOnSet(yt, Holders) <= yt_supply
<1>1. yt \in [Accounts -> Nat] /\ SumFunction(yt) = yt_supply
  BY DEF Consistent, TypeOK, SupplyParity
<1>2. SumFunctionOnSet(yt, Holders) \in Nat
  BY <1>1, AccountsFinite, SumNat
<1>3. SumFunctionOnSet(yt, Accounts)
        = yt[YTC] + SumFunctionOnSet(yt, Accounts \ {YTC})
  BY <1>1, AccountsFinite, SumTakes
<1>4. SumFunctionOnSet(yt, Accounts) = yt_supply
  BY <1>1, TotalIsSum
<1>5. yt[YTC] \in Nat
  BY <1>1, AccountsFinite
<1>6. Accounts \ {YTC} = Holders
  BY AccountsFinite
<1> QED BY <1>2, <1>3, <1>4, <1>5, <1>6

\* The totals over the holders of what OwedStep says of each.
LEMMA OwedTotals ==
  ASSUME Consistent, Consistent', NEW S \in SUBSET Accounts, NEW c \in Accounts,
         NEW n \in Nat, NEW j \in Rates, Accrues(S, c, n, j),
         NEW o1, o1 = SumFunction([u \in Holders |-> Owed(u)]),
         NEW o2, o2 = SumFunction([u \in Holders |-> Owed(u)'])
  PROVE  /\ o1 \in Int /\ o2 \in Int /\ Credited \in Nat
         /\ o2 * Scale + (PARTS * Scale - Slack) * n
              <= o1 * Scale
                 + ((Worth(py_index_stored) - Worth(j)) * Scale)
                   * SumFunctionOnSet(yt, Holders)
                 + Slack * Credited
<1> DEFINE f1 == [u \in Holders |-> Owed(u)]
           f2 == [u \in Holders |-> Owed(u)']
           fp == [u \in Holders |-> PaidTo(u, c, n)]
           fc == [u \in Holders |-> CreditedTo(u)]
           k == PARTS * Scale - Slack
           m == (Worth(py_index_stored) - Worth(j)) * Scale
           ls == [u \in Holders |-> Scale * f2[u]]
           rs == [u \in Holders |-> Scale * f1[u]]
           l == [u \in Holders |-> Scale * f2[u] + k * fp[u]]
           r == [u \in Holders |-> Scale * f1[u] + m * yt[u]]
           rr == [u \in Holders |-> r[u] + Slack * fc[u]]
           T(f) == SumFunctionOnSet(f, Holders)
<1>1. /\ IsFiniteSet(Holders) /\ Scale \in Nat /\ Slack \in Nat
      /\ k \in Int /\ m \in Int
  <2>1. Worth(py_index_stored) \in Nat /\ Worth(j) \in Nat
    BY WorthFacts DEF Consistent, TypeOK
  <2>2. \A a, b \in Int : a * b \in Int
    OBVIOUS
  <2> QED BY <2>1, <2>2, AccountsFinite, ScaleType
<1>2. o1 = T(f1) /\ o2 = T(f2) /\ Credited = T(fc)
  BY DEF SumFunction, Credited, CreditedTo
<1>3. ASSUME NEW u \in Holders
      PROVE  /\ f1[u] \in Int /\ f2[u] \in Int /\ fp[u] \in Nat /\ fc[u] \in Nat
             /\ yt[u] \in Nat
             /\ f2[u] * Scale + k * fp[u] <= f1[u] * Scale + m * yt[u] + Slack * fc[u]
  <2>1. yt[u] \in Nat
    BY DEF Holders, Consistent, TypeOK
  <2>2. /\ f1[u] = Owed(u) /\ f2[u] = Owed(u)' /\ fp[u] = PaidTo(u, c, n)
        /\ fc[u] = CreditedTo(u)
    OBVIOUS
  <2> HIDE DEF f1, f2, fp, fc
  <2> QED BY <2>1, <2>2, OwedStep
<1>4. \A u \in Holders : fp[u] = IF u = c THEN n ELSE 0
  BY DEF PaidTo
<1>5. /\ \A u \in Holders : l[u] = Scale * f2[u] + k * fp[u]
      /\ \A u \in Holders : ls[u] = Scale * f2[u] /\ rs[u] = Scale * f1[u]
      /\ \A u \in Holders : r[u] = Scale * f1[u] + m * yt[u]
      /\ \A u \in Holders : rr[u] = r[u] + Slack * fc[u]
  OBVIOUS
<1> HIDE DEF f1, f2, fp, fc, k, m, ls, rs, l, r, rr
<1>6. \A u \in Holders : l[u] \in Int /\ r[u] \in Int /\ rr[u] \in Int
                         /\ l[u] <= rr[u]
  <2> TAKE u \in Holders
  <2>1. /\ f1[u] \in Int /\ f2[u] \in Int /\ fp[u] \in Int /\ fc[u] \in Int
        /\ yt[u] \in Int
        /\ f2[u] * Scale + k * fp[u] <= f1[u] * Scale + m * yt[u] + Slack * fc[u]
    BY <1>3
  <2>2. \A a, b \in Int : a * b \in Int /\ a * b = b * a
    OBVIOUS
  <2>3. /\ Scale * f2[u] = f2[u] * Scale /\ Scale * f1[u] = f1[u] * Scale
        /\ f2[u] * Scale \in Int /\ f1[u] * Scale \in Int /\ k * fp[u] \in Int
        /\ m * yt[u] \in Int /\ Slack * fc[u] \in Int
    BY <1>1, <2>1, <2>2
  <2> QED BY <1>5, <2>1, <2>3
<1>7. T(l) = Scale * T(f2) + k * T(fp) /\ T(f2) \in Int /\ T(fp) \in Int
  <2>1. \A u \in Holders :
          f2[u] \in Int /\ fp[u] \in Int /\ l[u] = Scale * f2[u] + k * fp[u]
    BY <1>3, <1>5
  <2>2. Scale \in Int /\ k \in Int
    BY <1>1
  <2>3. /\ \A u \in Holders : f2[u] \in Int /\ ls[u] = Scale * f2[u]
        /\ \A u \in Holders :
             ls[u] \in Int /\ fp[u] \in Int /\ l[u] = ls[u] + k * fp[u]
    <3>1. \A x, y \in Int : x * y \in Int
      OBVIOUS
    <3> QED BY <1>5, <2>1, <2>2, <3>1
  <2>4. T(ls) = Scale * T(f2)
    BY <1>1, <2>2, <2>3, SumScaled
  <2>5. T(l) = T(ls) + k * T(fp)
    BY <1>1, <2>2, <2>3, SumLinear
  <2>6. T(f2) \in Int /\ T(fp) \in Int
    BY <1>1, <2>1, SumInt
  <2> QED BY <2>4, <2>5, <2>6
<1>8. T(r) = Scale * T(f1) + m * T(yt) /\ T(f1) \in Int /\ T(yt) \in Int
  <2>1. \A u \in Holders :
          f1[u] \in Int /\ yt[u] \in Int /\ r[u] = Scale * f1[u] + m * yt[u]
    BY <1>3, <1>5
  <2>2. Scale \in Int /\ m \in Int
    BY <1>1
  <2>3. /\ \A u \in Holders : f1[u] \in Int /\ rs[u] = Scale * f1[u]
        /\ \A u \in Holders :
             rs[u] \in Int /\ yt[u] \in Int /\ r[u] = rs[u] + m * yt[u]
    <3>1. \A x, y \in Int : x * y \in Int
      OBVIOUS
    <3> QED BY <1>5, <2>1, <2>2, <3>1
  <2>4. T(rs) = Scale * T(f1)
    BY <1>1, <2>2, <2>3, SumScaled
  <2>5. T(r) = T(rs) + m * T(yt)
    BY <1>1, <2>2, <2>3, SumLinear
  <2>6. T(f1) \in Int /\ T(yt) \in Int
    BY <1>1, <2>1, SumInt
  <2> QED BY <2>4, <2>5, <2>6
<1>9. T(rr) = T(r) + Slack * T(fc)
  BY <1>1, <1>3, <1>5, <1>6, SumLinear
<1>10. T(fc) \in Nat
  BY <1>1, <1>3, SumNat
<1>11. T(l) <= T(rr)
  BY <1>1, <1>6, SumMonotone
<1>12. T(fp) = n
  <2>1. CASE c \in Holders
    <3> DEFINE z == [u \in Holders |-> 0]
    <3>1. /\ \A u \in Holders : z[u] = 0
          /\ \A u \in Holders : fp[u] \in Int /\ z[u] \in Int
          /\ \A u \in Holders \ {c} : fp[u] = z[u]
          /\ fp[c] = n /\ z[c] = 0
      BY <1>3, <1>4, <2>1
    <3> HIDE DEF z
    <3>2. T(z) = 0
      BY <1>1, <3>1, SumZero
    <3>3. \A u \in Holders : z[u] \in Int /\ fp[u] \in Int
      BY <3>1
    <3>4. \A u \in Holders \ {c} : fp[u] = z[u]
      BY <3>1
    <3>5. T(fp) = T(z) + (fp[c] - z[c])
      BY <1>1, <2>1, <3>3, <3>4, SumChanges
    <3> QED BY <3>1, <3>2, <3>5
  <2>2. CASE c \notin Holders
    <3>1. n = 0
      BY <2>2 DEF Accrues
    <3>2. \A u \in Holders : fp[u] = 0
      BY <1>4, <3>1
    <3> QED BY <1>1, <3>1, <3>2, SumZero
  <2> QED BY <2>1, <2>2
<1> DEFINE t1 == T(f1)  t2 == T(f2)  ty == T(yt)  tc == T(fc)
<1>13. t2 * Scale + k * n <= t1 * Scale + m * ty + Slack * tc
  <2>1. Scale * t2 + k * n <= Scale * t1 + m * ty + Slack * tc
    BY <1>7, <1>8, <1>9, <1>11, <1>12
  <2>2. t1 \in Int /\ t2 \in Int
    BY <1>7, <1>8
  <2> HIDE DEF t1, t2, ty, tc
  <2>3. Scale * t2 = t2 * Scale /\ Scale * t1 = t1 * Scale
    BY <1>1, <2>2
  <2> QED BY <2>1, <2>3
<1>14. o1 \in Int /\ o2 \in Int /\ Credited \in Nat
  BY <1>2, <1>7, <1>8, <1>10
<1> QED BY <1>2, <1>13, <1>14 DEF k, m

\* A step that accrues and is funded opens no gap beyond the rounding.
LEMMA SolvencyStep ==
  ASSUME Consistent, Consistent', NEW S \in SUBSET Accounts, NEW c \in Accounts,
         NEW n \in Nat, NEW q \in Nat, NEW j \in Rates, Accrues(S, c, n, j),
         Funded(n, q)
  PROVE  (Shortfall' - Shortfall) * WAD * CUBIT_ONE
           <= PARTS * (PaidOut + Credited) * (CUBIT_ONE + 4 * WAD)
<1> DEFINE o1 == SumFunction([u \in Holders |-> Owed(u)])
           o2 == SumFunction([u \in Holders |-> Owed(u)'])
           w1 == Worth(py_index_stored)  w2 == Worth(j)
           y == SumFunctionOnSet(yt, Holders)
           p1 == pt_supply  p2 == pt_supply'  b1 == Backing  b2 == Backing'
           t == PaidOut  g == Credited
<1>1. /\ o1 \in Int /\ o2 \in Int /\ g \in Nat
      /\ o2 * Scale + (PARTS * Scale - Slack) * n
           <= o1 * Scale + ((w1 - w2) * Scale) * y + Slack * g
  BY OwedTotals
<1>2. /\ p1 \in Nat /\ py_index_stored \in Rates /\ py_index_stored' = j
      /\ py_index_stored <= j
      /\ Captured => j = py_index_stored
  BY DEF Consistent, TypeOK, Accrues
<1>3. p2 \in Nat
  BY DEF Consistent, TypeOK
<1>4. b1 \in Nat /\ b2 \in Nat
  BY BackingType
<1>5. t \in Nat
  <2>1. sy[YTC] \in Nat /\ sy'[YTC] \in Nat
    BY DEF Consistent, TypeOK, Accounts
  <2> QED BY <2>1 DEF PaidOut, max
<1>6. w1 \in Nat /\ w2 \in Nat /\ w2 <= w1
  <2>1. /\ py_index_stored \in Rates /\ j \in Rates /\ py_index_stored <= j
    BY <1>2
  <2>2. Worth(py_index_stored) \in Nat /\ Worth(j) \in Nat
    BY <2>1, WorthFacts
  <2>3. Worth(j) <= Worth(py_index_stored)
    BY <2>1, WorthFacts
  <2> QED BY <2>2, <2>3
<1>7. y \in Nat /\ y <= yt_supply
  BY HeldYt
<1>8. y <= p1 \/ w1 = w2
  <2>1. CASE Captured
    <3>1. j = py_index_stored
      BY <1>2, <2>1
    <3>2. Worth(py_index_stored) = Worth(j)
      BY <3>1
    <3> QED BY <3>2
  <2>2. CASE ~Captured
    BY <1>7, <2>2 DEF Consistent, SupplyParity
  <2> QED BY <2>1, <2>2
<1>9. /\ n + q <= t
      /\ (p2 - p1) * w2 * Scale <= PARTS * (b2 - b1 + n) * Scale + q * Slack
  BY <1>2 DEF Funded
<1>10. Shortfall = p1 * w1 + o1 - PARTS * b1
  <2>1. Shortfall = (p1 * w1 + o1) - PARTS * b1
    BY DEF Shortfall, TotalOwed
  <2> HIDE DEF o1, o2, w1, w2, y, p1, p2, b1, b2, t, g
  <2>2. p1 * w1 \in Nat /\ PARTS * b1 \in Nat
    BY <1>2, <1>4, <1>6, ScaleType, MulNat
  <2> QED BY <1>1, <2>1, <2>2
<1>11. Shortfall' = p2 * w2 + o2 - PARTS * b2
  <2>1. Shortfall' = (p2 * w2 + o2) - PARTS * b2
    BY <1>2 DEF Shortfall, TotalOwed
  <2> HIDE DEF o1, o2, w1, w2, y, p1, p2, b1, b2, t, g
  <2>2. p2 * w2 \in Nat /\ PARTS * b2 \in Nat
    BY <1>3, <1>4, <1>6, ScaleType, MulNat
  <2> QED BY <1>1, <2>1, <2>2
<1> HIDE DEF o1, o2, w1, w2, y, p1, p2, b1, b2, t, g
<1>12. ((p2 * w2 + o2 - PARTS * b2) - (p1 * w1 + o1 - PARTS * b1)) * Scale
         <= (t + g) * Slack
  <2>1. Scale \in Nat /\ Slack \in Nat /\ PARTS \in Nat
    BY ScaleType
  <2> QED BY <1>1, <1>2, <1>3, <1>4, <1>5, <1>6, <1>7, <1>8, <1>9, <2>1,
             ShortfallNumbers
<1>13. (Shortfall' - Shortfall) * Scale <= (t + g) * Slack
  BY <1>10, <1>11, <1>12
<1>14. Shortfall' \in Int /\ Shortfall \in Int
  <2>1. /\ p1 * w1 \in Nat /\ p2 * w2 \in Nat /\ PARTS * b1 \in Nat
        /\ PARTS * b2 \in Nat
    BY <1>2, <1>3, <1>4, <1>6, ScaleType, MulNat
  <2> QED BY <1>1, <1>10, <1>11, <2>1
<1> DEFINE s == Shortfall' - Shortfall  e == CUBIT_ONE + 4 * WAD
<1>15. s \in Int /\ e \in Nat /\ WAD \in Nat /\ CUBIT_ONE \in Nat /\ PARTS \in Nat
       /\ t + g \in Nat
  BY <1>1, <1>5, <1>14, WadAssumption, CubitAssumption, ScaleType
<1> HIDE DEF s, e
<1>16. s * Scale = s * WAD * CUBIT_ONE
  BY <1>15 DEF Scale
<1>17. (t + g) * Slack = PARTS * (t + g) * e
  <2>1. Slack = PARTS * e
    BY DEF Slack, e
  <2>2. \A a, b, d \in Nat : a * (b * d) = b * a * d
    OBVIOUS
  <2> QED BY <1>15, <2>1, <2>2
<1>18. s * WAD * CUBIT_ONE <= PARTS * (t + g) * e
  <2>1. s * Scale <= (t + g) * Slack
    BY <1>13 DEF s
  <2> QED BY <1>16, <1>17, <2>1
<1> QED BY <1>18 DEF s, e, t, g

-----------------------------------------------------------------------------
(***************************************************************************)
(* Every step is of that form.                                             *)
(***************************************************************************)

Balanced ==
  \E S \in SUBSET Accounts, c \in Accounts, n \in Nat, q \in Nat, j \in Rates :
    Accrues(S, c, n, j) /\ Funded(n, q)

\* A step that leaves PT, claims and the YT of the holders alone, and does not
\* lower the backing.
LEMMA BalancedIdle ==
  ASSUME Consistent, Consistent', UNCHANGED claims,
         \/ _update_py_index /\ expired' = expired
         \/ UNCHANGED py_index_stored,
         \A u \in Holders : yt'[u] = yt[u],
         pt_supply' = pt_supply, Backing <= Backing'
  PROVE  Balanced
<1>1. PICK j \in Rates : Accrues({}, YTC, 0, j)
  BY AccruesNothing
<1>2. Funded(0, 0)
  BY FundedIdle
<1>3. {} \in SUBSET Accounts /\ YTC \in Accounts /\ 0 \in Nat
  BY FloatingType
<1> QED BY <1>1, <1>2, <1>3 DEF Balanced

\* A call that checkpoints S and pays no interest, with no SY to account for.
LEMMA BalancedUnpaid ==
  ASSUME Consistent, Consistent', _update_py_index, expired' = expired,
         NEW S \in SUBSET Accounts, _update_user_interest(S),
         \A u \in Holders \ S : yt'[u] = yt[u], Funded(0, 0)
  PROVE  Balanced
<1>1. PICK j \in Rates : Accrues(S, YTC, 0, j)
  BY AccruesUnpaid
<1>2. YTC \in Accounts /\ 0 \in Nat
  BY FloatingType
<1> QED BY <1>1, <1>2 DEF Balanced

\* Outside a flash mint the backing is the reserve and what the treasury got.
LEMMA BackingIdle ==
  /\ NotEntered => Backing = sy_reserve + post_expiry_sy_for_treasury
  /\ NotEntered' => Backing' = sy_reserve' + post_expiry_sy_for_treasury'
  /\ UNCHANGED <<sy_reserve, flash, post_expiry_sy_for_treasury>>
       => Backing' = Backing
BY DEF Backing, NotEntered

\* The YT contract pays: its balance falls by what it pays.
LEMMA PayOutFacts ==
  ASSUME NEW f \in [Accounts -> Nat], NEW a \in Holders, NEW n \in Nat, n <= f[YTC]
  PROVE  /\ PayOut(f, a, n) \in [Accounts -> Nat]
         /\ PayOut(f, a, n)[YTC] = f[YTC] - n
<1>1. YTC \in Accounts /\ a \in Accounts /\ a # YTC /\ f[YTC] \in Nat
  BY DEF Holders, Accounts
<1>2. Debit(f, YTC, n) \in [Accounts -> Nat] /\ Debit(f, YTC, n)[YTC] = f[YTC] - n
  BY <1>1 DEF Debit
<1>3. \A g \in [Accounts -> Nat] :
        Credit(g, a, n) \in [Accounts -> Nat] /\ Credit(g, a, n)[YTC] = g[YTC]
  BY <1>1 DEF Credit
<1> QED BY <1>2, <1>3 DEF PayOut, Move

\* The interest that leaves is the claim: net of the fee, and the fee.
LEMMA PayInterestFacts ==
  ASSUME Consistent, NEW f \in [Accounts -> Nat], NEW a \in Holders, NEW n \in Nat,
         CanPayInterest(f, a, n)
  PROVE  PayInterest(f, a, n)[YTC] + n = f[YTC]
<1> DEFINE e == interest_fee(n)  g == PayOut(f, a, n - e)
<1>1. e \in Nat /\ n - e \in Nat
  BY FeeFacts
<1>2. n - e <= f[YTC] /\ e <= g[YTC]
  BY DEF CanPayInterest, CanPay
<1>3. f[YTC] \in Nat /\ Treasury \in Holders
  BY AccountsAssumption DEF Accounts, Holders
<1> HIDE DEF e
<1>4. g \in [Accounts -> Nat] /\ g[YTC] = f[YTC] - (n - e)
  BY <1>1, <1>2, PayOutFacts
<1> HIDE DEF g
<1>5. PayOut(g, Treasury, e)[YTC] = g[YTC] - e
  BY <1>1, <1>2, <1>3, <1>4, PayOutFacts
<1>6. PayInterest(f, a, n) = PayOut(g, Treasury, e)
  BY DEF PayInterest, g, e
<1> QED BY <1>1, <1>3, <1>4, <1>5, <1>6

\* A call outside flash mints that pays n of interest, q of principal for m PT,
\* and t to the treasury that it books.
LEMMA FundedOutlay ==
  ASSUME Consistent, Consistent', NotEntered, flash' = flash,
         NEW m \in Nat, NEW n \in Nat, NEW q \in Nat, NEW t \in Nat, NEW j \in Rates,
         py_index_stored' = j,
         q * PARTS * Scale <= m * Worth(j) * Scale + q * Slack,
         pt_supply' = pt_supply - m, sy_reserve' = sy'[YTC],
         post_expiry_sy_for_treasury' = post_expiry_sy_for_treasury + t,
         sy'[YTC] + n + q + t = sy[YTC]
  PROVE  Funded(n, q)
<1> DEFINE x == sy[YTC]  y == sy'[YTC]  p == post_expiry_sy_for_treasury
           r == sy_reserve
<1>1. x \in Nat /\ p \in Nat /\ r \in Nat /\ r <= x
  BY FloatingType DEF Consistent, TypeOK, ReserveBacked
<1>2. y \in Nat
  BY DEF Consistent, TypeOK, Accounts
<1>3. Backing = r + p /\ Backing' = y + (p + t)
  BY BackingIdle DEF NotEntered
<1>4. PaidOut = max(x - y, 0)
  BY DEF PaidOut
<1>5. y + n + q + t = x
  OBVIOUS
<1>6. Backing <= Backing' + n + q /\ n + q <= PaidOut
  <2> HIDE DEF x, y, p, r
  <2>1. r + p <= (y + (p + t)) + n + q
    BY <1>1, <1>2, <1>5
  <2>2. n + q <= max(x - y, 0)
    BY <1>1, <1>2, <1>5 DEF max
  <2> QED BY <1>3, <1>4, <2>1, <2>2
<1>7. q * PARTS * Scale <= m * Worth(py_index_stored') * Scale + q * Slack
  OBVIOUS
<1> QED BY <1>6, <1>7, FundedPay

\* Staging SY or PT, administration and the environment leave it all alone.
LEMMA BalancedStill ==
  ASSUME Consistent, Consistent',
         UNCHANGED <<claims, yt, pt_supply, py_index_stored, sy_reserve, flash,
                     post_expiry_sy_for_treasury>>
  PROVE  Balanced
<1>1. Backing <= Backing'
  BY BackingIdle, BackingType
<1> QED BY <1>1, BalancedIdle

\* The end of a flash mint accounts for what the mint was to leave.
LEMMA BalancedFlashMintEnd ==
  ASSUME Consistent, Consistent', FlashMintEnd
  PROVE  Balanced
<1>1. /\ ~NotEntered /\ sy[YTC] >= flash.due /\ sy_reserve' = sy[YTC]
      /\ flash' = Idle /\ UNCHANGED <<ledger, index, claims>>
      /\ post_expiry_sy_for_treasury' = post_expiry_sy_for_treasury
  BY DEF FlashMintEnd, ReserveAfter
<1>2. Backing = flash.due + post_expiry_sy_for_treasury
  BY <1>1 DEF Backing
<1>3. Backing' = sy[YTC] + post_expiry_sy_for_treasury
  BY <1>1, BackingIdle DEF NotEntered, Idle
<1>4. flash.due \in Nat /\ post_expiry_sy_for_treasury \in Nat /\ sy[YTC] \in Nat
  BY FloatingType DEF Consistent, TypeOK
<1>5. Backing <= Backing'
  BY <1>1, <1>2, <1>3, <1>4
<1> QED BY <1>1, <1>5, BalancedIdle DEF ledger, index

LEMMA BalancedUpdatePyIndex ==
  ASSUME Consistent, Consistent', update_py_index
  PROVE  Balanced
<1>1. /\ _update_py_index /\ expired' = expired /\ UNCHANGED <<ledger, claims>>
      /\ UNCHANGED <<sy_reserve, flash, post_expiry_sy_for_treasury>>
  BY DEF update_py_index, env
<1>2. Backing <= Backing'
  BY <1>1, BackingIdle, BackingType
<1> QED BY <1>1, <1>2, BalancedIdle DEF ledger

\* What the treasury is paid after expiry is booked as paid.
LEMMA BalancedTreasuryClaim ==
  ASSUME Consistent, Consistent', redeem_post_expiry_interest_for_treasury
  PROVE  Balanced
<1> DEFINE pays == rate > ExpiryIndex
                   /\ TreasuryOwed > post_expiry_sy_for_treasury
           n == TreasuryOwed - post_expiry_sy_for_treasury
           p == post_expiry_sy_for_treasury
<1>1. /\ _update_py_index /\ expired' = expired /\ expired /\ flash' = flash
      /\ UNCHANGED <<claims, pt, yt, pt_supply, yt_supply>>
  BY DEF redeem_post_expiry_interest_for_treasury, env
<1>2. NotEntered /\ sy \in [Accounts -> Nat] /\ p \in Nat
      /\ sy_reserve \in Nat /\ sy_reserve <= sy[YTC] /\ sy[YTC] \in Nat
  BY <1>1, FloatingType DEF Consistent, CacheCoherent, TypeOK, ReserveBacked
<1>3. Backing = sy_reserve + p
  BY <1>2, BackingIdle
<1>4. Backing <= Backing'
  <2>1. CASE pays
    <3>1. /\ sy' = PayOut(sy, Treasury, n) /\ sy[YTC] >= n
          /\ post_expiry_sy_for_treasury' = TreasuryOwed /\ sy_reserve' = sy'[YTC]
          /\ TreasuryOwed > p
      BY <2>1 DEF redeem_post_expiry_interest_for_treasury, CanPay, ReserveAfter
    <3>2. post_expiry_sy_for_treasury' \in Nat
      BY DEF Consistent, TypeOK
    <3>3. TreasuryOwed \in Nat /\ n \in Nat
      BY <1>2, <3>1, <3>2
    <3>4. Treasury \in Holders
      BY AccountsAssumption DEF Accounts, Holders
    <3>5. sy'[YTC] = sy[YTC] - n
      BY <1>2, <3>1, <3>3, <3>4, PayOutFacts
    <3>6. Backing' = (sy[YTC] - n) + TreasuryOwed
      BY <1>1, <1>2, <3>1, <3>5, BackingIdle DEF NotEntered
    <3> QED BY <1>2, <1>3, <3>3, <3>6
  <2>2. CASE ~pays
    <3>1. UNCHANGED <<sy, sy_reserve, post_expiry_sy_for_treasury>>
      BY <2>2 DEF redeem_post_expiry_interest_for_treasury
    <3> QED BY <1>1, <3>1, BackingIdle, BackingType
  <2> QED BY <2>1, <2>2
<1> QED BY <1>1, <1>4, BalancedIdle

\* Both parties of a YT transfer are checkpointed.
LEMMA BalancedYtTransfer ==
  ASSUME Consistent, Consistent', NEW u \in Holders, NEW v \in Accounts,
         NEW n \in Amounts, YtTransfer(u, v, n)
  PROVE  Balanced
<1>1. /\ _update_py_index /\ expired' = expired /\ _update_user_interest({u, v})
      /\ yt' = Move(yt, u, v, n) /\ pt_supply' = pt_supply
      /\ UNCHANGED <<sy_reserve, flash, post_expiry_sy_for_treasury>>
  BY DEF YtTransfer, env
<1>2. \A a \in Holders \ {u, v} : yt'[a] = yt[a]
  BY <1>1, FloatingType DEF Move, Credit, Debit, Consistent, TypeOK
<1>3. Backing <= Backing'
  BY <1>1, BackingIdle, BackingType
<1>4. Funded(0, 0)
  BY <1>1, <1>3, FundedIdle
<1>5. {u, v} \in SUBSET Accounts
  BY FloatingType
<1> QED BY <1>1, <1>2, <1>4, <1>5, BalancedUnpaid

LEMMA BalancedClaimNothing ==
  ASSUME Consistent, Consistent', NEW c \in Accounts, ClaimNothing(c)
  PROVE  Balanced
<1>1. /\ _update_py_index /\ expired' = expired /\ _update_user_interest({c})
      /\ UNCHANGED ledger
      /\ UNCHANGED <<sy_reserve, flash, post_expiry_sy_for_treasury>>
  BY DEF ClaimNothing, env
<1>2. Backing <= Backing'
  BY <1>1, BackingIdle, BackingType
<1>3. Funded(0, 0)
  BY <1>1, <1>2, FundedIdle DEF ledger
<1>4. \A a \in Holders \ {c} : yt'[a] = yt[a]
  BY <1>1 DEF ledger
<1>5. {c} \in SUBSET Accounts
  OBVIOUS
<1> QED BY <1>1, <1>3, <1>4, <1>5, BalancedUnpaid

\* What the pair minted for s SY is worth at the index the call leaves.
LEMMA MintedWorth ==
  ASSUME Consistent, _update_py_index, expired' = expired, NEW s \in Nat
  PROVE  /\ sy_to_asset(s, SyncedIndex) \in Nat
         /\ sy_to_asset(s, SyncedIndex) * Worth(py_index_stored') <= s * PARTS
<1>1. PICK j \in Rates : py_index_stored' = j /\ j = SyncedIndex
  BY IndexLeft
<1>2. sy_to_asset(s, j) * Worth(j) <= s * PARTS
  BY PrincipalBounds
<1>3. sy_to_asset(s, SyncedIndex) \in Nat
  BY ConversionTypes
<1> QED BY <1>1, <1>2, <1>3

\* The floating SY that a mint accounts for.
LEMMA FloatsAccounted ==
  ASSUME Consistent, NotEntered, flash' = flash, sy_reserve' = sy[YTC],
         UNCHANGED post_expiry_sy_for_treasury
  PROVE  Backing + get_floating_sy <= Backing'
<1>1. /\ Backing = sy_reserve + post_expiry_sy_for_treasury
      /\ Backing' = sy[YTC] + post_expiry_sy_for_treasury
  BY BackingIdle DEF NotEntered
<1>2. /\ sy_reserve \in Nat /\ post_expiry_sy_for_treasury \in Nat
      /\ sy[YTC] \in Nat /\ sy_reserve <= sy[YTC]
  BY FloatingType DEF Consistent, TypeOK, ReserveBacked
<1>3. sy_reserve + get_floating_sy = sy[YTC]
  BY <1>2 DEF get_floating_sy
<1> QED BY <1>1, <1>2, <1>3, FloatingType

LEMMA BalancedMintPy ==
  ASSUME Consistent, Consistent', NEW a \in Accounts, NEW b \in Accounts,
         mint_py(a, b)
  PROVE  Balanced
<1> DEFINE n == sy_to_asset(get_floating_sy, SyncedIndex)
<1>1. /\ _update_py_index /\ expired' = expired /\ _update_user_interest({b})
      /\ yt' = Credit(yt, b, n) /\ pt_supply' = pt_supply + n
      /\ NotEntered /\ flash' = flash /\ sy_reserve' = sy[YTC]
      /\ UNCHANGED post_expiry_sy_for_treasury
  BY DEF mint_py, MayMint, ReserveAfter, env
<1>2. get_floating_sy \in Nat
  BY FloatingType
<1>3. n \in Nat /\ n * Worth(py_index_stored') <= get_floating_sy * PARTS
  BY <1>1, <1>2, MintedWorth
<1> HIDE DEF n
<1>4. \A x \in Holders \ {b} : yt'[x] = yt[x]
  BY <1>1, FloatingType DEF Credit, Consistent, TypeOK
<1>5. Backing + get_floating_sy <= Backing'
  BY <1>1, FloatsAccounted
<1>6. Funded(0, 0)
  BY <1>1, <1>2, <1>3, <1>5, FundedMint
<1>7. {b} \in SUBSET Accounts
  OBVIOUS
<1> QED BY <1>1, <1>4, <1>6, <1>7, BalancedUnpaid

LEMMA BalancedMintMulti ==
  ASSUME Consistent, Consistent', NEW pts \in Pairs(Accounts), NEW yts \in Pairs(Accounts),
         NEW m1 \in BatchAmounts, NEW m2 \in BatchAmounts,
         mint_py_multi(pts, yts, <<m1, m2>>)
  PROVE  Balanced
<1> DEFINE n1 == sy_to_asset(m1, SyncedIndex)
           n2 == sy_to_asset(m2, SyncedIndex)
           w == Worth(py_index_stored')
<1>1. PICK a \in Accounts, b \in Accounts : yts = <<a, b>>
  BY DEF Pairs
<1>2. /\ _update_py_index /\ expired' = expired /\ _update_user_interest({a, b})
      /\ yt' = Credit(Credit(yt, a, n1), b, n2)
      /\ pt_supply' = pt_supply + n1 + n2 /\ m1 + m2 = get_floating_sy
      /\ NotEntered /\ flash' = flash /\ sy_reserve' = sy[YTC]
      /\ UNCHANGED post_expiry_sy_for_treasury
  BY <1>1 DEF mint_py_multi, MayMint, ReserveAfter, env
<1>3. m1 \in Nat /\ m2 \in Nat /\ PARTS \in Nat /\ pt_supply \in Nat
  BY AmountsAssumption, ScaleType DEF Consistent, TypeOK
<1>4. n1 \in Nat /\ n1 * w <= m1 * PARTS
  BY <1>2, <1>3, MintedWorth
<1>5. n2 \in Nat /\ n2 * w <= m2 * PARTS
  BY <1>2, <1>3, MintedWorth
<1>6. w \in Nat
  BY WorthFacts DEF Consistent, TypeOK
<1> HIDE DEF n1, n2, w
<1>7. \A x \in Holders \ {a, b} : yt'[x] = yt[x]
  BY <1>2, FloatingType DEF Credit, Consistent, TypeOK
<1>8. /\ n1 + n2 \in Nat /\ m1 + m2 \in Nat
      /\ (n1 + n2) * w <= (m1 + m2) * PARTS
      /\ pt_supply' = pt_supply + (n1 + n2)
  <2>1. (n1 + n2) * w = n1 * w + n2 * w /\ (m1 + m2) * PARTS = m1 * PARTS + m2 * PARTS
    BY <1>3, <1>4, <1>5, <1>6
  <2>2. n1 * w \in Nat /\ n2 * w \in Nat /\ m1 * PARTS \in Nat /\ m2 * PARTS \in Nat
    BY <1>3, <1>4, <1>5, <1>6, MulNat
  <2> QED BY <1>2, <1>3, <1>4, <1>5, <2>1, <2>2
<1>9. Backing + (m1 + m2) <= Backing'
  BY <1>2, FloatsAccounted
<1>10. Funded(0, 0)
  BY <1>8, <1>9, FundedMint DEF w
<1>11. {a, b} \in SUBSET Accounts
  OBVIOUS
<1> QED BY <1>2, <1>7, <1>10, <1>11, BalancedUnpaid

\* A flash mint is funded by what its end demands.
LEMMA BalancedFlashMintBegin ==
  ASSUME Consistent, Consistent', NEW u \in Users, NEW m \in Amounts,
         FlashMintBegin(u, m)
  PROVE  Balanced
<1> DEFINE n == sy_to_asset(m, SyncedIndex)
<1>1. /\ _update_py_index /\ expired' = expired /\ _update_user_interest({u})
      /\ yt' = Credit(yt, u, n) /\ pt_supply' = pt_supply + n
      /\ NotEntered /\ flash' = [receiver |-> u, due |-> sy[YTC] + m]
      /\ UNCHANGED <<sy_reserve, post_expiry_sy_for_treasury>>
  BY DEF FlashMintBegin, MayMint, env
<1>2. m \in Nat /\ u \in Accounts
  BY AmountsAssumption, FloatingType
<1>3. n \in Nat /\ n * Worth(py_index_stored') <= m * PARTS
  BY <1>1, <1>2, MintedWorth
<1> HIDE DEF n
<1>4. \A x \in Holders \ {u} : yt'[x] = yt[x]
  BY <1>1, FloatingType DEF Credit, Consistent, TypeOK
<1>5. Backing + m <= Backing'
  <2>1. flash' # Idle
    BY <1>1, AccountsAssumption DEF Idle
  <2>2. Backing' = (sy[YTC] + m) + post_expiry_sy_for_treasury
    BY <1>1, <2>1 DEF Backing, NotEntered, Idle
  <2>3. Backing = sy_reserve + post_expiry_sy_for_treasury
    BY <1>1, BackingIdle
  <2>4. /\ sy_reserve \in Nat /\ post_expiry_sy_for_treasury \in Nat
        /\ sy[YTC] \in Nat /\ sy_reserve <= sy[YTC]
    BY FloatingType DEF Consistent, TypeOK, ReserveBacked
  <2> QED BY <1>2, <2>2, <2>3, <2>4
<1>6. Funded(0, 0)
  BY <1>1, <1>2, <1>3, <1>5, FundedMint
<1>7. {u} \in SUBSET Accounts
  BY <1>2
<1> QED BY <1>1, <1>4, <1>6, <1>7, BalancedUnpaid

\* What is paid for m PT, in terms of the bound.
LEMMA PaidWorth ==
  ASSUME NEW m \in Nat, NEW j \in Rates
  PROVE  asset_to_sy(m, j) * PARTS * Scale
           <= m * Worth(j) * Scale + asset_to_sy(m, j) * Slack
BY PrincipalBounds DEF Scale, Slack

\* The burn of the staged pair.
LEMMA PairBurnt ==
  ASSUME Consistent, BurnPair
  PROVE  /\ pt_supply' = pt_supply - get_floating_pt
         /\ \A u \in Holders : yt'[u] = yt[u]
<1>1. \A u \in Holders : u \in Accounts /\ u # YTC
  BY DEF Holders
<1>2. yt \in [Accounts -> Nat]
  BY DEF Consistent, TypeOK
<1> QED BY <1>1, <1>2 DEF BurnPair, Debit

LEMMA BalancedRedeemPy ==
  ASSUME Consistent, Consistent', NEW a \in Holders, redeem_py(a)
  PROVE  Balanced
<1> DEFINE m == get_floating_pt  q == asset_to_sy(m, SyncedIndex)
<1>1. /\ _update_py_index /\ expired' = expired /\ BurnPair /\ NotEntered
      /\ UNCHANGED claims /\ flash' = flash
      /\ sy' = PayOut(sy, a, q) /\ q <= sy[YTC] /\ sy_reserve' = sy'[YTC]
      /\ post_expiry_sy_for_treasury' = post_expiry_sy_for_treasury
  BY DEF redeem_py, MayMerge, CanPay, ReserveAfter, env
<1>2. m \in Nat /\ q \in Nat /\ sy \in [Accounts -> Nat] /\ sy[YTC] \in Nat
      /\ post_expiry_sy_for_treasury \in Nat
  BY FloatingType, ConversionTypes DEF Consistent, TypeOK
<1>3. PICK i \in Rates : py_index_stored' = i /\ i = SyncedIndex
  BY <1>1, IndexLeft
<1>4. q * PARTS * Scale <= m * Worth(i) * Scale + q * Slack
  BY <1>2, <1>3, PaidWorth
<1>5. pt_supply' = pt_supply - m /\ \A u \in Holders : yt'[u] = yt[u]
  BY <1>1, PairBurnt
<1> HIDE DEF m, q
<1>6. sy'[YTC] + 0 + q + 0 = sy[YTC]
  <2>1. sy'[YTC] = sy[YTC] - q
    BY <1>1, <1>2, PayOutFacts
  <2> QED BY <1>2, <2>1
<1>7. post_expiry_sy_for_treasury' = post_expiry_sy_for_treasury + 0
  BY <1>1, <1>2
<1>8. Funded(0, q)
  BY <1>1, <1>2, <1>3, <1>4, <1>5, <1>6, <1>7, FundedOutlay
<1>9. PICK j \in Rates : Accrues({}, YTC, 0, j)
  BY <1>1, <1>5, AccruesNothing
<1>10. {} \in SUBSET Accounts /\ YTC \in Accounts /\ 0 \in Nat
  BY FloatingType
<1> QED BY <1>2, <1>8, <1>9, <1>10 DEF Balanced

LEMMA BalancedRedeemMulti ==
  ASSUME Consistent, Consistent', NEW rs \in Pairs(Holders),
         NEW m1 \in BatchAmounts, NEW m2 \in BatchAmounts,
         redeem_py_multi(rs, <<m1, m2>>)
  PROVE  Balanced
<1> DEFINE q1 == asset_to_sy(m1, SyncedIndex)
           q2 == asset_to_sy(m2, SyncedIndex)
<1>1. PICK a \in Holders, b \in Holders : rs = <<a, b>>
  BY DEF Pairs
<1> DEFINE paid1 == PayOut(sy, a, q1)
<1>2. /\ _update_py_index /\ expired' = expired /\ BurnPair /\ NotEntered
      /\ UNCHANGED claims /\ flash' = flash /\ m1 + m2 = get_floating_pt
      /\ q1 <= sy[YTC] /\ q2 <= paid1[YTC]
      /\ sy' = PayOut(paid1, b, q2) /\ sy_reserve' = sy'[YTC]
      /\ post_expiry_sy_for_treasury' = post_expiry_sy_for_treasury
  BY <1>1 DEF redeem_py_multi, MayMerge, CanPay, ReserveAfter, env
<1>3. /\ m1 \in Nat /\ m2 \in Nat /\ sy \in [Accounts -> Nat] /\ sy[YTC] \in Nat
      /\ post_expiry_sy_for_treasury \in Nat
  BY FloatingType, AmountsAssumption DEF Consistent, TypeOK
<1>4. q1 \in Nat /\ q2 \in Nat
  BY <1>3, ConversionTypes
<1>5. PICK i \in Rates : py_index_stored' = i /\ i = SyncedIndex
  BY <1>2, IndexLeft
<1>6. /\ q1 * PARTS * Scale <= m1 * Worth(i) * Scale + q1 * Slack
      /\ q2 * PARTS * Scale <= m2 * Worth(i) * Scale + q2 * Slack
  BY <1>3, <1>5, PaidWorth
<1>7. pt_supply' = pt_supply - (m1 + m2) /\ \A u \in Holders : yt'[u] = yt[u]
  BY <1>2, PairBurnt
<1> HIDE DEF q1, q2
<1>8. paid1 \in [Accounts -> Nat] /\ paid1[YTC] = sy[YTC] - q1
  BY <1>2, <1>3, <1>4, PayOutFacts
<1> HIDE DEF paid1
<1>9. sy'[YTC] = paid1[YTC] - q2
  BY <1>2, <1>4, <1>8, PayOutFacts
<1>10. sy'[YTC] + 0 + (q1 + q2) + 0 = sy[YTC]
  BY <1>3, <1>4, <1>8, <1>9
<1>11. (q1 + q2) * PARTS * Scale
         <= (m1 + m2) * Worth(i) * Scale + (q1 + q2) * Slack
  <2> DEFINE w == Worth(i)  x1 == q1 * PARTS * Scale  x2 == q2 * PARTS * Scale
             y1 == m1 * w * Scale  y2 == m2 * w * Scale
             z1 == q1 * Slack  z2 == q2 * Slack
  <2>1. w \in Nat /\ PARTS \in Nat /\ Scale \in Nat /\ Slack \in Nat
    BY WorthFacts, ScaleType
  <2>2. x1 <= y1 + z1 /\ x2 <= y2 + z2
    BY <1>6
  <2> HIDE DEF w
  <2>3. /\ (q1 + q2) * PARTS * Scale = x1 + x2
        /\ (m1 + m2) * w * Scale = y1 + y2
        /\ (q1 + q2) * Slack = z1 + z2
    BY <1>3, <1>4, <2>1
  <2>4. /\ x1 \in Nat /\ x2 \in Nat /\ y1 \in Nat /\ y2 \in Nat
        /\ z1 \in Nat /\ z2 \in Nat
    BY <1>3, <1>4, <2>1, MulNat
  <2>5. x1 + x2 <= (y1 + y2) + (z1 + z2)
    <3> HIDE DEF x1, x2, y1, y2, z1, z2
    <3> QED BY <2>2, <2>4
  <2>6. (q1 + q2) * PARTS * Scale <= (m1 + m2) * w * Scale + (q1 + q2) * Slack
    BY <2>3, <2>5
  <2> QED BY <2>6 DEF w
<1>12. post_expiry_sy_for_treasury' = post_expiry_sy_for_treasury + 0
  BY <1>2, <1>3
<1>13. q1 + q2 \in Nat /\ m1 + m2 \in Nat
  BY <1>3, <1>4
<1>14. Funded(0, q1 + q2)
  BY <1>2, <1>5, <1>7, <1>10, <1>11, <1>12, <1>13, FundedOutlay
<1>15. PICK j \in Rates : Accrues({}, YTC, 0, j)
  BY <1>2, <1>7, AccruesNothing
<1>16. {} \in SUBSET Accounts /\ YTC \in Accounts /\ 0 \in Nat
  BY FloatingType
<1> QED BY <1>13, <1>14, <1>15, <1>16 DEF Balanced

LEMMA BalancedRedeemWithInterest ==
  ASSUME Consistent, Consistent', NEW c \in Holders, NEW a \in Holders,
         redeem_py_with_interest(c, a)
  PROVE  Balanced
<1> DEFINE m == get_floating_pt  q == asset_to_sy(m, SyncedIndex)
           n == InterestAfter({c})[c]  paid1 == PayOut(sy, a, q)
<1>1. /\ _update_py_index /\ expired' = expired /\ BurnPair /\ NotEntered
      /\ flash' = flash
      /\ user_index' = IndexAfter({c})
      /\ user_interest' = [InterestAfter({c}) EXCEPT ![c] = 0]
      /\ q <= sy[YTC] /\ CanPayInterest(paid1, a, n)
      /\ sy' = PayInterest(paid1, a, n) /\ sy_reserve' = sy'[YTC]
      /\ post_expiry_sy_for_treasury' = post_expiry_sy_for_treasury
  BY DEF redeem_py_with_interest, MayMerge, CanPay, ReserveAfter, env
<1>2. /\ m \in Nat /\ q \in Nat /\ sy \in [Accounts -> Nat] /\ sy[YTC] \in Nat
      /\ post_expiry_sy_for_treasury \in Nat /\ c \in Accounts
  BY FloatingType, ConversionTypes DEF Consistent, TypeOK
<1>3. n \in Nat
  BY <1>2, InterestPaidType
<1>4. PICK i \in Rates : py_index_stored' = i /\ i = SyncedIndex
  BY <1>1, IndexLeft
<1>5. q * PARTS * Scale <= m * Worth(i) * Scale + q * Slack
  BY <1>2, <1>4, PaidWorth
<1>6. pt_supply' = pt_supply - m /\ \A u \in Holders : yt'[u] = yt[u]
  BY <1>1, PairBurnt
<1>7. PICK j \in Rates : Accrues({c}, c, n, j)
  BY <1>1, <1>6, AccruesPaid
<1> HIDE DEF m, q, n
<1>8. paid1 \in [Accounts -> Nat] /\ paid1[YTC] = sy[YTC] - q
  BY <1>1, <1>2, PayOutFacts
<1> HIDE DEF paid1
<1>9. sy'[YTC] + n = paid1[YTC]
  BY <1>1, <1>3, <1>8, PayInterestFacts
<1>10. sy'[YTC] \in Nat
  BY DEF Consistent, TypeOK, Accounts
<1>11. sy'[YTC] + n + q + 0 = sy[YTC]
  BY <1>2, <1>3, <1>8, <1>9, <1>10
<1>12. post_expiry_sy_for_treasury' = post_expiry_sy_for_treasury + 0
  BY <1>1, <1>2
<1>13. Funded(n, q)
  BY <1>1, <1>2, <1>3, <1>4, <1>5, <1>6, <1>11, <1>12, FundedOutlay
<1>14. {c} \in SUBSET Accounts
  BY <1>2
<1> QED BY <1>2, <1>3, <1>7, <1>13, <1>14 DEF Balanced

\* After expiry: the treasury's part is booked, the principal is paid at the
\* index captured at expiry, which is the stored one.
LEMMA BalancedRedeemPostExpiry ==
  ASSUME Consistent, Consistent', NEW a \in Holders, redeem_py_post_expiry(a)
  PROVE  Balanced
<1> DEFINE m == get_floating_pt  q == asset_to_sy(m, ExpiryIndex)
           t == TreasuryCarveOut(m)  paid1 == PayOut(sy, Treasury, t)
<1>1. /\ _update_py_index /\ expired' = expired /\ expired /\ NotEntered
      /\ flash' = flash /\ UNCHANGED claims /\ yt' = yt
      /\ pt_supply' = pt_supply - m
      /\ t <= sy[YTC] /\ q <= paid1[YTC]
      /\ sy' = PayOut(paid1, a, q) /\ sy_reserve' = sy'[YTC]
      /\ post_expiry_sy_for_treasury' = post_expiry_sy_for_treasury + t
  BY DEF redeem_py_post_expiry, CanPay, ReserveAfter, env
<1>2. /\ m \in Nat /\ sy \in [Accounts -> Nat] /\ sy[YTC] \in Nat
      /\ post_expiry_sy_for_treasury \in Nat
  BY FloatingType DEF Consistent, TypeOK
<1>3. q \in Nat /\ t \in Nat /\ Treasury \in Holders
  BY <1>2, ExpiryIndexFacts, AccountsAssumption DEF Accounts, Holders
<1>4. PICK i \in Rates : py_index_stored' = i /\ i = ExpiryIndex
  <2>1. PICK i \in Rates : /\ py_index_stored' = i /\ i = SyncedIndex
                           /\ Captured => i = py_index_stored
    BY <1>1, IndexLeft
  <2>2. i = ExpiryIndex
    BY <2>1 DEF ExpiryIndex, Consistent, CheckpointsBehindIndex
  <2> QED BY <2>1, <2>2
<1>5. q * PARTS * Scale <= m * Worth(i) * Scale + q * Slack
  BY <1>2, <1>4, PaidWorth
<1>6. PICK j \in Rates : Accrues({}, YTC, 0, j)
  BY <1>1, AccruesNothing
<1> HIDE DEF m, q, t
<1>7. paid1 \in [Accounts -> Nat] /\ paid1[YTC] = sy[YTC] - t
  BY <1>1, <1>2, <1>3, PayOutFacts
<1> HIDE DEF paid1
<1>8. sy'[YTC] = paid1[YTC] - q
  BY <1>1, <1>3, <1>7, PayOutFacts
<1>9. sy'[YTC] + 0 + q + t = sy[YTC]
  BY <1>2, <1>3, <1>7, <1>8
<1>10. Funded(0, q)
  BY <1>1, <1>2, <1>3, <1>4, <1>5, <1>9, FundedOutlay
<1>11. {} \in SUBSET Accounts /\ YTC \in Accounts /\ 0 \in Nat
  BY FloatingType
<1> QED BY <1>3, <1>6, <1>10, <1>11 DEF Balanced

\* A claim that pays is one of a holder: the YT contract accrues nothing.
LEMMA BalancedClaimInterest ==
  ASSUME Consistent, Consistent', NEW c \in Accounts, ClaimInterest(c)
  PROVE  Balanced
<1> DEFINE n == InterestAfter({c})[c]
<1>1. /\ _update_py_index /\ expired' = expired /\ NotEntered /\ flash' = flash
      /\ user_index' = IndexAfter({c})
      /\ user_interest' = [InterestAfter({c}) EXCEPT ![c] = 0]
      /\ n > 0 /\ CanPayInterest(sy, c, n)
      /\ sy' = PayInterest(sy, c, n) /\ sy_reserve' = sy'[YTC]
      /\ yt' = yt /\ pt_supply' = pt_supply
      /\ post_expiry_sy_for_treasury' = post_expiry_sy_for_treasury
  BY DEF ClaimInterest, ReserveAfter, env
<1>2. /\ sy \in [Accounts -> Nat] /\ sy[YTC] \in Nat
      /\ post_expiry_sy_for_treasury \in Nat /\ pt_supply \in Nat
  BY FloatingType DEF Consistent, TypeOK
<1>3. n \in Nat
  BY InterestPaidType
<1>4. c \in Holders
  <2>1. {c} \in SUBSET Accounts
    OBVIOUS
  <2>2. InterestAfter({c})[YTC] = 0
    BY <2>1, CheckpointFacts
  <2> QED BY <1>1, <2>2 DEF Holders
<1>5. PICK i \in Rates : py_index_stored' = i /\ i = SyncedIndex
  BY <1>1, IndexLeft
<1>6. PICK j \in Rates : Accrues({c}, c, n, j)
  BY <1>1, <1>4, AccruesPaid
<1> HIDE DEF n
<1>7. 0 * PARTS * Scale <= 0 * Worth(i) * Scale + 0 * Slack
  BY WorthFacts, ScaleType
<1>8. sy'[YTC] + n = sy[YTC]
  BY <1>1, <1>2, <1>3, <1>4, PayInterestFacts
<1>9. sy'[YTC] \in Nat
  BY DEF Consistent, TypeOK, Accounts
<1>10. sy'[YTC] + n + 0 + 0 = sy[YTC]
  BY <1>2, <1>3, <1>8, <1>9
<1>11. post_expiry_sy_for_treasury' = post_expiry_sy_for_treasury + 0
       /\ pt_supply' = pt_supply - 0 /\ 0 \in Nat
  BY <1>1, <1>2
<1>12. Funded(n, 0)
  BY <1>1, <1>3, <1>5, <1>7, <1>10, <1>11, FundedOutlay
<1>13. {c} \in SUBSET Accounts /\ 0 \in Nat
  OBVIOUS
<1> QED BY <1>3, <1>6, <1>12, <1>13 DEF Balanced

LEMMA NextBalanced ==
  ASSUME Consistent, Consistent', [Next]_vars
  PROVE  Balanced
<1>1. CASE Transfer
  <2>1. ASSUME NEW u \in Holders, NEW v \in Accounts, NEW n \in Amounts,
               SyTransfer(u, v, n) \/ PtTransfer(u, v, n)
        PROVE  Balanced
    BY <2>1, BalancedStill DEF SyTransfer, PtTransfer, index
  <2> QED BY <1>1, <2>1, BalancedYtTransfer DEF Transfer
<1>2. CASE Mint
  BY <1>2, BalancedMintPy, BalancedFlashMintBegin, BalancedFlashMintEnd DEF Mint
<1>3. CASE Redeem
  BY <1>3, BalancedRedeemPy, BalancedRedeemPostExpiry, BalancedRedeemWithInterest
     DEF Redeem
<1>4. CASE Batch
  BY <1>4, BalancedMintMulti, BalancedRedeemMulti DEF Batch
<1>5. CASE Claim
  BY <1>5, BalancedClaimNothing, BalancedClaimInterest DEF Claim, redeem_due_interest
<1>6. CASE update_py_index
  BY <1>6, BalancedUpdatePyIndex
<1>7. CASE Admin
  <2>1. ASSUME \/ \E r \in FeeRates : set_interest_fee_rate(r)
               \/ \E t \in Pausable : pause(t) \/ unpause(t)
        PROVE  Balanced
    BY <2>1, BalancedStill DEF set_interest_fee_rate, pause, unpause, ledger, index
  <2> QED BY <1>7, <2>1, BalancedTreasuryClaim DEF Admin
<1>8. CASE Environment
  BY <1>8, BalancedStill DEF Environment, RateChange, NextBlock, ledger, index
<1>9. CASE UNCHANGED vars
  BY <1>9, BalancedStill DEF vars, ledger, index
<1> QED BY <1>1, <1>2, <1>3, <1>4, <1>5, <1>6, <1>7, <1>8, <1>9 DEF Next

-----------------------------------------------------------------------------
(***************************************************************************)
(* The theorems about interest and backing.                                *)
(***************************************************************************)

\* A step that leaves the stored index alone raises nobody's interest: neither
\* the receiver of YT nor that of a mint gains what it did not hold YT for.
THEOREM InterestIsEarned == Spec => NoUnearnedInterest
<1> DEFINE A == py_index_stored' = py_index_stored
                  => \A u \in Holders : Claimable(u)' <= Claimable(u)
<1>1. ASSUME Consistent, [Next]_vars PROVE A
  <2>1. Consistent'
    BY <1>1, NextConsistent
  <2>2. Balanced
    BY <1>1, <2>1, NextBalanced
  <2> QED BY <1>1, <2>1, <2>2, UnearnedStep DEF Balanced
<1>2. Consistent /\ [Next]_vars => [A]_vars
  BY <1>1
<1> QED BY <1>2, Safety, PTL DEF Spec, NoUnearnedInterest

\* What a holder is owed shrinks by no more than the step pays out and the
\* rounding of one checkpoint: no call erases interest.
LEMMA OwedPaid ==
  ASSUME Consistent, Consistent', NEW S \in SUBSET Accounts, NEW c \in Accounts,
         NEW n \in Nat, NEW q \in Nat, NEW j \in Rates, Accrues(S, c, n, j),
         Funded(n, q), NEW u \in Holders
  PROVE  (Owed(u) - Owed(u)' - PARTS * PaidOut) * CUBIT_ONE
           <= PARTS * (yt[u] + 2 * CUBIT_ONE + 4 * WAD)
<1> DEFINE o1 == Owed(u)  o2 == Owed(u)'  p == PaidTo(u, c, n)  t == PaidOut
           Z == PARTS * (yt[u] + 2 * CUBIT_ONE + 4 * WAD)
<1>1. /\ o1 \in Int /\ o2 \in Int /\ p \in Nat
      /\ (o1 - o2 - PARTS * p) * CUBIT_ONE <= Z
  BY OwedStep
<1>2. t \in Nat
  <2>1. sy[YTC] \in Nat /\ sy'[YTC] \in Nat
    BY DEF Consistent, TypeOK, Accounts
  <2> QED BY <2>1 DEF PaidOut, max
<1>3. p <= t
  <2>1. p <= n
    BY DEF PaidTo
  <2>2. n + q <= t
    BY DEF Funded
  <2> HIDE DEF p, t
  <2> QED BY <1>1, <1>2, <2>1, <2>2
<1>4. PARTS \in Nat /\ CUBIT_ONE \in Nat /\ Z \in Nat
  <2>1. PARTS \in Nat /\ CUBIT_ONE \in Nat /\ WAD \in Nat /\ yt[u] \in Nat
    BY ScaleType, CubitAssumption, WadAssumption DEF Holders, Consistent, TypeOK
  <2>2. yt[u] + 2 * CUBIT_ONE + 4 * WAD \in Nat
    BY <2>1
  <2> QED BY <2>1, <2>2, MulNat
<1> HIDE DEF o1, o2, p, t, Z
<1> DEFINE x == PARTS * p  y == PARTS * t
<1>5. x \in Nat /\ y \in Nat /\ x <= y
  <2>1. p * PARTS <= t * PARTS
    BY <1>1, <1>2, <1>3, <1>4, MulMono
  <2>2. p * PARTS = PARTS * p /\ t * PARTS = PARTS * t
    BY <1>1, <1>2, <1>4
  <2> QED BY <1>1, <1>2, <1>4, <2>1, <2>2, MulNat
<1>6. (o1 - o2 - x) * CUBIT_ONE <= Z
  BY <1>1
<1> HIDE DEF x, y
<1> DEFINE d == y - x
<1>7. d \in Nat /\ o1 - o2 - y = (o1 - o2 - x) - d
  BY <1>1, <1>5
<1> HIDE DEF d
<1>8. (o1 - o2 - y) * CUBIT_ONE = (o1 - o2 - x) * CUBIT_ONE - d * CUBIT_ONE
  <2>1. o1 - o2 - x \in Int
    BY <1>1, <1>5
  <2>2. \A a, b, e \in Int : (a - b) * e = a * e - b * e
    OBVIOUS
  <2> QED BY <1>4, <1>7, <2>1, <2>2
<1>9. d * CUBIT_ONE \in Nat /\ (o1 - o2 - x) * CUBIT_ONE \in Int
  <2>1. o1 - o2 - x \in Int
    BY <1>1, <1>5
  <2>2. \A a, b \in Int : a * b \in Int
    OBVIOUS
  <2> QED BY <1>4, <1>7, <2>1, <2>2, MulNat
<1>10. (o1 - o2 - y) * CUBIT_ONE <= Z
  <2> DEFINE e1 == (o1 - o2 - x) * CUBIT_ONE  e2 == d * CUBIT_ONE
  <2>1. e1 \in Int /\ e2 \in Nat /\ e1 <= Z /\ (o1 - o2 - y) * CUBIT_ONE = e1 - e2
    BY <1>6, <1>8, <1>9
  <2> HIDE DEF e1, e2
  <2>2. e1 - e2 <= Z
    BY <1>4, <2>1
  <2> QED BY <2>1, <2>2
<1> QED BY <1>10 DEF o1, o2, t, y, Z

\* Interest disappears only by being paid, up to the rounding of a checkpoint.
THEOREM ClaimsAreOnlyPaidOut == Spec => ClaimsOnlyPaidOut
<1> DEFINE A == \A u \in Holders :
                  (Owed(u) - Owed(u)' - PARTS * PaidOut) * CUBIT_ONE
                    <= PARTS * (yt[u] + 2 * CUBIT_ONE + 4 * WAD)
<1>1. ASSUME Consistent, [Next]_vars PROVE A
  <2>1. Consistent'
    BY <1>1, NextConsistent
  <2>2. Balanced
    BY <1>1, <2>1, NextBalanced
  <2> QED BY <1>1, <2>1, <2>2, OwedPaid DEF Balanced
<1>2. Consistent /\ [Next]_vars => [A]_vars
  BY <1>1
<1> QED BY <1>2, Safety, PTL DEF Spec, ClaimsOnlyPaidOut

\* Nothing is owed at first, so what is owed is backed up to the rounding that
\* the steps since then have added.
THEOREM NothingOwedAtFirst == Init => Shortfall = 0
<1> SUFFICES ASSUME Init PROVE Shortfall = 0
  OBVIOUS
<1>1. /\ PARTS \in Nat /\ rate \in Rates /\ py_index_stored = rate
      /\ pt_supply = 0 /\ sy_reserve = 0 /\ post_expiry_sy_for_treasury = 0
      /\ flash = Idle
  BY ScaleType DEF Init
<1>2. pt_supply * Worth(py_index_stored) = 0
  BY <1>1, WorthFacts
<1>3. \A u \in Holders : Owed(u) = 0
  <2> TAKE u \in Holders
  <2>1. user_interest[u] = 0 /\ user_index[u] = 0
    BY DEF Init, Holders
  <2> QED BY <1>1, <2>1 DEF Owed, Earned
<1>4. SumFunction([u \in Holders |-> Owed(u)]) = 0
  <2> DEFINE f == [u \in Holders |-> Owed(u)]
  <2>1. \A u \in Holders : f[u] = 0
    BY <1>3
  <2>2. SumFunction(f) = SumFunctionOnSet(f, Holders)
    BY DEF SumFunction
  <2> HIDE DEF f
  <2>3. SumFunctionOnSet(f, Holders) = 0
    BY <2>1, AccountsFinite, SumZero
  <2> QED BY <2>2, <2>3 DEF f
<1>5. TotalOwed = 0
  BY <1>2, <1>4 DEF TotalOwed
<1>6. Backing = 0
  BY <1>1 DEF Backing, NotEntered
<1> QED BY <1>1, <1>5, <1>6 DEF Shortfall

\* No call opens a gap between what is owed and what backs it, beyond the
\* rounding of what the call pays out and credits.
THEOREM SolventUpToRounding == Spec => Solvent
<1> DEFINE A == (Shortfall' - Shortfall) * WAD * CUBIT_ONE
                  <= PARTS * (PaidOut + Credited) * (CUBIT_ONE + 4 * WAD)
<1>1. ASSUME Consistent, [Next]_vars PROVE A
  <2>1. Consistent'
    BY <1>1, NextConsistent
  <2>2. Balanced
    BY <1>1, <2>1, NextBalanced
  <2> QED BY <1>1, <2>1, <2>2, SolvencyStep DEF Balanced
<1>2. Consistent /\ [Next]_vars => [A]_vars
  BY <1>1
<1> QED BY <1>2, Safety, PTL DEF Spec, Solvent

=============================================================================

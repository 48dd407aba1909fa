----------------------------- MODULE YieldToken -----------------------------
(***************************************************************************)
(* The PT/YT pair of one expiry: contracts/src/tokens/yt.cairo with the PT *)
(* ledger it drives (tokens/pt.cairo) and the SY token it holds (an ERC20  *)
(* whose exchange rate moves by itself).                                   *)
(*                                                                         *)
(* SY is split into PT and YT at the stored PY index, a watermark of the   *)
(* SY exchange rate.  YT accrues interest as the index grows; the pair can *)
(* be merged back before expiry, and PT alone is redeemed after it.  The   *)
(* caller of an operation does not pass amounts: it first sends tokens to  *)
(* the YT contract and the operation consumes whatever is staged there, so *)
(* one caller's staged tokens are in reach of everybody's next call.       *)
(*                                                                         *)
(* One action is one contract call.  A call that fails reverts, so its     *)
(* assertions are guards.  flash_mint_py is split in two at its callback:  *)
(* between the halves the receiver may make the calls that the reentrancy  *)
(* guard does not stop.                                                    *)
(***************************************************************************)
EXTENDS MathFp, FiniteSets, Functions

CONSTANTS
  Users,        \* externally owned accounts and contracts that hold tokens
  YTC,          \* the YT contract itself
  Treasury,     \* receiver of fees and post-expiry yield
  Rates,        \* SY exchange rates the environment may report
  FeeRates,     \* interest fee rates the admin may set
  Amounts,      \* amounts of a plain token transfer or of a flash mint
  BatchAmounts, \* amounts of one entry of a batch
  InitialSY,    \* SY each user starts with (deposits happened earlier)
  Pausable,     \* which of the three tokens the admin may pause
  PARTS         \* properties: a common multiple of the rates

Accounts == Users \cup {YTC, Treasury}

ASSUME AccountsAssumption == YTC \notin Users \cup {Treasury}
\* The index oracle rejects an index below WAD.
ASSUME RatesAssumption == \A r \in Rates : r \in Nat /\ r >= WAD
\* set_interest_fee_rate rejects more than 50%.
ASSUME FeeAssumption == \A f \in FeeRates : f \in Nat /\ 2 * f <= WAD
ASSUME AmountsAssumption ==
  Amounts \subseteq Nat /\ BatchAmounts \subseteq Nat /\ InitialSY \in Nat
\* Balances and rates are u256: there are finitely many of each.
ASSUME FiniteAssumption == IsFiniteSet(Users)
ASSUME PartsAssumption ==
  PARTS \in Nat \ {0} /\ \A r \in Rates : PARTS % r = 0
ASSUME PausableAssumption == Pausable \subseteq {"YT", "PT", "SY"}

VARIABLES
  rate,                 \* SY.exchange_rate()
  expired,              \* get_block_timestamp() >= expiry
  cacheFresh,           \* last_index_block = current block
  sy, pt, yt,           \* ERC20 balances by account
  pt_supply, yt_supply, \* ERC20 total supplies
  py_index_stored, py_index_at_expiry, cached_index,
  user_index, user_interest,  \* the two halves of user_interest_state
  sy_reserve,
  interest_fee_rate,
  post_expiry_sy_for_treasury,
  paused,               \* the tokens whose Pausable component is set
  flash                 \* the flash mint in progress

ledger  == <<sy, pt, yt, pt_supply, yt_supply>>
index   == <<py_index_stored, py_index_at_expiry, cached_index, cacheFresh>>
claims  == <<user_index, user_interest>>
admin   == <<interest_fee_rate, paused>>
env     == <<rate, expired>>
vars    == <<env, ledger, index, claims, admin, sy_reserve,
             post_expiry_sy_for_treasury, flash>>

-----------------------------------------------------------------------------
(***************************************************************************)
(* Ledgers                                                                 *)
(***************************************************************************)

Credit(ledgr, a, n) == [ledgr EXCEPT ![a] = @ + n]
Debit(ledgr, a, n)  == [ledgr EXCEPT ![a] = @ - n]
Move(ledgr, a, b, n) == Credit(Debit(ledgr, a, n), b, n)

\* A paused SY refuses every transfer; a paused PT refuses only to mint.
SyTransferable == "SY" \notin paused

\* A call outside any flash mint, or one made by the flash mint's receiver
\* from inside its callback.
Idle == [receiver |-> YTC, due |-> 0]
NotEntered == flash = Idle
MayCall(u) == NotEntered \/ flash.receiver = u

\* SY that arrived and has not been accounted for, and the PT and YT that
\* wait for a redemption (get_floating_sy, _pt, _yt).
get_floating_sy == IF sy[YTC] > sy_reserve THEN sy[YTC] - sy_reserve ELSE 0
get_floating_pt == pt[YTC]
get_floating_yt == yt[YTC]

\* Every call that moves SY ends by resetting sy_reserve to the balance of the
\* ledger it leaves.
ReserveOnlyRaised(ledgr) == max(sy_reserve, ledgr[YTC])
ReserveAfter(ledgr) == ledgr[YTC]

-----------------------------------------------------------------------------
(***************************************************************************)
(* The PY index                                                            *)
(***************************************************************************)

FetchWithoutWatermark == rate
_fetch_current_index == max(rate, py_index_stored)
Captured == py_index_at_expiry # 0

\* The stored index after _update_py_index: frozen at the first call that
\* follows expiry, and not refetched twice in one block before it.
SyncedIndex ==
  IF (expired /\ Captured) \/ (~expired /\ cacheFresh)
    THEN py_index_stored
    ELSE _fetch_current_index

_update_py_index ==
  /\ py_index_stored' = SyncedIndex
  /\ IF expired
       THEN /\ py_index_at_expiry' =
                 IF Captured THEN py_index_at_expiry ELSE SyncedIndex
            /\ UNCHANGED <<cached_index, cacheFresh>>
       ELSE /\ cached_index' = IF cacheFresh THEN cached_index ELSE SyncedIndex
            /\ cacheFresh' = TRUE
            /\ UNCHANGED py_index_at_expiry

\* The view py_index_current().
ViewIgnoringExpiry ==
  IF cacheFresh /\ cached_index > 0 THEN cached_index
  ELSE _fetch_current_index
py_index_current ==
  IF expired /\ Captured THEN py_index_at_expiry
  ELSE IF cacheFresh /\ cached_index > 0 THEN cached_index
  ELSE _fetch_current_index

-----------------------------------------------------------------------------
(***************************************************************************)
(* Interest of YT holders                                                  *)
(***************************************************************************)

\* Interest, in SY, of a YT balance while the index went from i to j:
\* balance * (1/i - 1/j), each operation rounded as the code rounds it.
InterestBetween(balance, i, j) ==
  wad_div(wad_mul(balance, j - i), wad_mul(i, j))

\* What u has accrued since its last checkpoint, at index j.
NewInterest(u, j) ==
  IF user_index[u] > 0 /\ yt[u] > 0 /\ j > user_index[u]
    THEN InterestBetween(yt[u], user_index[u], j)
    ELSE 0

\* The view get_user_interest(u).
get_user_interest(u) == user_interest[u] + NewInterest(u, py_index_current)

\* _update_user_interest for the accounts of S at the synced index.  The YT
\* contract itself never accrues.
CheckpointedHolders(S) == {u \in S \ {YTC} : yt[u] > 0}
Checkpointed(S) == S \ {YTC}
IndexAfter(S) ==
  [u \in Accounts |->
     IF u \in Checkpointed(S) THEN SyncedIndex ELSE user_index[u]]
InterestOverwritten(S) ==
  [u \in Accounts |->
     IF u \in Checkpointed(S)
       THEN NewInterest(u, SyncedIndex)
       ELSE user_interest[u]]
InterestAfter(S) ==
  [u \in Accounts |->
     IF u \in Checkpointed(S)
       THEN user_interest[u] + NewInterest(u, SyncedIndex)
       ELSE user_interest[u]]

_update_user_interest(S) ==
  /\ user_index' = IndexAfter(S)
  /\ user_interest' = InterestAfter(S)

interest_fee(interest) == wad_mul(interest, interest_fee_rate)

-----------------------------------------------------------------------------
Init ==
  /\ rate \in Rates
  /\ expired = FALSE
  /\ cacheFresh = FALSE
  /\ sy = [a \in Accounts |-> IF a \in Users THEN InitialSY ELSE 0]
  /\ pt = [a \in Accounts |-> 0]
  /\ yt = [a \in Accounts |-> 0]
  /\ pt_supply = 0 /\ yt_supply = 0
  /\ py_index_stored = rate
  /\ py_index_at_expiry = 0
  /\ cached_index = 0
  /\ user_index = [a \in Accounts |-> 0]
  /\ user_interest = [a \in Accounts |-> 0]
  /\ sy_reserve = 0
  /\ interest_fee_rate = 0
  /\ post_expiry_sy_for_treasury = 0
  /\ paused = {}
  /\ flash = Idle

-----------------------------------------------------------------------------
(***************************************************************************)
(* Plain transfers: how tokens are staged at the YT contract.              *)
(***************************************************************************)

SyTransfer(u, v, n) ==
  /\ MayCall(u) /\ SyTransferable
  /\ sy[u] >= n
  /\ sy' = Move(sy, u, v, n)
  /\ UNCHANGED <<env, pt, yt, pt_supply, yt_supply, index, claims, admin,
                 sy_reserve, post_expiry_sy_for_treasury, flash>>

PtTransfer(u, v, n) ==
  /\ MayCall(u)
  /\ pt[u] >= n
  /\ pt' = Move(pt, u, v, n)
  /\ UNCHANGED <<env, sy, yt, pt_supply, yt_supply, index, claims, admin,
                 sy_reserve, post_expiry_sy_for_treasury, flash>>

\* Both parties are checkpointed before the balance moves.
YtTransfer(u, v, n) ==
  /\ MayCall(u)
  /\ yt[u] >= n
  /\ _update_py_index
  /\ _update_user_interest({u, v})
  /\ yt' = Move(yt, u, v, n)
  /\ UNCHANGED <<env, sy, pt, pt_supply, yt_supply, admin, sy_reserve,
                 post_expiry_sy_for_treasury, flash>>

-----------------------------------------------------------------------------
(***************************************************************************)
(* Minting                                                                 *)
(***************************************************************************)

MayMint == NotEntered /\ ~expired /\ {"YT", "PT"} \cap paused = {}

mint_py(receiver_pt, receiver_yt) ==
  LET amount_py == sy_to_asset(get_floating_sy, SyncedIndex) IN
  /\ MayMint
  /\ get_floating_sy > 0
  /\ _update_py_index
  /\ _update_user_interest({receiver_yt})
  /\ pt' = Credit(pt, receiver_pt, amount_py)
  /\ yt' = Credit(yt, receiver_yt, amount_py)
  /\ pt_supply' = pt_supply + amount_py
  /\ yt_supply' = yt_supply + amount_py
  /\ sy_reserve' = ReserveAfter(sy)
  /\ UNCHANGED <<env, sy, admin, post_expiry_sy_for_treasury, flash>>

\* A batch of two entries, which must use up the floating SY between them.
\* A receiver named twice is checkpointed once: the second time nothing has
\* accrued.
mint_py_multi(pts, yts, amounts) ==
  LET py1 == sy_to_asset(amounts[1], SyncedIndex)
      py2 == sy_to_asset(amounts[2], SyncedIndex)
  IN
  /\ MayMint
  /\ get_floating_sy > 0
  /\ amounts[1] + amounts[2] = get_floating_sy
  /\ amounts[1] > 0 /\ amounts[2] > 0
  /\ _update_py_index
  /\ _update_user_interest({yts[1], yts[2]})
  /\ pt' = Credit(Credit(pt, pts[1], py1), pts[2], py2)
  /\ yt' = Credit(Credit(yt, yts[1], py1), yts[2], py2)
  /\ pt_supply' = pt_supply + py1 + py2
  /\ yt_supply' = yt_supply + py1 + py2
  /\ sy_reserve' = ReserveAfter(sy)
  /\ UNCHANGED <<env, sy, admin, post_expiry_sy_for_treasury, flash>>

\* flash_mint_py up to its callback ...
FlashMintBegin(receiver, amount_sy) ==
  LET amount_py == sy_to_asset(amount_sy, SyncedIndex) IN
  /\ MayMint
  /\ amount_sy > 0
  /\ _update_py_index
  /\ _update_user_interest({receiver})
  /\ pt' = Credit(pt, receiver, amount_py)
  /\ yt' = Credit(yt, receiver, amount_py)
  /\ pt_supply' = pt_supply + amount_py
  /\ yt_supply' = yt_supply + amount_py
  /\ flash' = [receiver |-> receiver, due |-> sy[YTC] + amount_sy]
  /\ UNCHANGED <<env, sy, admin, sy_reserve, post_expiry_sy_for_treasury>>

\* ... and from its return: the SY balance must have grown by the amount.
\* A callback that leaves less reverts the transaction (it ends nowhere here).
FlashMintEnd ==
  /\ ~NotEntered
  /\ sy[YTC] >= flash.due
  /\ sy_reserve' = ReserveAfter(sy)
  /\ flash' = Idle
  /\ UNCHANGED <<env, ledger, index, claims, admin,
                 post_expiry_sy_for_treasury>>

-----------------------------------------------------------------------------
(***************************************************************************)
(* Redemption.  All of them reset sy_reserve to the balance that is left,  *)
(* floating SY included.                                                   *)
(***************************************************************************)

\* The YT contract pays n SY out of the ledger ledgr.
CanPay(ledgr, n) == ledgr[YTC] >= n
PayOut(ledgr, receiver, n) == Move(ledgr, YTC, receiver, n)

\* Interest is paid net of the fee, which goes to the treasury.
PayInterest(ledgr, receiver, interest) ==
  PayOut(PayOut(ledgr, receiver, interest - interest_fee(interest)),
         Treasury, interest_fee(interest))
CanPayInterest(ledgr, receiver, interest) ==
  /\ CanPay(ledgr, interest - interest_fee(interest))
  /\ CanPay(PayOut(ledgr, receiver, interest - interest_fee(interest)),
            interest_fee(interest))

\* Before expiry equal amounts of PT and YT must be staged.
MayMergeUnlessPaused ==
  /\ NotEntered /\ ~expired /\ SyTransferable
  /\ get_floating_pt > 0
  /\ get_floating_pt = get_floating_yt
  /\ {"YT", "PT"} \cap paused = {}
MayMerge ==
  /\ NotEntered /\ ~expired /\ SyTransferable
  /\ get_floating_pt > 0
  /\ get_floating_pt = get_floating_yt

\* A burn of more than the supply underflows and reverts.
BurnPair ==
  /\ get_floating_pt <= pt_supply /\ get_floating_yt <= yt_supply
  /\ pt' = Debit(pt, YTC, get_floating_pt)
  /\ yt' = Debit(yt, YTC, get_floating_yt)
  /\ pt_supply' = pt_supply - get_floating_pt
  /\ yt_supply' = yt_supply - get_floating_yt

redeem_py(receiver) ==
  LET amount_sy == asset_to_sy(get_floating_pt, SyncedIndex) IN
  /\ MayMerge
  /\ CanPay(sy, amount_sy)
  /\ _update_py_index
  /\ BurnPair
  /\ sy' = PayOut(sy, receiver, amount_sy)
  /\ sy_reserve' = ReserveAfter(sy')
  /\ UNCHANGED <<env, claims, admin, post_expiry_sy_for_treasury, flash>>

\* A batch of two entries, which must use up the staged pair between them.
redeem_py_multi(receivers, amounts) ==
  LET sy1 == asset_to_sy(amounts[1], SyncedIndex)
      sy2 == asset_to_sy(amounts[2], SyncedIndex)
      paid1 == PayOut(sy, receivers[1], sy1)
  IN
  /\ MayMerge
  /\ amounts[1] + amounts[2] = get_floating_pt
  /\ amounts[1] > 0 /\ amounts[2] > 0
  /\ CanPay(sy, sy1) /\ CanPay(paid1, sy2)
  /\ _update_py_index
  /\ BurnPair
  /\ sy' = PayOut(paid1, receivers[2], sy2)
  /\ sy_reserve' = ReserveAfter(sy')
  /\ UNCHANGED <<env, claims, admin, post_expiry_sy_for_treasury, flash>>

\* redeem_py_with_interest with redeem_interest set (without it, redeem_py):
\* the caller's interest goes to the receiver as well.
redeem_py_with_interest(caller, receiver) ==
  LET sy_from_redeem == asset_to_sy(get_floating_pt, SyncedIndex)
      interest == InterestAfter({caller})[caller]
      paid1 == PayOut(sy, receiver, sy_from_redeem)
  IN
  /\ MayMerge
  /\ CanPay(sy, sy_from_redeem)
  /\ CanPayInterest(paid1, receiver, interest)
  /\ _update_py_index
  /\ BurnPair
  /\ user_index' = IndexAfter({caller})
  /\ user_interest' = [InterestAfter({caller}) EXCEPT ![caller] = 0]
  /\ sy' = PayInterest(paid1, receiver, interest)
  /\ sy_reserve' = ReserveAfter(sy')
  /\ UNCHANGED <<env, admin, post_expiry_sy_for_treasury, flash>>

\* The index that _update_py_index leaves at py_index_at_expiry.
ExpiryIndex == IF Captured THEN py_index_at_expiry ELSE SyncedIndex

\* What the treasury is paid on top of the user's redemption of amount_pt:
\* the yield of that principal since expiry.
TreasuryCarveOut(amount_pt) ==
  IF rate > ExpiryIndex
    THEN InterestBetween(amount_pt, ExpiryIndex, rate)
    ELSE 0

redeem_py_post_expiry(receiver) ==
  LET user_sy == asset_to_sy(get_floating_pt, ExpiryIndex)
      treasury_sy == TreasuryCarveOut(get_floating_pt)
      paid1 == PayOut(sy, Treasury, treasury_sy)
  IN
  /\ NotEntered /\ expired /\ SyTransferable
  /\ get_floating_pt > 0
  /\ CanPay(sy, treasury_sy) /\ CanPay(paid1, user_sy)
  /\ _update_py_index
  /\ get_floating_pt <= pt_supply
  /\ pt' = Debit(pt, YTC, get_floating_pt)
  /\ pt_supply' = pt_supply - get_floating_pt
  /\ sy' = PayOut(paid1, receiver, user_sy)
  /\ post_expiry_sy_for_treasury' = post_expiry_sy_for_treasury + treasury_sy
  /\ sy_reserve' = ReserveAfter(sy')
  /\ UNCHANGED <<env, yt, yt_supply, claims, admin, flash>>

-----------------------------------------------------------------------------
(***************************************************************************)
(* Interest claims.  Anyone may claim for anyone; the user is paid.        *)
(***************************************************************************)

\* Nothing accrued: the call returns after the checkpoint.
ClaimNothing(user) ==
  /\ NotEntered
  /\ InterestAfter({user})[user] = 0
  /\ _update_py_index
  /\ _update_user_interest({user})
  /\ UNCHANGED <<env, ledger, admin, sy_reserve,
                 post_expiry_sy_for_treasury, flash>>

ClaimInterest(user) ==
  LET interest == InterestAfter({user})[user] IN
  /\ NotEntered /\ SyTransferable
  /\ interest > 0
  /\ CanPayInterest(sy, user, interest)
  /\ _update_py_index
  /\ user_index' = IndexAfter({user})
  /\ user_interest' = [InterestAfter({user}) EXCEPT ![user] = 0]
  /\ sy' = PayInterest(sy, user, interest)
  /\ sy_reserve' = ReserveAfter(sy')
  /\ UNCHANGED <<env, pt, yt, pt_supply, yt_supply, admin,
                 post_expiry_sy_for_treasury, flash>>

redeem_due_interest(user) == ClaimNothing(user) \/ ClaimInterest(user)

\* The public update_py_index; not guarded, so a flash callback may call it.
update_py_index ==
  /\ _update_py_index
  /\ UNCHANGED <<env, ledger, claims, admin, sy_reserve,
                 post_expiry_sy_for_treasury, flash>>

-----------------------------------------------------------------------------
(***************************************************************************)
(* Administration                                                          *)
(***************************************************************************)

\* total_owed of the treasury's claim: the yield since expiry of all YT.
TreasuryOwed ==
  wad_div(wad_mul(yt_supply, rate - ExpiryIndex), ExpiryIndex)

redeem_post_expiry_interest_for_treasury ==
  LET amount == TreasuryOwed - post_expiry_sy_for_treasury IN
  /\ expired
  /\ _update_py_index
  /\ IF rate > ExpiryIndex /\ TreasuryOwed > post_expiry_sy_for_treasury
       THEN /\ SyTransferable /\ CanPay(sy, amount)
            /\ post_expiry_sy_for_treasury' = TreasuryOwed
            /\ sy' = PayOut(sy, Treasury, amount)
            /\ sy_reserve' = ReserveAfter(sy')
       ELSE UNCHANGED <<sy, sy_reserve, post_expiry_sy_for_treasury>>
  /\ UNCHANGED <<env, pt, yt, pt_supply, yt_supply, claims, admin, flash>>

set_interest_fee_rate(r) ==
  /\ NotEntered
  /\ interest_fee_rate' = r
  /\ UNCHANGED <<env, ledger, index, claims, sy_reserve, paused,
                 post_expiry_sy_for_treasury, flash>>

pause(token) ==
  /\ NotEntered /\ token \notin paused
  /\ paused' = paused \cup {token}
  /\ UNCHANGED <<env, ledger, index, claims, sy_reserve, interest_fee_rate,
                 post_expiry_sy_for_treasury, flash>>

unpause(token) ==
  /\ NotEntered /\ token \in paused
  /\ paused' = paused \ {token}
  /\ UNCHANGED <<env, ledger, index, claims, sy_reserve, interest_fee_rate,
                 post_expiry_sy_for_treasury, flash>>

-----------------------------------------------------------------------------
(***************************************************************************)
(* The environment.  The rate may move either way between transactions,    *)
(* also inside a block; time passes with blocks.                           *)
(***************************************************************************)

RateChange(r) ==
  /\ NotEntered
  /\ rate' = r
  /\ UNCHANGED <<expired, ledger, index, claims, admin, sy_reserve,
                 post_expiry_sy_for_treasury, flash>>

NextBlock(isExpired) ==
  /\ NotEntered
  /\ expired => isExpired
  /\ expired' = isExpired
  /\ cacheFresh' = FALSE
  /\ UNCHANGED <<rate, ledger, py_index_stored, py_index_at_expiry,
                 cached_index, claims, admin, sy_reserve,
                 post_expiry_sy_for_treasury, flash>>

-----------------------------------------------------------------------------
Holders == Accounts \ {YTC}
Pairs(S) == {<<a, b>> : a, b \in S}

Transfer ==
  \E u \in Holders, v \in Accounts, n \in Amounts :
    SyTransfer(u, v, n) \/ PtTransfer(u, v, n) \/ YtTransfer(u, v, n)

Mint ==
  \/ \E a, b \in Accounts : mint_py(a, b)
  \/ \E u \in Users, n \in Amounts : FlashMintBegin(u, n)
  \/ FlashMintEnd

\* SY is never sent to the YT contract itself: that would only donate it.
Redeem ==
  \/ \E a \in Holders : redeem_py(a) \/ redeem_py_post_expiry(a)
  \/ \E c, a \in Holders : redeem_py_with_interest(c, a)

Batch ==
  \/ \E pts, yts \in Pairs(Accounts), m, n \in BatchAmounts :
       mint_py_multi(pts, yts, <<m, n>>)
  \/ \E rs \in Pairs(Holders), m, n \in BatchAmounts :
       redeem_py_multi(rs, <<m, n>>)

Claim == \E u \in Accounts : redeem_due_interest(u)

Admin ==
  \/ redeem_post_expiry_interest_for_treasury
  \/ \E r \in FeeRates : set_interest_fee_rate(r)
  \/ \E t \in Pausable : pause(t) \/ unpause(t)

Environment ==
  \/ \E r \in Rates : RateChange(r)
  \/ \E e \in BOOLEAN : NextBlock(e)

Next ==
  \/ Transfer \/ Mint \/ Redeem \/ Batch \/ Claim \/ update_py_index
  \/ Admin \/ Environment

Spec == Init /\ [][Next]_vars

-----------------------------------------------------------------------------
(***************************************************************************)
(* Properties                                                              *)
(***************************************************************************)

\* Every variable has its type; a flash mint in progress is one of a user's.
TypeOK ==
  /\ rate \in Rates /\ expired \in BOOLEAN /\ cacheFresh \in BOOLEAN
  /\ sy \in [Accounts -> Nat] /\ pt \in [Accounts -> Nat]
  /\ yt \in [Accounts -> Nat]
  /\ pt_supply \in Nat /\ yt_supply \in Nat
  /\ py_index_stored \in Rates /\ py_index_at_expiry \in Rates \cup {0}
  /\ cached_index \in Rates \cup {0}
  /\ user_index \in [Accounts -> Rates \cup {0}]
  /\ user_interest \in [Accounts -> Nat]
  /\ sy_reserve \in Nat /\ post_expiry_sy_for_treasury \in Nat
  /\ interest_fee_rate \in FeeRates \cup {0}
  /\ paused \subseteq Pausable
  /\ flash \in [receiver : Accounts, due : Nat]

\* sy_reserve, a cached copy of the SY balance, never exceeds it.  If it did,
\* the SY a caller stages would first fill the gap and mint too little.
ReserveBacked == sy_reserve <= sy[YTC]

\* PT and YT are minted and burned in pairs until expiry; afterwards only PT
\* is burned, by calls that capture the index, so PT never outnumbers YT.  The
\* supply of YT is the sum of its balances.
SupplyParity ==
  /\ pt_supply <= yt_supply
  /\ ~Captured => pt_supply = yt_supply
  /\ SumFunction(yt) = yt_supply

\* No holder's checkpoint is ahead of the stored index and after expiry the
\* stored index is the captured one, so the difference that interest is
\* computed from is never negative and never spans post-expiry growth.  The YT
\* that waits for a redemption accrues nothing.
CheckpointsBehindIndex ==
  /\ \A a \in Accounts : user_index[a] <= py_index_stored
  /\ \A a \in Holders : yt[a] > 0 => user_index[a] > 0
  /\ Captured => py_index_at_expiry = py_index_stored
  /\ user_interest[YTC] = 0

\* A cache hit returns the stored index and happens only before expiry; the
\* expiry index is captured only after it, and no flash mint lasts that long.
CacheCoherent ==
  /\ cacheFresh => ~expired /\ cached_index = py_index_stored
  /\ Captured => expired
  /\ expired => NotEntered

\* The copies YT keeps (its SY reserve, both supplies, the checkpoints, the
\* same-block cache of the index) agree with what they are copies of in every
\* state, callbacks of flash mints included.  This is the inductive invariant.
Consistent ==
  /\ TypeOK
  /\ ReserveBacked
  /\ SupplyParity
  /\ CheckpointsBehindIndex
  /\ CacheCoherent

\* The view py_index_current() answers what the next state-changing call
\* would use, through the same-block cache and across expiry.
ViewAgrees == py_index_current = SyncedIndex

\* What the YT contract owes at the stored index: the principal of all PT and
\* the interest of all YT holders.
Claimable(u) == user_interest[u] + NewInterest(u, py_index_stored)
Liabilities ==
  asset_to_sy(pt_supply, py_index_stored)
    + SumFunction([u \in Holders |-> Claimable(u)])

\* The same without rounding, in parts of 1/PARTS SY: an asset unit at index i,
\* the claim of u, and everything that is owed.
Worth(i) == WAD * (PARTS \div i)
Earned(u) ==
  IF user_index[u] > 0
    THEN yt[u] * (Worth(user_index[u]) - Worth(py_index_stored)) ELSE 0
Owed(u) == user_interest[u] * PARTS + Earned(u)
TotalOwed ==
  pt_supply * Worth(py_index_stored)
    + SumFunction([u \in Holders |-> Owed(u)])

\* What backs it: the accounted SY, or what a flash mint must leave, and what
\* the treasury has been paid after expiry.
Backing ==
  (IF NotEntered THEN sy_reserve ELSE flash.due) + post_expiry_sy_for_treasury
Shortfall == TotalOwed - PARTS * Backing

\* The SY that leaves in a step and the interest it credits.
PaidOut == max(sy[YTC] - sy'[YTC], 0)
Credited ==
  SumFunction([u \in Holders |-> max(user_interest'[u] - user_interest[u], 0)])

\* Everything owed is backed up to rounding: at first nothing is owed, and no
\* call, however staging, minting, flash minting, merging and claiming
\* interleave, opens a gap beyond the rounding of what it pays and credits,
\* which is about one part in WAD.
Solvent ==
  [][ (Shortfall' - Shortfall) * WAD * CUBIT_ONE
        <= PARTS * (PaidOut + Credited) * (CUBIT_ONE + 4 * WAD) ]_vars

\* The stored index is a watermark, and frozen once it is captured at expiry.
IndexWatermark ==
  [][ /\ py_index_stored' >= py_index_stored
      /\ Captured => py_index_stored' = py_index_stored
                     /\ py_index_at_expiry' = py_index_at_expiry ]_vars

\* Interest disappears only by being paid: what a user is owed shrinks by no
\* more than the SY that leaves the YT contract in the step and the rounding of
\* a checkpoint, some units and one part in CUBIT_ONE of the balance.
ClaimsOnlyPaidOut ==
  [][ \A u \in Holders :
        (Owed(u) - Owed(u)' - PARTS * PaidOut) * CUBIT_ONE
          <= PARTS * (yt[u] + 2 * CUBIT_ONE + 4 * WAD) ]_vars

\* Holders gain interest only from index growth over a balance they held: a
\* step that leaves the index alone raises nobody's claim, in particular not
\* that of the receiver of a transfer or a mint.
NoUnearnedInterest ==
  [][ py_index_stored' = py_index_stored
        => \A u \in Holders : Claimable(u)' <= Claimable(u) ]_vars

\* While SY moves, nothing shuts the way out: before expiry a matched pair can
\* be merged and accrued interest claimed, by anyone, whichever of PT and YT
\* is paused, as long as the SY is there (of which Solvent speaks).
WaysOutOpen ==
  NotEntered /\ ~expired /\ SyTransferable =>
    \A u \in Holders :
      /\ get_floating_pt > 0 /\ get_floating_pt = get_floating_yt
           /\ CanPay(sy, asset_to_sy(get_floating_pt, py_index_current))
           => ENABLED redeem_py(u)
      /\ get_user_interest(u) \in 1..sy[YTC] => ENABLED ClaimInterest(u)

-----------------------------------------------------------------------------
(***************************************************************************)
(* What the documents say and the code does not do                         *)
(***************************************************************************)

\* The whitepaper on mass redemption: no run-induced insolvency, redemption is
\* always possible; so the SY held covers what is owed, after expiry too.
FullyBacked == NotEntered => Liabilities <= sy[YTC]

=============================================================================

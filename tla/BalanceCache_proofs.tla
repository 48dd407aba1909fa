------------------------- MODULE BalanceCache_proofs -------------------------
(***************************************************************************)
(* What a page never shows, for any balances, amounts, pages, numbers of   *)
(* overlapping mutations, transfers and failed requests.                   *)
(*                                                                         *)
(* The properties are about single steps; they hold because of what        *)
(* earlier steps left: no request is in flight for a token whose answer    *)
(* would be too old, and what a refusal would restore is still right.      *)
(***************************************************************************)
EXTENDS BalanceCache, SequenceTheorems, TLAPS

Changes == UNION {[S -> Int] : S \in SUBSET Tokens}
Balances == Nat \cup {undefined}
Pictures == UNION {[S -> Balances] : S \in SUBSET Tokens}

\* What has been begun; what a refusal restores was recorded.
Stages == {"signing", "submitted", "included", "over"}
Mutations ==
  {m \in [stage : Stages, awaited : BOOLEAN, change : Changes, restored : SUBSET Tokens,
          refetched : SUBSET Tokens, previous : Pictures, untouched : SUBSET Tokens] :
     m.restored \subseteq DOMAIN m.previous}

TypeOK ==
  /\ watched \in Pages
  /\ chain \in [Tokens -> Nat] /\ version \in [Tokens -> Nat]
  /\ cache \in [Tokens -> Balances]
  /\ fetch \in [Tokens -> [at : {"none", "asked", "read"}, value : Nat, version : Nat]]
  /\ mutations \in Seq(Mutations)
  /\ events \in Nat /\ overtaken \subseteq Tokens /\ owed \in [Tokens -> Nat]

\* A request in flight was asked for after the last optimistic update of its
\* token, and by a mounted hook.
RequestsRecent ==
  \A t \in Tokens : t \in overtaken \/ t \notin watched => fetch[t] = NoFetch

\* An answer that was read is no older than the last success after which the
\* balance was asked for anew.
AnswersRecent ==
  \A t \in Tokens :
    /\ owed[t] <= version[t]
    /\ fetch[t].at = "read" => owed[t] <= fetch[t].version

\* What nothing has written since an optimistic update is what its refusal
\* restores, or it was unknown and still is.
RefusalsExact ==
  \A i \in DOMAIN mutations : \A t \in mutations[i].untouched :
    /\ t \in mutations[i].restored
    /\ mutations[i].previous[t] = undefined => cache[t] = undefined

Consistent == TypeOK /\ RequestsRecent /\ AnswersRecent /\ RefusalsExact

-----------------------------------------------------------------------------
(* What the hooks show *)

\* A shift of one token, and of several.
LEMMA ShiftType ==
  ASSUME NEW t \in Tokens, NEW n \in Int PROVE Shift(t, n) \in [{t} -> Int]
BY DEF Shift

LEMMA CombineType ==
  ASSUME NEW S, NEW T, NEW f \in [S -> Int], NEW g \in [T -> Int]
  PROVE  f ++ g \in [S \cup T -> Int]
BY DEF ++

LEMMA TwoShifts ==
  ASSUME NEW s \in Tokens, NEW t \in Tokens, NEW m \in Int, NEW n \in Int
  PROVE  Shift(s, m) ++ Shift(t, n) \in [{s, t} -> Int]
<1>1. Shift(s, m) ++ Shift(t, n) \in [{s} \cup {t} -> Int]
  BY ShiftType, CombineType
<1>2. {s} \cup {t} = {s, t}
  OBVIOUS
<1> QED BY <1>1, <1>2

LEMMA ThreeShifts ==
  ASSUME NEW r \in Tokens, NEW s \in Tokens, NEW t \in Tokens,
         NEW l \in Int, NEW m \in Int, NEW n \in Int
  PROVE  Shift(r, l) ++ Shift(s, m) ++ Shift(t, n) \in [{r, s, t} -> Int]
<1>1. Shift(r, l) ++ Shift(s, m) \in [{r, s} -> Int] /\ Shift(t, n) \in [{t} -> Int]
  BY ShiftType, TwoShifts
<1>2. (Shift(r, l) ++ Shift(s, m)) ++ Shift(t, n) \in [{r, s} \cup {t} -> Int]
  BY <1>1, CombineType
<1>3. {r, s} \cup {t} = {r, s, t}
  OBVIOUS
<1> QED BY <1>2, <1>3

LEMMA TokenNames ==
  /\ SY \in Tokens /\ PT \in Tokens /\ YT \in Tokens /\ LP \in Tokens
  /\ LPnew \in Tokens /\ Token \in Tokens /\ Underlying \in Tokens
BY DEF Tokens

LEMMA AmountsInt ==
  /\ Amount \in Int /\ -Amount \in Int /\ Minimum \in Int /\ Initial \in Nat
  /\ MaxEvents \in Nat
BY CacheAssumption

\* A change of some tokens, all of which a refusal restores.
Fits(shown, restored) ==
  /\ restored \subseteq Tokens
  /\ \E S \in SUBSET restored : shown \in [S -> Int]

LEMMA SwapFits ==
  ASSUME NEW d \in {"buy_pt", "sell_pt", "buy_yt", "sell_yt"}
  PROVE  Fits(useSwap_onMutate(d, Amount, Minimum), useSwap_onError(d))
<1> DEFINE r == resolveSwapTokens(d)
<1>1. r.input \in Tokens /\ r.output \in Tokens
  BY TokenNames DEF resolveSwapTokens
<1>2. useSwap_onMutate(d, Amount, Minimum) \in [{r.input, r.output} -> Int]
  BY <1>1, AmountsInt, TwoShifts DEF useSwap_onMutate
<1> QED BY <1>1, <1>2 DEF Fits, useSwap_onError

\* Every hook restores all that it shows.
LEMMA ShownIsRestored == \A m \in Optimistic : Fits(m.shown, m.restored)
<1> DEFINE n == Amount   k == Minimum
<1>1. ASSUME NEW s \in Tokens, NEW a \in Int PROVE Fits(Shift(s, a), {s})
  BY ShiftType DEF Fits
<1>2. ASSUME NEW s \in Tokens, NEW t \in Tokens, NEW a \in Int, NEW b \in Int
      PROVE  Fits(Shift(s, a) ++ Shift(t, b), {s, t})
  BY TwoShifts DEF Fits
<1>3. ASSUME NEW r \in Tokens, NEW s \in Tokens, NEW t \in Tokens,
             NEW a \in Int, NEW b \in Int, NEW c \in Int
      PROVE  Fits(Shift(r, a) ++ Shift(s, b) ++ Shift(t, c), {r, s, t})
  BY ThreeShifts DEF Fits
<1>4. n \in Int /\ -n \in Int /\ k \in Int
  BY AmountsInt
<1>5. /\ Fits(useSwapTokenForPt_onMutate(n), useSwapTokenForPt_onError)
      /\ Fits(useSwapPtForToken_onMutate(n), useSwapPtForToken_onError)
      /\ Fits(useSwapTokenForYt_onMutate(n), useSwapTokenForYt_onError)
  BY <1>1, <1>4, TokenNames DEF useSwapTokenForPt_onMutate,
     useSwapTokenForPt_onError, useSwapPtForToken_onMutate, useSwapPtForToken_onError,
     useSwapTokenForYt_onMutate, useSwapTokenForYt_onError
<1>6. /\ Fits(useSwapSyForPtWithApprox_onMutate(n, k), useSwapSyForPtWithApprox_onError)
      /\ Fits(useSwapYtForToken_onMutate(n, n), useSwapYtForToken_onError)
      /\ Fits(useRedeemPtPostExpiry_onMutate(n, k), useRedeemPtPostExpiry_onError)
  BY <1>2, <1>4, TokenNames DEF useSwapSyForPtWithApprox_onMutate,
     useSwapSyForPtWithApprox_onError, useSwapYtForToken_onMutate,
     useSwapYtForToken_onError, useRedeemPtPostExpiry_onMutate,
     useRedeemPtPostExpiry_onError
<1>7. /\ Fits(useAddLiquiditySingleSy_onMutate(n, k), useAddLiquiditySingleSy_onError)
      /\ Fits(useAddLiquiditySinglePt_onMutate(n, k), useAddLiquiditySinglePt_onError)
      /\ Fits(useAddLiquiditySingleSyWithApprox_onMutate(n, k),
              useAddLiquiditySingleSyWithApprox_onError)
      /\ Fits(useAddLiquiditySingleToken_onMutate(n, k), useAddLiquiditySingleToken_onError)
  BY <1>2, <1>4, TokenNames DEF useAddLiquiditySingleSy_onMutate,
     useAddLiquiditySingleSy_onError, useAddLiquiditySinglePt_onMutate,
     useAddLiquiditySinglePt_onError, useAddLiquiditySingleSyWithApprox_onMutate,
     useAddLiquiditySingleSyWithApprox_onError, useAddLiquiditySingleToken_onMutate,
     useAddLiquiditySingleToken_onError
<1>8. /\ Fits(useRemoveLiquiditySingleSy_onMutate(n, k), useRemoveLiquiditySingleSy_onError)
      /\ Fits(useRemoveLiquiditySinglePt_onMutate(n, k), useRemoveLiquiditySinglePt_onError)
      /\ Fits(useRemoveLiquiditySingleToken_onMutate(n, k),
              useRemoveLiquiditySingleToken_onError)
      /\ Fits(useRolloverLp_onMutate(n, k), useRolloverLp_onError)
  BY <1>2, <1>4, TokenNames DEF useRemoveLiquiditySingleSy_onMutate,
     useRemoveLiquiditySingleSy_onError, useRemoveLiquiditySinglePt_onMutate,
     useRemoveLiquiditySinglePt_onError, useRemoveLiquiditySingleToken_onMutate,
     useRemoveLiquiditySingleToken_onError, useRolloverLp_onMutate, useRolloverLp_onError
<1>9. Fits(useRedeemPy_onMutate(n, k), useRedeemPy_onError)
  BY <1>3, <1>4, TokenNames DEF useRedeemPy_onMutate, useRedeemPy_onError
<1>10. Fits(useRedeemPyWithInterest_onMutate(n), useRedeemPyWithInterest_onError)
  BY <1>3, <1>4, TokenNames DEF useRedeemPyWithInterest_onMutate,
     useRedeemPyWithInterest_onError
<1>11. Fits(useAddLiquidity_onMutate(n, n, k), useAddLiquidity_onError)
  BY <1>3, <1>4, TokenNames DEF useAddLiquidity_onMutate, useAddLiquidity_onError
<1>12. Fits(useRemoveLiquidity_onMutate(n, k, k), useRemoveLiquidity_onError)
  BY <1>3, <1>4, TokenNames DEF useRemoveLiquidity_onMutate, useRemoveLiquidity_onError
<1>13. Fits(useAddLiquiditySingleTokenKeepYt_onMutate(n, k, k),
            useAddLiquiditySingleTokenKeepYt_onError)
  BY <1>3, <1>4, TokenNames DEF useAddLiquiditySingleTokenKeepYt_onMutate,
     useAddLiquiditySingleTokenKeepYt_onError
<1> QED BY <1>5, <1>6, <1>7, <1>8, <1>9, <1>10, <1>11, <1>12, <1>13, SwapFits
       DEF Optimistic

\* What useTransaction refetches, and what its transactions move.
LEMMA AwaitedType ==
  \A m \in Awaited : /\ m.refetched \subseteq Tokens
                     /\ \E S \in SUBSET Tokens : m.change \in [S -> Int]
<1>1. Amount \in Int /\ -Amount \in Int /\ Minimum \in Int
  BY AmountsInt
<1> DEFINE Moves(change) == \E S \in SUBSET Tokens : change \in [S -> Int]
<1>2. ASSUME NEW s \in Tokens, NEW t \in Tokens, NEW a \in Int, NEW b \in Int
      PROVE  Moves(Shift(s, a) ++ Shift(t, b))
  <2>1. {s, t} \in SUBSET Tokens
    OBVIOUS
  <2> QED BY <2>1, TwoShifts
<1>3. ASSUME NEW r \in Tokens, NEW s \in Tokens, NEW t \in Tokens,
             NEW a \in Int, NEW b \in Int, NEW c \in Int
      PROVE  Moves(Shift(r, a) ++ Shift(s, b) ++ Shift(t, c))
  <2>1. {r, s, t} \in SUBSET Tokens
    OBVIOUS
  <2> QED BY <2>1, ThreeShifts
<1>4. Moves(Shift(SY, Minimum))
  <2>1. {SY} \in SUBSET Tokens
    BY TokenNames
  <2> QED BY <1>1, <2>1, TokenNames, ShiftType
<1> HIDE DEF Moves
<1>5. /\ Moves(Shift(SY, -Amount) ++ Shift(PT, Minimum) ++ Shift(YT, Minimum))
      /\ Moves(Shift(Underlying, -Amount) ++ Shift(PT, Minimum) ++ Shift(YT, Minimum))
      /\ Moves(Shift(PT, -Amount) ++ Shift(YT, -Amount) ++ Shift(Underlying, Minimum))
  BY <1>1, <1>3, TokenNames
<1>6. /\ Moves(Shift(Underlying, -Amount) ++ Shift(SY, Minimum))
      /\ Moves(Shift(SY, -Amount) ++ Shift(Underlying, Minimum))
  BY <1>1, <1>2, TokenNames
<1>8. \A m \in Awaited : m.refetched \subseteq Tokens /\ Moves(m.change)
  BY <1>4, <1>5, <1>6, TokenNames DEF Awaited
<1> QED BY <1>8 DEF Moves

\* What of it concerns a page.
LEMMA ShownOnPage ==
  ASSUME watched \in Pages, NEW m \in OnPage[watched]
  PROVE  /\ watched \subseteq Tokens /\ m.restored \subseteq watched
         /\ DOMAIN m.shown \subseteq watched \cap m.restored
         /\ m.shown \in [DOMAIN m.shown -> Int]
<1>1. watched \subseteq Tokens
  BY CacheAssumption
<1>2. PICK o \in Optimistic :
        m = [shown |-> Restrict(o.shown, DOMAIN o.shown \cap watched),
             restored |-> o.restored \cap watched]
  BY DEF OnPage
<1>3. PICK S \in SUBSET o.restored : o.shown \in [S -> Int]
  BY ShownIsRestored DEF Fits
<1>4. m.shown = [t \in S \cap watched |-> o.shown[t]]
  BY <1>2, <1>3 DEF Restrict
<1>5. m.restored = o.restored \cap watched
  BY <1>2
<1> QED BY <1>1, <1>3, <1>4, <1>5

LEMMA AwaitedOnThePage ==
  ASSUME watched \in Pages, NEW m \in AwaitedOnPage[watched]
  PROVE  m.change \in Changes /\ m.refetched \subseteq Tokens
<1>1. PICK o \in Awaited :
        m = [change |-> Restrict(o.change, DOMAIN o.change \cap watched),
             refetched |-> o.refetched \cap watched]
  BY DEF AwaitedOnPage
<1>2. PICK S \in SUBSET Tokens : o.change \in [S -> Int]
  BY AwaitedType
<1>3. m.change = [t \in S \cap watched |-> o.change[t]]
  BY <1>1, <1>2 DEF Restrict
<1>4. m.change \in [S \cap watched -> Int] /\ S \cap watched \in SUBSET Tokens
  BY <1>2, <1>3
<1>5. m.refetched \subseteq Tokens
  BY <1>1, AwaitedType
<1> QED BY <1>4, <1>5 DEF Changes

LEMMA ChangeFacts ==
  ASSUME NEW c \in Changes
  PROVE  DOMAIN c \subseteq Tokens /\ \A t \in DOMAIN c : c[t] \in Int
BY DEF Changes

-----------------------------------------------------------------------------
(* What has been begun *)

LEMMA EmptyPicture == None \in Changes /\ None \in Pictures
<1>1. None \in [{} -> Int] /\ None \in [{} -> Balances] /\ {} \in SUBSET Tokens
  BY DEF None
<1> QED BY <1>1 DEF Changes, Pictures

LEMMA OverType == Over \in Mutations /\ Over.untouched = {}
BY EmptyPicture DEF Over, Mutations, Stages

\* A sequence that is rewritten in place.
LEMMA Rewritten ==
  ASSUME NEW s \in Seq(Mutations), NEW g, g = [i \in DOMAIN s |-> g[i]],
         \A i \in DOMAIN s : g[i] \in Mutations
  PROVE  g \in Seq(Mutations) /\ DOMAIN g = DOMAIN s
<1>1. DOMAIN s = 1..Len(s) /\ Len(s) \in Nat
  OBVIOUS
<1>2. g \in [1..Len(s) -> Mutations]
  BY <1>1
<1> QED BY <1>1, <1>2

LEMMA Appended ==
  ASSUME NEW s \in Seq(Mutations), NEW m \in Mutations
  PROVE  /\ Append(s, m) \in Seq(Mutations)
         /\ \A i \in DOMAIN Append(s, m) :
              \/ i \in DOMAIN s /\ Append(s, m)[i] = s[i]
              \/ Append(s, m)[i] = m
OBVIOUS

\* m when the balances of X have been written by something else.
Touched(m, X) == [m EXCEPT !.untouched = @ \ X]

LEMMA TouchedType ==
  ASSUME NEW m \in Mutations, NEW X
  PROVE  /\ Touched(m, X) \in Mutations
         /\ Touched(m, X).restored = m.restored /\ Touched(m, X).previous = m.previous
         /\ Touched(m, X).untouched = m.untouched \ X
BY DEF Touched, Mutations

\* What a refusal of entry i would restore is as exact as before.
Kept(i) ==
  \/ mutations'[i].untouched = {}
  \/ /\ i \in DOMAIN mutations
     /\ mutations'[i].restored = mutations[i].restored
     /\ mutations'[i].previous = mutations[i].previous
     /\ mutations'[i].untouched \subseteq mutations[i].untouched
     /\ \A t \in mutations'[i].untouched : cache'[t] = cache[t]

LEMMA RefusalsKept ==
  ASSUME Consistent, \A i \in DOMAIN mutations' : Kept(i) PROVE RefusalsExact'
BY DEF Consistent, RefusalsExact, Kept

\* Nothing that was begun is touched, and no balance is written.
LEMMA RefusalsSame ==
  ASSUME Consistent, UNCHANGED <<mutations, cache>> PROVE RefusalsExact'
BY DEF Consistent, RefusalsExact

\* What is refetched is asked for now, unless a first request is joined.
LEMMA RefetchedType ==
  ASSUME Consistent, NEW X
  PROVE  /\ Refetched(X) \in
              [Tokens -> [at : {"none", "asked", "read"}, value : Nat, version : Nat]]
         /\ \A t \in Tokens :
              Refetched(X)[t] = IF t \in Renewed(X) THEN Asked ELSE fetch[t]
         /\ Renewed(X) \subseteq watched
BY DEF Consistent, TypeOK, Refetched, Renewed, Asked, NoFetch

-----------------------------------------------------------------------------
(* One lemma per action *)

LEMMA PollStep == ASSUME Consistent, NEW t \in Tokens, Poll(t) PROVE Consistent'
<1>1. TypeOK'
  BY DEF Consistent, TypeOK, Poll, Asked, NoFetch
<1>2. RequestsRecent'
  BY DEF Consistent, TypeOK, RequestsRecent, Poll
<1>3. AnswersRecent'
  BY DEF Consistent, TypeOK, AnswersRecent, Poll, Asked, NoFetch
<1>4. RefusalsExact'
  BY RefusalsSame DEF Poll
<1> QED BY <1>1, <1>2, <1>3, <1>4 DEF Consistent

LEMMA ReadStep == ASSUME Consistent, NEW t \in Tokens, Read(t) PROVE Consistent'
<1>1. TypeOK'
  BY DEF Consistent, TypeOK, Read
<1>2. RequestsRecent'
  BY DEF Consistent, TypeOK, RequestsRecent, Read, NoFetch
<1>3. AnswersRecent'
  BY DEF Consistent, TypeOK, AnswersRecent, Read
<1>4. RefusalsExact'
  BY RefusalsSame DEF Read
<1> QED BY <1>1, <1>2, <1>3, <1>4 DEF Consistent

LEMMA DeliverStep == ASSUME Consistent, NEW t \in Tokens, Deliver(t) PROVE Consistent'
<1>1. /\ mutations' = [i \in DOMAIN mutations |-> Touched(mutations[i], {t})]
      /\ mutations \in Seq(Mutations)
  BY DEF Deliver, Touched, Consistent, TypeOK
<1>2. \A i \in DOMAIN mutations : mutations[i] \in Mutations
  BY <1>1
<1>3. mutations' \in Seq(Mutations) /\ DOMAIN mutations' = DOMAIN mutations
  BY <1>1, <1>2, TouchedType, Rewritten
<1>4. TypeOK'
  BY <1>3 DEF Consistent, TypeOK, Deliver, NoFetch, Balances
<1>5. RequestsRecent' /\ AnswersRecent'
  BY DEF Consistent, TypeOK, RequestsRecent, AnswersRecent, Deliver, NoFetch
<1>6. ASSUME NEW i \in DOMAIN mutations' PROVE Kept(i)
  <2>1. /\ mutations'[i].restored = mutations[i].restored
        /\ mutations'[i].previous = mutations[i].previous
        /\ mutations'[i].untouched = mutations[i].untouched \ {t}
    BY <1>1, <1>2, <1>3, TouchedType
  <2>2. mutations[i].untouched \subseteq Tokens
    BY <1>2, <1>3 DEF Mutations
  <2>3. \A s \in Tokens \ {t} : cache'[s] = cache[s]
    BY DEF Deliver, Consistent, TypeOK
  <2> QED BY <1>3, <2>1, <2>2, <2>3 DEF Kept
<1> QED BY <1>4, <1>5, <1>6, RefusalsKept DEF Consistent

LEMMA FetchFailsStep ==
  ASSUME Consistent, NEW t \in Tokens, FetchFails(t) PROVE Consistent'
<1>1. TypeOK'
  BY DEF Consistent, TypeOK, FetchFails, NoFetch
<1>2. RequestsRecent' /\ AnswersRecent'
  BY DEF Consistent, TypeOK, RequestsRecent, AnswersRecent, FetchFails, NoFetch
<1>3. RefusalsExact'
  BY RefusalsSame DEF FetchFails
<1> QED BY <1>1, <1>2, <1>3 DEF Consistent

LEMMA TransferStep ==
  ASSUME Consistent, NEW t \in Tokens, Transfer(t) PROVE Consistent'
<1>1. TypeOK'
  BY DEF Consistent, TypeOK, Transfer
<1>2. RequestsRecent' /\ AnswersRecent'
  BY DEF Consistent, TypeOK, RequestsRecent, AnswersRecent, Transfer
<1>3. RefusalsExact'
  BY RefusalsSame DEF Transfer
<1> QED BY <1>1, <1>2, <1>3 DEF Consistent

LEMMA MutateStep ==
  ASSUME Consistent, NEW m \in OnPage[watched], Mutate(m) PROVE Consistent'
<1> DEFINE shown == DOMAIN m.shown
           begun == [stage |-> "signing", awaited |-> FALSE, change |-> m.shown,
                     restored |-> m.restored, refetched |-> {},
                     previous |-> [t \in watched |-> cache[t]], untouched |-> shown]
           others == [i \in DOMAIN mutations |-> Touched(mutations[i], shown)]
<1>1. /\ watched \subseteq Tokens /\ m.restored \subseteq watched
      /\ shown \subseteq watched \cap m.restored
      /\ m.shown \in [shown -> Int]
  BY ShownOnPage DEF Consistent, TypeOK
<1>2. begun \in Mutations
  <2>1. m.shown \in Changes
    BY <1>1 DEF Changes
  <2>2. [t \in watched |-> cache[t]] \in Pictures
    BY <1>1 DEF Pictures, Consistent, TypeOK
  <2> QED BY <1>1, <2>1, <2>2 DEF Mutations, Stages
<1>3. mutations \in Seq(Mutations) /\ \A i \in DOMAIN mutations : mutations[i] \in Mutations
  BY DEF Consistent, TypeOK
<1>4. others \in Seq(Mutations) /\ DOMAIN others = DOMAIN mutations
  BY <1>3, TouchedType, Rewritten
<1>5. mutations' = Append(others, begun)
  BY DEF Mutate, Touched
<1>6. /\ mutations' \in Seq(Mutations)
      /\ \A i \in DOMAIN mutations' :
           \/ i \in DOMAIN mutations /\ mutations'[i] = Touched(mutations[i], shown)
           \/ mutations'[i] = begun
  <2> HIDE DEF begun
  <2> QED BY <1>2, <1>4, <1>5, Appended
<1>7. cache' \in [Tokens -> Balances] /\ \A t \in Tokens \ shown : cache'[t] = cache[t]
  <2>1. cache' = [t \in Tokens |->
          IF t \in Known(shown) THEN Larger(cache[t] + m.shown[t], 0) ELSE cache[t]]
    BY DEF Mutate
  <2>2. ASSUME NEW t \in Known(shown)
        PROVE  Larger(cache[t] + m.shown[t], 0) \in Nat
    <3>1. t \in shown /\ t \in Tokens /\ cache[t] # undefined
      BY <1>1 DEF Known
    <3>2. cache[t] \in Nat
      BY <3>1 DEF Consistent, TypeOK, Balances
    <3>3. m.shown[t] \in Int
      BY <1>1, <3>1
    <3> QED BY <3>2, <3>3 DEF Larger
  <2>3. \A t \in Tokens : cache[t] \in Balances
    BY DEF Consistent, TypeOK
  <2>4. Known(shown) \subseteq shown
    BY DEF Known
  <2> QED BY <2>1, <2>2, <2>3, <2>4 DEF Balances
<1>8. TypeOK'
  BY <1>1, <1>6, <1>7 DEF Consistent, TypeOK, Mutate, Cancelled, NoFetch
<1>9. RequestsRecent' /\ AnswersRecent'
  BY DEF Consistent, TypeOK, RequestsRecent, AnswersRecent, Mutate, Cancelled, NoFetch
<1>10. ASSUME NEW i \in DOMAIN mutations', NEW t \in mutations'[i].untouched
       PROVE  /\ t \in mutations'[i].restored
              /\ mutations'[i].previous[t] = undefined => cache'[t] = undefined
  <2>1. CASE i \in DOMAIN mutations /\ mutations'[i] = Touched(mutations[i], shown)
    <3>1. t \in mutations[i].untouched \ shown
      BY <1>3, <2>1, TouchedType
    <3>2. t \in Tokens
      BY <1>3, <2>1, <3>1 DEF Mutations
    <3> QED BY <1>3, <1>7, <2>1, <3>1, <3>2, TouchedType DEF Consistent, RefusalsExact
  <2>2. CASE mutations'[i] = begun
    <3>1. t \in shown /\ t \in watched /\ t \in m.restored /\ t \in Tokens
      BY <1>1, <2>2
    <3>2. cache[t] = undefined => cache'[t] = cache[t]
      BY <3>1 DEF Mutate, Known
    <3> QED BY <2>2, <3>1, <3>2
  <2> QED BY <1>6, <2>1, <2>2
<1> QED BY <1>8, <1>9, <1>10 DEF Consistent, RefusalsExact

LEMMA RejectStep ==
  ASSUME Consistent, NEW i \in DOMAIN mutations, Reject(i) PROVE Consistent'
<1> DEFINE m == mutations[i]
<1>1. mutations \in Seq(Mutations) /\ \A j \in DOMAIN mutations : mutations[j] \in Mutations
  BY DEF Consistent, TypeOK
<1>2. /\ mutations' = [j \in DOMAIN mutations |->
             IF j = i THEN Over ELSE Touched(mutations[j], m.restored)]
      /\ cache' = [t \in Tokens |->
             IF t \in m.restored /\ m.previous[t] # undefined
               THEN m.previous[t] ELSE cache[t]]
      /\ fetch' = Refetched(Tokens) /\ overtaken' = overtaken \ Renewed(Tokens)
      /\ UNCHANGED <<watched, chain, version, events, owed>>
  BY DEF Reject, Touched
<1>3. mutations' \in Seq(Mutations) /\ DOMAIN mutations' = DOMAIN mutations
  BY <1>1, <1>2, OverType, TouchedType, Rewritten
<1>4. cache' \in [Tokens -> Balances]
  <2>1. PICK S \in SUBSET Tokens : m.previous \in [S -> Balances]
    BY <1>1 DEF Mutations, Pictures
  <2>2. m.restored \subseteq DOMAIN m.previous
    BY <1>1 DEF Mutations
  <2> QED BY <1>2, <2>1, <2>2 DEF Consistent, TypeOK
<1>5. TypeOK'
  BY <1>2, <1>3, <1>4, RefetchedType DEF Consistent, TypeOK
<1>6. RequestsRecent' /\ AnswersRecent'
  <2>1. \A t \in Tokens :
          fetch'[t] = IF t \in Renewed(Tokens) THEN Asked ELSE fetch[t]
    BY <1>2, RefetchedType
  <2> QED BY <1>2, <2>1, RefetchedType
          DEF Consistent, TypeOK, RequestsRecent, AnswersRecent, Asked, NoFetch
<1>7. ASSUME NEW j \in DOMAIN mutations' PROVE Kept(j)
  <2>1. CASE j = i
    BY <1>2, <1>3, <2>1, OverType DEF Kept
  <2>2. CASE j # i
    <3>1. /\ mutations'[j].restored = mutations[j].restored
          /\ mutations'[j].previous = mutations[j].previous
          /\ mutations'[j].untouched = mutations[j].untouched \ m.restored
      BY <1>1, <1>2, <1>3, <2>2, TouchedType
    <3>2. mutations[j].untouched \subseteq Tokens
      BY <1>1, <1>3 DEF Mutations
    <3>3. \A t \in Tokens \ m.restored : cache'[t] = cache[t]
      BY <1>2
    <3> QED BY <1>3, <3>1, <3>2, <3>3 DEF Kept
  <2> QED BY <2>1, <2>2
<1> QED BY <1>5, <1>6, <1>7, RefusalsKept DEF Consistent

\* Entry i moves on, to m, and no balance is written: m restores nothing more.
LEMMA MovesOn ==
  ASSUME Consistent, NEW i \in DOMAIN mutations, NEW m \in Mutations,
         mutations' = [mutations EXCEPT ![i] = m], cache' = cache,
         \/ m.untouched = {}
         \/ /\ m.restored = mutations[i].restored
            /\ m.previous = mutations[i].previous
            /\ m.untouched = mutations[i].untouched
  PROVE  mutations' \in Seq(Mutations) /\ RefusalsExact'
<1>1. mutations \in Seq(Mutations)
  BY DEF Consistent, TypeOK
<1>2. /\ mutations' = [j \in DOMAIN mutations |-> IF j = i THEN m ELSE mutations[j]]
      /\ \A j \in DOMAIN mutations : mutations[j] \in Mutations
  <2>1. \A j \in DOMAIN mutations : mutations[j] \in Mutations
    BY <1>1
  <2>2. mutations' = [j \in DOMAIN mutations |-> IF j = i THEN m ELSE mutations[j]]
    OBVIOUS
  <2> QED BY <2>1, <2>2
<1>3. mutations' \in Seq(Mutations) /\ DOMAIN mutations' = DOMAIN mutations
  BY <1>1, <1>2, Rewritten
<1>4. \A j \in DOMAIN mutations' : Kept(j)
  BY <1>2, <1>3 DEF Kept
<1> QED BY <1>3, <1>4, RefusalsKept

LEMMA SubmitStep ==
  ASSUME Consistent, NEW i \in DOMAIN mutations, Submit(i) PROVE Consistent'
<1> DEFINE m == [mutations[i] EXCEPT !.stage = "submitted", !.restored = {},
                                     !.previous = None, !.untouched = {}]
<1>1. mutations[i] \in Mutations
  BY DEF Consistent, TypeOK
<1>2. m \in Mutations /\ m.untouched = {}
  BY <1>1, EmptyPicture DEF Mutations, Stages
<1>3. mutations' = [mutations EXCEPT ![i] = m] /\ cache' = cache
  BY DEF Submit
<1>4. mutations' \in Seq(Mutations) /\ RefusalsExact'
  <2> HIDE DEF m
  <2> QED BY <1>2, <1>3, MovesOn
<1>5. /\ \A t \in Tokens : fetch'[t] = IF t \in Renewed(Tokens) THEN Asked ELSE fetch[t]
      /\ Renewed(Tokens) \subseteq watched
  BY RefetchedType DEF Submit
<1>6. TypeOK'
  BY <1>4, RefetchedType DEF Consistent, TypeOK, Submit
<1>7. RequestsRecent' /\ AnswersRecent'
  BY <1>5 DEF Consistent, TypeOK, RequestsRecent, AnswersRecent, Submit, Asked, NoFetch
<1> QED BY <1>4, <1>6, <1>7 DEF Consistent

LEMMA ExecuteStep ==
  ASSUME Consistent, NEW m \in AwaitedOnPage[watched], Execute(m) PROVE Consistent'
<1> DEFINE begun == [stage |-> "signing", awaited |-> TRUE, change |-> m.change,
                     restored |-> {}, refetched |-> m.refetched, previous |-> None,
                     untouched |-> {}]
<1>1. begun \in Mutations /\ begun.untouched = {}
  BY AwaitedOnThePage, EmptyPicture DEF Consistent, TypeOK, Mutations, Stages
<1>2. mutations \in Seq(Mutations) /\ mutations' = Append(mutations, begun)
  BY DEF Execute, Consistent, TypeOK
<1> HIDE DEF begun
<1>3. /\ mutations' \in Seq(Mutations)
      /\ \A i \in DOMAIN mutations' :
           \/ i \in DOMAIN mutations /\ mutations'[i] = mutations[i]
           \/ mutations'[i] = begun
  BY <1>1, <1>2, Appended
<1>4. \A i \in DOMAIN mutations' : Kept(i)
  BY <1>1, <1>3 DEF Kept, Execute
<1>5. TypeOK'
  BY <1>3 DEF Consistent, TypeOK, Execute
<1>6. RequestsRecent' /\ AnswersRecent'
  BY DEF Consistent, RequestsRecent, AnswersRecent, Execute
<1> QED BY <1>4, <1>5, <1>6, RefusalsKept DEF Consistent

LEMMA AnsweredStep ==
  ASSUME Consistent, NEW i \in DOMAIN mutations, Answered(i) PROVE Consistent'
<1> DEFINE m == [mutations[i] EXCEPT !.stage = "submitted"]
<1>1. mutations \in Seq(Mutations) /\ mutations[i] \in Mutations
  BY DEF Consistent, TypeOK
<1>2. /\ m \in Mutations /\ m.restored = mutations[i].restored
      /\ m.previous = mutations[i].previous /\ m.untouched = mutations[i].untouched
  BY <1>1 DEF Mutations, Stages
<1>3. \/ mutations' = [mutations EXCEPT ![i] = m]
      \/ mutations' = [mutations EXCEPT ![i] = Over]
  BY DEF Answered
<1>4. cache' = cache
  BY DEF Answered
<1> HIDE DEF m
<1>5. mutations' \in Seq(Mutations) /\ RefusalsExact'
  BY <1>2, <1>3, <1>4, OverType, MovesOn
<1>6. TypeOK'
  BY <1>5 DEF Consistent, TypeOK, Answered
<1>7. RequestsRecent' /\ AnswersRecent'
  BY DEF Consistent, RequestsRecent, AnswersRecent, Answered
<1> QED BY <1>5, <1>6, <1>7 DEF Consistent

LEMMA SucceedStep ==
  ASSUME Consistent, NEW i \in DOMAIN mutations, Succeed(i) PROVE Consistent'
<1> DEFINE X == mutations[i].refetched
<1>1. mutations' = [mutations EXCEPT ![i] = Over] /\ cache' = cache
  BY DEF Succeed
<1>2. mutations' \in Seq(Mutations) /\ RefusalsExact'
  BY <1>1, OverType, MovesOn
<1>3. /\ \A t \in Tokens : fetch'[t] = IF t \in Renewed(X) THEN Asked ELSE fetch[t]
      /\ Renewed(X) \subseteq watched
  BY RefetchedType DEF Succeed
<1>4. \A t \in Tokens : owed'[t] = IF t \in Renewed(X) THEN version[t] ELSE owed[t]
  BY DEF Succeed
<1>5. TypeOK'
  BY <1>2, RefetchedType DEF Consistent, TypeOK, Succeed
<1>6. RequestsRecent'
  BY <1>3 DEF Consistent, TypeOK, RequestsRecent, Succeed
<1>7. AnswersRecent'
  BY <1>3, <1>4
     DEF Consistent, TypeOK, RequestsRecent, AnswersRecent, Succeed, Asked, NoFetch
<1> QED BY <1>2, <1>5, <1>6, <1>7 DEF Consistent

LEMMA IncludeStep ==
  ASSUME Consistent, NEW i \in DOMAIN mutations, Include(i) PROVE Consistent'
<1> DEFINE m == mutations[i]
           n == [m EXCEPT !.stage = "included"]
<1>1. m \in Mutations /\ DOMAIN m.change \subseteq Tokens
      /\ \A t \in DOMAIN m.change : m.change[t] \in Int
  BY ChangeFacts DEF Consistent, TypeOK, Mutations
<1>2. /\ n \in Mutations /\ n.restored = m.restored
      /\ n.previous = m.previous /\ n.untouched = m.untouched
  BY <1>1 DEF Mutations, Stages
<1>3. \/ mutations' = [mutations EXCEPT ![i] = n]
      \/ mutations' = [mutations EXCEPT ![i] = Over]
  BY DEF Include
<1>4. cache' = cache
  BY DEF Include
<1>5. mutations' \in Seq(Mutations) /\ RefusalsExact'
  <2> HIDE DEF n
  <2> QED BY <1>2, <1>3, <1>4, OverType, MovesOn
<1>6. chain' \in [Tokens -> Nat]
  <2>1. PICK bonus \in Bonus :
          chain' = [t \in Tokens |->
            IF t \in DOMAIN m.change THEN chain[t] + m.change[t] + bonus ELSE chain[t]]
    BY DEF Include
  <2>2. bonus \in Nat
    BY CacheAssumption
  <2>3. ASSUME NEW t \in DOMAIN m.change PROVE chain[t] + m.change[t] + bonus \in Nat
    <3>1. chain[t] + m.change[t] >= 0
      BY DEF Include
    <3>2. chain[t] \in Nat /\ m.change[t] \in Int
      BY <1>1 DEF Consistent, TypeOK
    <3> QED BY <2>2, <3>1, <3>2
  <2> QED BY <2>1, <2>3 DEF Consistent, TypeOK
<1>7. /\ version' \in [Tokens -> Nat]
      /\ \A t \in Tokens : version[t] <= version'[t]
  BY DEF Include, Consistent, TypeOK
<1>8. TypeOK'
  BY <1>5, <1>6, <1>7 DEF Consistent, TypeOK, Include
<1>9. RequestsRecent' /\ AnswersRecent'
  BY <1>7 DEF Consistent, TypeOK, RequestsRecent, AnswersRecent, Include
<1> QED BY <1>5, <1>8, <1>9 DEF Consistent

LEMMA RevertStep ==
  ASSUME Consistent, NEW i \in DOMAIN mutations, Revert(i) PROVE Consistent'
<1> DEFINE m == [mutations[i] EXCEPT !.stage = "included"]
<1>1. mutations \in Seq(Mutations) /\ mutations[i] \in Mutations
  BY DEF Consistent, TypeOK
<1>2. /\ m \in Mutations /\ m.restored = mutations[i].restored
      /\ m.previous = mutations[i].previous /\ m.untouched = mutations[i].untouched
  BY <1>1 DEF Mutations, Stages
<1>3. \/ mutations' = [mutations EXCEPT ![i] = m]
      \/ mutations' = [mutations EXCEPT ![i] = Over]
  BY DEF Revert
<1>4. cache' = cache
  BY DEF Revert
<1> HIDE DEF m
<1>5. mutations' \in Seq(Mutations) /\ RefusalsExact'
  BY <1>2, <1>3, <1>4, OverType, MovesOn
<1>6. TypeOK'
  BY <1>5 DEF Consistent, TypeOK, Revert
<1>7. RequestsRecent' /\ AnswersRecent'
  BY DEF Consistent, RequestsRecent, AnswersRecent, Revert
<1> QED BY <1>5, <1>6, <1>7 DEF Consistent

-----------------------------------------------------------------------------
(* Safety *)

LEMMA InitConsistent == Init => Consistent
<1> SUFFICES ASSUME Init PROVE Consistent
  OBVIOUS
<1>1. watched \subseteq Tokens
  BY CacheAssumption DEF Init
<1>2. TypeOK
  BY AmountsInt DEF Init, TypeOK, Asked, NoFetch, Balances
<1>3. RequestsRecent /\ AnswersRecent /\ RefusalsExact
  BY DEF Init, RequestsRecent, AnswersRecent, RefusalsExact, Asked, NoFetch
<1> QED BY <1>2, <1>3 DEF Consistent

LEMMA NextConsistent == Consistent /\ [Next]_vars => Consistent'
<1> SUFFICES ASSUME Consistent, [Next]_vars PROVE Consistent'
  OBVIOUS
<1>1. CASE UNCHANGED vars
  BY <1>1 DEF vars, Consistent, TypeOK, RequestsRecent, AnswersRecent, RefusalsExact
<1>2. ASSUME NEW t \in Tokens, Poll(t) \/ Read(t) \/ Deliver(t) \/ FetchFails(t) \/ Transfer(t)
      PROVE  Consistent'
  BY <1>2, PollStep, ReadStep, DeliverStep, FetchFailsStep, TransferStep
<1>3. ASSUME NEW i \in DOMAIN mutations,
             Reject(i) \/ Submit(i) \/ Answered(i) \/ Succeed(i) \/ Include(i) \/ Revert(i)
      PROVE  Consistent'
  BY <1>3, RejectStep, SubmitStep, AnsweredStep, SucceedStep, IncludeStep, RevertStep
<1> QED BY <1>1, <1>2, <1>3, MutateStep, ExecuteStep DEF Next

\* Types, the requests in flight and what a refusal would restore agree in
\* every reachable state.
THEOREM Safety == Spec => []Consistent
<1> QED BY InitConsistent, NextConsistent, PTL DEF Spec

-----------------------------------------------------------------------------
(* What a step never shows *)

\* No answer to a request from before an optimistic update replaces the update:
\* onMutate cancels what is in flight, and only later requests follow.
THEOREM NothingStaleShown == Spec => NoStaleOverwrite
<1>1. Consistent /\ [Next]_vars =>
        [\A t \in Tokens : Deliver(t) => t \notin overtaken]_vars
  BY DEF Consistent, RequestsRecent, Deliver, NoFetch
<1> QED BY <1>1, Safety, PTL DEF Spec, NoStaleOverwrite

\* A refused mutation leaves on every balance that nothing else has written
\* since what was there before it, whatever else is under way.
THEOREM RefusalsLeaveNoTrace == Spec => RefusalLeavesNoTrace
<1>1. Consistent /\ [Next]_vars =>
        [\A i \in DOMAIN mutations : Reject(i) =>
           \A t \in mutations[i].untouched : cache'[t] = mutations[i].previous[t]]_vars
  <2> SUFFICES ASSUME Consistent, NEW i \in DOMAIN mutations, Reject(i),
                      NEW t \in mutations[i].untouched
               PROVE  cache'[t] = mutations[i].previous[t]
    OBVIOUS
  <2>1. t \in Tokens
    BY DEF Consistent, TypeOK, Mutations
  <2>2. /\ t \in mutations[i].restored
        /\ mutations[i].previous[t] = undefined => cache[t] = undefined
    BY DEF Consistent, RefusalsExact
  <2> QED BY <2>1, <2>2 DEF Reject
<1> QED BY <1>1, Safety, PTL DEF Spec, RefusalLeavesNoTrace

\* After a transaction has succeeded, a balance that its hook refetches is
\* never shown as it was before it, unless the refetch joined a first request
\* that was in flight before anything was known of the balance.
THEOREM SuccessesAreSeen == Spec => SuccessIsSeen
<1>1. Consistent /\ [Next]_vars =>
        [\A t \in Tokens : Deliver(t) => fetch[t].version >= owed[t]]_vars
  <2> SUFFICES ASSUME Consistent, NEW t \in Tokens, Deliver(t)
               PROVE  fetch[t].version >= owed[t]
    OBVIOUS
  <2>1. owed[t] <= fetch[t].version
    BY DEF Consistent, AnswersRecent, Deliver
  <2>2. owed[t] \in Nat /\ fetch[t].version \in Nat
    BY DEF Consistent, TypeOK
  <2> QED BY <2>1, <2>2
<1> QED BY <1>1, Safety, PTL DEF Spec, SuccessIsSeen

=============================================================================

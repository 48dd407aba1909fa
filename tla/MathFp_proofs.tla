---------------------------- MODULE MathFp_proofs ----------------------------
(***************************************************************************)
(* Arithmetic for the proofs of the contracts.                             *)
(*                                                                         *)
(* First facts about numbers: products, integer division, and the sums     *)
(* over finite sets of the module Functions (what the total of balances,   *)
(* claims or reserves does when one of them changes).  The sums are folds, *)
(* which are recursive functions: the lemmas first show that the recursion *)
(* has a solution.  Induction is by minimal counterexample, over Nat or    *)
(* the subsets of a finite set.                                            *)
(*                                                                         *)
(* Then what the fixed-point helpers guarantee for every value of WAD and  *)
(* CUBIT_ONE.  The argument is always the same: each conversion, product   *)
(* and quotient is an integer division, and a division by a positive       *)
(* number is monotone and loses less than its divisor.                     *)
(***************************************************************************)
EXTENDS MathFp, Functions, FiniteSetTheorems, WellFoundedInduction, TLAPS

-----------------------------------------------------------------------------
(* Products and integer division *)

\* Integer division by a positive number stays in Nat and loses less than
\* one divisor.
LEMMA DivBounds ==
  \A a \in Nat, b \in Nat \ {0} :
    /\ a \div b \in Nat
    /\ (a \div b) * b <= a
    /\ a < (a \div b) * b + b
  OBVIOUS

\* Integer division is monotone in the dividend.
LEMMA DivMono ==
  \A a, b \in Nat, c \in Nat \ {0} : a <= b => a \div c <= b \div c
  OBVIOUS

\* q * b <= a is what makes q at most a \div b.
LEMMA DivGreatest ==
  \A a, q \in Nat, b \in Nat \ {0} : q * b <= a => q <= a \div b
  OBVIOUS

\* Multiplication in Nat is closed and monotone.
LEMMA MulNat == \A a, b \in Nat : a * b \in Nat
  OBVIOUS

LEMMA MulMono == \A a, b, c \in Nat : a <= b => a * c <= b * c
  OBVIOUS

\* Cancelling a factor: (a * c) \div c = a.
LEMMA MulDiv == \A a \in Nat, c \in Nat \ {0} : (a * c) \div c = a
  OBVIOUS

\* A common factor of an inequality can be dropped.
LEMMA MulCancel == \A a, b \in Nat, c \in Nat \ {0} : a * c <= b * c => a <= b
<1> SUFFICES ASSUME NEW a \in Nat, NEW b \in Nat, NEW c \in Nat \ {0},
                    a * c <= b * c, b + 1 <= a
             PROVE  FALSE
  OBVIOUS
<1>1. (b + 1) * c <= a * c
  BY MulMono
<1>2. (b + 1) * c = b * c + c
  OBVIOUS
<1>3. b * c \in Nat /\ a * c \in Nat
  BY MulNat
<1> QED BY <1>1, <1>2, <1>3

-----------------------------------------------------------------------------
(* Induction by minimal counterexample *)

\* A nonempty set of natural numbers has a least element.
LEMMA LeastNumber ==
  ASSUME NEW T \in SUBSET Nat, T # {}
  PROVE  \E n \in T : \A m \in T : n <= m
<1> DEFINE R == {p \in Nat \X Nat : p[1] < p[2]}
<1>1. IsWellFoundedOn(R, Nat)
  BY NatLessThanWellFounded DEF OpToRel
<1>2. \A n, m \in Nat : m < n => <<m, n>> \in R
  OBVIOUS
<1> HIDE DEF R
<1>3. PICK n \in T : \A m \in T : ~(<<m, n>> \in R)
  BY <1>1, WFMin
<1>4. ASSUME NEW m \in T PROVE n <= m
  <2>1. n \in Nat /\ m \in Nat
    OBVIOUS
  <2>2. ~(m < n)
    BY <1>2, <1>3, <2>1
  <2> QED BY <2>1, <2>2
<1> QED BY <1>4

\* A nonempty family of subsets of a finite set has a minimal member.
LEMMA MinimalSubset ==
  ASSUME NEW S, IsFiniteSet(S), NEW F \in SUBSET SUBSET S, F # {}
  PROVE  \E T \in F : \A x \in T : T \ {x} \notin F
<1>1. IsWellFoundedOn(StrictSubsetOrdering(S), SUBSET S)
  BY FS_StrictSubsetOrderingWellFounded, FS_FiniteSubsetsOfFinite
<1>2. PICK T \in F : \A U \in F : ~(<<U, T>> \in StrictSubsetOrdering(S))
  BY <1>1, WFMin
<1>3. ASSUME NEW x \in T, T \ {x} \in F PROVE FALSE
  <2>1. <<T \ {x}, T>> \in StrictSubsetOrdering(S)
    BY <1>3 DEF StrictSubsetOrdering
  <2> QED BY <1>2, <1>3, <2>1
<1> QED BY <1>2, <1>3

-----------------------------------------------------------------------------
(* The recursion behind the sum *)

\* The element that the fold takes from s.
Picked(s) == CHOOSE x \in s : TRUE

\* g is the fold of f over every subset of S with at most n elements.
FoldsUpTo(g, f, S, n) ==
  /\ g = [s \in SUBSET S |-> g[s]]
  /\ \A s \in SUBSET S : Cardinality(s) <= n =>
       g[s] = IF s = {} THEN 0 ELSE f[Picked(s)] + g[s \ {Picked(s)}]

\* What the fold is for every set: the recursive function of the library.
FoldOf(f, S) ==
  CHOOSE g : g = [s \in SUBSET S |->
                    IF s = {} THEN 0 ELSE f[Picked(s)] + g[s \ {Picked(s)}]]

LEMMA SumIsFold == \A f, S : SumFunctionOnSet(f, S) = FoldOf(f, S)[S]
BY DEF SumFunctionOnSet, FoldFunctionOnSet, MapThenFoldSet, FoldOf, Picked

LEMMA PickedIn == \A s : s # {} => Picked(s) \in s
BY DEF Picked

\* One more element can be folded.
LEMMA FoldExtends ==
  ASSUME NEW S, IsFiniteSet(S), NEW f, NEW n \in Nat, NEW g, FoldsUpTo(g, f, S, n)
  PROVE  \E h : FoldsUpTo(h, f, S, n + 1)
<1> DEFINE h == [s \in SUBSET S |->
                   IF s = {} THEN 0 ELSE f[Picked(s)] + g[s \ {Picked(s)}]]
<1>1. ASSUME NEW s \in SUBSET S, Cardinality(s) <= n
      PROVE  h[s] = g[s]
  BY <1>1 DEF FoldsUpTo
<1>2. ASSUME NEW s \in SUBSET S, Cardinality(s) <= n + 1, s # {}
      PROVE  h[s \ {Picked(s)}] = g[s \ {Picked(s)}]
  <2>1. IsFiniteSet(s) /\ Picked(s) \in s
    BY <1>2, FS_Subset, PickedIn
  <2>2. Cardinality(s \ {Picked(s)}) = Cardinality(s) - 1 /\ Cardinality(s) \in Nat
    BY <2>1, FS_RemoveElement, FS_CardinalityType
  <2>3. s \ {Picked(s)} \in SUBSET S /\ Cardinality(s \ {Picked(s)}) <= n
    BY <1>2, <2>2
  <2> HIDE DEF h
  <2> QED BY <1>1, <2>3
<1>3. \A s \in SUBSET S : Cardinality(s) <= n + 1 =>
        h[s] = IF s = {} THEN 0 ELSE f[Picked(s)] + h[s \ {Picked(s)}]
  <2> TAKE s \in SUBSET S
  <2> HAVE Cardinality(s) <= n + 1
  <2>1. h[s] = IF s = {} THEN 0 ELSE f[Picked(s)] + g[s \ {Picked(s)}]
    OBVIOUS
  <2> HIDE DEF h
  <2> QED BY <1>2, <2>1
<1>4. h = [s \in SUBSET S |-> h[s]]
  OBVIOUS
<1> HIDE DEF h
<1>5. FoldsUpTo(h, f, S, n + 1)
  BY <1>3, <1>4 DEF FoldsUpTo
<1> QED BY <1>5

\* Over a finite set the recursion of the fold has a solution.
LEMMA FoldExists ==
  ASSUME NEW S, IsFiniteSet(S), NEW f
  PROVE  \A n \in Nat : \E g : FoldsUpTo(g, f, S, n)
<1> DEFINE Failing == {n \in Nat : ~ \E g : FoldsUpTo(g, f, S, n)}
<1>1. ASSUME NEW n \in Failing, \A m \in Failing : n <= m PROVE FALSE
  <2>1. CASE n = 0
    <3> DEFINE g == [s \in SUBSET S |-> 0]
    <3>1. ASSUME NEW s \in SUBSET S, Cardinality(s) <= 0 PROVE s = {}
      BY <3>1, FS_Subset, FS_CardinalityType, FS_EmptySet
    <3>2. FoldsUpTo(g, f, S, 0)
      <4>1. g = [s \in SUBSET S |-> g[s]]
        OBVIOUS
      <4>2. \A s \in SUBSET S : g[s] = 0
        OBVIOUS
      <4> HIDE DEF g
      <4> QED BY <3>1, <4>1, <4>2 DEF FoldsUpTo
    <3> QED BY <2>1, <3>2
  <2>2. CASE n # 0
    <3>1. n - 1 \in Nat /\ n - 1 \notin Failing /\ n = (n - 1) + 1
      BY <1>1, <2>2
    <3>2. PICK g : FoldsUpTo(g, f, S, n - 1)
      BY <3>1
    <3>3. \E h : FoldsUpTo(h, f, S, (n - 1) + 1)
      BY <3>1, <3>2, FoldExtends
    <3> QED BY <3>1, <3>3
  <2> QED BY <2>1, <2>2
<1>2. Failing = {}
  BY <1>1, LeastNumber
<1> QED BY <1>2

\* The fold of the library satisfies its recursion.
LEMMA FoldEquation ==
  ASSUME NEW S, IsFiniteSet(S), NEW f
  PROVE  FoldOf(f, S) =
           [s \in SUBSET S |->
              IF s = {} THEN 0
              ELSE f[Picked(s)] + FoldOf(f, S)[s \ {Picked(s)}]]
<1>1. Cardinality(S) \in Nat /\ \A s \in SUBSET S : Cardinality(s) <= Cardinality(S)
  BY FS_CardinalityType, FS_Subset
<1>2. PICK g : FoldsUpTo(g, f, S, Cardinality(S))
  BY <1>1, FoldExists
<1>3. g = [s \in SUBSET S |->
             IF s = {} THEN 0 ELSE f[Picked(s)] + g[s \ {Picked(s)}]]
  BY <1>1, <1>2 DEF FoldsUpTo
<1> QED BY <1>3 DEF FoldOf

LEMMA FoldUnfolds ==
  ASSUME NEW S, IsFiniteSet(S), NEW f, NEW T \in SUBSET S
  PROVE  FoldOf(f, S)[T] = IF T = {} THEN 0
                           ELSE f[Picked(T)] + FoldOf(f, S)[T \ {Picked(T)}]
<1> DEFINE g == FoldOf(f, S)
<1>1. g = [s \in SUBSET S |->
             IF s = {} THEN 0 ELSE f[Picked(s)] + g[s \ {Picked(s)}]]
  BY FoldEquation
<1> HIDE DEF g
<1>2. g[T] = IF T = {} THEN 0 ELSE f[Picked(T)] + g[T \ {Picked(T)}]
  BY <1>1, Zenon
<1> QED BY <1>2 DEF g

\* The fold over S, restricted to subsets of U, is the fold over U.
LEMMA FoldCoherent ==
  ASSUME NEW S, IsFiniteSet(S), NEW f, NEW U \in SUBSET S
  PROVE  FoldOf(f, S)[U] = FoldOf(f, U)[U]
<1> DEFINE Differs == {T \in SUBSET U : FoldOf(f, S)[T] # FoldOf(f, U)[T]}
<1>1. IsFiniteSet(U)
  BY FS_Subset
<1>2. ASSUME NEW T \in Differs, \A x \in T : T \ {x} \notin Differs PROVE FALSE
  <2>1. FoldOf(f, S)[T] = IF T = {} THEN 0
                          ELSE f[Picked(T)] + FoldOf(f, S)[T \ {Picked(T)}]
    BY FoldUnfolds
  <2>2. FoldOf(f, U)[T] = IF T = {} THEN 0
                          ELSE f[Picked(T)] + FoldOf(f, U)[T \ {Picked(T)}]
    BY <1>1, FoldUnfolds
  <2>3. T # {} => FoldOf(f, S)[T \ {Picked(T)}] = FoldOf(f, U)[T \ {Picked(T)}]
    BY <1>2, PickedIn
  <2> QED BY <2>1, <2>2, <2>3
<1>3. Differs = {}
  BY <1>1, <1>2, MinimalSubset
<1> QED BY <1>3

-----------------------------------------------------------------------------
(* Sums over a finite set *)

\* The sum over no element is 0.
LEMMA SumOfNone == \A f : SumFunctionOnSet(f, {}) = 0
BY SumIsFold, FoldUnfolds, FS_EmptySet

\* A sum is one element, the one the fold picks, and the sum of the others.
LEMMA SumPicked ==
  ASSUME NEW S, IsFiniteSet(S), S # {}, NEW f
  PROVE  SumFunctionOnSet(f, S)
           = f[Picked(S)] + SumFunctionOnSet(f, S \ {Picked(S)})
<1>1. FoldOf(f, S)[S] = f[Picked(S)] + FoldOf(f, S)[S \ {Picked(S)}]
  BY FoldUnfolds
<1>2. FoldOf(f, S)[S \ {Picked(S)}]
        = FoldOf(f, S \ {Picked(S)})[S \ {Picked(S)}]
  BY FoldCoherent
<1> QED BY <1>1, <1>2, SumIsFold

\* A sum of integers is an integer.
LEMMA SumInt ==
  ASSUME NEW S, IsFiniteSet(S), NEW f, \A x \in S : f[x] \in Int
  PROVE  SumFunctionOnSet(f, S) \in Int
<1> DEFINE Bad == {T \in SUBSET S : SumFunctionOnSet(f, T) \notin Int}
<1>1. ASSUME NEW T \in Bad, \A x \in T : T \ {x} \notin Bad PROVE FALSE
  <2>1. CASE T = {}
    BY <2>1, SumOfNone
  <2>2. CASE T # {}
    <3>1. IsFiniteSet(T) /\ Picked(T) \in T
      BY <2>2, FS_Subset, PickedIn
    <3>2. SumFunctionOnSet(f, T \ {Picked(T)}) \in Int
      BY <1>1, <3>1
    <3>3. SumFunctionOnSet(f, T)
            = f[Picked(T)] + SumFunctionOnSet(f, T \ {Picked(T)})
      BY <2>2, <3>1, SumPicked
    <3> QED BY <3>1, <3>2, <3>3
  <2> QED BY <2>1, <2>2
<1>2. Bad = {}
  BY <1>1, MinimalSubset
<1> QED BY <1>2

\* A sum is any one element and the sum of the others: the order in which the
\* fold takes them does not matter.
LEMMA SumTakes ==
  ASSUME NEW S, IsFiniteSet(S), NEW f, \A x \in S : f[x] \in Int, NEW e \in S
  PROVE  SumFunctionOnSet(f, S) = f[e] + SumFunctionOnSet(f, S \ {e})
<1> DEFINE Bad == {T \in SUBSET S :
              \E x \in T : SumFunctionOnSet(f, T)
                             # f[x] + SumFunctionOnSet(f, T \ {x})}
<1>1. ASSUME NEW T \in Bad, \A x \in T : T \ {x} \notin Bad PROVE FALSE
  <2>1. PICK x \in T : SumFunctionOnSet(f, T)
                         # f[x] + SumFunctionOnSet(f, T \ {x})
    OBVIOUS
  <2> DEFINE p == Picked(T)
  <2>2. IsFiniteSet(T) /\ p \in T
    BY <2>1, FS_Subset, PickedIn
  <2>3. SumFunctionOnSet(f, T) = f[p] + SumFunctionOnSet(f, T \ {p})
    BY <2>1, <2>2, SumPicked
  <2> HIDE DEF p
  <2>4. x # p
    BY <2>1, <2>3
  <2>5. SumFunctionOnSet(f, T \ {p}) = f[x] + SumFunctionOnSet(f, (T \ {p}) \ {x})
    BY <1>1, <2>2, <2>4
  <2>6. SumFunctionOnSet(f, T \ {x}) = f[p] + SumFunctionOnSet(f, (T \ {x}) \ {p})
    BY <1>1, <2>2, <2>4
  <2>7. (T \ {p}) \ {x} = (T \ {x}) \ {p} /\ (T \ {x}) \ {p} \in SUBSET S
    OBVIOUS
  <2>8. SumFunctionOnSet(f, (T \ {x}) \ {p}) \in Int
    BY <2>7, FS_Subset, SumInt
  <2>9. f[x] \in Int /\ f[p] \in Int
    BY <2>2
  <2>10. f[p] + (f[x] + SumFunctionOnSet(f, (T \ {x}) \ {p}))
          = f[x] + (f[p] + SumFunctionOnSet(f, (T \ {x}) \ {p}))
    BY <2>8, <2>9
  <2> QED BY <2>1, <2>3, <2>5, <2>6, <2>7, <2>10
<1>2. Bad = {}
  BY <1>1, MinimalSubset
<1>3. IsFiniteSet(S) /\ S \in SUBSET S
  OBVIOUS
<1> QED BY <1>2, <1>3

\* The same, for an induction: a sum is 0 over no element, and otherwise one
\* element and a sum that is an integer.
LEMMA SumUnfolds ==
  ASSUME NEW S, IsFiniteSet(S), NEW f, \A x \in S : f[x] \in Int,
         NEW T \in SUBSET S, NEW e \in T
  PROVE  /\ SumFunctionOnSet(f, T) = f[e] + SumFunctionOnSet(f, T \ {e})
         /\ f[e] \in Int
         /\ SumFunctionOnSet(f, T) \in Int /\ SumFunctionOnSet(f, T \ {e}) \in Int
<1>1. IsFiniteSet(T) /\ IsFiniteSet(T \ {e})
  BY FS_Subset, FS_RemoveElement
<1> QED BY <1>1, SumTakes, SumInt

\* A sum of natural numbers is one.
LEMMA SumNat ==
  ASSUME NEW S, IsFiniteSet(S), NEW f, \A x \in S : f[x] \in Nat
  PROVE  SumFunctionOnSet(f, S) \in Nat
<1> DEFINE Bad == {T \in SUBSET S : SumFunctionOnSet(f, T) \notin Nat}
<1>1. ASSUME NEW T \in Bad, \A x \in T : T \ {x} \notin Bad PROVE FALSE
  <2>1. CASE T = {}
    BY <2>1, SumOfNone
  <2>2. ASSUME NEW e \in T PROVE FALSE
    <3>1. SumFunctionOnSet(f, T \ {e}) \in Nat /\ f[e] \in Nat
      BY <1>1, <2>2
    <3>2. SumFunctionOnSet(f, T) = f[e] + SumFunctionOnSet(f, T \ {e})
      BY SumUnfolds
    <3> QED BY <3>1, <3>2
  <2> QED BY <2>1, <2>2
<1>2. Bad = {}
  BY <1>1, MinimalSubset
<1> QED BY <1>2

\* Sums are monotone.
LEMMA SumMonotone ==
  ASSUME NEW S, IsFiniteSet(S), NEW f, NEW g,
         \A x \in S : f[x] \in Int /\ g[x] \in Int /\ f[x] <= g[x]
  PROVE  SumFunctionOnSet(f, S) <= SumFunctionOnSet(g, S)
<1> DEFINE Bad == {T \in SUBSET S :
                     ~(SumFunctionOnSet(f, T) <= SumFunctionOnSet(g, T))}
<1>1. ASSUME NEW T \in Bad, \A x \in T : T \ {x} \notin Bad PROVE FALSE
  <2>1. CASE T = {}
    BY <2>1, SumOfNone
  <2>2. ASSUME NEW e \in T PROVE FALSE
    <3>1. SumFunctionOnSet(f, T \ {e}) <= SumFunctionOnSet(g, T \ {e})
          /\ f[e] <= g[e]
      BY <1>1, <2>2
    <3>2. /\ SumFunctionOnSet(f, T) = f[e] + SumFunctionOnSet(f, T \ {e})
          /\ f[e] \in Int /\ SumFunctionOnSet(f, T \ {e}) \in Int
      BY SumUnfolds
    <3>3. /\ SumFunctionOnSet(g, T) = g[e] + SumFunctionOnSet(g, T \ {e})
          /\ g[e] \in Int /\ SumFunctionOnSet(g, T \ {e}) \in Int
      BY SumUnfolds
    <3> QED BY <3>1, <3>2, <3>3
  <2> QED BY <2>1, <2>2
<1>2. Bad = {}
  BY <1>1, MinimalSubset
<1> QED BY <1>2

\* Functions that agree have the same sum.
LEMMA SumSame ==
  ASSUME NEW S, IsFiniteSet(S), NEW f, NEW g,
         \A x \in S : f[x] \in Int /\ g[x] = f[x]
  PROVE  SumFunctionOnSet(g, S) = SumFunctionOnSet(f, S)
<1>1. /\ SumFunctionOnSet(f, S) <= SumFunctionOnSet(g, S)
      /\ SumFunctionOnSet(g, S) <= SumFunctionOnSet(f, S)
  BY SumMonotone
<1>2. SumFunctionOnSet(f, S) \in Int /\ SumFunctionOnSet(g, S) \in Int
  BY SumInt
<1> QED BY <1>1, <1>2

\* When one element changes, the sum changes by as much.
LEMMA SumChanges ==
  ASSUME NEW S, IsFiniteSet(S), NEW f, NEW g, NEW e \in S,
         \A x \in S : f[x] \in Int /\ g[x] \in Int,
         \A x \in S \ {e} : g[x] = f[x]
  PROVE  SumFunctionOnSet(g, S) = SumFunctionOnSet(f, S) + (g[e] - f[e])
<1>1. IsFiniteSet(S \ {e})
  BY FS_RemoveElement
<1>2. /\ SumFunctionOnSet(f, S) = f[e] + SumFunctionOnSet(f, S \ {e})
      /\ SumFunctionOnSet(g, S) = g[e] + SumFunctionOnSet(g, S \ {e})
      /\ f[e] \in Int /\ g[e] \in Int
  BY SumTakes
<1>3. /\ SumFunctionOnSet(g, S \ {e}) = SumFunctionOnSet(f, S \ {e})
      /\ SumFunctionOnSet(f, S \ {e}) \in Int
  BY <1>1, SumSame, SumInt
<1> QED BY <1>2, <1>3

\* The sum of f + c * g, pointwise, is that of f and c times that of g.
LEMMA SumLinear ==
  ASSUME NEW S, IsFiniteSet(S), NEW f, NEW g, NEW h, NEW c \in Int,
         \A x \in S : f[x] \in Int /\ g[x] \in Int /\ h[x] = f[x] + c * g[x]
  PROVE  SumFunctionOnSet(h, S)
           = SumFunctionOnSet(f, S) + c * SumFunctionOnSet(g, S)
<1> DEFINE Bad == {T \in SUBSET S : SumFunctionOnSet(h, T)
                     # SumFunctionOnSet(f, T) + c * SumFunctionOnSet(g, T)}
<1>1. \A a, b \in Int : c * (a + b) = c * a + c * b /\ c * a \in Int
  OBVIOUS
<1>2. \A x \in S : h[x] \in Int
  BY <1>1
<1>3. ASSUME NEW T \in Bad, \A x \in T : T \ {x} \notin Bad PROVE FALSE
  <2>1. CASE T = {}
    BY <2>1, SumOfNone
  <2>2. ASSUME NEW e \in T PROVE FALSE
    <3> DEFINE sf == SumFunctionOnSet(f, T \ {e})
               sg == SumFunctionOnSet(g, T \ {e})
               sh == SumFunctionOnSet(h, T \ {e})
    <3>1. sh = sf + c * sg /\ h[e] = f[e] + c * g[e]
      BY <1>3, <2>2
    <3>2. SumFunctionOnSet(f, T) = f[e] + sf /\ f[e] \in Int /\ sf \in Int
      BY SumUnfolds
    <3>3. SumFunctionOnSet(g, T) = g[e] + sg /\ g[e] \in Int /\ sg \in Int
      BY SumUnfolds
    <3>4. SumFunctionOnSet(h, T) = h[e] + sh
      BY <1>2, SumUnfolds
    <3>5. SumFunctionOnSet(h, T)
            # SumFunctionOnSet(f, T) + c * SumFunctionOnSet(g, T)
      BY <1>3
    <3> HIDE DEF sf, sg, sh
    <3>6. c * (g[e] + sg) = c * g[e] + c * sg /\ c * g[e] \in Int /\ c * sg \in Int
      BY <1>1, <3>3
    <3> QED BY <3>1, <3>2, <3>3, <3>4, <3>5, <3>6
  <2> QED BY <2>1, <2>2
<1>4. Bad = {}
  BY <1>3, MinimalSubset
<1> QED BY <1>4

\* A sum of zeros is 0.
LEMMA SumZero ==
  ASSUME NEW S, IsFiniteSet(S), NEW f, \A x \in S : f[x] = 0
  PROVE  SumFunctionOnSet(f, S) = 0
<1> DEFINE Bad == {T \in SUBSET S : SumFunctionOnSet(f, T) # 0}
<1>1. ASSUME NEW T \in Bad, \A x \in T : T \ {x} \notin Bad PROVE FALSE
  <2>1. CASE T = {}
    BY <2>1, SumOfNone
  <2>2. ASSUME NEW e \in T PROVE FALSE
    <3>1. SumFunctionOnSet(f, T \ {e}) = 0 /\ f[e] = 0
      BY <1>1, <2>2
    <3>2. SumFunctionOnSet(f, T) = f[e] + SumFunctionOnSet(f, T \ {e})
      BY SumUnfolds
    <3> QED BY <1>1, <3>1, <3>2
  <2> QED BY <2>1, <2>2
<1>2. Bad = {}
  BY <1>1, MinimalSubset
<1> QED BY <1>2

\* The sum of c * f, pointwise.
LEMMA SumScaled ==
  ASSUME NEW S, IsFiniteSet(S), NEW f, NEW h, NEW c \in Int,
         \A x \in S : f[x] \in Int /\ h[x] = c * f[x]
  PROVE  SumFunctionOnSet(h, S) = c * SumFunctionOnSet(f, S)
<1> DEFINE z == [x \in S |-> 0]
<1>1. \A a \in Int : c * a \in Int /\ 0 + c * a = c * a
  OBVIOUS
<1>2. \A x \in S : z[x] = 0
  OBVIOUS
<1> HIDE DEF z
<1>3. \A x \in S : z[x] \in Int /\ f[x] \in Int /\ h[x] = z[x] + c * f[x]
  BY <1>1, <1>2
<1>4. SumFunctionOnSet(z, S) = 0
  BY <1>2, SumZero
<1>5. SumFunctionOnSet(h, S)
        = SumFunctionOnSet(z, S) + c * SumFunctionOnSet(f, S)
  BY <1>3, SumLinear
<1>6. SumFunctionOnSet(f, S) \in Int
  BY SumInt
<1> QED BY <1>1, <1>4, <1>5, <1>6

\* No element exceeds a sum of natural numbers, and the sum without it is one.
LEMMA SumBounds ==
  ASSUME NEW S, IsFiniteSet(S), NEW f, \A x \in S : f[x] \in Nat, NEW e \in S
  PROVE  f[e] <= SumFunctionOnSet(f, S)
<1>1. SumFunctionOnSet(f, S) = f[e] + SumFunctionOnSet(f, S \ {e})
  BY SumTakes
<1>2. SumFunctionOnSet(f, S \ {e}) \in Nat
  BY FS_RemoveElement, SumNat
<1> QED BY <1>1, <1>2

\* Two elements together do not exceed a sum of natural numbers.
LEMMA SumBoundsTwo ==
  ASSUME NEW S, IsFiniteSet(S), NEW f, \A x \in S : f[x] \in Nat,
         NEW d \in S, NEW e \in S, d # e
  PROVE  f[d] + f[e] <= SumFunctionOnSet(f, S)
<1>1. SumFunctionOnSet(f, S) = f[e] + SumFunctionOnSet(f, S \ {e})
  BY SumTakes
<1>2. f[d] <= SumFunctionOnSet(f, S \ {e})
  BY FS_RemoveElement, SumBounds
<1>3. SumFunctionOnSet(f, S \ {e}) \in Nat
  BY FS_RemoveElement, SumNat
<1> QED BY <1>1, <1>2, <1>3

\* A positive sum of natural numbers has a positive element.
LEMMA SumPositive ==
  ASSUME NEW S, IsFiniteSet(S), NEW f, \A x \in S : f[x] \in Nat,
         SumFunctionOnSet(f, S) # 0
  PROVE  \E x \in S : f[x] > 0
BY SumZero

-----------------------------------------------------------------------------
(* The fixed-point helpers *)

\* The helpers stay in Nat; a positive WAD number has a positive
\* fixed-point image because CUBIT_ONE is at least WAD.
LEMMA ConversionType ==
  /\ \A w \in Nat : wad_to_fp(w) \in Nat
  /\ \A f \in Nat : fp_to_wad(f) \in Nat
  /\ \A w \in Nat \ {0} : wad_to_fp(w) \in Nat \ {0}
<1>1. \A w \in Nat : wad_to_fp(w) \in Nat
  BY WadAssumption, CubitAssumption, MulNat, DivBounds DEF wad_to_fp
<1>2. \A f \in Nat : fp_to_wad(f) \in Nat
  BY WadAssumption, CubitAssumption, MulNat, DivBounds DEF fp_to_wad
<1>3. ASSUME NEW w \in Nat \ {0} PROVE wad_to_fp(w) # 0
  <2>1. 1 * WAD <= w * CUBIT_ONE
    <3>1. 1 * CUBIT_ONE <= w * CUBIT_ONE
      BY CubitAssumption, MulMono
    <3> QED BY <3>1, WadAssumption, CubitAssumption, MulNat
  <2>2. 1 <= (w * CUBIT_ONE) \div WAD
    BY <2>1, WadAssumption, CubitAssumption, MulNat, DivGreatest
  <2> QED BY <2>2 DEF wad_to_fp
<1> QED BY <1>1, <1>2, <1>3

\* wad_mul and wad_div return natural numbers.
LEMMA WadType ==
  /\ \A a, b \in Nat : wad_mul(a, b) \in Nat
  /\ \A a \in Nat, b \in Nat \ {0} : wad_div(a, b) \in Nat
<1>1. ASSUME NEW a \in Nat, NEW b \in Nat PROVE wad_mul(a, b) \in Nat
  <2>1. wad_to_fp(a) * wad_to_fp(b) \in Nat
    BY ConversionType, MulNat
  <2>2. fp_mul(wad_to_fp(a), wad_to_fp(b)) \in Nat
    BY <2>1, CubitAssumption, DivBounds DEF fp_mul
  <2> QED BY <2>2, ConversionType DEF wad_mul
<1>2. ASSUME NEW a \in Nat, NEW b \in Nat \ {0} PROVE wad_div(a, b) \in Nat
  <2>1. wad_to_fp(a) * CUBIT_ONE \in Nat
    BY ConversionType, MulNat, CubitAssumption
  <2>2. fp_div(wad_to_fp(a), wad_to_fp(b)) \in Nat
    BY <2>1, ConversionType, DivBounds DEF fp_div
  <2> QED BY <2>2, ConversionType DEF wad_div
<1> QED BY <1>1, <1>2

\* Converting a WAD number to fixed point and back never gains.
LEMMA ConversionLoses == \A w \in Nat : fp_to_wad(wad_to_fp(w)) <= w
<1> SUFFICES ASSUME NEW w \in Nat PROVE fp_to_wad(wad_to_fp(w)) <= w
  OBVIOUS
<1>1. wad_to_fp(w) * WAD <= w * CUBIT_ONE
  BY WadAssumption, CubitAssumption, MulNat, DivBounds DEF wad_to_fp
<1>2. (wad_to_fp(w) * WAD) \div CUBIT_ONE <= (w * CUBIT_ONE) \div CUBIT_ONE
  BY <1>1, ConversionType, MulNat, WadAssumption, CubitAssumption, DivMono
<1>3. (w * CUBIT_ONE) \div CUBIT_ONE = w
  BY CubitAssumption, MulDiv
<1> QED BY <1>2, <1>3 DEF fp_to_wad

\* Converting back is monotone.
LEMMA ConversionMono ==
  \A f, g \in Nat : f <= g => fp_to_wad(f) <= fp_to_wad(g)
<1> SUFFICES ASSUME NEW f \in Nat, NEW g \in Nat, f <= g
             PROVE  fp_to_wad(f) <= fp_to_wad(g)
  OBVIOUS
<1>1. f * WAD <= g * WAD
  BY WadAssumption, MulMono
<1> QED BY <1>1, WadAssumption, CubitAssumption, MulNat, DivMono DEF fp_to_wad

\* The way back is bounded by the fixed-point number it came from.
LEMMA ConversionBack == \A f \in Nat : wad_to_fp(fp_to_wad(f)) <= f
<1> SUFFICES ASSUME NEW f \in Nat PROVE wad_to_fp(fp_to_wad(f)) <= f
  OBVIOUS
<1>1. fp_to_wad(f) * CUBIT_ONE <= f * WAD
  BY WadAssumption, CubitAssumption, MulNat, DivBounds DEF fp_to_wad
<1>2. (fp_to_wad(f) * CUBIT_ONE) \div WAD <= (f * WAD) \div WAD
  BY <1>1, ConversionType, MulNat, WadAssumption, CubitAssumption, DivMono
<1>3. (f * WAD) \div WAD = f
  BY WadAssumption, MulDiv
<1> QED BY <1>2, <1>3 DEF wad_to_fp

\* A fraction of at most one of an amount is at most the amount: a fee taken
\* with wad_mul never exceeds what it is taken from.
LEMMA FractionBound == \A a, r \in Nat : r <= WAD => wad_mul(a, r) <= a
<1> SUFFICES ASSUME NEW a \in Nat, NEW r \in Nat, r <= WAD
             PROVE  wad_mul(a, r) <= a
  OBVIOUS
<1> DEFINE fa == wad_to_fp(a)  fr == wad_to_fp(r)
<1>0. fa \in Nat /\ fr \in Nat
  BY ConversionType
<1>1. fr <= CUBIT_ONE
  <2>1. r * CUBIT_ONE <= WAD * CUBIT_ONE
    BY WadAssumption, CubitAssumption, MulMono
  <2>2. (r * CUBIT_ONE) \div WAD <= (CUBIT_ONE * WAD) \div WAD
    BY <2>1, WadAssumption, CubitAssumption, MulNat, DivMono
  <2> QED BY <2>2, WadAssumption, CubitAssumption, MulDiv DEF wad_to_fp
<1>2. fa * fr <= fa * CUBIT_ONE
  BY <1>0, <1>1, CubitAssumption, MulMono
<1>3. fp_mul(fa, fr) \in Nat /\ fp_mul(fa, fr) <= fa
  <2>1. (fa * fr) \div CUBIT_ONE <= (fa * CUBIT_ONE) \div CUBIT_ONE
    BY <1>0, <1>2, CubitAssumption, MulNat, DivMono
  <2> QED BY <2>1, <1>0, CubitAssumption, MulNat, MulDiv, DivBounds DEF fp_mul
<1>4. fp_to_wad(fp_mul(fa, fr)) <= fp_to_wad(fa)
  BY <1>0, <1>3, ConversionMono
<1> HIDE DEF fa, fr
<1>5. fp_to_wad(fa) <= a
  BY ConversionLoses DEF fa
<1> QED
  BY <1>0, <1>3, <1>4, <1>5, ConversionType DEF wad_mul, fa, fr

\* The product of two WAD numbers that are at least one is at least one: the
\* denominator of the interest formula is never zero.
LEMMA ProductAtLeastOne ==
  \A i, j \in Nat : i >= WAD /\ j >= WAD => wad_mul(i, j) >= WAD
<1> SUFFICES ASSUME NEW i \in Nat, NEW j \in Nat, i >= WAD, j >= WAD
             PROVE  wad_mul(i, j) >= WAD
  OBVIOUS
<1>1. ASSUME NEW k \in Nat, k >= WAD
      PROVE  wad_to_fp(k) \in Nat /\ wad_to_fp(k) >= CUBIT_ONE
  <2>1. CUBIT_ONE * WAD <= k * CUBIT_ONE
    BY <1>1, WadAssumption, CubitAssumption, MulMono
  <2>2. CUBIT_ONE <= (k * CUBIT_ONE) \div WAD
    BY <2>1, WadAssumption, CubitAssumption, MulNat, DivGreatest
  <2> QED BY <2>2, ConversionType DEF wad_to_fp
<1> DEFINE fi == wad_to_fp(i)  fj == wad_to_fp(j)
<1>2. fi \in Nat /\ fj \in Nat /\ fi >= CUBIT_ONE /\ fj >= CUBIT_ONE
  BY <1>1
<1> HIDE DEF fi, fj
<1>3. CUBIT_ONE * CUBIT_ONE <= fi * fj
  <2>1. CUBIT_ONE * CUBIT_ONE <= fi * CUBIT_ONE
    BY <1>2, CubitAssumption, MulMono
  <2>2. CUBIT_ONE * fi <= fj * fi
    BY <1>2, CubitAssumption, MulMono
  <2> QED BY <2>1, <2>2, <1>2, CubitAssumption, MulNat
<1>4. fp_mul(fi, fj) \in Nat /\ CUBIT_ONE <= fp_mul(fi, fj)
  BY <1>2, <1>3, CubitAssumption, MulNat, DivGreatest, DivBounds DEF fp_mul
<1>5. fp_to_wad(CUBIT_ONE) = WAD
  BY WadAssumption, CubitAssumption, MulDiv DEF fp_to_wad
<1>6. fp_to_wad(CUBIT_ONE) <= fp_to_wad(fp_mul(fi, fj))
  BY <1>4, CubitAssumption, ConversionMono
<1> QED
  BY <1>5, <1>6, <1>4, ConversionType, WadAssumption DEF wad_mul, fi, fj

\* Splitting SY into PT and YT and merging them again at the same index never
\* returns more SY than went in, whatever the rounding of the 64.64 format:
\* repeating mint_py and redeem_py cannot drain the reserve.
THEOREM RoundTripNeverProfits ==
  \A x \in Nat, i \in Nat \ {0} : asset_to_sy(sy_to_asset(x, i), i) <= x
<1> SUFFICES ASSUME NEW x \in Nat, NEW i \in Nat \ {0}
             PROVE  asset_to_sy(sy_to_asset(x, i), i) <= x
  OBVIOUS
<1> DEFINE fx == wad_to_fp(x)  fi == wad_to_fp(i)
           prod == fp_mul(fx, fi)  back == wad_to_fp(fp_to_wad(prod))
<1>0. fx \in Nat /\ fi \in Nat \ {0}
  BY ConversionType
<1>1. prod \in Nat /\ prod * CUBIT_ONE <= fx * fi
  BY <1>0, CubitAssumption, MulNat, DivBounds DEF fp_mul
<1>2. back \in Nat /\ back <= prod
  BY <1>1, ConversionType, ConversionBack
<1> HIDE DEF fx, fi, prod, back
<1>3. back * CUBIT_ONE <= fx * fi
  BY <1>0, <1>1, <1>2, CubitAssumption, MulMono, MulNat
<1>4. (back * CUBIT_ONE) \div fi <= (fx * fi) \div fi
  BY <1>0, <1>2, <1>3, CubitAssumption, MulNat, DivMono
<1>5. fp_div(back, fi) \in Nat /\ fp_div(back, fi) <= fx
  BY <1>0, <1>2, <1>4, CubitAssumption, MulNat, MulDiv, DivBounds DEF fp_div
<1>6. fp_to_wad(fp_div(back, fi)) <= fp_to_wad(fx)
  BY <1>0, <1>5, ConversionMono
<1>7. fp_to_wad(fx) <= x
  BY ConversionLoses DEF fx
<1>8. asset_to_sy(sy_to_asset(x, i), i) = fp_to_wad(fp_div(back, fi))
  BY DEF asset_to_sy, sy_to_asset, wad_div, wad_mul, back, prod, fx, fi
<1> QED
  BY <1>0, <1>5, <1>6, <1>7, <1>8, ConversionType

-----------------------------------------------------------------------------
(* How much a product or a quotient of WAD numbers can be off *)

\* A WAD number and its 64.64 image, up to one unit.
LEMMA ImageBounds ==
  \A w \in Nat : /\ wad_to_fp(w) * WAD <= w * CUBIT_ONE
                 /\ w * CUBIT_ONE < wad_to_fp(w) * WAD + WAD
BY WadAssumption, CubitAssumption, MulNat, DivBounds DEF wad_to_fp

\* A larger WAD number has no smaller image; that of one is CUBIT_ONE.
LEMMA ImageMono ==
  /\ \A v, w \in Nat : v <= w => wad_to_fp(v) <= wad_to_fp(w)
  /\ wad_to_fp(WAD) = CUBIT_ONE
<1>1. ASSUME NEW v \in Nat, NEW w \in Nat, v <= w
      PROVE  wad_to_fp(v) <= wad_to_fp(w)
  <2>1. v * CUBIT_ONE <= w * CUBIT_ONE
    BY <1>1, CubitAssumption, MulMono
  <2> QED BY <2>1, MulNat, WadAssumption, CubitAssumption, DivMono DEF wad_to_fp
<1>2. wad_to_fp(WAD) = CUBIT_ONE
  <2>1. WAD * CUBIT_ONE = CUBIT_ONE * WAD
    BY WadAssumption, CubitAssumption
  <2> QED BY <2>1, WadAssumption, CubitAssumption, MulDiv DEF wad_to_fp
<1> QED BY <1>1, <1>2

\* A quotient is never more than the exact quotient by the divisor's image.
LEMMA QuotientBound ==
  ASSUME NEW a \in Nat, NEW b \in Nat \ {0}
  PROVE  wad_div(a, b) * wad_to_fp(b) <= a * CUBIT_ONE
<1> DEFINE C == CUBIT_ONE
           fa == wad_to_fp(a)  fb == wad_to_fp(b)
           g == fp_div(fa, fb)  d == wad_div(a, b)
<1>1. /\ C \in Nat \ {0} /\ WAD \in Nat \ {0}
      /\ fa \in Nat /\ fb \in Nat \ {0}
  BY ConversionType, WadAssumption, CubitAssumption
<1>2. fa * C \in Nat
  BY <1>1, MulNat
<1>3. g \in Nat /\ g * fb <= fa * C
  BY <1>1, <1>2, DivBounds DEF fp_div
<1>4. g * WAD \in Nat
  BY <1>1, <1>3, MulNat
<1>5. d \in Nat /\ d * C <= g * WAD
  BY <1>1, <1>4, DivBounds DEF wad_div, fp_to_wad
<1>6. fa * WAD <= a * C
  BY ImageBounds
<1> HIDE DEF C, fa, fb, g, d
<1>7. (d * C) * fb <= (g * WAD) * fb
  BY <1>1, <1>5, <1>4, MulNat, MulMono
<1>8. (g * fb) * WAD <= (fa * C) * WAD
  BY <1>1, <1>3, <1>2, MulNat, MulMono
<1>9. (fa * WAD) * C <= (a * C) * C
  BY <1>1, <1>6, MulNat, MulMono
<1>10. (d * fb) * C <= (a * C) * C
  <2>1. (d * C) * fb = (d * fb) * C
    BY <1>1, <1>5
  <2>2. (g * WAD) * fb = (g * fb) * WAD
    BY <1>1, <1>3
  <2>3. (fa * C) * WAD = (fa * WAD) * C
    BY <1>1
  <2>4. /\ (d * fb) * C \in Nat /\ (g * fb) * WAD \in Nat
        /\ (fa * WAD) * C \in Nat /\ (a * C) * C \in Nat
    BY <1>1, <1>3, <1>5, MulNat
  <2> QED BY <1>7, <1>8, <1>9, <2>1, <2>2, <2>3, <2>4
<1>11. d * fb <= a * C
  <2>1. d * fb \in Nat /\ a * C \in Nat
    BY <1>1, <1>5, MulNat
  <2> QED BY <1>1, <1>10, <2>1, MulCancel
<1> QED BY <1>11 DEF d, fb, C

\* A product is never more than the exact product, nor than the one with the
\* image of a factor.
LEMMA ProductBound ==
  ASSUME NEW a \in Nat, NEW b \in Nat
  PROVE  /\ wad_mul(a, b) * CUBIT_ONE <= a * wad_to_fp(b)
         /\ wad_mul(a, b) * WAD <= a * b
<1> DEFINE C == CUBIT_ONE
           fa == wad_to_fp(a)  fb == wad_to_fp(b)
           p == fp_mul(fa, fb)  m == wad_mul(a, b)
<1>1. /\ C \in Nat \ {0} /\ WAD \in Nat \ {0}
      /\ fa \in Nat /\ fb \in Nat
  BY ConversionType, WadAssumption, CubitAssumption
<1>2. fa * fb \in Nat
  BY <1>1, MulNat
<1>3. p \in Nat /\ p * C <= fa * fb
  BY <1>1, <1>2, DivBounds DEF fp_mul
<1>4. p * WAD \in Nat
  BY <1>1, <1>3, MulNat
<1>5. m \in Nat /\ m * C <= p * WAD
  BY <1>1, <1>4, DivBounds DEF wad_mul, fp_to_wad
<1>6. fa * WAD <= a * C /\ fb * WAD <= b * C
  BY ImageBounds
<1> HIDE DEF C, fa, fb, p, m
<1>7. m * C <= a * fb
  <2>1. (m * C) * C <= (p * WAD) * C
    BY <1>1, <1>5, <1>4, MulNat, MulMono
  <2>2. (p * C) * WAD <= (fa * fb) * WAD
    BY <1>1, <1>3, <1>2, MulNat, MulMono
  <2>3. (fa * WAD) * fb <= (a * C) * fb
    BY <1>1, <1>6, MulNat, MulMono
  <2>4. (p * WAD) * C = (p * C) * WAD /\ (fa * fb) * WAD = (fa * WAD) * fb
        /\ (a * C) * fb = (a * fb) * C
    BY <1>1, <1>3
  <2>5. /\ (m * C) * C \in Nat /\ (p * C) * WAD \in Nat
        /\ (fa * WAD) * fb \in Nat /\ (a * fb) * C \in Nat
    BY <1>1, <1>3, <1>5, MulNat
  <2>6. (m * C) * C <= (a * fb) * C
    BY <2>1, <2>2, <2>3, <2>4, <2>5
  <2>7. m * C \in Nat /\ a * fb \in Nat
    BY <1>1, <1>5, MulNat
  <2> QED BY <1>1, <2>6, <2>7, MulCancel
<1>8. m * WAD <= a * b
  <2>1. (m * C) * WAD <= (a * fb) * WAD
    BY <1>1, <1>5, <1>7, MulNat, MulMono
  <2>2. (fb * WAD) * a <= (b * C) * a
    BY <1>1, <1>6, MulNat, MulMono
  <2>3. (m * C) * WAD = (m * WAD) * C /\ (a * fb) * WAD = (fb * WAD) * a
        /\ (b * C) * a = (a * b) * C
    BY <1>1, <1>5
  <2>4. /\ (m * WAD) * C \in Nat /\ (fb * WAD) * a \in Nat
        /\ (a * b) * C \in Nat
    BY <1>1, <1>5, MulNat
  <2>5. (m * WAD) * C <= (a * b) * C
    BY <2>1, <2>2, <2>3, <2>4
  <2>6. m * WAD \in Nat /\ a * b \in Nat
    BY <1>1, <1>5, MulNat
  <2> QED BY <1>1, <2>5, <2>6, MulCancel
<1> QED BY <1>7, <1>8 DEF m, fb, C

\* A product is below the exact product by less than what its operands, its
\* 64.64 product and the way back lose: about one unit of each.
LEMMA ProductLossNumbers ==
  ASSUME NEW C \in Nat \ {0}, NEW W \in Nat, NEW a \in Nat, NEW b \in Nat,
         NEW x \in Nat, NEW y \in Nat, NEW p \in Nat, NEW m \in Nat,
         x * W <= a * C, a * C <= x * W + W, b * C <= y * W + W,
         x * y <= p * C + C, p * W <= m * C + C
  PROVE  a * b * C <= m * C * W + (a + b) * W + W * W + C * W
<1> DEFINE X == x * W  Y == y * W  A == a * C  B == b * C
<1>1. X \in Nat /\ Y \in Nat /\ A \in Nat /\ B \in Nat
  BY MulNat
<1>2. X <= A /\ A <= X + W /\ B <= Y + W
  OBVIOUS
<1>3. (x * y) * (W * W) <= (p * C + C) * (W * W)
  BY MulNat, MulMono
<1>4. (p * W) * (C * W) <= (m * C + C) * (C * W)
  BY MulNat, MulMono
<1>5. /\ X * Y = (x * y) * (W * W)
      /\ (p * C + C) * (W * W) = (p * W) * (C * W) + (W * W) * C
      /\ (m * C + C) * (C * W) = (m * C * W + C * W) * C
      /\ A * W = (a * W) * C /\ W * B = (b * W) * C
      /\ A * B = (a * b * C) * C
  OBVIOUS
<1> HIDE DEF X, Y, A, B
<1>6. A * B <= X * B + W * B
  <2>1. A * B <= (X + W) * B
    BY <1>1, <1>2, MulMono
  <2> QED BY <1>1, <2>1
<1>7. X * B <= X * Y + X * W
  <2>1. B * X <= (Y + W) * X
    BY <1>1, <1>2, MulMono
  <2> QED BY <1>1, <2>1
<1>8. X * W <= A * W
  BY <1>1, <1>2, MulMono
<1>9. /\ A * B \in Nat /\ X * B \in Nat /\ W * B \in Nat /\ X * Y \in Nat
      /\ X * W \in Nat /\ A * W \in Nat
  BY <1>1, MulNat
<1> DEFINE t == m * C * W + C * W  aw == a * W  bw == b * W  ww == W * W
<1>10. /\ t \in Nat /\ aw \in Nat /\ bw \in Nat /\ ww \in Nat
       /\ a * b * C \in Nat /\ (p * W) * (C * W) \in Nat
  BY MulNat
<1>11. (a * b * C) * C <= t * C + ww * C + aw * C + bw * C
  BY <1>3, <1>4, <1>5, <1>6, <1>7, <1>8, <1>9, <1>10
<1>12. (a + b) * W = aw + bw
  OBVIOUS
<1> HIDE DEF t, aw, bw, ww
<1>13. t * C + ww * C + aw * C + bw * C = (t + ww + aw + bw) * C
  BY <1>10
<1>14. a * b * C <= t + ww + aw + bw
  <2>1. t + ww + aw + bw \in Nat
    BY <1>10
  <2> QED BY <1>10, <1>11, <1>13, <2>1, MulCancel
<1> QED BY <1>12, <1>14 DEF t, ww

LEMMA ProductLoss ==
  ASSUME NEW a \in Nat, NEW b \in Nat
  PROVE  a * b * CUBIT_ONE
           <= wad_mul(a, b) * CUBIT_ONE * WAD + (a + b) * WAD + WAD * WAD
              + CUBIT_ONE * WAD
<1> DEFINE C == CUBIT_ONE
           fa == wad_to_fp(a)  fb == wad_to_fp(b)
           p == fp_mul(fa, fb)  m == wad_mul(a, b)
<1>1. /\ C \in Nat \ {0} /\ WAD \in Nat \ {0}
      /\ fa \in Nat /\ fb \in Nat
  BY ConversionType, WadAssumption, CubitAssumption
<1>2. fa * fb \in Nat
  BY <1>1, MulNat
<1>3. p \in Nat /\ fa * fb < p * C + C
  BY <1>1, <1>2, DivBounds DEF fp_mul
<1>4. p * WAD \in Nat
  BY <1>1, <1>3, MulNat
<1>5. m \in Nat /\ p * WAD < m * C + C
  BY <1>1, <1>4, DivBounds DEF wad_mul, fp_to_wad
<1>6. fa * WAD <= a * C /\ a * C < fa * WAD + WAD /\ b * C < fb * WAD + WAD
  BY ImageBounds
<1> HIDE DEF C, fa, fb, p, m
<1>7. /\ a * C <= fa * WAD + WAD /\ b * C <= fb * WAD + WAD
      /\ fa * fb <= p * C + C /\ p * WAD <= m * C + C
  <2>1. /\ a * C \in Nat /\ b * C \in Nat /\ fa * WAD \in Nat /\ fb * WAD \in Nat
        /\ p * C \in Nat /\ m * C \in Nat
    BY <1>1, <1>3, <1>5, MulNat
  <2> QED BY <1>1, <1>2, <1>3, <1>4, <1>5, <1>6, <2>1
<1>8. a * b * C <= m * C * WAD + (a + b) * WAD + WAD * WAD + C * WAD
  BY <1>1, <1>3, <1>5, <1>6, <1>7, ProductLossNumbers
<1> QED BY <1>8 DEF m, C

\* A quotient by at least one is less than 1 + 2 * WAD / CUBIT_ONE units below
\* the exact quotient by the divisor's image.
LEMMA QuotientLoss ==
  ASSUME NEW a \in Nat, NEW b \in Nat, b >= WAD
  PROVE  a * CUBIT_ONE * CUBIT_ONE
           < (wad_div(a, b) * CUBIT_ONE + CUBIT_ONE + 2 * WAD) * wad_to_fp(b)
<1> DEFINE C == CUBIT_ONE
           fa == wad_to_fp(a)  fb == wad_to_fp(b)
           g == fp_div(fa, fb)  d == wad_div(a, b)
<1>1. /\ C \in Nat \ {0} /\ WAD \in Nat \ {0} /\ b \in Nat \ {0}
      /\ fa \in Nat /\ fb \in Nat \ {0}
  BY ConversionType, WadAssumption, CubitAssumption
<1>2. fa * C \in Nat
  BY <1>1, MulNat
<1>3. g \in Nat /\ fa * C < g * fb + fb
  BY <1>1, <1>2, DivBounds DEF fp_div
<1>4. g * WAD \in Nat
  BY <1>1, <1>3, MulNat
<1>5. d \in Nat /\ g * WAD < d * C + C
  BY <1>1, <1>4, DivBounds DEF wad_div, fp_to_wad
<1>6. a * C < fa * WAD + WAD
  BY ImageBounds
<1>7. C <= fb
  BY <1>1, ImageMono
<1> HIDE DEF C, fa, fb, g, d
<1>8. a * C * C + C <= fa * C * WAD + WAD * C
  <2>1. a * C + 1 \in Nat /\ fa * WAD + WAD \in Nat /\ a * C + 1 <= fa * WAD + WAD
    BY <1>1, <1>6, MulNat
  <2>2. (a * C + 1) * C <= (fa * WAD + WAD) * C
    BY <1>1, <2>1, MulMono
  <2>3. (a * C + 1) * C = a * C * C + C
    BY <1>1
  <2>4. (fa * WAD + WAD) * C = fa * C * WAD + WAD * C
    BY <1>1
  <2> QED BY <2>2, <2>3, <2>4
<1>9. fa * C * WAD <= g * WAD * fb + WAD * fb
  <2>1. g * fb + fb \in Nat /\ fa * C <= g * fb + fb
    BY <1>1, <1>2, <1>3, MulNat
  <2>2. (fa * C) * WAD <= (g * fb + fb) * WAD
    BY <1>1, <1>2, <2>1, MulMono
  <2>3. (g * fb + fb) * WAD = g * WAD * fb + WAD * fb
    BY <1>1, <1>3
  <2> QED BY <2>2, <2>3
<1>10. g * WAD * fb <= (d * C + C) * fb
  <2>1. d * C + C \in Nat /\ g * WAD <= d * C + C
    BY <1>1, <1>4, <1>5, MulNat
  <2> QED BY <1>1, <1>4, <2>1, MulMono
<1>11. WAD * C <= WAD * fb
  <2>1. C * WAD <= fb * WAD
    BY <1>1, <1>7, MulMono
  <2> QED BY <1>1, <2>1
<1>12. (d * C + C + 2 * WAD) * fb = (d * C + C) * fb + WAD * fb + WAD * fb
  BY <1>1, <1>5
<1>13. /\ a * C * C \in Nat /\ fa * C * WAD \in Nat /\ g * WAD * fb \in Nat
       /\ (d * C + C) * fb \in Nat /\ WAD * fb \in Nat /\ WAD * C \in Nat
  BY <1>1, <1>3, <1>5, MulNat
<1>14. a * C * C < (d * C + C + 2 * WAD) * fb
  BY <1>1, <1>8, <1>9, <1>10, <1>11, <1>12, <1>13
<1> QED BY <1>14 DEF d, fb, C

\* A quotient does not grow with the divisor.
LEMMA WadDivAnti ==
  ASSUME NEW a \in Nat, NEW b \in Nat \ {0}, NEW c \in Nat \ {0}, b <= c
  PROVE  wad_div(a, c) <= wad_div(a, b)
<1> DEFINE fa == wad_to_fp(a)  fb == wad_to_fp(b)  fc == wad_to_fp(c)
           g == fp_div(fa, fc)
<1>1. /\ fa \in Nat /\ fb \in Nat \ {0} /\ fc \in Nat \ {0} /\ fb <= fc
      /\ CUBIT_ONE \in Nat \ {0}
  BY ConversionType, ImageMono, CubitAssumption
<1>2. fa * CUBIT_ONE \in Nat
  BY <1>1, MulNat
<1>3. g \in Nat /\ g * fc <= fa * CUBIT_ONE
  BY <1>1, <1>2, DivBounds DEF fp_div
<1>4. fp_div(fa, fb) \in Nat
  BY <1>1, <1>2, DivBounds DEF fp_div
<1>5. g <= fp_div(fa, fb)
  <2> HIDE DEF fa, fb, fc, g
  <2>1. fb * g <= fc * g
    BY <1>1, <1>3, MulMono
  <2>2. fb * g = g * fb /\ fc * g = g * fc
    BY <1>1, <1>3
  <2>3. g * fb \in Nat /\ g * fc \in Nat
    BY <1>1, <1>3, MulNat
  <2>4. g * fb <= fa * CUBIT_ONE
    BY <1>2, <1>3, <2>1, <2>2, <2>3
  <2> QED BY <1>1, <1>2, <1>3, <2>4, DivGreatest DEF fp_div
<1> QED BY <1>3, <1>4, <1>5, ConversionMono DEF wad_div

\* A number divided by itself is exactly one.
LEMMA WadDivSelf == \A a \in Nat \ {0} : wad_div(a, a) = WAD
<1> SUFFICES ASSUME NEW a \in Nat \ {0} PROVE wad_div(a, a) = WAD
  OBVIOUS
<1> DEFINE fa == wad_to_fp(a)
<1>1. fa \in Nat \ {0} /\ CUBIT_ONE \in Nat \ {0} /\ WAD \in Nat \ {0}
  BY ConversionType, CubitAssumption, WadAssumption
<1> HIDE DEF fa
<1>2. fp_div(fa, fa) = CUBIT_ONE
  <2>1. fa * CUBIT_ONE = CUBIT_ONE * fa
    BY <1>1
  <2> QED BY <1>1, <2>1, MulDiv DEF fp_div
<1>3. fp_to_wad(CUBIT_ONE) = WAD
  <2>1. CUBIT_ONE * WAD = WAD * CUBIT_ONE
    BY <1>1
  <2> QED BY <1>1, <2>1, MulDiv DEF fp_to_wad
<1> QED BY <1>2, <1>3 DEF wad_div, fa

\* Rounding up never gives less than the exact quotient.
LEMMA UpBounds ==
  /\ \A a \in Nat, b \in Nat \ {0} : a <= div_up(a, b) * b
  /\ \A a \in Nat, b \in Nat \ {0} : a * WAD <= wad_div_up(a, b) * b
<1>1. ASSUME NEW a \in Nat, NEW b \in Nat \ {0}
      PROVE  a <= ((a + b - 1) \div b) * b
  <2>1. a + b - 1 \in Nat
    OBVIOUS
  <2> DEFINE q == (a + b - 1) \div b
  <2>2. q \in Nat /\ a + b - 1 < q * b + b
    BY <2>1, DivBounds
  <2>3. q * b \in Nat
    BY <2>2, MulNat
  <2> HIDE DEF q
  <2>4. a <= q * b
    BY <2>2, <2>3
  <2> QED BY <2>4 DEF q
<1>2. ASSUME NEW a \in Nat, NEW b \in Nat \ {0} PROVE a <= div_up(a, b) * b
  <2>1. CASE a = 0
    BY <2>1 DEF div_up
  <2>2. CASE a # 0
    BY <1>1, <2>2 DEF div_up
  <2> QED BY <2>1, <2>2
<1>3. ASSUME NEW a \in Nat, NEW b \in Nat \ {0}
      PROVE  a * WAD <= wad_div_up(a, b) * b
  <2>1. CASE a = 0
    BY <2>1, WadAssumption DEF wad_div_up
  <2>2. CASE a # 0
    <3>1. a * WAD \in Nat
      BY WadAssumption, MulNat
    <3> QED BY <1>1, <2>2, <3>1 DEF wad_div_up
  <2> QED BY <2>1, <2>2
<1> QED BY <1>2, <1>3

=============================================================================

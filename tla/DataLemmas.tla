----------------------------- MODULE DataLemmas -----------------------------
(***************************************************************************)
(* Facts about numbers, finite sets and sums that the proofs of several    *)
(* components rest on.  Induction is stated over a set of good subsets, so *)
(* that it can be instantiated; sums are those of the module Functions.    *)
(***************************************************************************)
EXTENDS Integers, FiniteSets, FiniteSetsExt, Functions, FiniteSetTheorems,
        WellFoundedInduction, TLAPS

-----------------------------------------------------------------------------
(* Numbers.  The order of the naturals is well-founded, as a set of pairs. *)
LEMMA NatOrder == IsWellFoundedOn({ss \in Nat \X Nat : ss[1] < ss[2]}, Nat)
  BY NatLessThanWellFounded, Zenon DEF OpToRel

LEMMA LeastNat ==
    ASSUME NEW S \in SUBSET Nat, S # {}
    PROVE  \E x \in S : \A y \in S : x =< y
  <1> DEFINE R == {ss \in Nat \X Nat : ss[1] < ss[2]}
  <1>1. IsWellFoundedOn(R, Nat)
    BY NatOrder
  <1> HIDE DEF R
  <1>2. PICK x \in S : \A y \in S : ~ (<<y, x>> \in R)
    BY <1>1, WFMin
  <1>3. ASSUME NEW y \in S
        PROVE  x =< y
    <2>1. x \in Nat /\ y \in Nat
      OBVIOUS
    <2>2. ~(y < x)
      BY <1>2, <2>1 DEF R
    <2>3. QED
      BY <2>1, <2>2
  <1>4. QED
    BY <1>3

LEMMA MinOfNats ==
    ASSUME NEW S \in SUBSET Nat, S # {}
    PROVE  Min(S) \in S /\ \A y \in S : Min(S) =< y
  BY LeastNat DEF Min

LEMMA MaxOfBounded ==
    ASSUME NEW S \in SUBSET Int, S # {}, NEW n \in Int, \A x \in S : x =< n
    PROVE  Max(S) \in S /\ \A y \in S : y =< Max(S)
  <1> DEFINE T == {n - x : x \in S}
  <1>1. T \in SUBSET Nat /\ T # {}
    <2>1. \A x \in S : x \in Int /\ n - x \in Nat
      OBVIOUS
    <2>2. QED
      BY <2>1
  <1> HIDE DEF T
  <1>2. PICK t \in T : \A y \in T : t =< y
    BY <1>1, LeastNat
  <1>3. PICK x \in S : t = n - x
    BY <1>2 DEF T
  <1>4. ASSUME NEW y \in S PROVE x >= y
    <2>1. n - y \in T
      BY DEF T
    <2>2. t =< n - y
      BY <1>2, <2>1
    <2>3. QED
      BY <1>3, <2>2
  <1>5. QED
    BY <1>4 DEF Max

-----------------------------------------------------------------------------
(* Induction over a finite set: if every subset is good whose own proper   *)
(* subsets are, all are.                                                   *)
LEMMA SubsetInduction ==
    ASSUME NEW S, IsFiniteSet(S), NEW Good,
           \A T \in SUBSET S : (\A U \in SUBSET T : U # T => U \in Good) => T \in Good
    PROVE  \A T \in SUBSET S : T \in Good
  <1> SUFFICES ASSUME NEW T0 \in SUBSET S, T0 \notin Good PROVE FALSE
    OBVIOUS
  <1> DEFINE Bad == {T \in SUBSET S : T \notin Good}
             Sizes == {Cardinality(T) : T \in Bad}
  <1>1. \A T \in SUBSET S : IsFiniteSet(T) /\ Cardinality(T) \in Nat
    BY FS_Subset, FS_CardinalityType
  <1>2. Sizes \in SUBSET Nat /\ Sizes # {}
    BY <1>1
  <1> HIDE DEF Sizes
  <1>3. PICK n \in Sizes : \A m \in Sizes : n =< m
    BY <1>2, LeastNat
  <1>4. PICK T \in Bad : n = Cardinality(T)
    BY <1>3 DEF Sizes
  <1>5. ASSUME NEW U \in SUBSET T, U # T, U \notin Good
        PROVE  FALSE
    <2>1. U \in Bad
      BY <1>5
    <2>2. n =< Cardinality(U)
      BY <1>3, <2>1 DEF Sizes
    <2>3. Cardinality(U) =< Cardinality(T) /\ Cardinality(U) # Cardinality(T)
      BY <1>1, <1>5, FS_Subset
    <2>4. QED
      BY <1>1, <1>4, <2>1, <2>2, <2>3
  <1>6. QED
    BY <1>5

(* A finite set of numbers has a largest member.                           *)
LEMMA MaxOfFinite ==
    ASSUME NEW S \in SUBSET Int, IsFiniteSet(S), S # {}
    PROVE  Max(S) \in S /\ \A y \in S : y =< Max(S)
  <1> DEFINE Good == {T \in SUBSET S : T # {} => \E x \in T : \A y \in T : y =< x}
  <1>1. ASSUME NEW T \in SUBSET S, \A U \in SUBSET T : U # T => U \in Good
        PROVE  T \in Good
    <2> SUFFICES ASSUME T # {} PROVE \E x \in T : \A y \in T : y =< x
      OBVIOUS
    <2>1. PICK t \in T : TRUE
      OBVIOUS
    <2>2. CASE T \ {t} = {}
      BY <2>1, <2>2
    <2>3. CASE T \ {t} # {}
      <3>1. T \ {t} \in Good
        BY <1>1, <2>1
      <3>2. PICK x \in T \ {t} : \A y \in T \ {t} : y =< x
        BY <2>3, <3>1
      <3>3. x \in Int /\ t \in Int
        OBVIOUS
      <3>4. QED
        BY <3>2, <3>3
    <2>4. QED
      BY <2>2, <2>3
  <1>2. S \in Good
    <2> HIDE DEF Good
    <2>1. QED
      BY <1>1, SubsetInduction
  <1>3. QED
    BY <1>2 DEF Max

-----------------------------------------------------------------------------
(* Sums.  The fold behind SumFunctionOnSet removes one chosen element at a *)
(* time; IsSum says that g is that fold on the subsets of S.               *)
Picked(s) == CHOOSE x \in s : TRUE
IsSum(g, f, S) ==
    g = [s \in SUBSET S |-> IF s = {} THEN 0 ELSE f[Picked(s)] + g[s \ {Picked(s)}]]
TheSum(f, S) == CHOOSE g : IsSum(g, f, S)

LEMMA SumUnfold ==
    ASSUME NEW f, NEW S
    PROVE  SumFunctionOnSet(f, S) = TheSum(f, S)[S]
  BY DEF SumFunctionOnSet, FoldFunctionOnSet, MapThenFoldSet, Picked, IsSum, TheSum

LEMMA PickedIn ==
    ASSUME NEW s, s # {}
    PROVE  Picked(s) \in s /\ s \ {Picked(s)} \in SUBSET s /\ s \ {Picked(s)} # s
  BY DEF Picked

LEMMA IsSumAt ==
    ASSUME NEW g, NEW f, NEW S, IsSum(g, f, S), NEW s \in SUBSET S
    PROVE  g[s] = IF s = {} THEN 0 ELSE f[Picked(s)] + g[s \ {Picked(s)}]
  BY DEF IsSum

(* Two folds of the same function agree where both are defined.            *)
LEMMA SumsAgree ==
    ASSUME NEW f, NEW S, NEW T, IsFiniteSet(S), NEW g, NEW h, IsSum(g, f, S), IsSum(h, f, T)
    PROVE  \A s \in SUBSET S : s \in SUBSET T => g[s] = h[s]
  <1> DEFINE Good == {s \in SUBSET S : s \in SUBSET T => g[s] = h[s]}
  <1>1. ASSUME NEW s \in SUBSET S, \A U \in SUBSET s : U # s => U \in Good
        PROVE  s \in Good
    <2>1. CASE s = {} \/ s \notin SUBSET T
      BY <2>1, IsSumAt
    <2>2. CASE s # {} /\ s \in SUBSET T
      <3>1. s \ {Picked(s)} \in Good
        BY <1>1, <2>2, PickedIn
      <3>2. g[s \ {Picked(s)}] = h[s \ {Picked(s)}]
        BY <2>2, <3>1
      <3>3. g[s] = f[Picked(s)] + g[s \ {Picked(s)}]
        BY <2>2, IsSumAt
      <3>4. h[s] = f[Picked(s)] + h[s \ {Picked(s)}]
        BY <2>2, IsSumAt
      <3>5. QED
        BY <3>2, <3>3, <3>4
    <2>3. QED
      BY <2>1, <2>2
  <1> HIDE DEF Good
  <1>2. \A s \in SUBSET S : s \in Good
    BY <1>1, SubsetInduction
  <1>3. QED
    BY <1>2 DEF Good

(* The fold exists.                                                        *)
LEMMA SumExists ==
    ASSUME NEW f, NEW S, IsFiniteSet(S)
    PROVE  IsSum(TheSum(f, S), f, S)
  <1> DEFINE Good == {s \in SUBSET S : IsSum(TheSum(f, s), f, s)}
  <1>1. ASSUME NEW T \in SUBSET S, \A U \in SUBSET T : U # T => U \in Good
        PROVE  T \in Good
    <2> DEFINE rest == T \ {Picked(T)}
               whole == IF T = {} THEN 0 ELSE f[Picked(T)] + TheSum(f, rest)[rest]
               g == [s \in SUBSET T |-> IF s = T THEN whole ELSE TheSum(f, s)[s]]
    <2>1. ASSUME NEW s \in SUBSET T
          PROVE  g[s] = IF s = {} THEN 0 ELSE f[Picked(s)] + g[s \ {Picked(s)}]
      <3>1. CASE s = T
        <4>1. CASE T = {}
          BY <3>1, <4>1
        <4>2. CASE T # {}
          <5>1. rest \in SUBSET T /\ rest # T
            BY <4>2, PickedIn
          <5>2. g[rest] = TheSum(f, rest)[rest]
            BY <5>1
          <5>3. QED
            BY <3>1, <4>2, <5>2
        <4>3. QED
          BY <4>1, <4>2
      <3>2. CASE s # T
        <4>1. s \in Good /\ IsSum(TheSum(f, s), f, s) /\ g[s] = TheSum(f, s)[s]
          BY <1>1, <3>2
        <4>2. CASE s = {}
          BY <4>1, <4>2, IsSumAt
        <4>3. CASE s # {}
          <5> DEFINE less == s \ {Picked(s)}
          <5>1. less \in SUBSET s /\ less # s /\ less \in SUBSET T /\ less # T
            BY <4>3, PickedIn
          <5>2. IsSum(TheSum(f, less), f, less) /\ g[less] = TheSum(f, less)[less]
            BY <1>1, <5>1
          <5>3. IsFiniteSet(less)
            BY <5>1, FS_Subset
          <5>4. TheSum(f, less)[less] = TheSum(f, s)[less]
            BY <4>1, <5>1, <5>2, <5>3, SumsAgree
          <5>5. TheSum(f, s)[s] = f[Picked(s)] + TheSum(f, s)[less]
            BY <4>1, <4>3, IsSumAt
          <5>6. QED
            BY <4>1, <4>3, <5>2, <5>4, <5>5
        <4>4. QED
          BY <4>2, <4>3
      <3>3. QED
        BY <3>1, <3>2
    <2>2. g = [s \in SUBSET T |-> g[s]]
      OBVIOUS
    <2> HIDE DEF g
    <2>3. IsSum(g, f, T)
      BY <2>1, <2>2 DEF IsSum
    <2>4. QED
      BY <2>3 DEF TheSum
  <1> HIDE DEF Good
  <1>2. S \in Good
    BY <1>1, SubsetInduction
  <1>3. QED
    BY <1>2 DEF Good

LEMMA SumEmpty == ASSUME NEW f PROVE SumFunctionOnSet(f, {}) = 0
  <1>1. IsSum(TheSum(f, {}), f, {})
    BY SumExists, FS_EmptySet
  <1>2. QED
    BY <1>1, IsSumAt, SumUnfold

LEMMA SumPicked ==
    ASSUME NEW f, NEW S, IsFiniteSet(S), S # {}
    PROVE  SumFunctionOnSet(f, S) = f[Picked(S)] + SumFunctionOnSet(f, S \ {Picked(S)})
  <1> DEFINE rest == S \ {Picked(S)}
  <1>1. IsFiniteSet(rest) /\ rest \in SUBSET S
    BY PickedIn, FS_Subset
  <1>2. IsSum(TheSum(f, S), f, S) /\ IsSum(TheSum(f, rest), f, rest)
    BY <1>1, SumExists
  <1>3. TheSum(f, rest)[rest] = TheSum(f, S)[rest]
    BY <1>1, <1>2, SumsAgree
  <1>4. TheSum(f, S)[S] = f[Picked(S)] + TheSum(f, S)[rest]
    BY <1>2, IsSumAt
  <1>5. QED
    BY <1>3, <1>4, SumUnfold

(* A sum of naturals is a natural.                                         *)
LEMMA SumType ==
    ASSUME NEW f, NEW S, IsFiniteSet(S), \A x \in S : f[x] \in Nat
    PROVE  SumFunctionOnSet(f, S) \in Nat
  <1> DEFINE Good == {T \in SUBSET S : SumFunctionOnSet(f, T) \in Nat}
  <1>1. ASSUME NEW T \in SUBSET S, \A U \in SUBSET T : U # T => U \in Good
        PROVE  T \in Good
    <2>1. CASE T = {}
      BY <2>1, SumEmpty
    <2>2. CASE T # {}
      <3>1. SumFunctionOnSet(f, T \ {Picked(T)}) \in Nat /\ f[Picked(T)] \in Nat
        BY <1>1, <2>2, PickedIn
      <3>2. IsFiniteSet(T)
        BY FS_Subset
      <3>3. SumFunctionOnSet(f, T) = f[Picked(T)] + SumFunctionOnSet(f, T \ {Picked(T)})
        BY <2>2, <3>2, SumPicked
      <3>4. SumFunctionOnSet(f, T) \in Nat
        BY <3>1, <3>3
      <3>5. QED
        BY <3>4
    <2>3. QED
      BY <2>1, <2>2
  <1> HIDE DEF Good
  <1>2. S \in Good
    BY <1>1, SubsetInduction
  <1>3. QED
    BY <1>2 DEF Good

(* Any element can be taken out first.                                     *)
LEMMA SumOut ==
    ASSUME NEW f, NEW S, IsFiniteSet(S), \A x \in S : f[x] \in Nat
    PROVE  \A x \in S : SumFunctionOnSet(f, S) = f[x] + SumFunctionOnSet(f, S \ {x})
  <1> DEFINE Sum(T) == SumFunctionOnSet(f, T)
             Good == {T \in SUBSET S : \A x \in T : Sum(T) = f[x] + Sum(T \ {x})}
  <1>0. \A T \in SUBSET S : IsFiniteSet(T) /\ Sum(T) \in Nat
    BY FS_Subset, SumType
  <1>1. ASSUME NEW T \in SUBSET S, \A U \in SUBSET T : U # T => U \in Good, NEW x \in T
        PROVE  Sum(T) = f[x] + Sum(T \ {x})
    <2> DEFINE p == Picked(T)
    <2>1. p \in T /\ Sum(T) = f[p] + Sum(T \ {p})
      BY <1>0, PickedIn, SumPicked
    <2>2. CASE x = p
      BY <2>1, <2>2
    <2>3. CASE x # p
      <3>1. T \ {p} \in Good /\ x \in T \ {p}
        BY <1>1, <2>1, <2>3
      <3>2. T \ {x} \in Good /\ p \in T \ {x}
        BY <1>1, <2>1, <2>3
      <3>3. Sum(T \ {p}) = f[x] + Sum((T \ {p}) \ {x})
        BY <3>1
      <3>4. Sum(T \ {x}) = f[p] + Sum((T \ {x}) \ {p})
        BY <3>2
      <3>5. (T \ {x}) \ {p} = (T \ {p}) \ {x}
        OBVIOUS
      <3>6. Sum((T \ {p}) \ {x}) \in Nat /\ f[x] \in Nat /\ f[p] \in Nat
        BY <1>0, <2>1
      <3> HIDE DEF Sum, p
      <3>7. QED
        BY <2>1, <3>3, <3>4, <3>5, <3>6
    <2>4. QED
      BY <2>2, <2>3
  <1>2. \A T \in SUBSET S : (\A U \in SUBSET T : U # T => U \in Good) => T \in Good
    BY <1>1
  <1> HIDE DEF Good
  <1>3. S \in Good
    BY <1>2, SubsetInduction
  <1>4. QED
    BY <1>3 DEF Good

(* A sum grows with its terms, and with equal terms it is the same.        *)
LEMMA SumMonotone ==
    ASSUME NEW f, NEW g, NEW S, IsFiniteSet(S),
           \A x \in S : f[x] \in Nat /\ g[x] \in Nat /\ f[x] =< g[x]
    PROVE  SumFunctionOnSet(f, S) =< SumFunctionOnSet(g, S)
  <1> DEFINE Sf(T) == SumFunctionOnSet(f, T)
             Sg(T) == SumFunctionOnSet(g, T)
             Good == {T \in SUBSET S : Sf(T) =< Sg(T)}
  <1>0. \A T \in SUBSET S : IsFiniteSet(T) /\ Sf(T) \in Nat /\ Sg(T) \in Nat
    BY FS_Subset, SumType
  <1>1. ASSUME NEW T \in SUBSET S, \A U \in SUBSET T : U # T => U \in Good
        PROVE  T \in Good
    <2>1. CASE T = {}
      BY <2>1, SumEmpty
    <2>2. CASE T # {}
      <3> DEFINE p == Picked(T)
                 rest == T \ {p}
      <3>1. p \in T /\ rest \in Good /\ rest \in SUBSET S
        BY <1>1, <2>2, PickedIn
      <3>2. Sf(T) = f[p] + Sf(rest) /\ Sg(T) = g[p] + Sg(rest)
        BY <1>0, <2>2, SumPicked
      <3>3. Sf(rest) =< Sg(rest) /\ Sf(rest) \in Nat /\ Sg(rest) \in Nat
            /\ f[p] \in Nat /\ g[p] \in Nat /\ f[p] =< g[p]
        BY <1>0, <3>1
      <3> HIDE DEF Sf, Sg, p, rest
      <3>4. Sf(T) =< Sg(T)
        BY <3>2, <3>3
      <3>5. QED
        BY <3>4
    <2>3. QED
      BY <2>1, <2>2
  <1> HIDE DEF Good
  <1>2. S \in Good
    BY <1>1, SubsetInduction
  <1>3. QED
    BY <1>2 DEF Good

LEMMA SumSame ==
    ASSUME NEW f, NEW g, NEW S, IsFiniteSet(S), \A x \in S : f[x] \in Nat /\ g[x] = f[x]
    PROVE  SumFunctionOnSet(g, S) = SumFunctionOnSet(f, S)
  <1>1. /\ SumFunctionOnSet(f, S) =< SumFunctionOnSet(g, S)
        /\ SumFunctionOnSet(g, S) =< SumFunctionOnSet(f, S)
    BY SumMonotone
  <1>2. SumFunctionOnSet(f, S) \in Nat /\ SumFunctionOnSet(g, S) \in Nat
    BY SumType
  <1>3. QED
    BY <1>1, <1>2

(* When one term changes, the sum changes by as much.                      *)
LEMMA SumOneChanged ==
    ASSUME NEW f, NEW g, NEW S, IsFiniteSet(S), NEW x \in S,
           \A y \in S : f[y] \in Nat /\ g[y] \in Nat,
           \A y \in S : y # x => g[y] = f[y]
    PROVE  SumFunctionOnSet(g, S) = SumFunctionOnSet(f, S) - f[x] + g[x]
  <1> DEFINE rest == S \ {x}
  <1>1. IsFiniteSet(rest)
    BY FS_Subset
  <1>2. SumFunctionOnSet(g, rest) = SumFunctionOnSet(f, rest) /\ SumFunctionOnSet(f, rest) \in Nat
    BY <1>1, SumSame, SumType
  <1>3. /\ SumFunctionOnSet(f, S) = f[x] + SumFunctionOnSet(f, rest)
        /\ SumFunctionOnSet(g, S) = g[x] + SumFunctionOnSet(g, rest)
    BY SumOut
  <1>4. f[x] \in Nat /\ g[x] \in Nat
    OBVIOUS
  <1>5. QED
    BY <1>2, <1>3, <1>4

(* A sum of zeros is zero.                                                 *)
LEMMA SumZero ==
    ASSUME NEW f, NEW S, IsFiniteSet(S), \A x \in S : f[x] = 0
    PROVE  SumFunctionOnSet(f, S) = 0
  <1>1. CASE S = {}
    BY <1>1, SumEmpty
  <1>2. CASE S # {}
    <2> DEFINE Good == {T \in SUBSET S : SumFunctionOnSet(f, T) = 0}
    <2>1. ASSUME NEW T \in SUBSET S, \A U \in SUBSET T : U # T => U \in Good
          PROVE  T \in Good
      <3>1. CASE T = {}
        BY <3>1, SumEmpty
      <3>2. CASE T # {}
        <4>1. SumFunctionOnSet(f, T \ {Picked(T)}) = 0 /\ f[Picked(T)] = 0
          BY <2>1, <3>2, PickedIn
        <4>2. IsFiniteSet(T)
          BY FS_Subset
        <4>3. SumFunctionOnSet(f, T) = f[Picked(T)] + SumFunctionOnSet(f, T \ {Picked(T)})
          BY <3>2, <4>2, SumPicked
        <4>4. SumFunctionOnSet(f, T) = 0
          BY <4>1, <4>3
        <4>5. QED
          BY <4>4
      <3>3. QED
        BY <3>1, <3>2
    <2> HIDE DEF Good
    <2>2. S \in Good
      BY <2>1, SubsetInduction
    <2>3. QED
      BY <2>2 DEF Good
  <1>3. QED
    BY <1>1, <1>2

(* Whole hours apart, and the hour a time is in.                           *)
LEMMA WholeHours ==
  ASSUME NEW n \in Int, NEW p \in Int, NEW q \in Int, NEW H \in Nat \ {0}, n > 0 => q - p >= n
  PROVE  n > 0 => q * H >= p * H + n * H
  <1>1. SUFFICES ASSUME n > 0
                 PROVE  q * H >= p * H + n * H
    OBVIOUS
  <1>2. PICK e \in Nat : q = p + n + e
    BY <1>1
  <1>3. q * H = p * H + n * H + e * H
    BY <1>2
  <1>4. e * H >= 0
    OBVIOUS
  <1>5. QED
    BY <1>3, <1>4

LEMMA Divided ==
  ASSUME NEW t \in Int, NEW H \in Nat \ {0}
  PROVE  /\ t \div H \in Int /\ (t \div H) * H =< t /\ t < (t \div H) * H + H
         /\ t % H = 0 => t = (t \div H) * H
  OBVIOUS
=============================================================================

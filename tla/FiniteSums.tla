------------------------------- MODULE FiniteSums -------------------------------
(***************************************************************************)
(* Sums over finite sets: what SumFunctionOnSet and SumFunction of the     *)
(* community modules compute.  They fold a set by removing a chosen        *)
(* element at a time; the lemmas below justify that recursion and let a    *)
(* sum be changed one element at a time, whatever the order.               *)
(*                                                                         *)
(* Induction is on finite sets under strict inclusion, which is            *)
(* well-founded: a set of subsets that is not empty has a smallest one.    *)
(***************************************************************************)
EXTENDS Integers, FiniteSets, FiniteSetTheorems, WellFoundedInduction, Functions, TLAPS

LEMMA LeastNat ==
    ASSUME NEW T \in SUBSET Nat, T # {}
    PROVE  \E n \in T : \A m \in T : n <= m
<1>1. PICK n \in T : \A m \in T : <<m, n>> \notin OpToRel(<, Nat)
  BY NatLessThanWellFounded, WFMin
<1>2. \A m \in T : ~(m < n)
  BY <1>1 DEF OpToRel
<1> QED
  BY <1>2

\* What holds of a set once it holds of its smaller subsets, holds of all subsets.
LEMMA SubsetInduction ==
    ASSUME NEW S, IsFiniteSet(S), NEW Good \in SUBSET SUBSET S,
           \A T \in SUBSET S : (\A U \in SUBSET T : U # T => U \in Good) => T \in Good
    PROVE  Good = SUBSET S
<1> DEFINE Bad == (SUBSET S) \ Good
<1> SUFFICES ASSUME Bad # {} PROVE FALSE
  OBVIOUS
<1>1. Bad \subseteq FiniteSubsetsOf(S)
  BY FS_FiniteSubsetsOfFinite
<1> HIDE DEF Bad
<1>2. PICK T \in Bad : \A U \in Bad : <<U, T>> \notin StrictSubsetOrdering(S)
  BY <1>1, FS_StrictSubsetOrderingWellFounded, WFMin
<1>3. \A U \in Bad : ~(U \subseteq T /\ U # T)
  BY <1>2 DEF StrictSubsetOrdering, Bad
<1> QED
  BY <1>3 DEF Bad

-----------------------------------------------------------------------------
(* The fold *)

AnyOf(T) == CHOOSE x \in T : TRUE

\* iter sums f over the subsets of S that are in D.
Folds(iter, f, D) ==
    iter = [T \in D |-> IF T = {} THEN 0 ELSE f[AnyOf(T)] + iter[T \ {AnyOf(T)}]]

LEMMA AnyOfIn == ASSUME NEW T, T # {} PROVE AnyOf(T) \in T
  BY DEF AnyOf

\* The subsets of S of at most n elements.
UpTo(S, n) == {T \in SUBSET S : Cardinality(T) <= n}

LEMMA FewerUpTo ==
    ASSUME NEW S, IsFiniteSet(S), NEW n \in Nat, NEW T \in UpTo(S, n), T # {}
    PROVE  /\ n > 0 /\ T \ {AnyOf(T)} \in UpTo(S, n - 1)
           /\ \A m \in Nat : m <= n => UpTo(S, m) \subseteq UpTo(S, n)
<1>1. IsFiniteSet(T) /\ Cardinality(T) \in Nat /\ Cardinality(T) <= n
  BY FS_Subset, FS_CardinalityType DEF UpTo
<1>2. Cardinality(T \ {AnyOf(T)}) = Cardinality(T) - 1
  BY <1>1, FS_RemoveElement, AnyOfIn
<1>3. Cardinality(T) # 0
  BY <1>1, FS_EmptySet
<1>4. T \ {AnyOf(T)} \in SUBSET S
  BY DEF UpTo
<1>5. \A U \in SUBSET S : Cardinality(U) \in Nat
  BY FS_Subset, FS_CardinalityType
<1> QED
  BY <1>1, <1>2, <1>3, <1>4, <1>5 DEF UpTo

\* What folds the smaller subsets extends to the next size.
LEMMA FoldExtends ==
    ASSUME NEW f, NEW S, IsFiniteSet(S), NEW n \in Nat \ {0},
           NEW g, Folds(g, f, UpTo(S, n - 1))
    PROVE  \E iter : Folds(iter, f, UpTo(S, n))
<1> DEFINE Value(T) == IF T = {} THEN 0 ELSE f[AnyOf(T)] + g[T \ {AnyOf(T)}]
           iter == [T \in UpTo(S, n) |-> Value(T)]
<1>1. \A T \in UpTo(S, n - 1) : T \in UpTo(S, n) /\ iter[T] = g[T]
  <2> SUFFICES ASSUME NEW T \in UpTo(S, n - 1) PROVE T \in UpTo(S, n) /\ iter[T] = g[T]
    OBVIOUS
  <2>1. T \in UpTo(S, n)
    <3>1. Cardinality(T) \in Nat
      BY FS_Subset, FS_CardinalityType DEF UpTo
    <3> QED
      BY <3>1 DEF UpTo
  <2>2. g[T] = Value(T)
    BY DEF Folds
  <2> QED
    BY <2>1, <2>2
<1>2. \A T \in UpTo(S, n) : T # {} => T \ {AnyOf(T)} \in UpTo(S, n - 1)
  BY FewerUpTo
<1>3. \A T \in UpTo(S, n) : T # {} => g[T \ {AnyOf(T)}] = iter[T \ {AnyOf(T)}]
  BY <1>1, <1>2
<1>4. iter = [T \in UpTo(S, n) |->
                IF T = {} THEN 0 ELSE f[AnyOf(T)] + iter[T \ {AnyOf(T)}]]
  BY <1>3
<1> QED
  BY <1>4 DEF Folds

\* Removing elements leads to the empty set, so that there is such a function.
LEMMA FoldExists ==
    ASSUME NEW f, NEW S, IsFiniteSet(S)
    PROVE  \E iter : Folds(iter, f, SUBSET S)
<1> DEFINE Good(n) == \E iter : Folds(iter, f, UpTo(S, n))
           Bad == {n \in Nat : ~Good(n)}
<1>1. Good(0)
  <2> DEFINE zero == [T \in UpTo(S, 0) |-> 0]
  <2>1. \A T \in UpTo(S, 0) : T = {}
    <3> SUFFICES ASSUME NEW T \in UpTo(S, 0), T # {} PROVE FALSE
      OBVIOUS
    <3>1. 0 > 0
      BY FewerUpTo
    <3> QED
      BY <3>1
  <2>2. zero = [T \in UpTo(S, 0) |->
                  IF T = {} THEN 0 ELSE f[AnyOf(T)] + zero[T \ {AnyOf(T)}]]
    BY <2>1
  <2> QED
    BY <2>2 DEF Folds
<1>2. \A n \in Nat \ {0} : Good(n - 1) => Good(n)
  BY FoldExtends
<1>3. Bad = {}
  <2> SUFFICES ASSUME Bad # {} PROVE FALSE
    OBVIOUS
  <2> HIDE DEF Good
  <2>1. PICK n \in Bad : \A m \in Bad : n <= m
    BY LeastNat
  <2>2. n \in Nat \ {0} /\ n - 1 \in Nat
    BY <1>1, <2>1
  <2>3. n - 1 \notin Bad
    BY <2>1, <2>2
  <2> QED
    BY <1>2, <2>1, <2>2, <2>3
<1>4. Cardinality(S) \in Nat /\ UpTo(S, Cardinality(S)) = SUBSET S
  BY FS_CardinalityType, FS_Subset DEF UpTo
<1>5. Good(Cardinality(S))
  BY <1>3, <1>4
<1> QED
  BY <1>4, <1>5

-----------------------------------------------------------------------------
(* Sums of integers *)

Fold(f, S) == CHOOSE iter : Folds(iter, f, SUBSET S)

LEMMA SumIsFold == ASSUME NEW f, NEW S PROVE SumFunctionOnSet(f, S) = Fold(f, S)[S]
  BY DEF SumFunctionOnSet, FoldFunctionOnSet, MapThenFoldSet, Fold, Folds, AnyOf

LEMMA FoldIsFold ==
    ASSUME NEW f, NEW S, IsFiniteSet(S)
    PROVE  Folds(Fold(f, S), f, SUBSET S)
  BY FoldExists DEF Fold

\* What two functions fold on the subsets of T only depends on their values there.
LEMMA FoldsAgree ==
    ASSUME NEW S, IsFiniteSet(S), NEW T \in SUBSET S, NEW f, NEW g, \A x \in T : f[x] = g[x]
    PROVE  Fold(f, S)[T] = Fold(g, T)[T]
<1> DEFINE a == Fold(f, S)
           b == Fold(g, T)
           Good == {U \in SUBSET T : a[U] = b[U]}
<1>1. IsFiniteSet(T)
  BY FS_Subset
<1>2. Folds(a, f, SUBSET S) /\ Folds(b, g, SUBSET T)
  BY <1>1, FoldIsFold
<1> HIDE DEF a, b
<1>3. ASSUME NEW U \in SUBSET T, \A V \in SUBSET U : V # U => V \in Good
      PROVE  U \in Good
  <2>1. CASE U = {}
    BY <1>2, <2>1 DEF Folds
  <2>2. CASE U # {}
    <3> DEFINE x == AnyOf(U)
    <3>1. x \in U
      BY <2>2, AnyOfIn
    <3>2. a[U \ {x}] = b[U \ {x}]
      BY <1>3, <3>1
    <3>3. a[U] = f[x] + a[U \ {x}] /\ b[U] = g[x] + b[U \ {x}]
      BY <1>2, <2>2 DEF Folds
    <3> QED
      BY <3>1, <3>2, <3>3
  <2> QED
    BY <2>1, <2>2
<1>4. T \in SUBSET T /\ (T \in Good => a[T] = b[T]) /\ Good \in SUBSET SUBSET T
  OBVIOUS
<1> HIDE DEF Good
<1>5. Good = SUBSET T
  BY <1>1, <1>3, <1>4, SubsetInduction
<1> QED
  BY <1>4, <1>5 DEF a, b

\* The sum only depends on the values at the elements summed over.
LEMMA SumCongruence ==
    ASSUME NEW S, IsFiniteSet(S), NEW f, NEW g, \A x \in S : f[x] = g[x]
    PROVE  SumFunctionOnSet(f, S) = SumFunctionOnSet(g, S)
  BY FoldsAgree, SumIsFold

LEMMA SumEmpty == ASSUME NEW f PROVE SumFunctionOnSet(f, {}) = 0
<1> DEFINE iter == Fold(f, {})
<1>1. Folds(iter, f, SUBSET {})
  BY FS_EmptySet, FoldIsFold
<1> HIDE DEF iter
<1>2. iter[{}] = 0
  BY <1>1 DEF Folds
<1> QED
  BY <1>2, SumIsFold DEF iter

LEMMA SumAnyOf ==
    ASSUME NEW f, NEW S, IsFiniteSet(S), S # {}
    PROVE  SumFunctionOnSet(f, S)
             = f[AnyOf(S)] + SumFunctionOnSet(f, S \ {AnyOf(S)})
<1> DEFINE x == AnyOf(S)
           iter == Fold(f, S)
<1>1. Fold(f, S)[S] = f[x] + Fold(f, S)[S \ {x}]
  <2>1. Folds(iter, f, SUBSET S)
    BY FoldIsFold
  <2> HIDE DEF iter
  <2>2. iter[S] = f[x] + iter[S \ {x}]
    BY <2>1 DEF Folds
  <2> QED
    BY <2>2 DEF iter
<1>2. Fold(f, S)[S \ {x}] = Fold(f, S \ {x})[S \ {x}]
  BY FoldsAgree
<1> QED
  BY <1>1, <1>2, SumIsFold

LEMMA SumType ==
    ASSUME NEW f, NEW S, IsFiniteSet(S), \A x \in S : f[x] \in Int
    PROVE  SumFunctionOnSet(f, S) \in Int
<1> DEFINE Good == {T \in SUBSET S : SumFunctionOnSet(f, T) \in Int}
<1>1. ASSUME NEW T \in SUBSET S, \A U \in SUBSET T : U # T => U \in Good
      PROVE  T \in Good
  <2>1. CASE T = {}
    BY <2>1, SumEmpty
  <2>2. CASE T # {}
    <3>1. AnyOf(T) \in T /\ IsFiniteSet(T)
      BY <2>2, AnyOfIn, FS_Subset
    <3>2. SumFunctionOnSet(f, T \ {AnyOf(T)}) \in Int
      BY <1>1, <3>1
    <3> QED
      BY <2>2, <3>1, <3>2, SumAnyOf
  <2> QED
    BY <2>1, <2>2
<1>2. Good \in SUBSET SUBSET S /\ (S \in Good => SumFunctionOnSet(f, S) \in Int)
  OBVIOUS
<1> HIDE DEF Good
<1> QED
  BY <1>1, <1>2, SubsetInduction

\* Any element can be taken out first.
LEMMA SumRemove ==
    ASSUME NEW f, NEW S, IsFiniteSet(S), \A x \in S : f[x] \in Int, NEW e \in S
    PROVE  SumFunctionOnSet(f, S) = f[e] + SumFunctionOnSet(f, S \ {e})
<1> DEFINE Sum(T) == SumFunctionOnSet(f, T)
           Good == {T \in SUBSET S : \A x \in T : Sum(T) = f[x] + Sum(T \ {x})}
<1>1. ASSUME NEW T \in SUBSET S, \A U \in SUBSET T : U # T => U \in Good
      PROVE  T \in Good
  <2> SUFFICES ASSUME NEW x \in T PROVE Sum(T) = f[x] + Sum(T \ {x})
    OBVIOUS
  <2> DEFINE c == AnyOf(T)
  <2>1. c \in T
    BY AnyOfIn
  <2>2. IsFiniteSet(T) /\ IsFiniteSet((T \ {x}) \ {c})
    BY FS_Subset
  <2>3. Sum(T) = f[c] + Sum(T \ {c})
    BY <2>1, <2>2, SumAnyOf
  <2>4. CASE x # c
    <3>1. x \in T \ {c} /\ c \in T \ {x}
      BY <2>1, <2>4
    <3>2. T \ {c} \in Good /\ T \ {x} \in Good
      <4>1. T \ {c} # T /\ T \ {x} # T /\ T \ {c} \in SUBSET T /\ T \ {x} \in SUBSET T
        BY <2>1
      <4> HIDE DEF Good, c
      <4> QED
        BY <1>1, <4>1
    <3>3. Sum(T \ {c}) = f[x] + Sum((T \ {c}) \ {x})
      BY <3>1, <3>2
    <3>4. Sum(T \ {x}) = f[c] + Sum((T \ {x}) \ {c})
      BY <3>1, <3>2
    <3>5. (T \ {c}) \ {x} = (T \ {x}) \ {c}
      OBVIOUS
    <3>6. Sum((T \ {x}) \ {c}) \in Int /\ f[x] \in Int /\ f[c] \in Int
      <4>1. \A y \in (T \ {x}) \ {c} : f[y] \in Int
        OBVIOUS
      <4> QED
        BY <2>1, <2>2, <4>1, SumType
    <3>7. Sum(T) = f[c] + (f[x] + Sum((T \ {x}) \ {c}))
      BY <2>3, <3>3, <3>5
    <3>8. Sum(T) = f[x] + (f[c] + Sum((T \ {x}) \ {c}))
      BY <3>6, <3>7
    <3> QED
      BY <3>4, <3>8
  <2> QED
    BY <2>3, <2>4
<1>2. Good \in SUBSET SUBSET S /\ (S \in Good => Sum(S) = f[e] + Sum(S \ {e}))
  OBVIOUS
<1> HIDE DEF Good
<1>3. S \in Good
  BY <1>1, <1>2, SubsetInduction
<1> QED
  BY <1>2, <1>3

\* One value changes, and the sum changes by as much.
LEMMA SumUpdate ==
    ASSUME NEW S, IsFiniteSet(S), NEW f, NEW g, NEW e \in S,
           \A x \in S : f[x] \in Int /\ g[x] \in Int, \A x \in S \ {e} : f[x] = g[x]
    PROVE  SumFunctionOnSet(g, S) = SumFunctionOnSet(f, S) - f[e] + g[e]
<1>1. IsFiniteSet(S \ {e})
  BY FS_Subset
<1>2. SumFunctionOnSet(f, S \ {e}) = SumFunctionOnSet(g, S \ {e})
  BY <1>1, SumCongruence
<1>3. SumFunctionOnSet(f, S \ {e}) \in Int
  BY <1>1, SumType
<1>4. /\ SumFunctionOnSet(f, S) = f[e] + SumFunctionOnSet(f, S \ {e})
      /\ SumFunctionOnSet(g, S) = g[e] + SumFunctionOnSet(g, S \ {e})
  BY SumRemove
<1> QED
  BY <1>2, <1>3, <1>4

\* The sum of sums.
LEMMA SumAdd ==
    ASSUME NEW S, IsFiniteSet(S), NEW f, NEW g, NEW h,
           \A x \in S : f[x] \in Int /\ g[x] \in Int /\ h[x] = f[x] + g[x]
    PROVE  SumFunctionOnSet(h, S) = SumFunctionOnSet(f, S) + SumFunctionOnSet(g, S)
<1> DEFINE F(T) == SumFunctionOnSet(f, T)
           G(T) == SumFunctionOnSet(g, T)
           H(T) == SumFunctionOnSet(h, T)
           Good == {T \in SUBSET S : H(T) = F(T) + G(T)}
<1>1. ASSUME NEW T \in SUBSET S, \A U \in SUBSET T : U # T => U \in Good
      PROVE  T \in Good
  <2>1. CASE T = {}
    BY <2>1, SumEmpty
  <2>2. CASE T # {}
    <3> DEFINE c == AnyOf(T)
               R == T \ {c}
    <3>1. c \in T /\ IsFiniteSet(T) /\ IsFiniteSet(R)
      BY <2>2, AnyOfIn, FS_Subset
    <3>2. F(T) = f[c] + F(R) /\ G(T) = g[c] + G(R) /\ H(T) = h[c] + H(R)
      BY <2>2, <3>1, SumAnyOf
    <3>3. H(R) = F(R) + G(R)
      BY <1>1, <3>1
    <3>4. F(R) \in Int /\ G(R) \in Int
      BY <3>1, SumType
    <3>5. f[c] \in Int /\ g[c] \in Int /\ h[c] = f[c] + g[c]
      BY <3>1
    <3>6. H(T) = F(T) + G(T)
      <4> HIDE DEF F, G, H, c, R
      <4> QED
        BY <3>2, <3>3, <3>4, <3>5
    <3> QED
      BY <3>6
  <2> QED
    BY <2>1, <2>2
<1>2. Good \in SUBSET SUBSET S /\ (S \in Good => H(S) = F(S) + G(S))
  OBVIOUS
<1> HIDE DEF Good
<1> QED
  BY <1>1, <1>2, SubsetInduction

\* Natural numbers add up to one, which none of them exceeds.
LEMMA SumBounds ==
    ASSUME NEW S, IsFiniteSet(S), NEW f, \A x \in S : f[x] \in Nat
    PROVE  /\ SumFunctionOnSet(f, S) \in Nat
           /\ \A x \in S : f[x] <= SumFunctionOnSet(f, S)
<1> DEFINE Sum(T) == SumFunctionOnSet(f, T)
           Good == {T \in SUBSET S : Sum(T) \in Nat}
<1>1. ASSUME NEW T \in SUBSET S, \A U \in SUBSET T : U # T => U \in Good
      PROVE  T \in Good
  <2>1. CASE T = {}
    BY <2>1, SumEmpty
  <2>2. CASE T # {}
    <3>1. AnyOf(T) \in T /\ IsFiniteSet(T)
      BY <2>2, AnyOfIn, FS_Subset
    <3>2. Sum(T \ {AnyOf(T)}) \in Nat
      BY <1>1, <3>1
    <3> QED
      BY <2>2, <3>1, <3>2, SumAnyOf
  <2> QED
    BY <2>1, <2>2
<1>2. Good \in SUBSET SUBSET S /\ (\A T \in Good : Sum(T) \in Nat)
  OBVIOUS
<1> HIDE DEF Good
<1>3. \A T \in SUBSET S : Sum(T) \in Nat
  BY <1>1, <1>2, SubsetInduction
<1>4. \A x \in S : Sum(S) = f[x] + Sum(S \ {x})
  BY SumRemove
<1>5. Sum(S) \in Nat /\ \A x \in S : Sum(S \ {x}) \in Nat
  BY <1>3
<1>6. ASSUME NEW x \in S PROVE f[x] <= Sum(S)
  <2>1. f[x] \in Nat /\ Sum(S) = f[x] + Sum(S \ {x}) /\ Sum(S \ {x}) \in Nat
    BY <1>4, <1>5
  <2> QED
    BY <2>1
<1> QED
  BY <1>5, <1>6

\* Fewer natural numbers add up to less.
LEMMA SumSubset ==
    ASSUME NEW S, IsFiniteSet(S), NEW f, \A x \in S : f[x] \in Nat, NEW T \in SUBSET S
    PROVE  SumFunctionOnSet(f, T) <= SumFunctionOnSet(f, S)
<1> DEFINE Sum(U) == SumFunctionOnSet(f, U)
           Good == {U \in SUBSET S : T \subseteq U => Sum(T) <= Sum(U)}
<1>1. Sum(T) \in Nat
  BY FS_Subset, SumBounds
<1>2. ASSUME NEW U \in SUBSET S, \A V \in SUBSET U : V # U => V \in Good
      PROVE  U \in Good
  <2>1. CASE T \subseteq U /\ T # U
    <3>1. PICK e \in U : e \notin T
      BY <2>1
    <3>2. IsFiniteSet(U) /\ IsFiniteSet(U \ {e})
      BY FS_Subset
    <3>3. Sum(U) = f[e] + Sum(U \ {e})
      BY <3>2, SumRemove
    <3>4. Sum(U \ {e}) \in Nat /\ f[e] \in Nat
      BY <3>2, SumBounds
    <3>5. Sum(T) <= Sum(U \ {e})
      BY <1>2, <2>1, <3>1
    <3>6. Sum(T) <= Sum(U)
      BY <1>1, <3>3, <3>4, <3>5
    <3> QED
      BY <3>6
  <2>2. CASE T = U
    BY <1>1, <2>2
  <2> QED
    BY <2>1, <2>2
<1>3. Good \in SUBSET SUBSET S /\ (S \in Good => Sum(T) <= Sum(S))
  OBVIOUS
<1> HIDE DEF Good
<1> QED
  BY <1>2, <1>3, SubsetInduction

\* Only the elements that are not zero count.
LEMMA SumRestrict ==
    ASSUME NEW S, IsFiniteSet(S), NEW f, \A x \in S : f[x] \in Int, NEW T \in SUBSET S,
           \A x \in S \ T : f[x] = 0
    PROVE  SumFunctionOnSet(f, S) = SumFunctionOnSet(f, T)
<1> DEFINE Sum(U) == SumFunctionOnSet(f, U)
           Good == {U \in SUBSET S : T \subseteq U => Sum(T) = Sum(U)}
<1>2. ASSUME NEW U \in SUBSET S, \A V \in SUBSET U : V # U => V \in Good
      PROVE  U \in Good
  <2>1. CASE T \subseteq U /\ T # U
    <3>1. PICK e \in U : e \notin T
      BY <2>1
    <3>2. IsFiniteSet(U) /\ IsFiniteSet(U \ {e})
      BY FS_Subset
    <3>3. Sum(U) = f[e] + Sum(U \ {e})
      BY <3>2, SumRemove
    <3>4. Sum(U \ {e}) \in Int /\ f[e] = 0
      BY <3>1, <3>2, SumType
    <3>5. Sum(T) = Sum(U \ {e})
      BY <1>2, <2>1, <3>1
    <3>6. Sum(T) = Sum(U)
      BY <3>3, <3>4, <3>5
    <3> QED
      BY <3>6
  <2>2. CASE T = U
    BY <2>2
  <2> QED
    BY <2>1, <2>2
<1>3. Good \in SUBSET SUBSET S /\ (S \in Good => Sum(T) = Sum(S))
  OBVIOUS
<1> HIDE DEF Good
<1> QED
  BY <1>2, <1>3, SubsetInduction

-----------------------------------------------------------------------------
(* The last of a finite set, and amounts that are filled in order *)

LEMMA LastExists ==
    ASSUME NEW S, IsFiniteSet(S), S # {}, NEW rank, \A x \in S : rank[x] \in Int
    PROVE  \E e \in S : \A x \in S : rank[x] <= rank[e]
<1> DEFINE Good == {T \in SUBSET S : T # {} => \E e \in T : \A x \in T : rank[x] <= rank[e]}
<1>1. ASSUME NEW T \in SUBSET S, \A U \in SUBSET T : U # T => U \in Good
      PROVE  T \in Good
  <2> SUFFICES ASSUME T # {} PROVE \E e \in T : \A x \in T : rank[x] <= rank[e]
    OBVIOUS
  <2>1. PICK c \in T : TRUE
    OBVIOUS
  <2>2. CASE T = {c}
    BY <2>2
  <2>3. CASE T # {c}
    <3>1. T \ {c} \in Good /\ T \ {c} # {}
      BY <1>1, <2>3
    <3>2. PICK e \in T \ {c} : \A x \in T \ {c} : rank[x] <= rank[e]
      BY <3>1
    <3>3. rank[c] \in Int /\ rank[e] \in Int /\ \A x \in T : rank[x] \in Int
      OBVIOUS
    <3>4. CASE rank[c] <= rank[e]
      BY <3>2, <3>4
    <3>5. CASE rank[e] <= rank[c]
      BY <3>2, <3>3, <3>5
    <3> QED
      BY <3>3, <3>4, <3>5
  <2> QED
    BY <2>2, <2>3
<1>2. Good \in SUBSET SUBSET S
      /\ (S \in Good => \E e \in S : \A x \in S : rank[x] <= rank[e])
  OBVIOUS
<1> HIDE DEF Good
<1> QED
  BY <1>1, <1>2, SubsetInduction

Least(a, b) == IF a <= b THEN a ELSE b

\* What an amount leaves for x once the elements ranked before it are full.
LeftFor(x, S, rank, room, amount) ==
    amount - SumFunctionOnSet(room, {y \in S : rank[y] < rank[x]})

\* Filled in the order of their ranks, they take the amount, or are all full.
LEMMA FillingAddsUp ==
    ASSUME NEW S, IsFiniteSet(S), NEW rank, NEW room, NEW slice, NEW amount \in Nat,
           \A x \in S : rank[x] \in Int /\ room[x] \in Nat,
           \A x, y \in S : rank[x] = rank[y] => x = y,
           \A x \in S : slice[x] = IF LeftFor(x, S, rank, room, amount) <= 0 THEN 0
                                   ELSE Least(LeftFor(x, S, rank, room, amount), room[x])
    PROVE  SumFunctionOnSet(slice, S) = Least(amount, SumFunctionOnSet(room, S))
<1> DEFINE Room(T) == SumFunctionOnSet(room, T)
           First(T) == \A x \in T, y \in S : rank[y] < rank[x] => y \in T
           Good == {T \in SUBSET S : First(T) =>
                      SumFunctionOnSet(slice, T) = Least(amount, Room(T))}
<1>1. \A T \in SUBSET S : IsFiniteSet(T) /\ Room(T) \in Nat
  BY FS_Subset, SumBounds
<1>2. \A x \in S : slice[x] \in Nat
  <2> SUFFICES ASSUME NEW x \in S PROVE slice[x] \in Nat
    OBVIOUS
  <2>1. {y \in S : rank[y] < rank[x]} \in SUBSET S
    OBVIOUS
  <2>2. LeftFor(x, S, rank, room, amount) \in Int
    BY <1>1, <2>1 DEF LeftFor
  <2> QED
    BY <2>2 DEF Least
<1>3. ASSUME NEW T \in SUBSET S, \A U \in SUBSET T : U # T => U \in Good
      PROVE  T \in Good
  <2> SUFFICES ASSUME First(T)
               PROVE  SumFunctionOnSet(slice, T) = Least(amount, Room(T))
    OBVIOUS
  <2>1. CASE T = {}
    BY <2>1, SumEmpty DEF Least
  <2>2. CASE T # {}
    <3>1. PICK e \in T : \A x \in T : rank[x] <= rank[e]
      BY <1>1, <2>2, LastExists
    <3>2. T \ {e} = {y \in S : rank[y] < rank[e]}
      <4>1. \A x \in T \ {e} : rank[x] < rank[e]
        BY <3>1
      <4> QED
        BY <4>1
    <3>3. T \ {e} \in Good /\ First(T \ {e})
      BY <1>3, <3>2
    <3>4. SumFunctionOnSet(slice, T \ {e}) = Least(amount, Room(T \ {e}))
      BY <3>3
    <3>5. /\ SumFunctionOnSet(slice, T) = slice[e] + SumFunctionOnSet(slice, T \ {e})
          /\ Room(T) = room[e] + Room(T \ {e})
      BY <1>1, <1>2, SumRemove
    <3>6. Room(T \ {e}) \in Nat /\ room[e] \in Nat
      BY <1>1
    <3>7. LeftFor(e, S, rank, room, amount) = amount - Room(T \ {e})
      BY <3>2 DEF LeftFor
    <3>8. slice[e] = IF amount - Room(T \ {e}) <= 0 THEN 0
                     ELSE Least(amount - Room(T \ {e}), room[e])
      BY <3>7
    <3> HIDE DEF Room
    <3> QED
      BY <3>4, <3>5, <3>6, <3>8 DEF Least
  <2> QED
    BY <2>1, <2>2
<1>4. Good \in SUBSET SUBSET S /\ First(S)
      /\ (S \in Good => SumFunctionOnSet(slice, S) = Least(amount, Room(S)))
  OBVIOUS
<1> HIDE DEF Good
<1> QED
  BY <1>3, <1>4, SubsetInduction

\* What receives something leaves nothing empty before it.
LEMMA FillingInOrder ==
    ASSUME NEW S, IsFiniteSet(S), NEW rank, NEW room, NEW amount \in Nat,
           \A x \in S : rank[x] \in Int /\ room[x] \in Nat,
           NEW x \in S, NEW y \in S, rank[y] < rank[x],
           LeftFor(x, S, rank, room, amount) > 0
    PROVE  room[y] < LeftFor(y, S, rank, room, amount)
<1> DEFINE before(z) == {w \in S : rank[w] < rank[z]}
           Room(T) == SumFunctionOnSet(room, T)
<1>1. before(y) \cup {y} \in SUBSET before(x) /\ y \notin before(y)
  OBVIOUS
<1>2. IsFiniteSet(before(x)) /\ IsFiniteSet(before(y)) /\ IsFiniteSet(before(y) \cup {y})
  BY FS_Subset
<1>3. Room(before(y) \cup {y}) = room[y] + Room((before(y) \cup {y}) \ {y})
  BY <1>2, SumRemove
<1>4. (before(y) \cup {y}) \ {y} = before(y)
  OBVIOUS
<1>5. Room(before(y) \cup {y}) <= Room(before(x))
  BY <1>1, <1>2, SumSubset
<1>6. Room(before(x)) \in Nat /\ Room(before(y)) \in Nat /\ room[y] \in Nat
  BY <1>2, SumBounds
<1>7. amount - Room(before(x)) > 0
  BY DEF LeftFor
<1>8. room[y] < amount - Room(before(y))
  BY <1>3, <1>4, <1>5, <1>6, <1>7
<1> QED
  BY <1>8 DEF LeftFor

-----------------------------------------------------------------------------
(* Unions, constants and fibers *)

LEMMA FiniteUnion ==
    ASSUME NEW S, IsFiniteSet(S), NEW part, \A x \in S : IsFiniteSet(part[x])
    PROVE  IsFiniteSet(UNION {part[x] : x \in S})
<1> DEFINE Good == {T \in SUBSET S : IsFiniteSet(UNION {part[x] : x \in T})}
<1>1. ASSUME NEW T \in SUBSET S, \A U \in SUBSET T : U # T => U \in Good
      PROVE  T \in Good
  <2>1. CASE T = {}
    <3>1. UNION {part[x] : x \in T} = {}
      BY <2>1
    <3> QED
      BY <3>1, FS_EmptySet
  <2>2. CASE T # {}
    <3>1. PICK e \in T : TRUE
      BY <2>2
    <3>2. T \ {e} \in Good
      BY <1>1, <3>1
    <3>3. UNION {part[x] : x \in T} = (UNION {part[x] : x \in T \ {e}}) \cup part[e]
      BY <3>1
    <3>4. IsFiniteSet(part[e]) /\ IsFiniteSet(UNION {part[x] : x \in T \ {e}})
      BY <3>1, <3>2
    <3>5. IsFiniteSet((UNION {part[x] : x \in T \ {e}}) \cup part[e])
      BY <3>4, FS_Union
    <3> QED
      BY <3>3, <3>5
  <2> QED
    BY <2>1, <2>2
<1>2. Good \in SUBSET SUBSET S /\ (S \in Good => IsFiniteSet(UNION {part[x] : x \in S}))
  OBVIOUS
<1> HIDE DEF Good
<1> QED
  BY <1>1, <1>2, SubsetInduction

LEMMA SumMonotone ==
    ASSUME NEW S, IsFiniteSet(S), NEW f, NEW g,
           \A x \in S : f[x] \in Int /\ g[x] \in Int /\ f[x] <= g[x]
    PROVE  SumFunctionOnSet(f, S) <= SumFunctionOnSet(g, S)
<1> DEFINE gap == [x \in S |-> g[x] - f[x]]
<1>1. \A x \in S : gap[x] \in Nat /\ g[x] = f[x] + gap[x]
  OBVIOUS
<1> HIDE DEF gap
<1>2. SumFunctionOnSet(g, S) = SumFunctionOnSet(f, S) + SumFunctionOnSet(gap, S)
  BY <1>1, SumAdd
<1>3. SumFunctionOnSet(gap, S) \in Nat
  BY <1>1, SumBounds
<1>4. SumFunctionOnSet(f, S) \in Int
  BY SumType
<1> QED
  BY <1>2, <1>3, <1>4

LEMMA SumConstant ==
    ASSUME NEW S, IsFiniteSet(S), NEW k \in Int, NEW f, \A x \in S : f[x] = k
    PROVE  SumFunctionOnSet(f, S) = k * Cardinality(S)
<1> DEFINE Good == {T \in SUBSET S : SumFunctionOnSet(f, T) = k * Cardinality(T)}
<1>1. ASSUME NEW T \in SUBSET S, \A U \in SUBSET T : U # T => U \in Good
      PROVE  T \in Good
  <2>1. CASE T = {}
    <3>1. Cardinality(T) = 0 /\ SumFunctionOnSet(f, T) = 0
      BY <2>1, SumEmpty, FS_EmptySet
    <3> QED
      BY <3>1
  <2>2. CASE T # {}
    <3>1. PICK e \in T : TRUE
      BY <2>2
    <3>2. IsFiniteSet(T) /\ \A x \in T : f[x] = k /\ f[x] \in Int
      BY FS_Subset
    <3>3. SumFunctionOnSet(f, T) = f[e] + SumFunctionOnSet(f, T \ {e})
      BY <3>2, SumRemove
    <3>4. /\ Cardinality(T \ {e}) = Cardinality(T) - 1
          /\ Cardinality(T) \in Nat
      BY <3>1, <3>2, FS_RemoveElement, FS_CardinalityType
    <3>5. T \ {e} \in Good
      BY <1>1, <3>1
    <3>6. SumFunctionOnSet(f, T) = k + k * (Cardinality(T) - 1)
      BY <3>2, <3>3, <3>4, <3>5
    <3>7. ASSUME NEW n \in Nat PROVE k + k * (n - 1) = k * n
      OBVIOUS
    <3> QED
      BY <3>4, <3>6, <3>7
  <2> QED
    BY <2>1, <2>2
<1>2. Good \in SUBSET SUBSET S /\ (S \in Good => SumFunctionOnSet(f, S) = k * Cardinality(S))
  OBVIOUS
<1> HIDE DEF Good
<1> QED
  BY <1>1, <1>2, SubsetInduction

\* A sum can be taken part by part: first over what at[d] is the same for.
LEMMA SumFibers ==
    ASSUME NEW D, IsFiniteSet(D), NEW f, \A d \in D : f[d] \in Int,
           NEW S, IsFiniteSet(S), NEW at, \A d \in D : at[d] \in S
    PROVE  SumFunctionOnSet([x \in S |-> SumFunctionOnSet(f, {d \in D : at[d] = x})], S)
             = SumFunctionOnSet(f, D)
<1> DEFINE Fiber(E, x) == {d \in E : at[d] = x}
           parts(E) == [x \in S |-> SumFunctionOnSet(f, Fiber(E, x))]
           Good == {E \in SUBSET D : SumFunctionOnSet(parts(E), S) = SumFunctionOnSet(f, E)}
<1>1. \A E \in SUBSET D, x \in S :
        IsFiniteSet(E) /\ IsFiniteSet(Fiber(E, x)) /\ parts(E)[x] \in Int
  <2> SUFFICES ASSUME NEW E \in SUBSET D, NEW x \in S
               PROVE  IsFiniteSet(E) /\ IsFiniteSet(Fiber(E, x)) /\ parts(E)[x] \in Int
    OBVIOUS
  <2>1. IsFiniteSet(E) /\ IsFiniteSet(Fiber(E, x)) /\ \A d \in Fiber(E, x) : f[d] \in Int
    BY FS_Subset
  <2> HIDE DEF Fiber
  <2>2. SumFunctionOnSet(f, Fiber(E, x)) \in Int
    BY <2>1, SumType
  <2> QED
    BY <2>1, <2>2
<1>2. ASSUME NEW E \in SUBSET D, \A F \in SUBSET E : F # E => F \in Good
      PROVE  E \in Good
  <2>1. CASE E = {}
    <3>1. \A x \in S : Fiber(E, x) = {}
      BY <2>1
    <3>2. \A x \in S : parts(E)[x] = 0
      BY <3>1, SumEmpty
    <3>3. SumFunctionOnSet(parts(E), S) = 0 * Cardinality(S)
      <4> HIDE DEF parts
      <4> QED
        BY <3>2, SumConstant
    <3>4. SumFunctionOnSet(f, E) = 0
      BY <2>1, SumEmpty
    <3>5. Cardinality(S) \in Nat
      BY FS_CardinalityType
    <3> QED
      BY <3>3, <3>4, <3>5
  <2>2. CASE E # {}
    <3>1. PICK e \in E : TRUE
      BY <2>2
    <3>2. E \ {e} \in Good /\ E \ {e} \in SUBSET D
      BY <1>2, <3>1
    <3>3. \A x \in S : x # at[e] => parts(E)[x] = parts(E \ {e})[x]
      <4>1. \A x \in S : x # at[e] => Fiber(E, x) = Fiber(E \ {e}, x)
        OBVIOUS
      <4> QED
        BY <4>1
    <3>4. parts(E)[at[e]] = f[e] + parts(E \ {e})[at[e]]
      <4>1. Fiber(E, at[e]) \ {e} = Fiber(E \ {e}, at[e]) /\ e \in Fiber(E, at[e])
        BY <3>1
      <4>2. IsFiniteSet(Fiber(E, at[e])) /\ at[e] \in S /\ \A d \in Fiber(E, at[e]) : f[d] \in Int
        BY <1>1, <3>1
      <4> HIDE DEF Fiber
      <4>3. SumFunctionOnSet(f, Fiber(E, at[e]))
              = f[e] + SumFunctionOnSet(f, Fiber(E \ {e}, at[e]))
        BY <4>1, <4>2, SumRemove
      <4> QED
        BY <4>2, <4>3
    <3>5. SumFunctionOnSet(parts(E), S)
            = SumFunctionOnSet(parts(E \ {e}), S) - parts(E \ {e})[at[e]] + parts(E)[at[e]]
      <4>1. at[e] \in S
        BY <3>1
      <4>2. \A x \in S : parts(E)[x] \in Int /\ parts(E \ {e})[x] \in Int
        BY <1>1, <3>2
      <4>3. \A x \in S \ {at[e]} : parts(E \ {e})[x] = parts(E)[x]
        BY <3>3
      <4> HIDE DEF parts, Good
      <4>4. PICK g, h : g = parts(E \ {e}) /\ h = parts(E)
        OBVIOUS
      <4>5. /\ \A x \in S : g[x] \in Int /\ h[x] \in Int
            /\ \A x \in S \ {at[e]} : g[x] = h[x]
        BY <4>2, <4>3, <4>4
      <4>7. PICK k \in S : k = at[e]
        BY <4>1
      <4>8. \A x \in S \ {k} : g[x] = h[x]
        BY <4>5, <4>7
      <4>9. SumFunctionOnSet(h, S) = SumFunctionOnSet(g, S) - g[k] + h[k]
        BY ONLY IsFiniteSet(S), k \in S, <4>5, <4>8, SumUpdate
      <4>6. SumFunctionOnSet(h, S) = SumFunctionOnSet(g, S) - g[at[e]] + h[at[e]]
        BY <4>7, <4>9
      <4> QED
        BY <4>4, <4>6
    <3>6. SumFunctionOnSet(f, E) = f[e] + SumFunctionOnSet(f, E \ {e})
      <4>1. IsFiniteSet(E) /\ \A d \in E : f[d] \in Int
        BY <1>1
      <4> QED
        BY <4>1, SumRemove
    <3>7. /\ parts(E \ {e})[at[e]] \in Int /\ f[e] \in Int
          /\ SumFunctionOnSet(parts(E \ {e}), S) = SumFunctionOnSet(f, E \ {e})
      BY <1>1, <3>1, <3>2
    <3>8. SumFunctionOnSet(f, E \ {e}) \in Int
      <4>1. IsFiniteSet(E \ {e}) /\ \A d \in E \ {e} : f[d] \in Int
        BY <1>1, <3>2
      <4> QED
        BY <4>1, SumType
    <3> HIDE DEF parts
    <3>9. SumFunctionOnSet(parts(E), S) = SumFunctionOnSet(f, E)
      BY <3>4, <3>5, <3>6, <3>7, <3>8
    <3> QED
      BY <3>9
  <2> QED
    BY <2>1, <2>2
<1>3. Good \in SUBSET SUBSET D /\ (D \in Good => SumFunctionOnSet(parts(D), S) = SumFunctionOnSet(f, D))
  OBVIOUS
<1>4. parts(D) = [x \in S |-> SumFunctionOnSet(f, {d \in D : at[d] = x})]
  OBVIOUS
<1> HIDE DEF Good, parts
<1> QED
  BY <1>2, <1>3, <1>4, SubsetInduction

\* The elements of a strict total order are ranked by how many come before them.
LEMMA OrderRanks ==
    ASSUME NEW S, IsFiniteSet(S), NEW lt \in SUBSET (S \X S),
           \A x \in S : <<x, x>> \notin lt,
           \A x, y, z \in S : <<x, y>> \in lt /\ <<y, z>> \in lt => <<x, z>> \in lt,
           \A x, y \in S : x = y \/ <<x, y>> \in lt \/ <<y, x>> \in lt,
           NEW rank, \A x \in S : rank[x] = Cardinality({y \in S : <<y, x>> \in lt})
    PROVE  /\ \A x \in S : rank[x] \in Nat
           /\ \A x, y \in S : rank[x] < rank[y] <=> <<x, y>> \in lt
           /\ \A x, y \in S : rank[x] = rank[y] => x = y
<1> DEFINE Before(x) == {y \in S : <<y, x>> \in lt}
<1>0. \A x \in S : rank[x] = Cardinality(Before(x)) /\ Before(x) \in SUBSET S
  OBVIOUS
<1>3. \A x, y \in S : x \in Before(y) <=> <<x, y>> \in lt
  OBVIOUS
<1> HIDE DEF Before
<1>1. ASSUME NEW x \in S PROVE rank[x] \in Nat /\ IsFiniteSet(Before(x))
  <2>1. IsFiniteSet(Before(x))
    BY <1>0, FS_Subset
  <2>2. Cardinality(Before(x)) \in Nat
    BY <2>1, FS_CardinalityType
  <2> QED
    BY <1>0, <2>1, <2>2
<1>2. ASSUME NEW x \in S, NEW y \in S, <<x, y>> \in lt PROVE rank[x] < rank[y]
  <2>1. Before(x) \in SUBSET Before(y) /\ x \in Before(y) /\ x \notin Before(x)
    <3>1. \A z \in Before(x) : z \in S /\ <<z, x>> \in lt
      BY <1>0, <1>3
    <3>2. \A z \in Before(x) : z \in Before(y)
      BY <1>2, <1>3, <3>1
    <3> QED
      BY <1>2, <1>3, <3>2
  <2>2. Cardinality(Before(x)) <= Cardinality(Before(y)) /\ Before(x) # Before(y)
        /\ (Cardinality(Before(y)) = Cardinality(Before(x)) => Before(y) = Before(x))
    <3>1. IsFiniteSet(Before(y))
      BY <1>1
    <3> QED
      BY <2>1, <3>1, FS_Subset
  <2>3. rank[x] <= rank[y] /\ rank[x] # rank[y]
    BY <1>0, <2>2
  <2> QED
    BY <1>1, <2>3
<1>4. \A x, y \in S : rank[x] < rank[y] => ~(rank[y] < rank[x]) /\ x # y
  BY <1>1
<1>5. \A x, y \in S : rank[x] < rank[y] <=> <<x, y>> \in lt
  BY <1>2, <1>4
<1>6. \A x, y \in S : rank[x] = rank[y] => ~(rank[x] < rank[y]) /\ ~(rank[y] < rank[x])
  BY <1>1
<1> QED
  BY <1>1, <1>5, <1>6

\* Equal parts, and what they leave for one of them, add up to the whole.
EqualParts(f, S, e, base, whole) ==
    /\ \A x \in S \ {e} : f[x] = base
    /\ f[e] = whole - (Cardinality(S) - 1) * base

LEMMA PartsAddUp ==
    ASSUME NEW S, IsFiniteSet(S), NEW e \in S, NEW base \in Int, NEW whole \in Int, NEW f,
           EqualParts(f, S, e, base, whole)
    PROVE  SumFunctionOnSet(f, S) = whole
<1>1. IsFiniteSet(S \ {e}) /\ Cardinality(S \ {e}) = Cardinality(S) - 1 /\ Cardinality(S) \in Nat
  BY FS_RemoveElement, FS_CardinalityType
<1>2. SumFunctionOnSet(f, S \ {e}) = base * Cardinality(S \ {e})
  BY <1>1, SumConstant DEF EqualParts
<1>3. PICK m \in Int : m = Cardinality(S) - 1
  BY <1>1
<1>4. f[e] = whole - m * base /\ m * base \in Int /\ base * m = m * base
  BY <1>3 DEF EqualParts
<1>5. \A x \in S : f[x] \in Int
  BY <1>4 DEF EqualParts
<1>6. SumFunctionOnSet(f, S) = f[e] + SumFunctionOnSet(f, S \ {e})
  BY <1>5, SumRemove
<1> QED
  BY <1>1, <1>2, <1>3, <1>4, <1>6

\* The sum over two sets that have nothing in common.
LEMMA SumUnion ==
    ASSUME NEW S, IsFiniteSet(S), NEW T, IsFiniteSet(T), S \cap T = {}, NEW f,
           \A x \in S \cup T : f[x] \in Int
    PROVE  SumFunctionOnSet(f, S \cup T) = SumFunctionOnSet(f, S) + SumFunctionOnSet(f, T)
<1> DEFINE U == S \cup T
<1>1. IsFiniteSet(U)
  BY FS_Union
<1>2. PICK g, h : /\ g = [x \in U |-> IF x \in S THEN f[x] ELSE 0]
                  /\ h = [x \in U |-> IF x \in S THEN 0 ELSE f[x]]
  OBVIOUS
<1>3. \A x \in U : g[x] \in Int /\ h[x] \in Int /\ f[x] = g[x] + h[x]
  <2>1. \A x \in U : f[x] \in Int
    OBVIOUS
  <2>2. \A x \in U : /\ x \in S => g[x] = f[x] /\ h[x] = 0
                     /\ x \notin S => g[x] = 0 /\ h[x] = f[x]
    BY <1>2
  <2> HIDE DEF U
  <2> QED
    BY <2>1, <2>2
<1>4. SumFunctionOnSet(g, U) = SumFunctionOnSet(f, S)
  <2>1. \A x \in U \ S : g[x] = 0
    BY <1>2
  <2>2. SumFunctionOnSet(g, U) = SumFunctionOnSet(g, S)
    BY <1>1, <1>3, <2>1, SumRestrict
  <2>3. \A x \in S : g[x] = f[x]
    BY <1>2
  <2> QED
    BY <2>2, <2>3, SumCongruence
<1>5. SumFunctionOnSet(h, U) = SumFunctionOnSet(f, T)
  <2>1. \A x \in U \ T : h[x] = 0
    BY <1>2
  <2>2. SumFunctionOnSet(h, U) = SumFunctionOnSet(h, T)
    BY <1>1, <1>3, <2>1, SumRestrict
  <2>3. \A x \in T : h[x] = f[x]
    BY <1>2
  <2> QED
    BY <2>2, <2>3, SumCongruence
<1> HIDE DEF U
<1>6. SumFunctionOnSet(f, U) = SumFunctionOnSet(g, U) + SumFunctionOnSet(h, U)
  BY <1>1, <1>3, SumAdd
<1> QED
  BY <1>4, <1>5, <1>6 DEF U

=============================================================================

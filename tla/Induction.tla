----------------------------- MODULE Induction -----------------------------
(***************************************************************************)
(* Induction over the naturals and over finite sets, the existence of      *)
(* iterated functions and of folds, and finite sums, in first-order form:  *)
(* a predicate is a set, and a step or a term is a function.  Then what    *)
(* the proofs need of quotients (FixedPoint), of what shares of a pool are *)
(* worth, of the greatest and the least, of folds over a sequence and of   *)
(* insertion and removal.                                                  *)
(***************************************************************************)
EXTENDS FixedPoint, Integers, SequencesExt, FiniteSets, FiniteSetTheorems, SequenceTheorems, WellFoundedInduction, TLAPS

\* Every nonempty set of naturals has a least element.
LEMMA LeastNatural ==
  ASSUME NEW T \in SUBSET Nat, T # {}
  PROVE  \E n \in T : \A m \in T : n <= m
<1> DEFINE R == StrictSubsetOrdering(Nat)
           F == {0..n : n \in T}
<1>1. F \subseteq FiniteSubsetsOf(Nat)
  <2> SUFFICES ASSUME NEW n \in T
               PROVE  0..n \in FiniteSubsetsOf(Nat)
    OBVIOUS
  <2>1. n \in Nat /\ IsFiniteSet(0..n)
    BY FS_Interval
  <2>2. 0..n \subseteq Nat
    BY <2>1
  <2>. QED
    BY <2>1, <2>2 DEF FiniteSubsetsOf
<1>2. F # {}
  OBVIOUS
<1>3. IsWellFoundedOn(R, FiniteSubsetsOf(Nat))
  BY FS_StrictSubsetOrderingWellFounded
<1>4. \E x \in F : \A y \in F : ~ (<<y, x>> \in R)
  <2> HIDE DEF F, R
  <2>. QED
    BY <1>1, <1>2, <1>3, WFMin
<1>5. PICK n \in T : \A m \in T : ~ (<<0..m, 0..n>> \in R)
  BY <1>4
<1>6. ASSUME NEW m \in T, m < n
      PROVE  <<0..m, 0..n>> \in R
  <2>1. n \in Nat /\ m \in Nat
    OBVIOUS
  <2>2. 0..m \subseteq Nat /\ 0..n \subseteq Nat /\ 0..m \subseteq 0..n
    BY <1>6, <2>1
  <2>3. n \in 0..n /\ n \notin 0..m
    BY <1>6, <2>1
  <2>. QED
    BY <2>2, <2>3 DEF StrictSubsetOrdering
<1>7. \A m \in T : ~(m < n)
  BY <1>5, <1>6
<1>8. \A m \in T : m \in Nat /\ n \in Nat
  OBVIOUS
<1>9. \A m \in T : n <= m
  BY <1>7, <1>8
<1>. QED
  BY <1>9

\* A set of naturals that holds 0 and the successor of each member is Nat.
LEMMA SetInduction ==
  ASSUME NEW S \in SUBSET Nat, 0 \in S, \A n \in S : n + 1 \in S
  PROVE  S = Nat
<1>1. SUFFICES ASSUME Nat \ S # {}
               PROVE  FALSE
  OBVIOUS
<1>2. PICK n \in Nat \ S : \A m \in Nat \ S : n <= m
  BY <1>1, LeastNatural
<1>3. n # 0 /\ n - 1 \in Nat
  BY <1>2
<1>4. n - 1 \in S
  BY <1>2, <1>3
<1>5. (n - 1) + 1 \in S
  BY <1>4
<1>. QED
  BY <1>2, <1>3, <1>5

Iterable(W, w0, step, N) ==
  \E f \in [Nat -> W] : f[0] = w0 /\ \A i \in Nat : i < N => f[i + 1] = step[f[i]]

\* `step` can be applied again and again, N times, from any w0 without leaving W.
LEMMA Iterates ==
  ASSUME NEW W, NEW w0 \in W, NEW step \in [W -> W], NEW N \in Nat
  PROVE  Iterable(W, w0, step, N)
<1> DEFINE Good(f, n) == f[0] = w0 /\ \A i \in Nat : i < n => f[i + 1] = step[f[i]]
           S == {n \in Nat : \E f \in [Nat -> W] : Good(f, n)}
<1>1. 0 \in S
  <2>1. [i \in Nat |-> w0] \in [Nat -> W] /\ Good([i \in Nat |-> w0], 0)
    OBVIOUS
  <2>. QED
    BY <2>1
<1>2. ASSUME NEW n \in S
      PROVE  n + 1 \in S
  <2>1. PICK f \in [Nat -> W] : Good(f, n)
    OBVIOUS
  <2> DEFINE g == [i \in Nat |-> IF i <= n THEN f[i] ELSE step[f[n]]]
  <2>2. g \in [Nat -> W]
    OBVIOUS
  <2>3. Good(g, n + 1)
    BY <2>1
  <2>4. \E h \in [Nat -> W] : Good(h, n + 1)
    BY <2>2, <2>3
  <2>. QED
    BY <2>4
<1>3. S = Nat
  <2>1. S \in SUBSET Nat
    OBVIOUS
  <2> HIDE DEF S
  <2>. QED
    BY <1>1, <1>2, <2>1, SetInduction
<1>. QED
  BY <1>3 DEF Iterable

-----------------------------------------------------------------------------
(* Folds over finite sets.                                                  *)

\* g[T] folds T from `base`, taking first[T] off T and applying its step to what the rest gives.
Folds(S, base, step, first, g) ==
  \A T \in SUBSET S : g[T] = IF T = {} THEN base ELSE step[first[T]][g[T \ {first[T]}]]

\* There is such a function.
LEMMA FoldExists ==
  ASSUME NEW S, IsFiniteSet(S), NEW W, NEW base \in W, NEW step \in [S -> [W -> W]],
         NEW first, \A T \in SUBSET S : T # {} => first[T] \in T
  PROVE  \E g \in [SUBSET S -> W] : Folds(S, base, step, first, g)
<1> DEFINE Value(g, T) == IF T = {} THEN base ELSE step[first[T]][g[T \ {first[T]}]]
           Good(n, g) == \A T \in SUBSET S : Cardinality(T) <= n => g[T] = Value(g, T)
           N == {n \in Nat : \E g \in [SUBSET S -> W] : Good(n, g)}
<1>1. \A T \in SUBSET S : /\ IsFiniteSet(T) /\ Cardinality(T) \in Nat
                          /\ Cardinality(T) = 0 <=> T = {}
  BY FS_Subset, FS_CardinalityType, FS_EmptySet
<1>2. ASSUME NEW T \in SUBSET S, T # {}
      PROVE  /\ first[T] \in S /\ T \ {first[T]} \in SUBSET S
             /\ Cardinality(T \ {first[T]}) = Cardinality(T) - 1
  BY <1>1, <1>2, FS_RemoveElement
<1>3. ASSUME NEW g \in [SUBSET S -> W], NEW T \in SUBSET S
      PROVE  Value(g, T) \in W
  <2>1. T # {} => first[T] \in S /\ g[T \ {first[T]}] \in W
    BY <1>2
  <2>. QED
    BY <2>1
<1>4. 0 \in N
  <2>1. [T \in SUBSET S |-> base] \in [SUBSET S -> W] /\ Good(0, [T \in SUBSET S |-> base])
    BY <1>1
  <2>. QED
    BY <2>1
<1>5. ASSUME NEW n \in N
      PROVE  n + 1 \in N
  <2>1. PICK g \in [SUBSET S -> W] : Good(n, g)
    OBVIOUS
  <2> DEFINE h == [T \in SUBSET S |-> IF Cardinality(T) <= n THEN g[T] ELSE Value(g, T)]
  <2>2. h \in [SUBSET S -> W]
    <3> HIDE DEF Value
    <3>. QED
      BY <1>3
  <2>3. \A T \in SUBSET S : Cardinality(T) <= n + 1 => h[T] = Value(g, T)
    <3> HIDE DEF Value
    <3>. QED
      BY <2>1
  <2>4. ASSUME NEW T \in SUBSET S, Cardinality(T) <= n + 1
        PROVE  Value(h, T) = Value(g, T)
    <3>1. T # {} => /\ T \ {first[T]} \in SUBSET S
                    /\ Cardinality(T \ {first[T]}) <= n
      BY <1>1, <1>2, <2>4
    <3>2. T # {} => h[T \ {first[T]}] = g[T \ {first[T]}]
      BY <3>1
    <3>. QED
      BY <3>2
  <2> HIDE DEF h, Value
  <2>5. Good(n + 1, h)
    BY <2>3, <2>4
  <2> HIDE DEF Good
  <2>6. \E k \in [SUBSET S -> W] : Good(n + 1, k)
    BY <2>2, <2>5
  <2>7. n + 1 \in Nat
    OBVIOUS
  <2>. QED
    BY <2>6, <2>7
<1>6. N = Nat
  <2>1. N \in SUBSET Nat
    OBVIOUS
  <2> HIDE DEF N
  <2>. QED
    BY <1>4, <1>5, <2>1, SetInduction
<1>7. PICK g \in [SUBSET S -> W] : Good(Cardinality(S), g)
  BY <1>1, <1>6
<1>8. \A T \in SUBSET S : Cardinality(T) <= Cardinality(S)
  BY FS_Subset
<1>9. \A T \in SUBSET S : g[T] = Value(g, T)
  <2> HIDE DEF Value
  <2>. QED
    BY <1>7, <1>8
<1>. QED
  BY <1>9 DEF Folds

-----------------------------------------------------------------------------
(* Finite sums. A sum is folded over its set in the order CHOOSE gives, so  *)
(* what is shown first is that the order does not matter.                   *)

\* Induction over the subsets of a finite set: X holds every subset whose proper subsets it holds.
LEMMA SubsetInduction ==
  ASSUME NEW S, IsFiniteSet(S), NEW X,
         \A T \in SUBSET S : (\A U \in SUBSET T : U # T => U \in X) => T \in X
  PROVE  SUBSET S \subseteq X
<1> DEFINE N == {n \in Nat : \A T \in SUBSET S : Cardinality(T) <= n => T \in X}
<1>1. \A T \in SUBSET S : IsFiniteSet(T) /\ Cardinality(T) \in Nat
  BY FS_Subset, FS_CardinalityType
<1>2. ASSUME NEW T \in SUBSET S, NEW U \in SUBSET T, U # T
      PROVE  Cardinality(U) < Cardinality(T) /\ U \in SUBSET S
  <2>1. IsFiniteSet(T) /\ IsFiniteSet(U) /\ Cardinality(T) \in Nat /\ Cardinality(U) \in Nat
    BY <1>1
  <2>2. Cardinality(U) <= Cardinality(T) /\ Cardinality(U) # Cardinality(T)
    BY <1>2, <2>1, FS_Subset
  <2>. QED
    BY <2>1, <2>2
<1>3. 0 \in N
  <2>1. ASSUME NEW T \in SUBSET S, Cardinality(T) <= 0
        PROVE  T \in X
    <3>1. \A U \in SUBSET T : U = T
      BY <1>1, <1>2, <2>1
    <3>. QED
      BY <3>1
  <2>. QED
    BY <2>1
<1>4. ASSUME NEW n \in N
      PROVE  n + 1 \in N
  <2>1. ASSUME NEW T \in SUBSET S, Cardinality(T) <= n + 1
        PROVE  T \in X
    <3>1. ASSUME NEW U \in SUBSET T, U # T
          PROVE  U \in X
      <4>1. Cardinality(U) <= n /\ U \in SUBSET S
        BY <1>1, <1>2, <2>1, <3>1
      <4>. QED
        BY <4>1
    <3>. QED
      BY <3>1
  <2>. QED
    BY <2>1
<1>5. N = Nat
  <2>1. N \in SUBSET Nat
    OBVIOUS
  <2> HIDE DEF N
  <2>. QED
    BY <1>3, <1>4, <2>1, SetInduction
<1>6. \A T \in SUBSET S : Cardinality(T) \in N
  BY <1>1, <1>5
<1>7. \A T \in SUBSET S : Cardinality(T) <= Cardinality(T)
  BY <1>1
<1>. QED
  BY <1>6, <1>7

\* The element a fold takes first, and the function a fold over S is defined by.
Pick(T) == CHOOSE x \in T : TRUE

Grows(S, f, g) ==
  g = [T \in SUBSET S |-> IF T = {} THEN 0 ELSE f[Pick(T)] + g[T \ {Pick(T)}]]

\* The element a fold takes first is one of the set.
LEMMA PickIn == ASSUME NEW T, T # {} PROVE Pick(T) \in T
BY DEF Pick

\* A sum is the value of such a function.
LEMMA SumByGrowth == ASSUME NEW f, NEW S
                     PROVE  SumFunctionOnSet(f, S) = (CHOOSE g : Grows(S, f, g))[S]
BY Zenon DEF SumFunctionOnSet, FoldFunctionOnSet, MapThenFoldSet, Grows, Pick

\* There is such a function.
LEMMA GrowthExists ==
  ASSUME NEW S, IsFiniteSet(S), NEW f, \A x \in S : f[x] \in Int
  PROVE  \E g \in [SUBSET S -> Int] : Grows(S, f, g)
<1> DEFINE first == [T \in SUBSET S |-> Pick(T)]
           step == [x \in S |-> [w \in Int |-> f[x] + w]]
<1>1. \A T \in SUBSET S : T # {} => first[T] \in T
  BY PickIn
<1>2. step \in [S -> [Int -> Int]]
  OBVIOUS
<1>3. PICK g \in [SUBSET S -> Int] : Folds(S, 0, step, first, g)
  <2>1. 0 \in Int
    OBVIOUS
  <2> HIDE DEF first, step
  <2>. QED
    BY <1>1, <1>2, <2>1, FoldExists
<1>4. ASSUME NEW T \in SUBSET S
      PROVE  g[T] = IF T = {} THEN 0 ELSE f[Pick(T)] + g[T \ {Pick(T)}]
  <2>1. T # {} => Pick(T) \in S /\ g[T \ {Pick(T)}] \in Int
    BY PickIn
  <2>. QED
    BY <1>3, <2>1 DEF Folds
<1>. QED
  BY <1>4 DEF Grows

\* And only one, whatever set it is a fold over.
LEMMA GrowthUnique ==
  ASSUME NEW S, IsFiniteSet(S), NEW f, NEW T \in SUBSET S,
         NEW g, Grows(S, f, g), NEW h, Grows(T, f, h)
  PROVE  \A U \in SUBSET T : g[U] = h[U]
<1> DEFINE X == {U \in SUBSET T : g[U] = h[U]}
<1>1. IsFiniteSet(T)
  BY FS_Subset
<1>2. ASSUME NEW U \in SUBSET T, \A V \in SUBSET U : V # U => V \in X
      PROVE  U \in X
  <2>1. g[U] = IF U = {} THEN 0 ELSE f[Pick(U)] + g[U \ {Pick(U)}]
    BY DEF Grows
  <2>2. h[U] = IF U = {} THEN 0 ELSE f[Pick(U)] + h[U \ {Pick(U)}]
    BY DEF Grows
  <2>3. U # {} => U \ {Pick(U)} \in X
    BY <1>2, PickIn
  <2>. QED
    BY <2>1, <2>2, <2>3
<1>3. SUBSET T \subseteq X
  <2> HIDE DEF X
  <2>. QED
    BY <1>1, <1>2, SubsetInduction
<1>. QED
  BY <1>3

\* A sum is its first term and the sum of the others.
LEMMA SumFirst ==
  ASSUME NEW S, IsFiniteSet(S), NEW f, \A x \in S : f[x] \in Int
  PROVE  /\ SumFunctionOnSet(f, S) \in Int
         /\ S = {} => SumFunctionOnSet(f, S) = 0
         /\ S # {} => SumFunctionOnSet(f, S)
                        = f[Pick(S)] + SumFunctionOnSet(f, S \ {Pick(S)})
<1> DEFINE g == CHOOSE g : Grows(S, f, g)
           T == S \ {Pick(S)}
           h == CHOOSE h : Grows(T, f, h)
<1>1. \E k \in [SUBSET S -> Int] : Grows(S, f, k)
  BY GrowthExists
<1>2. Grows(S, f, g)
  BY <1>1
<1>3. \E k \in [SUBSET T -> Int] : Grows(T, f, k)
  <2>1. IsFiniteSet(T) /\ \A x \in T : f[x] \in Int
    BY FS_Subset
  <2>. QED
    BY <2>1, GrowthExists
<1>4. Grows(T, f, h)
  BY <1>3
<1>5. SumFunctionOnSet(f, S) = g[S] /\ SumFunctionOnSet(f, T) = h[T]
  BY SumByGrowth
<1> HIDE DEF g, h, T
<1>6. g[S] = IF S = {} THEN 0 ELSE f[Pick(S)] + g[T]
  BY <1>2 DEF Grows, T
<1>7. g[T] = h[T]
  BY <1>2, <1>4, GrowthUnique DEF T
<1>8. g[S] \in Int
  <2>1. PICK k \in [SUBSET S -> Int] : Grows(S, f, k)
    BY <1>1
  <2>2. S \in SUBSET S
    OBVIOUS
  <2>3. g[S] = k[S]
    BY <1>2, <2>1, <2>2, GrowthUnique
  <2>. QED
    BY <2>1, <2>2, <2>3
<1>. QED
  BY <1>5, <1>6, <1>7, <1>8 DEF T

\* A sum is any of its terms and the sum of the others.
LEMMA SumRemove ==
  ASSUME NEW S, IsFiniteSet(S), NEW f, \A x \in S : f[x] \in Int, NEW y \in S
  PROVE  SumFunctionOnSet(f, S) = f[y] + SumFunctionOnSet(f, S \ {y})
<1> DEFINE X == {T \in SUBSET S : \A x \in T :
                   SumFunctionOnSet(f, T) = f[x] + SumFunctionOnSet(f, T \ {x})}
<1>1. ASSUME NEW T \in SUBSET S
      PROVE  /\ SumFunctionOnSet(f, T) \in Int
             /\ T # {} => SumFunctionOnSet(f, T)
                            = f[Pick(T)] + SumFunctionOnSet(f, T \ {Pick(T)})
  <2>1. IsFiniteSet(T) /\ \A x \in T : f[x] \in Int
    BY FS_Subset
  <2>. QED
    BY <2>1, SumFirst
<1>2. ASSUME NEW T \in SUBSET S, \A U \in SUBSET T : U # T => U \in X
      PROVE  T \in X
  <2>1. ASSUME NEW x \in T, x # Pick(T)
        PROVE  SumFunctionOnSet(f, T) = f[x] + SumFunctionOnSet(f, T \ {x})
    <3> DEFINE p == Pick(T)
               rest == SumFunctionOnSet(f, (T \ {p}) \ {x})
    <3>1. p \in T
      BY PickIn
    <3>2. SumFunctionOnSet(f, T) = f[p] + SumFunctionOnSet(f, T \ {p})
      BY <1>1
    <3>3. SumFunctionOnSet(f, T \ {p}) = f[x] + rest
      <4>1. T \ {p} \in X
        BY <1>2, <3>1
      <4>2. x \in T \ {p}
        BY <2>1
      <4>. QED
        BY <4>1, <4>2
    <3>4. SumFunctionOnSet(f, T \ {x}) = f[p] + rest
      <4>1. T \ {x} \in X
        BY <1>2
      <4>2. p \in T \ {x}
        BY <2>1, <3>1
      <4>3. (T \ {x}) \ {p} = (T \ {p}) \ {x}
        OBVIOUS
      <4>. QED
        BY <4>1, <4>2, <4>3
    <3>5. f[p] \in Int /\ f[x] \in Int /\ rest \in Int
      <4>1. (T \ {p}) \ {x} \in SUBSET S
        OBVIOUS
      <4>. QED
        BY <1>1, <3>1, <4>1
    <3> HIDE DEF p, rest
    <3>. QED
      BY <3>2, <3>3, <3>4, <3>5
  <2>. QED
    BY <1>1, <2>1
<1>3. SUBSET S \subseteq X
  <2> HIDE DEF X
  <2>. QED
    BY <1>2, SubsetInduction
<1>. QED
  BY <1>3

\* Sums are of the same order as their terms.
LEMMA SumOrder ==
  ASSUME NEW S, IsFiniteSet(S), NEW f, NEW g,
         \A x \in S : f[x] \in Int /\ g[x] \in Int /\ f[x] <= g[x]
  PROVE  SumFunctionOnSet(f, S) <= SumFunctionOnSet(g, S)
<1> DEFINE X == {T \in SUBSET S : SumFunctionOnSet(f, T) <= SumFunctionOnSet(g, T)}
<1>1. ASSUME NEW T \in SUBSET S, \A U \in SUBSET T : U # T => U \in X
      PROVE  T \in X
  <2>1. IsFiniteSet(T)
    BY FS_Subset
  <2>2. CASE T = {}
    BY <2>1, <2>2, SumFirst
  <2>3. CASE T # {}
    <3> DEFINE p == Pick(T)
    <3>1. p \in T /\ T \ {p} \in X
      BY <1>1, <2>3, PickIn
    <3>2. IsFiniteSet(T \ {p})
      BY <2>1, FS_Subset
    <3>3. /\ SumFunctionOnSet(f, T) = f[p] + SumFunctionOnSet(f, T \ {p})
          /\ SumFunctionOnSet(g, T) = g[p] + SumFunctionOnSet(g, T \ {p})
      BY <2>1, <2>3, SumFirst
    <3>4. SumFunctionOnSet(f, T \ {p}) \in Int /\ SumFunctionOnSet(g, T \ {p}) \in Int
      BY <3>2, SumFirst
    <3>5. f[p] \in Int /\ g[p] \in Int /\ f[p] <= g[p]
      BY <3>1
    <3>6. SumFunctionOnSet(f, T \ {p}) <= SumFunctionOnSet(g, T \ {p})
      BY <3>1
    <3> HIDE DEF p
    <3>7. SumFunctionOnSet(f, T) <= SumFunctionOnSet(g, T)
      BY <3>3, <3>4, <3>5, <3>6
    <3>. QED
      BY <3>7
  <2>. QED
    BY <2>2, <2>3
<1>2. SUBSET S \subseteq X
  <2> HIDE DEF X
  <2>. QED
    BY <1>1, SubsetInduction
<1>. QED
  BY <1>2

\* Equal terms have equal sums.
LEMMA SumSame ==
  ASSUME NEW S, IsFiniteSet(S), NEW f, NEW g, \A x \in S : f[x] \in Int /\ g[x] = f[x]
  PROVE  SumFunctionOnSet(f, S) = SumFunctionOnSet(g, S)
<1>1. \A x \in S : g[x] \in Int /\ f[x] \in Int /\ f[x] <= g[x] /\ g[x] <= f[x]
  OBVIOUS
<1>2. SumFunctionOnSet(f, S) <= SumFunctionOnSet(g, S)
  BY <1>1, SumOrder
<1>3. SumFunctionOnSet(g, S) <= SumFunctionOnSet(f, S)
  BY <1>1, SumOrder
<1>4. SumFunctionOnSet(f, S) \in Int /\ SumFunctionOnSet(g, S) \in Int
  BY <1>1, SumFirst
<1>. QED
  BY <1>2, <1>3, <1>4

\* When one term changes, the sum changes by as much.
LEMMA SumChange ==
  ASSUME NEW S, IsFiniteSet(S), NEW f, NEW g, NEW y \in S,
         \A x \in S : f[x] \in Int /\ g[x] \in Int,
         \A x \in S : x # y => g[x] = f[x]
  PROVE  /\ SumFunctionOnSet(f, S) \in Int /\ SumFunctionOnSet(g, S) \in Int
         /\ SumFunctionOnSet(g, S) = SumFunctionOnSet(f, S) + (g[y] - f[y])
<1> DEFINE T == S \ {y}
<1>1. IsFiniteSet(T)
  BY FS_Subset
<1>2. SumFunctionOnSet(f, T) = SumFunctionOnSet(g, T)
  BY <1>1, SumSame
<1>3. /\ SumFunctionOnSet(f, S) = f[y] + SumFunctionOnSet(f, T)
      /\ SumFunctionOnSet(g, S) = g[y] + SumFunctionOnSet(g, T)
  BY SumRemove
<1>4. /\ SumFunctionOnSet(f, S) \in Int /\ SumFunctionOnSet(g, S) \in Int
      /\ SumFunctionOnSet(f, T) \in Int
  BY <1>1, SumFirst
<1>. QED
  BY <1>2, <1>3, <1>4

\* A sum of zeros is zero.
LEMMA SumOfZeros ==
  ASSUME NEW S, IsFiniteSet(S), NEW f, \A x \in S : f[x] = 0
  PROVE  SumFunctionOnSet(f, S) = 0
<1> DEFINE X == {T \in SUBSET S : SumFunctionOnSet(f, T) = 0}
<1>1. ASSUME NEW T \in SUBSET S, \A U \in SUBSET T : U # T => U \in X
      PROVE  T \in X
  <2>1. IsFiniteSet(T) /\ \A x \in T : f[x] \in Int /\ f[x] = 0
    BY FS_Subset
  <2>2. CASE T = {}
    BY <2>1, <2>2, SumFirst
  <2>3. CASE T # {}
    <3>1. Pick(T) \in T
      BY <2>3, PickIn
    <3>2. T \ {Pick(T)} \in X /\ f[Pick(T)] = 0
      BY <1>1, <2>1, <3>1
    <3>3. SumFunctionOnSet(f, T) = f[Pick(T)] + SumFunctionOnSet(f, T \ {Pick(T)})
      BY <2>1, <2>3, SumFirst
    <3>. QED
      BY <3>2, <3>3
  <2>. QED
    BY <2>2, <2>3
<1>2. SUBSET S \subseteq X
  <2> HIDE DEF X
  <2>. QED
    BY <1>1, SubsetInduction
<1>. QED
  BY <1>2

\* A sum of naturals is a natural, and no term is larger.
LEMMA SumOfNaturals ==
  ASSUME NEW S, IsFiniteSet(S), NEW f, \A x \in S : f[x] \in Nat
  PROVE  /\ SumFunctionOnSet(f, S) \in Nat
         /\ \A y \in S : f[y] <= SumFunctionOnSet(f, S)
<1>1. ASSUME NEW T \in SUBSET S
      PROVE  SumFunctionOnSet(f, T) \in Nat
  <2> DEFINE zero == [x \in T |-> 0]
  <2>1. IsFiniteSet(T)
    BY FS_Subset
  <2>2. SumFunctionOnSet(zero, T) = 0
    BY <2>1, SumOfZeros
  <2>3. \A x \in T : zero[x] \in Int /\ f[x] \in Int /\ zero[x] <= f[x]
    OBVIOUS
  <2> HIDE DEF zero
  <2>4. SumFunctionOnSet(zero, T) <= SumFunctionOnSet(f, T)
    BY <2>1, <2>3, SumOrder
  <2>5. SumFunctionOnSet(f, T) \in Int
    BY <2>1, <2>3, SumFirst
  <2>. QED
    BY <2>2, <2>4, <2>5
<1>2. ASSUME NEW y \in S
      PROVE  f[y] <= SumFunctionOnSet(f, S)
  <2>1. SumFunctionOnSet(f, S) = f[y] + SumFunctionOnSet(f, S \ {y})
    BY SumRemove
  <2>2. SumFunctionOnSet(f, S \ {y}) \in Nat
    BY <1>1
  <2>. QED
    BY <2>1, <2>2
<1>. QED
  BY <1>1, <1>2

\* Terms that are found one by one among those of another sum add up to no more.
LEMMA SumInto ==
  ASSUME NEW E, IsFiniteSet(E), NEW S, IsFiniteSet(S), NEW f, NEW g, NEW h,
         \A x \in S : g[x] \in Nat,
         \A x \in E : h[x] \in S /\ f[x] = g[h[x]],
         \A x, y \in E : h[x] = h[y] => x = y
  PROVE  SumFunctionOnSet(f, E) <= SumFunctionOnSet(g, S)
<1> DEFINE X == {T \in SUBSET E : \A U \in SUBSET S : (\A x \in T : h[x] \in U) =>
                   SumFunctionOnSet(f, T) <= SumFunctionOnSet(g, U)}
<1>1. ASSUME NEW T \in SUBSET E, \A V \in SUBSET T : V # T => V \in X
      PROVE  T \in X
  <2>1. SUFFICES ASSUME NEW U \in SUBSET S, \A x \in T : h[x] \in U
                 PROVE  SumFunctionOnSet(f, T) <= SumFunctionOnSet(g, U)
    OBVIOUS
  <2>2. /\ IsFiniteSet(T) /\ \A x \in T : f[x] \in Int
        /\ IsFiniteSet(U) /\ \A x \in U : g[x] \in Int /\ g[x] \in Nat
    BY FS_Subset
  <2>3. SumFunctionOnSet(g, U) \in Nat /\ SumFunctionOnSet(f, T) \in Int
    BY <2>2, SumOfNaturals, SumFirst
  <2>4. CASE T = {}
    <3>1. SumFunctionOnSet(f, T) = 0
      BY <2>2, <2>4, SumFirst
    <3>. QED
      BY <2>3, <3>1
  <2>5. CASE T # {}
    <3>1. PICK y \in T : TRUE
      BY <2>5
    <3> DEFINE V == T \ {y}
               W == U \ {h[y]}
    <3>2. SumFunctionOnSet(f, T) = f[y] + SumFunctionOnSet(f, V)
      BY <2>2, SumRemove
    <3>3. h[y] \in U
      BY <2>1
    <3>4. SumFunctionOnSet(g, U) = g[h[y]] + SumFunctionOnSet(g, W)
      BY <2>2, <3>3, SumRemove
    <3>5. V \in X /\ W \in SUBSET S /\ \A x \in V : h[x] \in W
      BY <1>1, <2>1
    <3>6. SumFunctionOnSet(f, V) <= SumFunctionOnSet(g, W)
      BY <3>5
    <3>7. IsFiniteSet(V) /\ IsFiniteSet(W)
      BY <2>2, FS_Subset
    <3>8. SumFunctionOnSet(f, V) \in Int /\ SumFunctionOnSet(g, W) \in Int
      BY <2>2, <3>7, SumFirst
    <3>9. f[y] = g[h[y]] /\ f[y] \in Int
      BY <2>2
    <3> HIDE DEF V, W
    <3>. QED
      BY <3>2, <3>4, <3>6, <3>8, <3>9
  <2>. QED
    BY <2>4, <2>5
<1>2. SUBSET E \subseteq X
  <2> HIDE DEF X
  <2>. QED
    BY <1>1, SubsetInduction
<1>3. E \in X
  BY <1>2
<1>. QED
  BY <1>3

\* What every term keeps of another in proportion, the sums keep.
LEMMA SumWithin ==
  ASSUME NEW S, IsFiniteSet(S), NEW f, NEW g, NEW c \in Nat, NEW d \in Nat,
         \A x \in S : f[x] \in Nat /\ g[x] \in Nat /\ c * f[x] <= d * g[x]
  PROVE  c * SumFunctionOnSet(f, S) <= d * SumFunctionOnSet(g, S)
<1> DEFINE X == {T \in SUBSET S : c * SumFunctionOnSet(f, T) <= d * SumFunctionOnSet(g, T)}
<1>1. ASSUME NEW T \in SUBSET S, \A U \in SUBSET T : U # T => U \in X
      PROVE  T \in X
  <2>1. IsFiniteSet(T) /\ \A x \in T : f[x] \in Int /\ g[x] \in Int
    BY FS_Subset
  <2>2. CASE T = {}
    <3>1. SumFunctionOnSet(f, T) = 0 /\ SumFunctionOnSet(g, T) = 0
      BY <2>1, <2>2, SumFirst
    <3>. QED
      BY <3>1
  <2>3. CASE T # {}
    <3> DEFINE p == Pick(T)
               V == T \ {p}
    <3>1. p \in T /\ V \in X
      BY <1>1, <2>3, PickIn
    <3>2. IsFiniteSet(V) /\ \A x \in V : f[x] \in Nat /\ g[x] \in Nat
      BY <2>1, FS_Subset
    <3>3. /\ SumFunctionOnSet(f, T) = f[p] + SumFunctionOnSet(f, V)
          /\ SumFunctionOnSet(g, T) = g[p] + SumFunctionOnSet(g, V)
      BY <2>1, <2>3, SumFirst
    <3>4. f[p] \in Nat /\ g[p] \in Nat /\ c * f[p] <= d * g[p]
      BY <3>1
    <3>5. c * SumFunctionOnSet(f, V) <= d * SumFunctionOnSet(g, V)
      BY <3>1
    <3> HIDE DEF p, V
    <3>6. PICK m \in Nat : m = SumFunctionOnSet(f, V)
      BY <3>2, SumOfNaturals
    <3>7. PICK n \in Nat : n = SumFunctionOnSet(g, V)
      BY <3>2, SumOfNaturals
    <3>8. PICK a \in Nat : a = f[p]
      BY <3>4
    <3>9. PICK b \in Nat : b = g[p]
      BY <3>4
    <3>10. c * (a + m) = c * a + c * m /\ d * (b + n) = d * b + d * n
      OBVIOUS
    <3>11. c * a \in Nat /\ c * m \in Nat /\ d * b \in Nat /\ d * n \in Nat
      OBVIOUS
    <3>12. c * (a + m) <= d * (b + n)
      BY <3>4, <3>5, <3>6, <3>7, <3>8, <3>9, <3>10, <3>11
    <3>13. c * SumFunctionOnSet(f, T) <= d * SumFunctionOnSet(g, T)
      BY <3>3, <3>6, <3>7, <3>8, <3>9, <3>12
    <3>. QED
      BY <3>13
  <2>. QED
    BY <2>2, <2>3
<1>2. SUBSET S \subseteq X
  <2> HIDE DEF X
  <2>. QED
    BY <1>1, SubsetInduction
<1>3. S \in X
  <2> HIDE DEF X
  <2>. QED
    BY <1>2
<1>. QED
  BY <1>3

\* The sum of two sums, term by term.
LEMMA SumAdds ==
  ASSUME NEW S, IsFiniteSet(S), NEW f, NEW g, NEW h,
         \A x \in S : f[x] \in Int /\ g[x] \in Int /\ h[x] = f[x] + g[x]
  PROVE  SumFunctionOnSet(h, S) = SumFunctionOnSet(f, S) + SumFunctionOnSet(g, S)
<1> DEFINE X == {T \in SUBSET S :
                   SumFunctionOnSet(h, T) = SumFunctionOnSet(f, T) + SumFunctionOnSet(g, T)}
<1>1. ASSUME NEW T \in SUBSET S, \A U \in SUBSET T : U # T => U \in X
      PROVE  T \in X
  <2>1. IsFiniteSet(T) /\ \A x \in T : f[x] \in Int /\ g[x] \in Int /\ h[x] \in Int
    BY FS_Subset
  <2>2. CASE T = {}
    <3>1. /\ SumFunctionOnSet(f, T) = 0 /\ SumFunctionOnSet(g, T) = 0
          /\ SumFunctionOnSet(h, T) = 0
      BY <2>1, <2>2, SumFirst
    <3>. QED
      BY <3>1
  <2>3. CASE T # {}
    <3> DEFINE p == Pick(T)
               V == T \ {p}
    <3>1. p \in T /\ V \in X
      BY <1>1, <2>3, PickIn
    <3>2. IsFiniteSet(V) /\ \A x \in V : f[x] \in Int /\ g[x] \in Int
      BY <2>1, FS_Subset
    <3>3. /\ SumFunctionOnSet(f, T) = f[p] + SumFunctionOnSet(f, V)
          /\ SumFunctionOnSet(g, T) = g[p] + SumFunctionOnSet(g, V)
          /\ SumFunctionOnSet(h, T) = h[p] + SumFunctionOnSet(h, V)
      BY <2>1, <2>3, SumFirst
    <3>4. SumFunctionOnSet(f, V) \in Int /\ SumFunctionOnSet(g, V) \in Int
      BY <3>2, SumFirst
    <3>5. f[p] \in Int /\ g[p] \in Int /\ h[p] = f[p] + g[p]
      BY <3>1
    <3>6. SumFunctionOnSet(h, V) = SumFunctionOnSet(f, V) + SumFunctionOnSet(g, V)
      BY <3>1
    <3> HIDE DEF p, V
    <3>7. SumFunctionOnSet(h, T) = SumFunctionOnSet(f, T) + SumFunctionOnSet(g, T)
      BY <3>3, <3>4, <3>5, <3>6
    <3>. QED
      BY <3>7
  <2>. QED
    BY <2>2, <2>3
<1>2. SUBSET S \subseteq X
  <2> HIDE DEF X
  <2>. QED
    BY <1>1, SubsetInduction
<1>. QED
  BY <1>2

\* f and g agree on S but at y.
ChangesAt(S, f, g, y) ==
  /\ IsFiniteSet(S)
  /\ y \in S
  /\ \A x \in S : f[x] \in Int /\ g[x] \in Int
  /\ \A x \in S : x # y => g[x] = f[x]

\* SumChange, its hypotheses under one name.
LEMMA TermChanges ==
  ASSUME NEW S, NEW f, NEW g, NEW y, ChangesAt(S, f, g, y)
  PROVE  /\ SumFunctionOnSet(f, S) \in Int /\ SumFunctionOnSet(g, S) \in Int
         /\ SumFunctionOnSet(g, S) = SumFunctionOnSet(f, S) + (g[y] - f[y])
BY SumChange DEF ChangesAt

-----------------------------------------------------------------------------
(* Quotients, rounded down and up, by what they are and not how they are    *)
(* computed.                                                                *)

\* The quotient rounded down is the largest whose product does not pass the dividend.
LEMMA DownBounds ==
  ASSUME NEW a \in Nat, NEW b \in Nat, NEW d \in Nat \ {0}
  PROVE  /\ MulDiv(a, b, d) \in Nat
         /\ d * MulDiv(a, b, d) <= a * b
         /\ a * b < d * MulDiv(a, b, d) + d
<1>1. PICK n \in Nat : n = a * b
  OBVIOUS
<1>2. n \div d \in Nat /\ d * (n \div d) <= n /\ n < d * (n \div d) + d
  OBVIOUS
<1>. QED
  BY <1>1, <1>2 DEF MulDiv

\* The quotient rounded up is the smallest whose product reaches the dividend.
LEMMA UpBounds ==
  ASSUME NEW a \in Nat, NEW b \in Nat, NEW d \in Nat \ {0}
  PROVE  /\ MulDivUp(a, b, d) \in Nat
         /\ a * b <= d * MulDivUp(a, b, d)
         /\ d * MulDivUp(a, b, d) < a * b + d
<1>1. PICK n \in Nat : n = a * b
  OBVIOUS
<1>2. PICK q \in Nat : q = n \div d
  OBVIOUS
<1>3. d * q <= n /\ n < d * q + d
  BY <1>2
<1>4. n = d * q + (n % d)
  BY <1>2
<1>5. d * (q + 1) = d * q + d /\ d * q \in Nat /\ n % d \in Nat
  OBVIOUS
<1>6. CASE n % d = 0
  <2>1. MulDivUp(a, b, d) = q
    BY <1>1, <1>2, <1>6 DEF MulDivUp, MulDiv
  <2>. QED
    BY <1>1, <1>4, <1>5, <1>6, <2>1
<1>7. CASE n % d # 0
  <2>1. MulDivUp(a, b, d) = q + 1
    BY <1>1, <1>2, <1>7 DEF MulDivUp, MulDiv
  <2>. QED
    BY <1>1, <1>3, <1>4, <1>5, <1>7, <2>1
<1>. QED
  BY <1>6, <1>7

\* Products that are less than one divisor apart have their quotients in order.
LEMMA Cancel ==
  ASSUME NEW d \in Nat \ {0}, NEW x \in Int, NEW y \in Int, d * x < d * y + d
  PROVE  x <= y
<1>1. SUFFICES ASSUME ~(x <= y)
               PROVE  FALSE
  OBVIOUS
<1>2. PICK k \in Nat : x = (y + 1) + k
  BY <1>1, x - (y + 1) \in Nat, x = (y + 1) + (x - (y + 1))
<1>3. d * ((y + 1) + k) = d * y + d + d * k /\ d * y \in Int /\ d * k \in Nat
  OBVIOUS
<1>. QED
  BY <1>2, <1>3

\* Rounding a sum up costs no more than rounding its parts up, and saves at most one unit.
LEMMA UpOfSum ==
  ASSUME NEW x \in Nat, NEW y \in Nat, NEW i \in Nat, NEW d \in Nat \ {0}
  PROVE  /\ MulDivUp(x + y, i, d) <= MulDivUp(x, i, d) + MulDivUp(y, i, d)
         /\ MulDivUp(x, i, d) + MulDivUp(y, i, d) <= MulDivUp(x + y, i, d) + 1
<1>1. PICK p \in Nat : p = MulDivUp(x, i, d)
  BY UpBounds
<1>2. PICK q \in Nat : q = MulDivUp(y, i, d)
  BY UpBounds
<1>3. x + y \in Nat
  OBVIOUS
<1>4. PICK r \in Nat : r = MulDivUp(x + y, i, d)
  BY <1>3, UpBounds
<1>5. /\ x * i <= d * p /\ d * p < x * i + d
      /\ y * i <= d * q /\ d * q < y * i + d
      /\ (x + y) * i <= d * r /\ d * r < (x + y) * i + d
  BY <1>1, <1>2, <1>3, <1>4, UpBounds
<1>6. /\ (x + y) * i = x * i + y * i /\ x * i \in Nat /\ y * i \in Nat
      /\ d * p \in Nat /\ d * q \in Nat /\ d * r \in Nat
      /\ d * (p + q) = d * p + d * q /\ d * (r + 1) = d * r + d
  OBVIOUS
<1>7. r <= p + q
  <2>1. d * r < d * (p + q) + d
    BY <1>5, <1>6
  <2>2. p + q \in Int
    OBVIOUS
  <2>. QED
    BY <2>1, <2>2, Cancel
<1>8. p + q <= r + 1
  <2>1. d * (p + q) < d * (r + 1) + d
    BY <1>5, <1>6
  <2>2. p + q \in Int /\ r + 1 \in Int
    OBVIOUS
  <2>. QED
    BY <2>1, <2>2, Cancel
<1>. QED
  BY <1>1, <1>2, <1>4, <1>7, <1>8

\* Rounded up, a part is no more than the whole, at an index that does not fall.
LEMMA UpOrder ==
  ASSUME NEW x \in Nat, NEW y \in Nat, NEW i \in Nat, NEW j \in Nat, NEW d \in Nat \ {0},
         x <= y, i <= j
  PROVE  MulDivUp(x, i, d) <= MulDivUp(y, j, d)
<1>1. PICK p \in Nat : p = MulDivUp(x, i, d)
  BY UpBounds
<1>2. PICK q \in Nat : q = MulDivUp(y, j, d)
  BY UpBounds
<1>3. PICK k \in Nat : y = x + k
  BY y - x \in Nat, y = x + (y - x)
<1>4. PICK l \in Nat : j = i + l
  BY j - i \in Nat, j = i + (j - i)
<1>5. /\ (x + k) * (i + l) = x * i + x * l + k * i + k * l
      /\ x * i \in Nat /\ x * l \in Nat /\ k * i \in Nat /\ k * l \in Nat
      /\ d * p \in Nat /\ d * q \in Nat
  OBVIOUS
<1>6. d * p < x * i + d /\ y * j <= d * q
  BY <1>1, <1>2, UpBounds
<1>7. d * p < d * q + d
  BY <1>3, <1>4, <1>5, <1>6
<1>. QED
  BY <1>1, <1>2, <1>7, Cancel

\* Products and quotients of naturals are of the order of their terms.
LEMMA TimesOrder ==
  ASSUME NEW a \in Nat, NEW b \in Nat, NEW c \in Nat, NEW d \in Nat, a <= b, c <= d
  PROVE  a * c \in Nat /\ b * d \in Nat /\ a * c <= b * d
<1>1. PICK k \in Nat : b = a + k
  BY b - a \in Nat, b = a + (b - a)
<1>2. PICK l \in Nat : d = c + l
  BY d - c \in Nat, d = c + (d - c)
<1>3. /\ a * c \in Nat /\ a * l \in Nat /\ k * c \in Nat /\ k * l \in Nat
      /\ (a + k) * (c + l) = a * c + a * l + k * c + k * l
  OBVIOUS
<1>. QED
  BY <1>1, <1>2, <1>3

\* Division rounded down keeps the order.
LEMMA QuotientOrder ==
  ASSUME NEW x \in Nat, NEW y \in Nat, NEW d \in Nat \ {0}, x <= y
  PROVE  x \div d \in Nat /\ y \div d \in Nat /\ x \div d <= y \div d
<1>1. \A n \in Nat : n \div d \in Nat
  OBVIOUS
<1>2. \A n \in Nat : d * (n \div d) <= n /\ n < d * (n \div d) + d
  OBVIOUS
<1>3. PICK p \in Nat : p = x \div d
  BY <1>1
<1>4. PICK q \in Nat : q = y \div d
  BY <1>1
<1>5. ASSUME q + 1 <= p
      PROVE  FALSE
  <2>1. d * (q + 1) <= d * p /\ d * (q + 1) \in Nat /\ d * p \in Nat
    BY <1>5, TimesOrder
  <2>2. d * (q + 1) = d * q + d /\ d * q \in Nat
    OBVIOUS
  <2>3. d * p <= x /\ y < d * q + d
    BY <1>2, <1>3, <1>4
  <2>. QED
    BY <2>1, <2>2, <2>3
<1>. QED
  BY <1>1, <1>3, <1>4, <1>5

\* MulDiv is monotone in both factors.
LEMMA MulDivOrder ==
  ASSUME NEW a \in Nat, NEW b \in Nat, NEW c \in Nat, NEW e \in Nat, NEW d \in Nat \ {0},
         a <= b, c <= e
  PROVE  /\ MulDiv(a, c, d) \in Nat /\ MulDiv(b, e, d) \in Nat
         /\ MulDiv(a, c, d) <= MulDiv(b, e, d)
<1>1. PICK x \in Nat : x = a * c
  OBVIOUS
<1>2. PICK y \in Nat : y = b * e
  OBVIOUS
<1>3. x <= y
  BY <1>1, <1>2, TimesOrder
<1>. QED
  BY <1>1, <1>2, <1>3, QuotientOrder DEF MulDiv

-----------------------------------------------------------------------------
(* What shares are worth, whoever comes or goes.                            *)

\* Who pays in and gets no more shares than that leaves the others no worse.
LEMMA EntryIsFair ==
  ASSUME NEW A \in Nat, NEW T \in Nat, NEW n \in Nat, NEW m \in Nat, A * m <= n * T
  PROVE  (A + n) * T >= A * (T + m)
<1>1. (A + n) * T = A * T + n * T /\ A * (T + m) = A * T + A * m
  OBVIOUS
<1>2. A * T \in Nat /\ n * T \in Nat /\ A * m \in Nat
  OBVIOUS
<1>. QED
  BY <1>1, <1>2

\* Who burns shares and takes no more than they are worth leaves the others no worse.
LEMMA ExitIsFair ==
  ASSUME NEW A \in Nat, NEW T \in Nat, NEW n \in 0..A, NEW m \in 0..T, T * n <= m * A
  PROVE  (A - n) * T >= A * (T - m)
<1>1. PICK a \in Nat : A = a + n
  OBVIOUS
<1>2. PICK t \in Nat : T = t + m
  OBVIOUS
<1>3. n \in Nat /\ m \in Nat
  OBVIOUS
<1>4. /\ (t + m) * n = t * n + m * n
      /\ m * (a + n) = m * a + m * n
      /\ a * (t + m) = a * t + m * a
      /\ (a + n) * t = a * t + t * n
  BY <1>3
<1>5. t * n \in Nat /\ m * n \in Nat /\ m * a \in Nat /\ a * t \in Nat
  BY <1>3
<1>6. (t + m) * n <= m * (a + n)
  BY <1>1, <1>2
<1>7. a * (t + m) >= (a + n) * t
  BY <1>4, <1>5, <1>6
<1>8. A - n = a /\ T - m = t
  BY <1>1, <1>2, <1>3
<1>. QED
  BY <1>1, <1>2, <1>7, <1>8

\* Shares are worth no less when each of them is.
LEMMA WorthOrder ==
  ASSUME NEW o \in Nat, NEW A \in Nat, NEW B \in Nat, NEW T \in Nat \ {0}, NEW U \in Nat \ {0},
         A * U <= B * T
  PROVE  MulDiv(o, A, T) <= MulDiv(o, B, U)
<1>1. PICK p \in Nat : p = MulDiv(o, A, T)
  BY DownBounds
<1>2. PICK q \in Nat : q = MulDiv(o, B, U)
  BY DownBounds
<1>3. T * p <= o * A /\ o * B < U * q + U
  BY <1>1, <1>2, DownBounds
<1>4. PICK x \in Nat : x = o * A
  OBVIOUS
<1>5. PICK y \in Nat : y = o * B
  OBVIOUS
<1>6. U * (T * p) <= U * x
  BY <1>3, <1>4, TimesOrder
<1>7. o * (A * U) <= o * (B * T)
  BY TimesOrder
<1>8. U * x = o * (A * U) /\ T * y = o * (B * T)
  BY <1>4, <1>5
<1>9. y + 1 <= U * q + U
  BY <1>3, <1>5
<1>10. T * (y + 1) <= T * (U * q + U)
  BY <1>9, TimesOrder
<1>11. T * (y + 1) = T * y + T /\ T * (U * q + U) = T * (U * q) + T * U
  BY <1>9
<1>12. PICK d \in Nat \ {0} : d = T * U
  OBVIOUS
<1>13. U * (T * p) = d * p /\ T * (U * q) = d * q
  BY <1>12
<1>14. /\ d * p \in Nat /\ d * q \in Nat /\ T * y \in Nat /\ U * x \in Nat
       /\ o * (A * U) \in Nat /\ o * (B * T) \in Nat
  OBVIOUS
<1>15. d * p <= T * y
  BY <1>6, <1>7, <1>8, <1>13, <1>14
<1>16. d * p < d * q + d
  BY <1>10, <1>11, <1>12, <1>13, <1>14, <1>15
<1>17. p <= q
  BY <1>16, Cancel
<1>. QED
  BY <1>1, <1>2, <1>17

\* Who pays in v for m shares of what they cost gains v at most.
LEMMA EntryIsWorthItsPrice ==
  ASSUME NEW B \in Nat, NEW T \in Nat \ {0}, NEW s \in 0..T, NEW v \in Nat, NEW m \in Nat,
         m * B <= v * T
  PROVE  MulDiv(s + m, B + v, T + m) <= MulDiv(s, B, T) + v
<1>1. PICK t \in Nat : T = s + t
  OBVIOUS
<1>2. s \in Nat
  OBVIOUS
<1>3. PICK p \in Nat : p = MulDiv(s, B, T)
  BY <1>2, DownBounds
<1>4. PICK K \in Nat \ {0} : K = T + m
  OBVIOUS
<1>5. s + m \in Nat /\ B + v \in Nat /\ MulDiv(s + m, B + v, K) \in Nat
      /\ K * MulDiv(s + m, B + v, K) <= (s + m) * (B + v)
  <2>1. s + m \in Nat /\ B + v \in Nat
    BY <1>2
  <2>. QED
    BY ONLY <2>1, K \in Nat \ {0}, DownBounds
<1>6. s * B < T * p + T
  BY <1>2, <1>3, DownBounds
<1>7. PICK q \in Nat : q = MulDiv(s + m, B + v, K) /\ K * q <= (s + m) * (B + v)
  BY <1>5
<1>8. PICK X \in Nat : X = s * B + v * T
  BY <1>2
<1>9. PICK Z \in Nat : Z = (s + m) * (B + v)
  BY <1>2
<1>10. T * Z <= X * K
  <2>1. t * (m * B) <= t * (v * T)
    BY TimesOrder
  <2>2. PICK c \in Nat : c = m * B
    OBVIOUS
  <2>3. PICK e \in Nat : e = v * T
    OBVIOUS
  <2>4. PICK g \in Nat : g = s * B
    BY <1>2
  <2>5. /\ s * v \in Nat /\ m * v \in Nat
        /\ Z = g + s * v + c + m * v
    BY <1>2, <1>9, <2>2, <2>4
  <2>6. T * Z = T * g + T * (s * v) + T * c + T * (m * v)
    BY <1>2, <2>5
  <2>7. X * K = g * T + g * m + e * T + e * m
    BY <1>4, <1>8, <2>3, <2>4
  <2>8. e * m = T * (m * v) /\ g * m = s * c /\ T * (s * v) = s * e
    BY <1>2, <2>2, <2>3, <2>4
  <2>9. T * c = s * c + t * c /\ e * T = s * e + t * e
    BY <1>1, <1>2
  <2>10. t * c <= t * e
    BY <2>1, <2>2, <2>3
  <2>11. /\ T * g \in Nat /\ s * e \in Nat /\ s * c \in Nat /\ t * c \in Nat /\ t * e \in Nat
         /\ e * m \in Nat /\ g * T = T * g
    BY <1>2
  <2>. QED
    BY <2>6, <2>7, <2>8, <2>9, <2>10, <2>11
<1>11. T * q <= X
  <2>1. T * (K * q) <= T * Z
    BY <1>7, <1>9, TimesOrder
  <2>2. T * (K * q) = K * (T * q) /\ X * K = K * X
    OBVIOUS
  <2>3. T * q \in Nat /\ K * (T * q) \in Nat /\ T * Z \in Nat /\ K * X \in Nat
    OBVIOUS
  <2>4. K * (T * q) < K * X + K
    BY <1>10, <2>1, <2>2, <2>3
  <2>. QED
    BY <2>3, <2>4, Cancel
<1>12. T * q < T * (p + v) + T
  <2>1. T * (p + v) = T * p + v * T /\ T * p \in Nat /\ v * T \in Nat /\ T * q \in Nat
    OBVIOUS
  <2>2. s * B \in Nat
    BY <1>2
  <2>. QED
    BY <1>6, <1>8, <1>11, <2>1, <2>2
<1>13. q <= p + v
  BY <1>12, Cancel
<1>. QED
  BY <1>3, <1>4, <1>7, <1>13

-----------------------------------------------------------------------------
(* The haircuts, one after the other, and the sum of a sequence.            *)

\* The greatest of some positions is one of them.
LEMMA GreatestIs ==
  ASSUME NEW n \in Nat, NEW T \in SUBSET (1..n), T # {}
  PROVE  Max(T) \in T
<1> DEFINE U == {n - i : i \in T}
<1>1. U \in SUBSET Nat /\ U # {}
  <2>1. \A i \in T : n - i \in Nat
    OBVIOUS
  <2>. QED
    BY <2>1
<1>2. PICK u \in U : \A v \in U : u <= v
  <2> HIDE DEF U
  <2>. QED
    BY <1>1, LeastNatural
<1>3. PICK i \in T : u = n - i
  OBVIOUS
<1>4. \A j \in T : n - j \in U /\ i >= j
  <2>1. ASSUME NEW j \in T
        PROVE  i >= j
    <3>1. n - j \in U
      OBVIOUS
    <3>2. n - i <= n - j /\ i \in Int /\ j \in Int
      BY <1>2, <1>3, <3>1
    <3>. QED
      BY <3>2
  <2>. QED
    BY <2>1
<1>5. \E x \in T : \A y \in T : x >= y
  BY <1>4
<1>. QED
  BY <1>5 DEF Max

\* The least of some numbers is one of them, and no greater than any.
LEMMA LeastIs ==
  ASSUME NEW T \in SUBSET Nat, T # {}
  PROVE  Min(T) \in T /\ \A y \in T : Min(T) <= y
BY LeastNatural DEF Min

\* What is left of a value after some of the cuts, and the sum of some of the terms, by index.
Cuts(whole, m, cuts, g) ==
  g = [s \in SUBSET DOMAIN cuts |->
         IF s = {} THEN m ELSE MulDiv(g[s \ {Max(s)}], whole - cuts[Max(s)], whole)]

Adds(seq, g) ==
  g = [s \in SUBSET DOMAIN seq |-> IF s = {} THEN 0 ELSE g[s \ {Max(s)}] + seq[Max(s)]]

Added(seq) == FoldLeft(LAMBDA x, y : x + y, 0, seq)

After(whole, m, cuts) == FoldLeft(LAMBDA v, cut : MulDiv(v, whole - cut, whole), m, cuts)

\* The haircuts applied in turn are the value of a fold.
LEMMA CutsByFold == ASSUME NEW whole, NEW m, NEW cuts
                    PROVE  After(whole, m, cuts) = (CHOOSE g : Cuts(whole, m, cuts, g))[DOMAIN cuts]
BY Zenon DEF After, FoldLeft, MapThenFoldSet, Cuts

\* And so is the total of a sequence.
LEMMA TotalByFold == ASSUME NEW seq
                     PROVE  Added(seq) = (CHOOSE g : Adds(seq, g))[DOMAIN seq]
BY Zenon DEF Added, FoldLeft, MapThenFoldSet, Adds

\* Every fold of naturals has its function.
LEMMA CutsExist ==
  ASSUME NEW whole \in Nat \ {0}, NEW n \in Nat, NEW cuts \in [1..n -> 0..whole], NEW m \in Nat
  PROVE  \E g : Cuts(whole, m, cuts, g)
<1> DEFINE S == 1..n
           first == [T \in SUBSET S |-> Max(T)]
           step == [i \in S |-> [v \in Nat |-> MulDiv(v, whole - cuts[i], whole)]]
<1>1. IsFiniteSet(S) /\ DOMAIN cuts = S
  BY FS_Interval
<1>2. \A T \in SUBSET S : T # {} => first[T] \in T
  BY GreatestIs
<1>3. ASSUME NEW i \in S, NEW v \in Nat
      PROVE  MulDiv(v, whole - cuts[i], whole) \in Nat
  <2>1. /\ whole \in Nat \ {0} /\ whole - cuts[i] \in Nat
        /\ v <= v /\ whole - cuts[i] <= whole - cuts[i]
    OBVIOUS
  <2>. QED
    BY <2>1, MulDivOrder
<1>4. step \in [S -> [Nat -> Nat]]
  BY <1>3
<1>5. PICK g \in [SUBSET S -> Nat] : Folds(S, m, step, first, g)
  <2> HIDE DEF S, first, step
  <2>. QED
    BY <1>1, <1>2, <1>4, FoldExists
<1>6. ASSUME NEW T \in SUBSET S
      PROVE  g[T] = IF T = {} THEN m ELSE MulDiv(g[T \ {Max(T)}], whole - cuts[Max(T)], whole)
  <2>1. T # {} => Max(T) \in S /\ g[T \ {Max(T)}] \in Nat
    BY GreatestIs
  <2>. QED
    BY <1>5, <2>1 DEF Folds
<1> HIDE DEF S
<1>7. Cuts(whole, m, cuts, g)
  BY <1>1, <1>6 DEF Cuts
<1>. QED
  BY <1>7

\* There is a fold that adds a sequence of naturals.
LEMMA AddsExist ==
  ASSUME NEW n \in Nat, NEW seq \in [1..n -> Nat]
  PROVE  \E g : Adds(seq, g)
<1> DEFINE S == 1..n
           first == [T \in SUBSET S |-> Max(T)]
           step == [i \in S |-> [v \in Nat |-> v + seq[i]]]
<1>1. IsFiniteSet(S) /\ DOMAIN seq = S /\ 0 \in Nat
  BY FS_Interval
<1>2. \A T \in SUBSET S : T # {} => first[T] \in T
  BY GreatestIs
<1>3. step \in [S -> [Nat -> Nat]]
  OBVIOUS
<1>4. PICK g \in [SUBSET S -> Nat] : Folds(S, 0, step, first, g)
  <2> HIDE DEF S, first, step
  <2>. QED
    BY <1>1, <1>2, <1>3, FoldExists
<1>5. ASSUME NEW T \in SUBSET S
      PROVE  g[T] = IF T = {} THEN 0 ELSE g[T \ {Max(T)}] + seq[Max(T)]
  <2>1. T # {} => Max(T) \in S /\ g[T \ {Max(T)}] \in Nat
    BY GreatestIs
  <2>. QED
    BY <1>4, <2>1 DEF Folds
<1> HIDE DEF S
<1>6. Adds(seq, g)
  BY <1>1, <1>5 DEF Adds
<1>. QED
  BY <1>6

\* Smaller cuts leave no less.
LEMMA CutsOrder ==
  ASSUME NEW whole \in Nat \ {0}, NEW n \in Nat, NEW a \in [1..n -> 0..whole],
         NEW b \in [1..n -> 0..whole], \A i \in 1..n : b[i] <= a[i], NEW m \in Nat
  PROVE  After(whole, m, a) \in Nat /\ After(whole, m, b) \in Nat /\ After(whole, m, a) <= After(whole, m, b)
<1> DEFINE S == 1..n
           g == CHOOSE g : Cuts(whole, m, a, g)
           h == CHOOSE h : Cuts(whole, m, b, h)
           X == {T \in SUBSET S : g[T] \in Nat /\ h[T] \in Nat /\ g[T] <= h[T]}
<1>1. Cuts(whole, m, a, g) /\ Cuts(whole, m, b, h)
  BY CutsExist
<1>2. IsFiniteSet(S) /\ DOMAIN a = S /\ DOMAIN b = S
  BY FS_Interval
<1> HIDE DEF g, h
<1>3. ASSUME NEW T \in SUBSET S
      PROVE  /\ g[T] = IF T = {} THEN m ELSE MulDiv(g[T \ {Max(T)}], whole - a[Max(T)], whole)
             /\ h[T] = IF T = {} THEN m ELSE MulDiv(h[T \ {Max(T)}], whole - b[Max(T)], whole)
  BY <1>1, <1>2 DEF Cuts
<1>4. ASSUME NEW T \in SUBSET S, \A U \in SUBSET T : U # T => U \in X
      PROVE  T \in X
  <2>1. CASE T = {}
    <3>1. g[T] = m /\ h[T] = m
      BY <1>3, <2>1
    <3>2. m \in Nat /\ m <= m
      OBVIOUS
    <3>. QED
      BY <3>1, <3>2
  <2>2. CASE T # {}
    <3>1. PICK x \in T : x = Max(T)
      BY <2>2, GreatestIs
    <3>2. T \ {x} \in X
      BY <1>4
    <3>3. PICK v \in Nat, w \in Nat : v = g[T \ {x}] /\ w = h[T \ {x}] /\ v <= w
      BY <3>2
    <3>4. /\ whole \in Nat \ {0} /\ whole - a[x] \in Nat /\ whole - b[x] \in Nat
          /\ whole - a[x] <= whole - b[x]
      OBVIOUS
    <3>5. /\ MulDiv(v, whole - a[x], whole) \in Nat /\ MulDiv(w, whole - b[x], whole) \in Nat
          /\ MulDiv(v, whole - a[x], whole) <= MulDiv(w, whole - b[x], whole)
      BY <3>3, <3>4, MulDivOrder
    <3>6. g[T] = MulDiv(v, whole - a[x], whole) /\ h[T] = MulDiv(w, whole - b[x], whole)
      BY <1>3, <2>2, <3>1, <3>3
    <3>. QED
      BY <3>5, <3>6
  <2>. QED
    BY <2>1, <2>2
<1>5. SUBSET S \subseteq X
  <2> HIDE DEF X, S
  <2>. QED
    BY <1>2, <1>4, SubsetInduction
<1>6. S \in X
  BY <1>5
<1>7. After(whole, m, a) = g[S] /\ After(whole, m, b) = h[S]
  BY <1>2, CutsByFold DEF g, h
<1>. QED
  BY <1>6, <1>7

\* Larger terms add up to no less.
LEMMA TotalOrder ==
  ASSUME NEW n \in Nat, NEW a \in [1..n -> Nat], NEW b \in [1..n -> Nat],
         \A i \in 1..n : a[i] <= b[i]
  PROVE  Added(a) \in Nat /\ Added(b) \in Nat /\ Added(a) <= Added(b)
<1> DEFINE S == 1..n
           g == CHOOSE g : Adds(a, g)
           h == CHOOSE h : Adds(b, h)
           X == {T \in SUBSET S : g[T] \in Nat /\ h[T] \in Nat /\ g[T] <= h[T]}
<1>1. Adds(a, g) /\ Adds(b, h)
  BY AddsExist
<1>2. IsFiniteSet(S) /\ DOMAIN a = S /\ DOMAIN b = S
  BY FS_Interval
<1> HIDE DEF g, h
<1>3. ASSUME NEW T \in SUBSET S
      PROVE  /\ g[T] = IF T = {} THEN 0 ELSE g[T \ {Max(T)}] + a[Max(T)]
             /\ h[T] = IF T = {} THEN 0 ELSE h[T \ {Max(T)}] + b[Max(T)]
  BY <1>1, <1>2 DEF Adds
<1>4. ASSUME NEW T \in SUBSET S, \A U \in SUBSET T : U # T => U \in X
      PROVE  T \in X
  <2>1. CASE T = {}
    <3>1. g[T] = 0 /\ h[T] = 0
      BY <1>3, <2>1
    <3>2. 0 \in Nat /\ 0 <= 0
      OBVIOUS
    <3>. QED
      BY <3>1, <3>2
  <2>2. CASE T # {}
    <3>1. PICK x \in T : x = Max(T)
      BY <2>2, GreatestIs
    <3>2. T \ {x} \in X
      BY <1>4
    <3>3. g[T] = g[T \ {x}] + a[x] /\ h[T] = h[T \ {x}] + b[x]
      BY <1>3, <2>2, <3>1
    <3>4. a[x] \in Nat /\ b[x] \in Nat /\ a[x] <= b[x]
      OBVIOUS
    <3>. QED
      BY <3>2, <3>3, <3>4, SMTT(60)
  <2>. QED
    BY <2>1, <2>2
<1>5. SUBSET S \subseteq X
  <2> HIDE DEF X, S
  <2>. QED
    BY <1>2, <1>4, SubsetInduction
<1>6. S \in X
  BY <1>5
<1>7. Added(a) = g[S] /\ Added(b) = h[S]
  BY <1>2, TotalByFold DEF g, h
<1>. QED
  BY <1>6, <1>7

-----------------------------------------------------------------------------
(* A position of nothing: whether a list keeps it or drops it.              *)

\* Cuts leave nothing of nothing.
LEMMA CutsOfNothing ==
  ASSUME NEW whole \in Nat \ {0}, NEW n \in Nat, NEW cuts \in [1..n -> 0..whole]
  PROVE  After(whole, 0, cuts) = 0
<1> DEFINE S == 1..n
           g == CHOOSE g : Cuts(whole, 0, cuts, g)
           X == {T \in SUBSET S : g[T] = 0}
<1>1. Cuts(whole, 0, cuts, g)
  <2>1. 0 \in Nat
    OBVIOUS
  <2>. QED
    BY <2>1, CutsExist
<1>2. IsFiniteSet(S) /\ DOMAIN cuts = S
  BY FS_Interval
<1> HIDE DEF g
<1>3. ASSUME NEW T \in SUBSET S
      PROVE  g[T] = IF T = {} THEN 0
                    ELSE MulDiv(g[T \ {Max(T)}], whole - cuts[Max(T)], whole)
  BY <1>1, <1>2 DEF Cuts
<1>4. ASSUME NEW T \in SUBSET S, \A U \in SUBSET T : U # T => U \in X
      PROVE  T \in X
  <2>1. CASE T = {}
    BY <1>3, <2>1
  <2>2. CASE T # {}
    <3>1. PICK x \in T : x = Max(T)
      BY <2>2, GreatestIs
    <3>2. T \ {x} \in X
      BY <1>4
    <3>3. g[T] = MulDiv(0, whole - cuts[x], whole)
      BY <1>3, <2>2, <3>1, <3>2
    <3>4. whole - cuts[x] \in Nat
      OBVIOUS
    <3>5. MulDiv(0, whole - cuts[x], whole) = 0
      BY <3>4 DEF MulDiv
    <3>. QED
      BY <3>3, <3>5
  <2>. QED
    BY <2>1, <2>2
<1>5. SUBSET S \subseteq X
  <2> HIDE DEF X, S
  <2>. QED
    BY <1>2, <1>4, SubsetInduction
<1>6. g[S] = 0
  BY <1>5
<1>. QED
  BY <1>2, <1>6, CutsByFold DEF g

\* The sum of the first m terms is that of one fewer and the m-th.
Stepwise(n, a, g) == \A m \in 1..n : g[1..m] = g[1..(m - 1)] + a[m]

\* So the function of a fold adds term after term.
LEMMA AddsNext ==
  ASSUME NEW n \in Nat, NEW a \in [1..n -> Nat], NEW g, Adds(a, g)
  PROVE  Stepwise(n, a, g)
<1> SUFFICES ASSUME NEW m \in 1..n
             PROVE  g[1..m] = g[1..(m - 1)] + a[m]
  BY DEF Stepwise
<1>1. 1..m \in SUBSET (1..n) /\ 1..m # {} /\ m \in 1..m
  OBVIOUS
<1>2. Max(1..m) \in 1..m
  BY <1>1, GreatestIs
<1>3. \E x \in 1..m : \A y \in 1..m : x >= y
  BY <1>1, SMTT(60)
<1>4. \A y \in 1..m : Max(1..m) >= y
  BY <1>3 DEF Max
<1>5. Max(1..m) = m
  BY <1>1, <1>2, <1>4
<1>6. (1..m) \ {m} = 1..(m - 1)
  OBVIOUS
<1>7. DOMAIN a = 1..n
  OBVIOUS
<1>. QED
  BY <1>1, <1>5, <1>6, <1>7 DEF Adds

\* A sequence of p + 1 terms without its k-th.
Dropped(p, a, k, b) ==
  /\ \A i \in 1..p : i < k => b[i] = a[i]
  /\ \A i \in 1..p : i >= k => b[i] = a[i + 1]

\* A sequence of naturals adds up to the same without a term of zero.
LEMMA SumWithoutZero ==
  ASSUME NEW p \in Nat, NEW a \in [1..(p + 1) -> Nat], NEW k \in 1..(p + 1), a[k] = 0,
         NEW b \in [1..p -> Nat], Dropped(p, a, k, b)
  PROVE  Added(b) = Added(a)
<1>0. PICK n \in Nat : n = p + 1
  OBVIOUS
<1>1. PICK g : Adds(a, g) /\ Added(a) = g[1..n]
  <2>1. PICK f \in [1..n -> Nat] : f = a
    BY <1>0
  <2>2. \E g : Adds(f, g)
    BY AddsExist
  <2>3. Adds(f, CHOOSE g : Adds(f, g)) /\ DOMAIN f = 1..n
    BY <2>2
  <2>. QED
    BY <2>1, <2>3, TotalByFold
<1>2. PICK h : Adds(b, h) /\ Added(b) = h[1..p]
  <2>1. \E h : Adds(b, h)
    BY AddsExist
  <2>2. Adds(b, CHOOSE h : Adds(b, h)) /\ DOMAIN b = 1..p
    BY <2>1
  <2>. QED
    BY <2>2, TotalByFold
<1>3. g[1..0] = 0 /\ h[1..0] = 0
  <2>1. 1..0 = {}
    OBVIOUS
  <2>. QED
    BY <1>1, <1>2, <2>1 DEF Adds
<1>4. \A i \in 1..n : g[1..i] = g[1..(i - 1)] + a[i]
  <2>1. a \in [1..n -> Nat]
    BY <1>0
  <2>2. Stepwise(n, a, g)
    BY <1>0, <1>1, <2>1, AddsNext
  <2>. QED
    BY <2>2 DEF Stepwise
<1>5. \A i \in 1..p : h[1..i] = h[1..(i - 1)] + b[i]
  <2>1. Stepwise(p, b, h)
    BY <1>2, AddsNext
  <2>. QED
    BY <2>1 DEF Stepwise
<1> DEFINE G(i) == g[1..i]
           H(i) == h[1..i]
           X == {m \in Nat : m <= p => H(m) \in Nat /\ H(m) = IF m < k THEN G(m) ELSE G(m + 1)}
<1>6. /\ G(0) = 0 /\ H(0) = 0
      /\ \A i \in 1..n : G(i) = G(i - 1) + a[i]
      /\ \A i \in 1..p : H(i) = H(i - 1) + b[i]
  BY <1>3, <1>4, <1>5
<1> HIDE DEF G, H
<1>7. 0 \in X
  BY <1>6
<1>8. ASSUME NEW m \in Nat, m + 1 <= p, H(m) \in Nat, H(m) = IF m < k THEN G(m) ELSE G(m + 1)
      PROVE  H(m + 1) \in Nat /\ H(m + 1) = IF m + 1 < k THEN G(m + 1) ELSE G(m + 2)
  <2>1. m + 1 \in 1..p /\ m + 1 \in 1..n /\ m + 2 \in 1..n /\ (m + 1) - 1 = m /\ (m + 2) - 1 = m + 1
    BY <1>0, <1>8
  <2>2. /\ H(m + 1) = H(m) + b[m + 1]
        /\ G(m + 1) = G(m) + a[m + 1]
        /\ G(m + 2) = G(m + 1) + a[m + 2]
    BY <1>6, <2>1
  <2>3. /\ m + 1 < k => b[m + 1] = a[m + 1]
        /\ m + 1 >= k => b[m + 1] = a[m + 2]
    <3>1. (m + 1) + 1 = m + 2
      OBVIOUS
    <3>. QED
      BY <2>1, <3>1 DEF Dropped
  <2>4. PICK hn, h0, g0, g1, g2 : /\ hn = H(m + 1) /\ h0 = H(m) /\ g0 = G(m) /\ g1 = G(m + 1)
                                  /\ g2 = G(m + 2)
    OBVIOUS
  <2>5. PICK x \in Nat, y \in Nat, z \in Nat : x = b[m + 1] /\ y = a[m + 1] /\ z = a[m + 2]
    BY <1>0, <2>1
  <2>6. /\ h0 \in Nat /\ h0 = IF m < k THEN g0 ELSE g1
        /\ hn = h0 + x /\ g1 = g0 + y /\ g2 = g1 + z
        /\ (m + 1 < k => x = y) /\ (m + 1 >= k => x = z) /\ (m + 1 = k => y = 0)
    BY <1>8, <2>2, <2>3, <2>4, <2>5
  <2>7. hn \in Nat /\ hn = IF m + 1 < k THEN g1 ELSE g2
    <3>1. CASE m + 1 < k
      BY <2>6, <3>1
    <3>2. CASE m + 1 = k
      BY <2>6, <3>2
    <3>3. CASE m + 1 > k
      BY <2>6, <3>3
    <3>. QED
      BY <3>1, <3>2, <3>3
  <2>. QED
    BY <2>4, <2>7
<1>9. \A m \in X : m + 1 \in X
  <2>1. ASSUME NEW m \in X, m + 1 <= p
        PROVE  H(m + 1) \in Nat /\ H(m + 1) = IF m + 1 < k THEN G(m + 1) ELSE G((m + 1) + 1)
    <3>1. m \in Nat /\ m <= p /\ (m + 1) + 1 = m + 2
      BY <2>1
    <3>. QED
      BY <1>8, <2>1, <3>1
  <2>. QED
    BY <2>1
<1>10. X = Nat
  <2>1. X \in SUBSET Nat
    OBVIOUS
  <2> HIDE DEF X
  <2>. QED
    BY <1>7, <1>9, <2>1, SetInduction
<1>11. H(p) \in Nat /\ H(p) = IF p < k THEN G(p) ELSE G(p + 1)
  BY <1>10
<1>12. G(n) = G(p) + a[n] /\ n - 1 = p
  BY <1>0, <1>6
<1>13. H(p) = G(n)
  <2>1. CASE p < k
    <3>1. k = n /\ a[n] = 0
      BY <1>0, <2>1
    <3>. QED
      BY <1>11, <1>12, <2>1, <3>1
  <2>2. CASE ~(p < k)
    BY <1>0, <1>11, <2>2
  <2>. QED
    BY <2>1, <2>2
<1>. QED
  BY <1>1, <1>2, <1>13 DEF G, H

\* Removing the first occurrence of an element takes one term away.
LEMMA RemovalIs ==
  ASSUME NEW S, NEW s \in Seq(S), NEW e
  PROVE  /\ RemoveFirst(s, e) \in Seq(S)
         /\ e \in ToSet(s) => \E k \in 1..Len(s) :
              /\ s[k] = e
              /\ Len(RemoveFirst(s, e)) = Len(s) - 1
              /\ Dropped(Len(s) - 1, s, k, RemoveFirst(s, e))
<1>1. PICK n \in Nat : n = Len(s)
  OBVIOUS
<1>2. s \in [1..n -> S] /\ DOMAIN s = 1..n /\ ToSet(s) = {s[i] : i \in 1..n}
  BY <1>1 DEF ToSet
<1>3. CASE e \notin ToSet(s)
  BY <1>1, <1>2, <1>3 DEF RemoveFirst
<1>4. CASE e \in ToSet(s)
  <2> DEFINE T == {i \in 1..n : s[i] = e}
  <2>1. T \in SUBSET Nat /\ T # {}
    BY <1>2, <1>4
  <2>2. PICK k : k = Min(T)
    OBVIOUS
  <2>3. k \in T
    <3> HIDE DEF T
    <3>. QED
      BY <2>1, <2>2, LeastIs
  <2>4. SelectInSeq(s, LAMBDA v : v = e) = k
    BY <1>1, <2>1, <2>2 DEF SelectInSeq
  <2>5. RemoveFirst(s, e) = SubSeq(s, 1, k - 1) \o SubSeq(s, k + 1, n)
    BY <1>1, <1>2, <2>3, <2>4 DEF RemoveFirst, RemoveAt
  <2>6. k \in 1..n /\ s[k] = e
    BY <2>3
  <2> HIDE DEF T
  <2>7. PICK u : u = SubSeq(s, 1, k - 1)
    OBVIOUS
  <2>8. PICK v : v = SubSeq(s, k + 1, n)
    OBVIOUS
  <2>9. /\ u \in Seq(S) /\ Len(u) = k - 1 /\ \A i \in 1..(k - 1) : u[i] = s[i]
    <3>1. /\ 1 \in Int /\ k - 1 \in Int /\ \A i \in 1..(k - 1) : s[i] \in S /\ 1 + i - 1 = i
          /\ (k - 1) - 1 + 1 = k - 1
      BY <1>2, <2>6
    <3>2. /\ u \in Seq(S) /\ Len(u) = IF 1 <= k - 1 THEN (k - 1) - 1 + 1 ELSE 0
          /\ \A i \in 1..((k - 1) - 1 + 1) : u[i] = s[1 + i - 1]
      BY <2>7, <3>1, SubSeqProperties
    <3>3. ~(1 <= k - 1) => k - 1 = 0
      BY <2>6
    <3>. QED
      BY <3>1, <3>2, <3>3
  <2>10. /\ v \in Seq(S) /\ Len(v) = n - k /\ \A i \in 1..(n - k) : v[i] = s[k + i]
    <3>1. /\ k + 1 \in Int /\ n \in Int /\ \A i \in (k + 1)..n : s[i] \in S
          /\ n - (k + 1) + 1 = n - k /\ \A i \in 1..(n - k) : (k + 1) + i - 1 = k + i
      BY <1>1, <1>2, <2>6
    <3>2. /\ v \in Seq(S) /\ Len(v) = IF k + 1 <= n THEN n - (k + 1) + 1 ELSE 0
          /\ \A i \in 1..(n - (k + 1) + 1) : v[i] = s[(k + 1) + i - 1]
      BY <2>8, <3>1, SubSeqProperties
    <3>3. ~(k + 1 <= n) => n - k = 0
      BY <1>1, <2>6
    <3>. QED
      BY <3>1, <3>2, <3>3
  <2>11. PICK w : w = u \o v
    OBVIOUS
  <2>12. /\ w \in Seq(S) /\ Len(w) = (k - 1) + (n - k)
         /\ \A i \in 1..((k - 1) + (n - k)) : w[i] = IF i <= k - 1 THEN u[i] ELSE v[i - (k - 1)]
    BY <2>9, <2>10, <2>11, ConcatProperties
  <2>13. (k - 1) + (n - k) = n - 1
    BY <1>1, <2>6
  <2>14. ASSUME NEW i \in 1..(n - 1)
         PROVE  (i < k => w[i] = s[i]) /\ (i >= k => w[i] = s[i + 1])
    <3>1. CASE i < k
      <4>1. i \in 1..(k - 1) /\ i <= k - 1
        BY <2>6, <3>1
      <4>2. w[i] = u[i] /\ u[i] = s[i]
        BY <2>9, <2>12, <2>13, <4>1
      <4>. QED
        BY <2>6, <3>1, <4>2
    <3>2. CASE i >= k
      <4>1. i - (k - 1) \in 1..(n - k) /\ k + (i - (k - 1)) = i + 1 /\ ~(i <= k - 1)
        BY <1>1, <2>6, <3>2
      <4>. QED
        BY <2>6, <2>10, <2>12, <2>13, <3>2, <4>1
    <3>. QED
      BY <2>6, <3>1, <3>2
  <2>15. Dropped(Len(s) - 1, s, k, w)
    BY <1>1, <2>14 DEF Dropped
  <2>16. RemoveFirst(s, e) = w
    BY <2>5, <2>7, <2>8, <2>11
  <2>. QED
    BY <1>1, <2>6, <2>12, <2>13, <2>15, <2>16
<1>. QED
  BY <1>3, <1>4

\* A finite set of naturals has a greatest element.
LEMMA GreatestOf ==
  ASSUME NEW S \in SUBSET Nat, IsFiniteSet(S), S # {}
  PROVE  Max(S) \in S /\ \A y \in S : y <= Max(S)
<1> DEFINE X == {T \in SUBSET S : T # {} => \E x \in T : \A y \in T : x >= y}
<1>1. ASSUME NEW T \in SUBSET S, \A U \in SUBSET T : U # T => U \in X
      PROVE  T \in X
  <2>1. CASE T = {}
    BY <2>1
  <2>2. ASSUME NEW a \in T
        PROVE  \E x \in T : \A y \in T : x >= y
    <3>1. CASE T = {a}
      BY <3>1
    <3>2. CASE T # {a}
      <4>1. T \ {a} \in X /\ T \ {a} # {}
        BY <1>1, <3>2
      <4>2. PICK b \in T \ {a} : \A y \in T \ {a} : b >= y
        BY <4>1
      <4>3. CASE b >= a
        <5>1. \A y \in T : b >= y
          BY <4>2, <4>3
        <5>. QED
          BY <5>1
      <4>4. CASE ~(b >= a)
        <5>1. a \in Nat /\ b \in Nat /\ \A y \in T : y \in Nat
          OBVIOUS
        <5>2. \A y \in T : a >= y
          BY <4>2, <4>4, <5>1
        <5>. QED
          BY <5>2
      <4>. QED
        BY <4>3, <4>4
    <3>. QED
      BY <3>1, <3>2
  <2>. QED
    BY <2>1, <2>2
<1>2. S \in X
  <2> HIDE DEF X
  <2>1. SUBSET S \subseteq X
    BY <1>1, SubsetInduction
  <2>. QED
    BY <2>1
<1>3. PICK x \in S : \A y \in S : x >= y
  BY <1>2
<1>4. Max(S) \in S /\ \A y \in S : Max(S) >= y
  BY <1>3 DEF Max
<1>. QED
  BY <1>4

\* An element inserted at k moves what stood there and after it by one place.
Inserted(n, s, k, e, w) ==
  \A i \in 1..(n + 1) : w[i] = IF i < k THEN s[i] ELSE IF i = k THEN e ELSE s[i - 1]

\* What an insertion leaves where.
LEMMA InsertionIs ==
  ASSUME NEW S, NEW s \in Seq(S), NEW e \in S, NEW k \in 1..(Len(s) + 1)
  PROVE  /\ InsertAt(s, k, e) \in Seq(S) /\ Len(InsertAt(s, k, e)) = Len(s) + 1
         /\ Inserted(Len(s), s, k, e, InsertAt(s, k, e))
<1>1. PICK n \in Nat : n = Len(s)
  OBVIOUS
<1>2. s \in [1..n -> S] /\ DOMAIN s = 1..n /\ k \in 1..(n + 1)
  BY <1>1
<1>3. PICK u : u = SubSeq(s, 1, k - 1)
  OBVIOUS
<1>4. PICK v : v = SubSeq(s, k, n)
  OBVIOUS
<1>5. /\ u \in Seq(S) /\ Len(u) = k - 1 /\ \A i \in 1..(k - 1) : u[i] = s[i]
  <2>1. /\ 1 \in Int /\ k - 1 \in Int /\ \A i \in 1..(k - 1) : s[i] \in S /\ 1 + i - 1 = i
        /\ (k - 1) - 1 + 1 = k - 1
    BY <1>2
  <2>2. /\ u \in Seq(S) /\ Len(u) = IF 1 <= k - 1 THEN (k - 1) - 1 + 1 ELSE 0
        /\ \A i \in 1..((k - 1) - 1 + 1) : u[i] = s[1 + i - 1]
    BY <1>3, <2>1, SubSeqProperties
  <2>3. ~(1 <= k - 1) => k - 1 = 0
    BY <1>2
  <2>. QED
    BY <2>1, <2>2, <2>3
<1>6. /\ v \in Seq(S) /\ Len(v) = n - k + 1 /\ \A i \in 1..(n - k + 1) : v[i] = s[k + i - 1]
  <2>1. k \in Int /\ n \in Int /\ \A i \in k..n : s[i] \in S
    BY <1>1, <1>2
  <2>2. /\ v \in Seq(S) /\ Len(v) = IF k <= n THEN n - k + 1 ELSE 0
        /\ \A i \in 1..(n - k + 1) : v[i] = s[k + i - 1]
    BY <1>4, <2>1, SubSeqProperties
  <2>3. ~(k <= n) => n - k + 1 = 0
    BY <1>1, <1>2
  <2>. QED
    BY <2>2, <2>3
<1>7. PICK w : w = u \o <<e>>
  OBVIOUS
<1>8. <<e>> \in Seq(S) /\ Len(<<e>>) = 1 /\ <<e>>[1] = e
  OBVIOUS
<1>9. /\ w \in Seq(S) /\ Len(w) = k
      /\ \A i \in 1..k : w[i] = IF i <= k - 1 THEN u[i] ELSE e
  <2>1. /\ w \in Seq(S) /\ Len(w) = (k - 1) + 1
        /\ \A i \in 1..((k - 1) + 1) : w[i] = IF i <= k - 1 THEN u[i] ELSE <<e>>[i - (k - 1)]
    BY <1>5, <1>7, <1>8, ConcatProperties
  <2>2. (k - 1) + 1 = k /\ \A i \in 1..k : ~(i <= k - 1) => i - (k - 1) = 1
    BY <1>2
  <2>. QED
    BY <1>8, <2>1, <2>2
<1>10. PICK x : x = w \o v
  OBVIOUS
<1>11. /\ x \in Seq(S) /\ Len(x) = k + (n - k + 1)
       /\ \A i \in 1..(k + (n - k + 1)) : x[i] = IF i <= k THEN w[i] ELSE v[i - k]
  <2>1. w \in Seq(S) /\ v \in Seq(S) /\ Len(w) = k /\ Len(v) = n - k + 1
    BY <1>6, <1>9
  <2>2. /\ x \in Seq(S) /\ Len(x) = Len(w) + Len(v)
        /\ \A i \in 1..(Len(w) + Len(v)) : x[i] = IF i <= Len(w) THEN w[i] ELSE v[i - Len(w)]
    BY <1>10, <2>1, ConcatProperties
  <2>. QED
    BY <2>1, <2>2
<1>12. k + (n - k + 1) = n + 1
  BY <1>1, <1>2
<1>13. ASSUME NEW i \in 1..(n + 1)
       PROVE  x[i] = IF i < k THEN s[i] ELSE IF i = k THEN e ELSE s[i - 1]
  <2>1. CASE i < k
    <3>1. i \in 1..k /\ i <= k - 1 /\ i \in 1..(k - 1) /\ i <= k
      BY <1>2, <2>1
    <3>. QED
      BY <1>5, <1>9, <1>11, <1>12, <2>1, <3>1
  <2>2. CASE i = k
    <3>1. i \in 1..k /\ ~(i <= k - 1) /\ ~(i < k) /\ i <= k
      BY <1>2, <2>2
    <3>. QED
      BY <1>9, <1>11, <1>12, <2>2, <3>1
  <2>3. CASE i > k
    <3>1. i - k \in 1..(n - k + 1) /\ k + (i - k) - 1 = i - 1 /\ ~(i <= k) /\ ~(i < k) /\ i # k
      BY <1>1, <1>2, <2>3
    <3>. QED
      BY <1>6, <1>11, <1>12, <3>1
  <2>. QED
    BY <1>2, <2>1, <2>2, <2>3
<1>14. InsertAt(s, k, e) = x
  BY <1>1, <1>3, <1>4, <1>7, <1>10 DEF InsertAt
<1>. QED
  BY <1>1, <1>11, <1>12, <1>13, <1>14 DEF Inserted

=============================================================================

----------------------------- MODULE DataTheorems -----------------------------
(***************************************************************************)
(* What the data operators of the models compute, for data of any size: the  *)
(* sum of a function over a finite set.                                      *)
(*                                                                           *)
(* The community modules define folds by recursion over subsets. Induction   *)
(* is on sets here rather than on predicates: what is to be shown of every   *)
(* element is the set of the elements it holds for.                          *)
(***************************************************************************)
EXTENDS Integers, FiniteSetsExt, Functions, FiniteSetTheorems, WellFoundedInduction, TLAPS

\* A set of naturals that has 0 and with each number the next has them all.
LEMMA NatInduct ==
  ASSUME NEW G, 0 \in G, \A n \in Nat : n \in G => n + 1 \in G
  PROVE  Nat \subseteq G
<1> DEFINE Missing == {n \in Nat : n \notin G}
<1> SUFFICES ASSUME Missing # {} PROVE FALSE OBVIOUS
<1>1. PICK n \in Missing : \A k \in Missing : <<k, n>> \notin OpToRel(<, Nat)
  <2> HIDE DEF Missing
  <2>1. Missing \subseteq Nat BY DEF Missing
  <2> QED BY <2>1, NatLessThanWellFounded, WFMin
<1>2. \A k \in Missing : ~(k < n) BY <1>1 DEF OpToRel
<1>3. n # 0 /\ n - 1 \in Nat /\ n - 1 \notin Missing BY <1>2
<1>4. n - 1 + 1 \in G BY <1>3
<1> QED BY <1>4

\* A set that has a subset of S whenever it has all the smaller ones has them all.
LEMMA SubsetInduct ==
  ASSUME NEW S, IsFiniteSet(S), NEW G,
         \A T \in SUBSET S : (\A U \in SUBSET T : U # T => U \in G) => T \in G
  PROVE  SUBSET S \subseteq G
<1> DEFINE Missing == {T \in SUBSET S : T \notin G}
<1> SUFFICES ASSUME Missing # {} PROVE FALSE OBVIOUS
<1>1. PICK T \in Missing : \A U \in Missing : <<U, T>> \notin StrictSubsetOrdering(S)
  <2>1. Missing \subseteq FiniteSubsetsOf(S) BY FS_FiniteSubsetsOfFinite
  <2> HIDE DEF Missing
  <2> QED BY <2>1, FS_StrictSubsetOrderingWellFounded, WFMin
<1>2. \A U \in SUBSET T : U # T => U \in G BY <1>1 DEF StrictSubsetOrdering
<1> QED BY <1>2

\* Numbers up to a bound have a largest one.
LEMMA MaxIn ==
  ASSUME NEW n \in Nat, NEW T \in SUBSET (1 .. n), T # {}
  PROVE  Max(T) \in T /\ \A k \in T : Max(T) >= k
<1> DEFINE Good == {m \in Nat : \A U \in SUBSET (1 .. m) : U # {} => \E x \in U : \A y \in U : x >= y}
<1>1. 0 \in Good
  <2>1. 1 .. 0 = {} OBVIOUS
  <2> QED BY <2>1
<1>2. ASSUME NEW m \in Nat, m \in Good PROVE m + 1 \in Good
  <2> SUFFICES ASSUME NEW U \in SUBSET (1 .. m + 1), U # {} PROVE \E x \in U : \A y \in U : x >= y
    OBVIOUS
  <2>1. CASE m + 1 \in U BY <2>1
  <2>2. CASE m + 1 \notin U
    <3>1. U \in SUBSET (1 .. m) BY <2>2
    <3> QED BY <1>2, <3>1
  <2> QED BY <2>1, <2>2
<1>3. n \in Good
  <2> HIDE DEF Good
  <2> QED BY <1>1, <1>2, NatInduct
<1> QED BY <1>3 DEF Max
-----------------------------------------------------------------------------
\* A fold over the subsets of S: `next` picks the element that comes last and
\* `step` adds it to what there is.
IsFold(g, S, base, next, step) ==
  g = [T \in SUBSET S |-> IF T = {} THEN base ELSE step[<<next[T], g[T \ {next[T]}]>>]]

IsNext(next, S) == \A T \in SUBSET S : T # {} => next[T] \in T

\* There is such a fold: what is defined up to a size is defined for the next.
LEMMA FoldExists ==
  ASSUME NEW S, IsFiniteSet(S), NEW base, NEW next, IsNext(next, S), NEW step
  PROVE  \E g : IsFold(g, S, base, next, step)
<1> DEFINE Upto(n) == {T \in SUBSET S : Cardinality(T) <= n}
           Value(T, g) == IF T = {} THEN base ELSE step[<<next[T], g[T \ {next[T]}]>>]
           Good == {n \in Nat : \E g : g = [T \in Upto(n) |-> Value(T, g)]}
<1>1. \A T \in SUBSET S : IsFiniteSet(T) /\ Cardinality(T) \in Nat /\ Cardinality(T) <= Cardinality(S)
  BY FS_Subset, FS_CardinalityType
<1>2. ASSUME NEW T \in SUBSET S, T # {}
      PROVE  T \ {next[T]} \in SUBSET S /\ Cardinality(T \ {next[T]}) = Cardinality(T) - 1
  BY <1>1, <1>2, FS_RemoveElement DEF IsNext
<1>3. 0 \in Good
  <2>1. \A T \in Upto(0) : T = {} BY <1>1, FS_EmptySet
  <2> DEFINE g == [T \in Upto(0) |-> base]
  <2>2. g = [T \in Upto(0) |-> Value(T, g)] BY <2>1
  <2> QED BY <2>2
<1>4. ASSUME NEW n \in Nat, n \in Good PROVE n + 1 \in Good
  <2>1. PICK g : g = [T \in Upto(n) |-> Value(T, g)] BY <1>4
  <2> DEFINE h == [T \in Upto(n + 1) |-> Value(T, g)]
  <2>2. ASSUME NEW T \in Upto(n + 1), T # {} PROVE h[T \ {next[T]}] = g[T \ {next[T]}]
    <3> DEFINE U == T \ {next[T]}
    <3>1. U \in Upto(n) /\ U \in Upto(n + 1) BY <1>1, <1>2, <2>2
    <3>2. h[U] = Value(U, g) BY <3>1
    <3>3. g[U] = Value(U, g)
      <4> HIDE DEF Upto, Value, h, U
      <4> QED BY <2>1, <3>1
    <3> QED BY <3>2, <3>3
  <2>3. \A T \in Upto(n + 1) : Value(T, g) = Value(T, h) BY <2>2
  <2>4. h = [T \in Upto(n + 1) |-> Value(T, h)]
    <3> HIDE DEF Upto, Value
    <3> QED BY <2>3
  <2> HIDE DEF h, Upto, Value
  <2> QED BY <2>4
<1>5. Cardinality(S) \in Good
  <2> HIDE DEF Good
  <2> QED BY <1>1, <1>3, <1>4, NatInduct
<1>6. PICK g : g = [T \in Upto(Cardinality(S)) |-> Value(T, g)] BY <1>5
<1>7. Upto(Cardinality(S)) = SUBSET S BY <1>1
<1> QED BY <1>6, <1>7 DEF IsFold

\* Two folds agree on what is a subset for both.
LEMMA FoldsAgree ==
  ASSUME NEW S, IsFiniteSet(S), NEW R, NEW base, NEW next, NEW step, NEW g, NEW h,
         IsNext(next, S), R \subseteq S,
         IsFold(g, S, base, next, step), IsFold(h, R, base, next, step)
  PROVE  g[R] = h[R]
<1> DEFINE Good == {T \in SUBSET R : g[T] = h[T]}
<1>1. ASSUME NEW T \in SUBSET R, \A U \in SUBSET T : U # T => U \in Good PROVE T \in Good
  <2>1. CASE T = {} BY <2>1 DEF IsFold
  <2>2. CASE T # {}
    <3>1. T \in SUBSET S /\ next[T] \in T BY <2>2 DEF IsNext
    <3>2. g[T \ {next[T]}] = h[T \ {next[T]}] BY <1>1, <3>1
    <3>3. g[T] = step[<<next[T], g[T \ {next[T]}]>>] BY <2>2, <3>1 DEF IsFold
    <3>4. h[T] = step[<<next[T], h[T \ {next[T]}]>>] BY <2>2 DEF IsFold
    <3> QED BY <3>2, <3>3, <3>4
  <2> QED BY <2>1, <2>2
<1>2. IsFiniteSet(R) BY FS_Subset
<1>3. R \in Good
  <2> HIDE DEF Good
  <2> QED BY <1>1, <1>2, SubsetInduct
<1> QED BY <1>3

\* The values of a fold are those of its steps.
LEMMA FoldType ==
  ASSUME NEW S, IsFiniteSet(S), NEW V, NEW base \in V, NEW next, IsNext(next, S),
         NEW step \in [S \X V -> V], NEW g, IsFold(g, S, base, next, step)
  PROVE  g \in [SUBSET S -> V]
<1> DEFINE Good == {T \in SUBSET S : g[T] \in V}
<1>1. ASSUME NEW T \in SUBSET S, \A U \in SUBSET T : U # T => U \in Good PROVE T \in Good
  <2>1. CASE T = {} BY <2>1 DEF IsFold
  <2>2. CASE T # {}
    <3>1. next[T] \in T BY <2>2 DEF IsNext
    <3>2. g[T \ {next[T]}] \in V BY <1>1, <3>1
    <3>3. g[T] = step[<<next[T], g[T \ {next[T]}]>>] BY <2>2 DEF IsFold
    <3> QED BY <3>1, <3>2, <3>3
  <2> QED BY <2>1, <2>2
<1>2. SUBSET S \subseteq Good
  <2> HIDE DEF Good
  <2> QED BY <1>1, SubsetInduct
<1> QED BY <1>2 DEF IsFold
-----------------------------------------------------------------------------
SumNext(S) == [T \in SUBSET S |-> CHOOSE x \in T : TRUE]
SumStep(f, S) == [p \in S \X Int |-> f[p[1]] + p[2]]
Integral(f, S) == \A x \in S : f[x] \in Int

LEMMA SumIsFold ==
  ASSUME NEW S, IsFiniteSet(S), NEW f, Integral(f, S)
  PROVE  /\ IsNext(SumNext(S), S)
         /\ \E g \in [SUBSET S -> Int] :
              IsFold(g, S, 0, SumNext(S), SumStep(f, S)) /\ SumFunctionOnSet(f, S) = g[S]
<1>1. IsNext(SumNext(S), S) BY DEF IsNext, SumNext
<1>2. SumStep(f, S) \in [S \X Int -> Int] BY DEF SumStep, Integral
<1> DEFINE Last(T) == CHOOSE x \in T : TRUE
           Value(T, g) == IF T = {} THEN 0 ELSE f[Last(T)] + g[T \ {Last(T)}]
           Sums(g) == g = [T \in SUBSET S |-> Value(T, g)]
<1>3. ASSUME NEW g \in [SUBSET S -> Int], NEW T \in SUBSET S
      PROVE  Value(T, g) = IF T = {} THEN 0
                           ELSE SumStep(f, S)[<<SumNext(S)[T], g[T \ {SumNext(S)[T]}]>>]
  <2>1. CASE T = {} BY <2>1
  <2>2. CASE T # {}
    <3>1. Last(T) \in T BY <2>2
    <3>2. SumNext(S)[T] = Last(T) BY DEF SumNext
    <3>3. g[T \ {Last(T)}] \in Int OBVIOUS
    <3> HIDE DEF Last
    <3>4. SumStep(f, S)[<<Last(T), g[T \ {Last(T)}]>>] = f[Last(T)] + g[T \ {Last(T)}]
      BY <3>1, <3>3 DEF SumStep
    <3> QED BY <2>2, <3>2, <3>4
  <2> QED BY <2>1, <2>2
<1>4. ASSUME NEW g \in [SUBSET S -> Int]
      PROVE  Sums(g) <=> IsFold(g, S, 0, SumNext(S), SumStep(f, S))
  <2> HIDE DEF Value
  <2> QED BY <1>3 DEF IsFold
<1>5. PICK h : IsFold(h, S, 0, SumNext(S), SumStep(f, S)) BY <1>1, FoldExists
<1>6. h \in [SUBSET S -> Int]
  <2>1. 0 \in Int OBVIOUS
  <2> HIDE DEF Last, Value, Sums
  <2> QED BY <1>1, <1>2, <1>5, <2>1, FoldType
<1>7. Sums(h) BY <1>4, <1>5, <1>6
<1> DEFINE g == CHOOSE g : Sums(g)
<1>8. Sums(g) BY <1>7
<1>9. SumFunctionOnSet(f, S) = g[S]
  BY DEF SumFunctionOnSet, FoldFunctionOnSet, MapThenFoldSet
<1>10. g = h
  <2>1. \A T \in SUBSET S : g[T] = h[T]
    <3> DEFINE Good == {T \in SUBSET S : g[T] = h[T]}
    <3>1. ASSUME NEW T \in SUBSET S, \A U \in SUBSET T : U # T => U \in Good PROVE T \in Good
      <4>1. g[T] = Value(T, g) /\ h[T] = Value(T, h)
        <5> HIDE DEF Value, g
        <5> QED BY <1>7, <1>8
      <4>2. T # {} => g[T \ {Last(T)}] = h[T \ {Last(T)}]
        <5> HIDE DEF g
        <5> QED BY <3>1
      <4> QED BY <4>1, <4>2
    <3> HIDE DEF Good
    <3>2. SUBSET S \subseteq Good BY <3>1, SubsetInduct
    <3> QED BY <3>2 DEF Good
  <2>2. DOMAIN g = SUBSET S /\ g = [T \in SUBSET S |-> g[T]]
    <3> HIDE DEF Value, g
    <3> QED BY <1>8
  <2> HIDE DEF g
  <2> QED BY <1>6, <2>1, <2>2
<1> QED BY <1>1, <1>5, <1>6, <1>9, <1>10

\* The sum by its own equation.
LEMMA SumUnfold ==
  ASSUME NEW S, IsFiniteSet(S), NEW f, Integral(f, S)
  PROVE  /\ SumFunctionOnSet(f, S) \in Int
         /\ S = {} => SumFunctionOnSet(f, S) = 0
         /\ S # {} => \E y \in S : SumFunctionOnSet(f, S) = f[y] + SumFunctionOnSet(f, S \ {y})
<1>1. PICK g \in [SUBSET S -> Int] :
        IsFold(g, S, 0, SumNext(S), SumStep(f, S)) /\ SumFunctionOnSet(f, S) = g[S]
  BY SumIsFold
<1>2. S = {} => g[S] = 0 BY <1>1 DEF IsFold
<1>3. ASSUME S # {} PROVE \E y \in S : SumFunctionOnSet(f, S) = f[y] + SumFunctionOnSet(f, S \ {y})
  <2> DEFINE y == SumNext(S)[S]
             R == S \ {y}
  <2>1. y \in S BY <1>3 DEF SumNext
  <2>2. IsFiniteSet(R) /\ Integral(f, R) BY FS_RemoveElement DEF Integral
  <2>3. PICK h \in [SUBSET R -> Int] :
          IsFold(h, R, 0, SumNext(R), SumStep(f, R)) /\ SumFunctionOnSet(f, R) = h[R]
    <3> HIDE DEF R
    <3> QED BY <2>2, SumIsFold
  <2>4. IsFold(h, R, 0, SumNext(S), SumStep(f, S))
    <3>1. ASSUME NEW T \in SUBSET R, T # {}
          PROVE  SumStep(f, R)[<<SumNext(R)[T], h[T \ {SumNext(R)[T]}]>>]
                   = SumStep(f, S)[<<SumNext(S)[T], h[T \ {SumNext(S)[T]}]>>]
      <4>1. SumNext(R)[T] = SumNext(S)[T] /\ SumNext(R)[T] \in T BY <3>1 DEF SumNext
      <4>2. h[T \ {SumNext(R)[T]}] \in Int BY <4>1
      <4> QED BY <4>1, <4>2 DEF SumStep
    <3> QED BY <2>3, <3>1 DEF IsFold
  <2>5. g[R] = h[R]
    <3>1. R \subseteq S OBVIOUS
    <3>2. IsNext(SumNext(S), S) BY SumIsFold
    <3>3. IsFold(g, S, 0, SumNext(S), SumStep(f, S)) BY <1>1
    <3> HIDE DEF R
    <3> QED BY <2>4, <3>1, <3>2, <3>3, FoldsAgree
  <2>6. g[S] = SumStep(f, S)[<<y, g[R]>>] BY <1>1, <1>3 DEF IsFold
  <2>7. g[S] = f[y] + g[R] BY <2>1, <2>6 DEF SumStep
  <2> QED BY <1>1, <2>1, <2>3, <2>5, <2>7
<1> QED BY <1>1, <1>2, <1>3

\* Any element may be taken out first.
LEMMA SumRemove ==
  ASSUME NEW S, IsFiniteSet(S), NEW f, Integral(f, S), NEW x \in S
  PROVE  SumFunctionOnSet(f, S) = f[x] + SumFunctionOnSet(f, S \ {x})
<1> DEFINE Sum(T) == SumFunctionOnSet(f, T)
           Good == {T \in SUBSET S : \A z \in T : Sum(T) = f[z] + Sum(T \ {z})}
<1>1. \A T \in SUBSET S : IsFiniteSet(T) /\ Integral(f, T) BY FS_Subset DEF Integral
<1>2. \A T \in SUBSET S : Sum(T) \in Int BY <1>1, SumUnfold
<1>3. ASSUME NEW T \in SUBSET S, \A U \in SUBSET T : U # T => U \in Good PROVE T \in Good
  <2> SUFFICES ASSUME NEW z \in T PROVE Sum(T) = f[z] + Sum(T \ {z}) OBVIOUS
  <2>1. PICK y \in T : Sum(T) = f[y] + Sum(T \ {y}) BY <1>1, SumUnfold
  <2>2. CASE z = y BY <2>1, <2>2
  <2>3. CASE z # y
    <3>1. Sum(T \ {y}) = f[z] + Sum((T \ {y}) \ {z}) BY <1>3, <2>3
    <3>2. Sum(T \ {z}) = f[y] + Sum((T \ {z}) \ {y}) BY <1>3, <2>3
    <3>3. (T \ {y}) \ {z} = (T \ {z}) \ {y} OBVIOUS
    <3>4. f[y] \in Int /\ f[z] \in Int /\ Sum((T \ {z}) \ {y}) \in Int BY <1>2 DEF Integral
    <3>5. Sum((T \ {y}) \ {z}) = Sum((T \ {z}) \ {y}) BY <3>3
    <3> HIDE DEF Sum
    <3> QED BY <2>1, <3>1, <3>2, <3>4, <3>5
  <2> QED BY <2>2, <2>3
<1>4. S \in Good
  <2> HIDE DEF Good
  <2> QED BY <1>3, SubsetInduct
<1> QED BY <1>4

\* Sums of sums, element by element.
THEOREM SumAdd ==
  ASSUME NEW S, IsFiniteSet(S), NEW f, NEW g, NEW h, Integral(f, S), Integral(g, S),
         \A x \in S : h[x] = f[x] + g[x]
  PROVE  SumFunctionOnSet(h, S) = SumFunctionOnSet(f, S) + SumFunctionOnSet(g, S)
<1> DEFINE Sum(k, T) == SumFunctionOnSet(k, T)
           Good == {T \in SUBSET S : Sum(h, T) = Sum(f, T) + Sum(g, T)}
<1>1. \A T \in SUBSET S : IsFiniteSet(T) /\ Integral(f, T) /\ Integral(g, T) /\ Integral(h, T)
  BY FS_Subset DEF Integral
<1>2. ASSUME NEW T \in SUBSET S, \A U \in SUBSET T : U # T => U \in Good PROVE T \in Good
  <2>1. CASE T = {}
    <3>1. Sum(f, T) = 0 /\ Sum(g, T) = 0 /\ Sum(h, T) = 0 BY <1>1, <2>1, SumUnfold
    <3> QED BY <3>1
  <2>2. CASE T # {}
    <3>1. PICK x \in T : TRUE BY <2>2
    <3>2. /\ Sum(f, T) = f[x] + Sum(f, T \ {x}) /\ Sum(g, T) = g[x] + Sum(g, T \ {x})
          /\ Sum(h, T) = h[x] + Sum(h, T \ {x})
      BY <1>1, SumRemove
    <3>3. Sum(h, T \ {x}) = Sum(f, T \ {x}) + Sum(g, T \ {x}) BY <1>2
    <3>4. Sum(f, T \ {x}) \in Int /\ Sum(g, T \ {x}) \in Int BY <1>1, SumUnfold
    <3>5. f[x] \in Int /\ g[x] \in Int /\ h[x] = f[x] + g[x] BY DEF Integral
    <3>6. Sum(h, T) = Sum(f, T) + Sum(g, T)
      <4> HIDE DEF Sum
      <4> QED BY <3>2, <3>3, <3>4, <3>5
    <3> QED BY <3>6
  <2> QED BY <2>1, <2>2
<1>3. S \in Good
  <2> HIDE DEF Good
  <2> QED BY <1>2, SubsetInduct
<1> QED BY <1>3

\* What is zero may be left out.
THEOREM SumSupport ==
  ASSUME NEW S, IsFiniteSet(S), NEW R, R \subseteq S, NEW f, NEW g,
         \A x \in R : f[x] \in Int /\ g[x] = f[x], \A x \in S \ R : g[x] = 0
  PROVE  SumFunctionOnSet(g, S) = SumFunctionOnSet(f, R)
<1> DEFINE Sum(k, T) == SumFunctionOnSet(k, T)
           Good == {T \in SUBSET S : Sum(g, T) = Sum(f, T \intersect R)}
<1>1. \A T \in SUBSET S : /\ IsFiniteSet(T) /\ IsFiniteSet(T \intersect R)
                          /\ Integral(f, T \intersect R) /\ Integral(g, T)
  <2>1. Integral(g, S) BY DEF Integral
  <2> QED BY <2>1, FS_Subset DEF Integral
<1>2. ASSUME NEW T \in SUBSET S, \A U \in SUBSET T : U # T => U \in Good PROVE T \in Good
  <2>1. CASE T = {}
    <3>1. T \intersect R = {} BY <2>1
    <3> QED BY <1>1, <2>1, <3>1, SumUnfold
  <2>2. CASE T # {}
    <3>1. PICK x \in T : TRUE BY <2>2
    <3>2. Sum(g, T) = g[x] + Sum(g, T \ {x}) BY <1>1, SumRemove
    <3>3. Sum(g, T \ {x}) = Sum(f, (T \ {x}) \intersect R) BY <1>2
    <3>4. CASE x \in R
      <4>1. Sum(f, T \intersect R) = f[x] + Sum(f, (T \intersect R) \ {x}) BY <1>1, <3>4, SumRemove
      <4>2. (T \intersect R) \ {x} = (T \ {x}) \intersect R OBVIOUS
      <4>3. g[x] = f[x] BY <3>4
      <4>4. Sum(g, T) = Sum(f, T \intersect R) BY <3>2, <3>3, <4>1, <4>2, <4>3
      <4> QED BY <4>4
    <3>5. CASE x \notin R
      <4>1. T \intersect R = (T \ {x}) \intersect R BY <3>5
      <4>2. g[x] = 0 BY <3>5
      <4>3. Sum(g, T \ {x}) \in Int BY <1>1, SumUnfold
      <4>4. Sum(g, T) = Sum(g, T \ {x}) BY <3>2, <4>2, <4>3
      <4>5. Sum(f, T \intersect R) = Sum(f, (T \ {x}) \intersect R) BY Zenon, <4>1
      <4>6. Sum(g, T) = Sum(f, T \intersect R) BY Zenon, <3>3, <4>4, <4>5
      <4> QED BY <4>6
    <3> QED BY <3>4, <3>5
  <2> QED BY <2>1, <2>2
<1>3. S \in Good
  <2> HIDE DEF Good
  <2> QED BY <1>2, SubsetInduct
<1>4. S \intersect R = R OBVIOUS
<1> QED BY <1>3, <1>4

\* Sums of naturals.
THEOREM SumNat ==
  ASSUME NEW S, IsFiniteSet(S), NEW f, \A x \in S : f[x] \in Nat
  PROVE  SumFunctionOnSet(f, S) \in Nat
<1> DEFINE Good == {T \in SUBSET S : SumFunctionOnSet(f, T) \in Nat}
<1>1. \A T \in SUBSET S : IsFiniteSet(T) /\ Integral(f, T) BY FS_Subset DEF Integral
<1>2. ASSUME NEW T \in SUBSET S, \A U \in SUBSET T : U # T => U \in Good PROVE T \in Good
  <2>1. CASE T = {} BY <1>1, <2>1, SumUnfold
  <2>2. CASE T # {}
    <3>1. PICK y \in T : SumFunctionOnSet(f, T) = f[y] + SumFunctionOnSet(f, T \ {y})
      BY <1>1, <2>2, SumUnfold
    <3>2. SumFunctionOnSet(f, T \ {y}) \in Nat BY <1>2
    <3>3. SumFunctionOnSet(f, T) \in Nat BY <3>1, <3>2
    <3> QED BY <3>3
  <2> QED BY <2>1, <2>2
<1>3. S \in Good
  <2> HIDE DEF Good
  <2> QED BY <1>2, SubsetInduct
<1> QED BY <1>3
-----------------------------------------------------------------------------
\* One of finitely many values is the largest.
LEMMA LargestValue ==
  ASSUME NEW n \in Nat, n > 0, NEW v, \A i \in 1 .. n : v[i] \in Int
  PROVE  \E m \in 1 .. n : \A i \in 1 .. n : v[i] <= v[m]
<1> DEFINE Good == {k \in Nat : k \in 1 .. n => \E m \in 1 .. k : \A i \in 1 .. k : v[i] <= v[m]}
<1>1. 0 \in Good OBVIOUS
<1>2. ASSUME NEW k \in Nat, k \in Good PROVE k + 1 \in Good
  <2> SUFFICES ASSUME k + 1 \in 1 .. n PROVE \E m \in 1 .. k + 1 : \A i \in 1 .. k + 1 : v[i] <= v[m]
    OBVIOUS
  <2>1. CASE k = 0
    <3>1. \A i \in 1 .. k + 1 : i = 1 BY <2>1
    <3> QED BY <3>1
  <2>2. CASE k > 0
    <3>1. PICK m \in 1 .. k : \A i \in 1 .. k : v[i] <= v[m] BY <1>2, <2>2
    <3>2. \A i \in 1 .. k + 1 : i \in 1 .. k \/ i = k + 1 OBVIOUS
    <3>3. v[m] \in Int /\ v[k + 1] \in Int /\ \A i \in 1 .. k : v[i] \in Int OBVIOUS
    <3>4. CASE v[k + 1] <= v[m] BY <3>1, <3>2, <3>3, <3>4
    <3>5. CASE v[m] < v[k + 1] BY <3>1, <3>2, <3>3, <3>5
    <3> QED BY <3>3, <3>4, <3>5
  <2> QED BY <2>1, <2>2
<1>3. n \in Good
  <2> HIDE DEF Good
  <2> QED BY <1>1, <1>2, NatInduct
<1> QED BY <1>3

\* An order of the indices in which the values of v ascend.
IsOrder(o, v, n) ==
  /\ o \in Bijection(1 .. n, 1 .. n)
  /\ \A i, j \in 1 .. n : i < j => v[o[i]] <= v[o[j]]

\* Any finite number of values can be sorted: the largest goes last and the
\* last takes its place among the rest.
LEMMA OrderExists ==
  ASSUME NEW n \in Nat, NEW v \in [1 .. n -> Int]
  PROVE  \E o : IsOrder(o, v, n)
<1> DEFINE Good == {k \in Nat : \A w \in [1 .. k -> Int] : \E o : IsOrder(o, w, k)}
<1>1. 0 \in Good
  <2> SUFFICES ASSUME NEW w \in [1 .. 0 -> Int] PROVE \E o : IsOrder(o, w, 0) OBVIOUS
  <2> DEFINE o == [i \in 1 .. 0 |-> i]
  <2>1. \A i \in 1 .. 0 : FALSE OBVIOUS
  <2>2. o \in Bijection(1 .. 0, 1 .. 0) BY <2>1 DEF Bijection, Injection, Surjection, IsInjective
  <2> QED BY <2>1, <2>2 DEF IsOrder
<1>2. ASSUME NEW k \in Nat, k \in Good PROVE k + 1 \in Good
  <2> SUFFICES ASSUME NEW w \in [1 .. k + 1 -> Int] PROVE \E o : IsOrder(o, w, k + 1) OBVIOUS
  <2>1. PICK m \in 1 .. k + 1 : \A i \in 1 .. k + 1 : w[i] <= w[m]
    <3>1. k + 1 \in Nat /\ k + 1 > 0 /\ \A i \in 1 .. k + 1 : w[i] \in Int OBVIOUS
    <3> QED BY <3>1, LargestValue
  <2> DEFINE At(i) == IF i = m THEN k + 1 ELSE i
             u == [i \in 1 .. k |-> w[At(i)]]
  <2>2. \A i \in 1 .. k : At(i) \in 1 .. k + 1 /\ At(i) # m OBVIOUS
  <2>3. u \in [1 .. k -> Int] BY <2>2
  <2>4. PICK q : IsOrder(q, u, k)
    <3> HIDE DEF u
    <3> QED BY <1>2, <2>3
  <2>5. /\ q \in [1 .. k -> 1 .. k]
        /\ \A i, j \in 1 .. k : q[i] = q[j] => i = j
        /\ \A t \in 1 .. k : \E i \in 1 .. k : q[i] = t
    BY <2>4 DEF IsOrder, Bijection, Injection, Surjection, IsInjective
  <2> DEFINE o == [i \in 1 .. k + 1 |-> IF i = k + 1 THEN m ELSE At(q[i])]
  <2>6. \A i, j \in 1 .. k : At(i) = At(j) => i = j OBVIOUS
  <2>7. ASSUME NEW t \in 1 .. k + 1, t # m PROVE \E r \in 1 .. k : At(r) = t
    <3>1. CASE t = k + 1
      <4>1. m \in 1 .. k /\ At(m) = t BY <2>7, <3>1
      <4> QED BY <4>1
    <3>2. CASE t # k + 1
      <4>1. t \in 1 .. k /\ At(t) = t BY <2>7, <3>2
      <4> QED BY <4>1
    <3> QED BY <3>1, <3>2
  <2>8. /\ o[k + 1] = m
        /\ \A i \in 1 .. k : /\ i \in 1 .. k + 1 /\ o[i] = At(q[i]) /\ q[i] \in 1 .. k
                             /\ o[i] # m /\ o[i] \in 1 .. k + 1
        /\ \A i \in 1 .. k + 1 : i = k + 1 \/ i \in 1 .. k
    <3> HIDE DEF At
    <3>1. k + 1 \in 1 .. k + 1 /\ \A i \in 1 .. k : i \in 1 .. k + 1 /\ i # k + 1 OBVIOUS
    <3>2. \A i \in 1 .. k : q[i] \in 1 .. k BY <2>5
    <3>3. \A i \in 1 .. k + 1 : i = k + 1 \/ i \in 1 .. k OBVIOUS
    <3> QED BY <2>2, <3>1, <3>2, <3>3
  <2>9. o \in [1 .. k + 1 -> 1 .. k + 1]
    <3>1. DOMAIN o = 1 .. k + 1 /\ o = [i \in 1 .. k + 1 |-> o[i]] OBVIOUS
    <3> HIDE DEF o, At
    <3>2. \A i \in 1 .. k + 1 : o[i] \in 1 .. k + 1 BY <2>8
    <3> QED BY <3>1, <3>2
  <2>10. \A i, j \in 1 .. k + 1 : o[i] = o[j] => i = j
    <3> HIDE DEF o, At
    <3> SUFFICES ASSUME NEW i \in 1 .. k + 1, NEW j \in 1 .. k + 1, o[i] = o[j] PROVE i = j
      OBVIOUS
    <3>1. CASE i \in 1 .. k /\ j \in 1 .. k
      <4>1. At(q[i]) = At(q[j]) /\ q[i] \in 1 .. k /\ q[j] \in 1 .. k BY <2>8, <3>1
      <4>2. q[i] = q[j] BY <2>6, <4>1
      <4> QED BY <2>5, <3>1, <4>2
    <3>2. CASE i = k + 1 \/ j = k + 1 BY <2>8, <3>2
    <3> QED BY <2>8, <3>1, <3>2
  <2>11. ASSUME NEW t \in 1 .. k + 1 PROVE \E i \in 1 .. k + 1 : o[i] = t
    <3> HIDE DEF o, At
    <3>1. CASE t = m BY <2>8, <3>1
    <3>2. CASE t # m
      <4>1. PICK r \in 1 .. k : At(r) = t BY <2>7, <3>2
      <4>2. PICK i \in 1 .. k : q[i] = r BY <2>5
      <4> QED BY <2>8, <4>1, <4>2
    <3> QED BY <3>1, <3>2
  <2>12. ASSUME NEW i \in 1 .. k + 1, NEW j \in 1 .. k + 1, i < j PROVE w[o[i]] <= w[o[j]]
    <3>1. CASE j = k + 1 BY <2>1, <2>8, <2>9, <3>1
    <3>2. CASE j # k + 1
      <4>1. i \in 1 .. k /\ j \in 1 .. k BY <2>12, <3>2
      <4>2. u[q[i]] <= u[q[j]] BY <2>4, <2>12, <4>1 DEF IsOrder
      <4>3. u[q[i]] = w[o[i]] /\ u[q[j]] = w[o[j]]
        <5> HIDE DEF o, At
        <5> QED BY <2>8, <4>1
      <4> QED BY <4>2, <4>3
    <3> QED BY <3>1, <3>2
  <2>13. o \in Bijection(1 .. k + 1, 1 .. k + 1)
    <3> HIDE DEF o
    <3> QED BY <2>9, <2>10, <2>11 DEF Bijection, Injection, Surjection, IsInjective
  <2> HIDE DEF o
  <2> QED BY <2>12, <2>13 DEF IsOrder
<1>3. n \in Good
  <2> HIDE DEF Good
  <2> QED BY <1>1, <1>2, NatInduct
<1> QED BY <1>3

\* In an order, the value at k has k values that do not exceed it at least,
\* and any smaller one fewer.
THEOREM RankInOrder ==
  ASSUME NEW n \in Nat, NEW v \in [1 .. n -> Int], NEW o, IsOrder(o, v, n), NEW k \in 1 .. n
  PROVE  /\ o[k] \in 1 .. n
         /\ Cardinality({i \in 1 .. n : v[i] <= v[o[k]]}) >= k
         /\ \A y \in Int : y < v[o[k]] => Cardinality({i \in 1 .. n : v[i] <= y}) < k
         /\ \A y \in Int : Cardinality({i \in 1 .. n : v[i] <= y}) \in Nat
<1> DEFINE Below(y) == {i \in 1 .. n : v[i] <= y}
<1>1. /\ o \in [1 .. n -> 1 .. n]
      /\ \A i, j \in 1 .. n : o[i] = o[j] => i = j
      /\ \A t \in 1 .. n : \E i \in 1 .. n : o[i] = t
  BY DEF IsOrder, Bijection, Injection, Surjection, IsInjective
<1>2. ASSUME NEW y \in Int PROVE IsFiniteSet(Below(y)) /\ Cardinality(Below(y)) \in Nat
  <2>1. Below(y) \in SUBSET (1 .. n) /\ IsFiniteSet(1 .. n) BY FS_Interval
  <2> HIDE DEF Below
  <2> QED BY <2>1, FS_Subset, FS_CardinalityType
<1>3. o[k] \in 1 .. n /\ v[o[k]] \in Int BY <1>1
<1>4. Cardinality(Below(v[o[k]])) >= k
  <2> DEFINE f == [i \in 1 .. k |-> o[i]]
  <2>1. \A i \in 1 .. k : i \in 1 .. n /\ (i < k \/ i = k) OBVIOUS
  <2>2. ASSUME NEW i \in 1 .. k PROVE o[i] \in Below(v[o[k]])
    <3>1. i < k => v[o[i]] <= v[o[k]] BY <2>1 DEF IsOrder
    <3>2. i = k => v[o[i]] <= v[o[k]] BY <1>3
    <3>3. o[i] \in 1 .. n BY <1>1, <2>1
    <3> QED BY <2>1, <3>1, <3>2, <3>3
  <2>3. f \in Injection(1 .. k, Below(v[o[k]]))
    <3> HIDE DEF Below
    <3> QED BY <1>1, <2>1, <2>2 DEF Injection, IsInjective
  <2>4. Cardinality(1 .. k) = k BY FS_Interval
  <2>5. Cardinality(1 .. k) <= Cardinality(Below(v[o[k]]))
    <3> HIDE DEF f, Below
    <3> QED BY <1>2, <1>3, <2>3, FS_Injection
  <2> HIDE DEF Below
  <2> QED BY <1>2, <1>3, <2>4, <2>5
<1>5. ASSUME NEW y \in Int, y < v[o[k]] PROVE Cardinality(Below(y)) < k
  <2> DEFINE g == [i \in Below(y) |-> CHOOSE j \in 1 .. n : o[j] = i]
  <2>1. ASSUME NEW i \in Below(y) PROVE g[i] \in 1 .. k - 1 /\ o[g[i]] = i
    <3>1. g[i] \in 1 .. n /\ o[g[i]] = i BY <1>1
    <3>2. v[i] <= y /\ v[i] \in Int OBVIOUS
    <3> HIDE DEF g
    <3>3. g[i] # k BY <1>3, <1>5, <3>1, <3>2
    <3>4. ~(k < g[i])
      <4>1. k < g[i] => v[o[k]] <= v[i] BY <3>1 DEF IsOrder
      <4> QED BY <1>3, <1>5, <3>2, <4>1
    <3> QED BY <3>1, <3>3, <3>4
  <2>2. g \in Injection(Below(y), 1 .. k - 1)
    <3>1. DOMAIN g = Below(y) /\ g = [i \in Below(y) |-> g[i]] OBVIOUS
    <3> HIDE DEF g, Below
    <3> QED BY <2>1, <3>1 DEF Injection, IsInjective
  <2>3. IsFiniteSet(1 .. k - 1) /\ Cardinality(1 .. k - 1) = k - 1 BY FS_Interval
  <2>4. Cardinality(Below(y)) <= Cardinality(1 .. k - 1)
    <3> HIDE DEF g, Below
    <3> QED BY <2>2, <2>3, FS_Injection
  <2> HIDE DEF Below
  <2> QED BY <1>2, <2>3, <2>4
<1> QED BY <1>2, <1>3, <1>4, <1>5
=============================================================================

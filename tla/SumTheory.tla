------------------------------ MODULE SumTheory ------------------------------
(***************************************************************************)
(* What the sums of the fee models compute: SumFunctionOnSet of Functions  *)
(* adds the values of a function over a finite set, whatever the order in  *)
(* which it takes them.  The lemmas rest on a principle of induction whose *)
(* parameter is a set of sets, not an operator, so that it can be applied. *)
(***************************************************************************)
EXTENDS Integers, FiniteSets, Functions, FiniteSetTheorems, WellFoundedInduction, TLAPS

\* A set of natural numbers has a least element.
LEMMA LeastExists ==
  ASSUME NEW T, T \subseteq Nat, T # {}
  PROVE  \E x \in T : \A y \in T : x <= y
<1> DEFINE R == {ss \in Nat \X Nat : ss[1] < ss[2]}
<1>1. IsWellFoundedOn(R, Nat)
    BY NatLessThanWellFounded DEF OpToRel
<1>2. PICK x \in T : \A y \in T : ~ (<<y, x>> \in R)
    BY <1>1, WFMin
<1>3. \A y \in T : ~(y < x)
    BY <1>2
<1> QED
    BY <1>3

\* What holds of the empty set, and of a set when it holds of the sets with one element
\* less, holds of all finite sets.  X is the set of the sets of which it holds.
LEMMA InductionOnSets ==
  ASSUME NEW S, IsFiniteSet(S), NEW X, {} \in X,
         \A T \in SUBSET S : T # {} /\ (\A x \in T : T \ {x} \in X) => T \in X
  PROVE  \A T \in SUBSET S : T \in X
<1> DEFINE sizes == {n \in Nat : \E T \in SUBSET S : T \notin X /\ Cardinality(T) = n}
<1>1. \A T \in SUBSET S : IsFiniteSet(T) /\ Cardinality(T) \in Nat
    BY FS_Subset, FS_CardinalityType
<1>2. ASSUME sizes # {} PROVE FALSE
  <2>1. PICK m \in sizes : \A n \in sizes : m <= n
      BY <1>2, LeastExists
  <2>2. PICK T \in SUBSET S : T \notin X /\ Cardinality(T) = m
      BY <2>1
  <2>3. PICK x \in T : T \ {x} \notin X
      BY <2>2
  <2>4. Cardinality(T \ {x}) = m - 1 /\ Cardinality(T \ {x}) \in Nat
      BY <1>1, <2>2, FS_RemoveElement
  <2>5. T \ {x} \in SUBSET S
      BY <2>2
  <2>6. Cardinality(T \ {x}) \in sizes
      BY <2>3, <2>4, <2>5
  <2>7. m \in Nat /\ m <= Cardinality(T \ {x})
      BY <2>1, <2>6
  <2> QED
      BY <2>4, <2>7
<1> QED
    BY <1>1, <1>2

-----------------------------------------------------------------------------
(* The recursion                                                           *)

\* The element with which a sum begins.
Some(s) == CHOOSE x \in s : TRUE

Accumulates(g, f, S) ==
  g = [s \in SUBSET S |-> IF s = {} THEN 0 ELSE f[Some(s)] + g[s \ {Some(s)}]]

Unfolds(g, f, S) ==
  \A s \in SUBSET S : /\ g[s] \in Int
                      /\ s = {} => g[s] = 0
                      /\ s # {} => g[s] = f[Some(s)] + g[s \ {Some(s)}]

\* The sum is the value that a function with this recursion has at the whole set.
LEMMA SumByChoice ==
  ASSUME NEW f, NEW S
  PROVE  SumFunctionOnSet(f, S) = (CHOOSE g : Accumulates(g, f, S))[S]
    BY DEF SumFunctionOnSet, FoldFunctionOnSet, MapThenFoldSet, Accumulates, Some

\* Such a function exists.
LEMMA AccumulationExists ==
  ASSUME NEW S, IsFiniteSet(S), NEW f, \A x \in S : f[x] \in Int
  PROVE  \E g : Accumulates(g, f, S)
<1> DEFINE Upto(g, n) == \A s \in SUBSET S : Cardinality(s) <= n =>
             g[s] = IF s = {} THEN 0 ELSE f[Some(s)] + g[s \ {Some(s)}]
           bad == {n \in Nat : ~\E g \in [SUBSET S -> Int] : Upto(g, n)}
<1>1. \A s \in SUBSET S : /\ IsFiniteSet(s) /\ Cardinality(s) \in Nat
                          /\ Cardinality(s) <= Cardinality(S)
                          /\ Cardinality(s) = 0 <=> s = {}
    BY FS_Subset, FS_CardinalityType, FS_EmptySet
<1>2. \A s \in SUBSET S : s # {} => /\ Some(s) \in s /\ f[Some(s)] \in Int
                                    /\ s \ {Some(s)} \in SUBSET S
                                    /\ Cardinality(s \ {Some(s)}) = Cardinality(s) - 1
  <2> SUFFICES ASSUME NEW s \in SUBSET S, s # {}
               PROVE  /\ Some(s) \in s /\ f[Some(s)] \in Int
                      /\ s \ {Some(s)} \in SUBSET S
                      /\ Cardinality(s \ {Some(s)}) = Cardinality(s) - 1
      OBVIOUS
  <2>1. Some(s) \in s
      BY DEF Some
  <2> QED
      BY <1>1, <2>1, FS_RemoveElement
<1>3. ASSUME bad # {} PROVE FALSE
  <2>1. PICK m \in bad : \A n \in bad : m <= n
      BY <1>3, LeastExists
  <2>2. CASE m = 0
    <3> DEFINE g == [s \in SUBSET S |-> 0]
    <3>1. g \in [SUBSET S -> Int]
        OBVIOUS
    <3>2. ASSUME NEW s \in SUBSET S, Cardinality(s) <= 0
          PROVE  g[s] = IF s = {} THEN 0 ELSE f[Some(s)] + g[s \ {Some(s)}]
        BY <1>1, <3>2
    <3>3. Upto(g, 0)
        BY <3>2
    <3> QED
        BY <2>1, <2>2, <3>1, <3>3
  <2>3. CASE m # 0
    <3>1. m - 1 \in Nat /\ m - 1 \notin bad
      <4>1. m \in Nat /\ (m - 1 \in bad => m <= m - 1)
          BY <2>1
      <4> HIDE DEF bad
      <4> QED
          BY <2>3, <4>1
    <3>2. PICK h \in [SUBSET S -> Int] : Upto(h, m - 1)
        BY <3>1
    <3> DEFINE g == [s \in SUBSET S |-> IF s = {} THEN 0 ELSE f[Some(s)] + h[s \ {Some(s)}]]
    <3>3. g \in [SUBSET S -> Int]
        BY <1>2
    <3>4. ASSUME NEW s \in SUBSET S, Cardinality(s) <= m - 1 PROVE g[s] = h[s]
      <4>1. CASE s = {}
          BY <3>2, <3>4, <4>1
      <4>2. CASE s # {}
        <5>1. h[s] = f[Some(s)] + h[s \ {Some(s)}]
            BY <3>2, <3>4, <4>2
        <5>2. g[s] = f[Some(s)] + h[s \ {Some(s)}]
            BY <4>2
        <5> QED
            BY <5>1, <5>2
      <4> QED
          BY <4>1, <4>2
    <3>5. ASSUME NEW s \in SUBSET S, Cardinality(s) <= m
          PROVE  g[s] = IF s = {} THEN 0 ELSE f[Some(s)] + g[s \ {Some(s)}]
      <4>1. CASE s = {}
          BY <4>1
      <4>2. CASE s # {}
        <5>1. Cardinality(s \ {Some(s)}) <= m - 1
            BY <1>1, <1>2, <3>5, <4>2
        <5>2. g[s \ {Some(s)}] = h[s \ {Some(s)}]
            BY <1>2, <3>4, <4>2, <5>1
        <5>3. g[s] = f[Some(s)] + h[s \ {Some(s)}]
            BY <4>2
        <5> QED
            BY <4>2, <5>2, <5>3
      <4> QED
          BY <4>1, <4>2
    <3>6. Upto(g, m)
        BY <3>5
    <3> QED
        BY <2>1, <3>3, <3>6
  <2> QED
      BY <2>2, <2>3
<1>4. Cardinality(S) \in Nat
    BY <1>1
<1>5. PICK g \in [SUBSET S -> Int] : Upto(g, Cardinality(S))
    BY <1>3, <1>4
<1>6. \A s \in SUBSET S : g[s] = IF s = {} THEN 0 ELSE f[Some(s)] + g[s \ {Some(s)}]
    BY <1>1, <1>5
<1>7. Accumulates(g, f, S)
    BY <1>6 DEF Accumulates
<1> QED
    BY <1>7

\* What a function with the recursion computes at the subsets of a finite set.
LEMMA AccumulationUnfolds ==
  ASSUME NEW S, IsFiniteSet(S), NEW f, \A x \in S : f[x] \in Int, NEW g, Accumulates(g, f, S)
  PROVE  Unfolds(g, f, S)
<1>1. \A s \in SUBSET S : g[s] = IF s = {} THEN 0 ELSE f[Some(s)] + g[s \ {Some(s)}]
  <2> DEFINE e(h) == [s \in SUBSET S |-> IF s = {} THEN 0 ELSE f[Some(s)] + h[s \ {Some(s)}]]
  <2>1. g = e(g)
      BY DEF Accumulates
  <2>2. \A s \in SUBSET S : e(g)[s] = IF s = {} THEN 0 ELSE f[Some(s)] + g[s \ {Some(s)}]
      OBVIOUS
  <2> HIDE DEF e
  <2> QED
      BY <2>1, <2>2
<1> DEFINE X == {s \in SUBSET S : g[s] \in Int}
<1>2. {} \in X
  <2>1. {} \in SUBSET S
      OBVIOUS
  <2>2. g[{}] = 0
      BY <1>1, <2>1
  <2> QED
      BY <2>1, <2>2
<1>3. ASSUME NEW T \in SUBSET S, T # {}, \A x \in T : T \ {x} \in X PROVE T \in X
  <2>1. Some(T) \in T
      BY <1>3 DEF Some
  <2>2. g[T] = f[Some(T)] + g[T \ {Some(T)}]
      BY <1>1, <1>3
  <2>3. f[Some(T)] \in Int /\ g[T \ {Some(T)}] \in Int
      BY <1>3, <2>1
  <2> QED
      BY <2>2, <2>3
<1> HIDE DEF X
<1>4. \A s \in SUBSET S : s \in X
    BY <1>2, <1>3, InductionOnSets
<1>5. \A s \in SUBSET S : g[s] \in Int
    BY <1>4 DEF X
<1> QED
    BY <1>1, <1>5 DEF Unfolds

\* Two functions with the recursion agree where both are defined.
LEMMA AccumulationsAgree ==
  ASSUME NEW S, IsFiniteSet(S), NEW f, \A x \in S : f[x] \in Int, NEW g, Accumulates(g, f, S),
         NEW T \in SUBSET S, NEW h, Accumulates(h, f, T)
  PROVE  \A s \in SUBSET T : g[s] = h[s]
<1>1. IsFiniteSet(T)
    BY FS_Subset
<1>2. \A s \in SUBSET T : /\ g[s] \in Int /\ h[s] \in Int
                          /\ s = {} => g[s] = 0 /\ h[s] = 0
                          /\ s # {} => /\ g[s] = f[Some(s)] + g[s \ {Some(s)}]
                                       /\ h[s] = f[Some(s)] + h[s \ {Some(s)}]
  <2>1. Unfolds(g, f, S)
      BY AccumulationUnfolds
  <2>2. \A x \in T : f[x] \in Int
      OBVIOUS
  <2>3. Unfolds(h, f, T)
      BY <1>1, <2>2, AccumulationUnfolds
  <2>4. \A s \in SUBSET T : s \in SUBSET S
      OBVIOUS
  <2> QED
      BY <2>1, <2>3, <2>4 DEF Unfolds
<1> DEFINE X == {s \in SUBSET T : g[s] = h[s]}
<1>3. {} \in X
    BY <1>2
<1>4. ASSUME NEW R \in SUBSET T, R # {}, \A x \in R : R \ {x} \in X PROVE R \in X
  <2>1. Some(R) \in R
      BY <1>4 DEF Some
  <2>2. g[R \ {Some(R)}] = h[R \ {Some(R)}]
      BY <1>4, <2>1
  <2>3. /\ g[R] = f[Some(R)] + g[R \ {Some(R)}]
        /\ h[R] = f[Some(R)] + h[R \ {Some(R)}]
      BY <1>2, <1>4
  <2> QED
      BY <2>2, <2>3
<1> HIDE DEF X
<1>5. \A s \in SUBSET T : s \in X
    BY <1>1, <1>3, <1>4, InductionOnSets
<1> QED
    BY <1>5 DEF X

-----------------------------------------------------------------------------
(* Sums                                                                    *)

\* The sum over the empty set is 0; the sum over another adds one value to the sum over
\* the rest.
LEMMA SumBegins ==
  ASSUME NEW S, IsFiniteSet(S), NEW f, \A x \in S : f[x] \in Int
  PROVE  /\ SumFunctionOnSet(f, S) \in Int
         /\ S = {} => SumFunctionOnSet(f, S) = 0
         /\ S # {} => /\ Some(S) \in S
                      /\ SumFunctionOnSet(f, S) =
                           f[Some(S)] + SumFunctionOnSet(f, S \ {Some(S)})
<1> DEFINE g == CHOOSE k : Accumulates(k, f, S)
           T == S \ {Some(S)}
           h == CHOOSE k : Accumulates(k, f, T)
<1>1. Accumulates(g, f, S)
    BY AccumulationExists
<1>2. IsFiniteSet(T) /\ T \in SUBSET S /\ \A x \in T : f[x] \in Int
    BY FS_Subset
<1>3. \E k : Accumulates(k, f, T)
    BY <1>2, AccumulationExists
<1>4. Accumulates(h, f, T)
    BY <1>3
<1>5. SumFunctionOnSet(f, S) = g[S] /\ SumFunctionOnSet(f, T) = h[T]
    BY SumByChoice
<1> HIDE DEF g, h
<1>6. g[T] = h[T]
    BY <1>1, <1>2, <1>4, AccumulationsAgree
<1>7. /\ g[S] \in Int
      /\ S = {} => g[S] = 0
      /\ S # {} => g[S] = f[Some(S)] + g[S \ {Some(S)}]
    BY <1>1, AccumulationUnfolds DEF Unfolds
<1>8. S # {} => Some(S) \in S
    BY DEF Some
<1> QED
    BY <1>5, <1>6, <1>7, <1>8

\* A sum may begin with any of its values.
LEMMA SumRemoves ==
  ASSUME NEW S, IsFiniteSet(S), NEW f, \A x \in S : f[x] \in Int
  PROVE  \A x \in S : SumFunctionOnSet(f, S) = f[x] + SumFunctionOnSet(f, S \ {x})
<1> DEFINE X == {T \in SUBSET S : \A x \in T : SumFunctionOnSet(f, T) = f[x] + SumFunctionOnSet(f, T \ {x})}
<1>1. {} \in X
    OBVIOUS
<1>2. ASSUME NEW T \in SUBSET S, T # {}, \A x \in T : T \ {x} \in X PROVE T \in X
  <2>1. \A R \in SUBSET S :
          /\ SumFunctionOnSet(f, R) \in Int
          /\ R # {} => /\ Some(R) \in R
                       /\ SumFunctionOnSet(f, R) = f[Some(R)] + SumFunctionOnSet(f, R \ {Some(R)})
    <3> SUFFICES ASSUME NEW R \in SUBSET S
                 PROVE  /\ SumFunctionOnSet(f, R) \in Int
                        /\ R # {} => /\ Some(R) \in R
                                     /\ SumFunctionOnSet(f, R) =
                                          f[Some(R)] + SumFunctionOnSet(f, R \ {Some(R)})
        OBVIOUS
    <3>1. IsFiniteSet(R) /\ \A x \in R : f[x] \in Int
        BY FS_Subset
    <3> QED
        BY <3>1, SumBegins
  <2> DEFINE y == Some(T)
  <2>2. y \in T /\ SumFunctionOnSet(f, T) = f[y] + SumFunctionOnSet(f, T \ {y})
      BY <1>2, <2>1
  <2> HIDE DEF y
  <2> SUFFICES ASSUME NEW x \in T
               PROVE  SumFunctionOnSet(f, T) = f[x] + SumFunctionOnSet(f, T \ {x})
      OBVIOUS
  <2>3. CASE x = y
      BY <2>2, <2>3
  <2>4. CASE x # y
    <3>1. T \ {x} \in X /\ T \ {y} \in X
        BY <1>2, <2>2
    <3>2. SumFunctionOnSet(f, T \ {y}) = f[x] + SumFunctionOnSet(f, (T \ {y}) \ {x})
        BY <2>4, <3>1
    <3>3. SumFunctionOnSet(f, T \ {x}) = f[y] + SumFunctionOnSet(f, (T \ {x}) \ {y})
        BY <2>2, <2>4, <3>1
    <3>4. (T \ {y}) \ {x} = (T \ {x}) \ {y}
        OBVIOUS
    <3>5. f[x] \in Int /\ f[y] \in Int /\ SumFunctionOnSet(f, (T \ {x}) \ {y}) \in Int
        BY <2>1, <2>2
    <3>6. SumFunctionOnSet(f, T) = f[y] + (f[x] + SumFunctionOnSet(f, (T \ {x}) \ {y}))
        BY <2>2, <3>2, <3>4
    <3>7. SumFunctionOnSet(f, T \ {x}) = f[y] + SumFunctionOnSet(f, (T \ {x}) \ {y})
        BY <3>3
    <3> QED
        BY <3>5, <3>6, <3>7
  <2> QED
      BY <2>3, <2>4
<1> HIDE DEF X
<1>3. \A T \in SUBSET S : T \in X
    BY <1>1, <1>2, InductionOnSets
<1> QED
    BY <1>3 DEF X

\* The sum of a sum of two functions.
LEMMA SumAdds ==
  ASSUME NEW S, IsFiniteSet(S), NEW f, NEW g, NEW h,
         \A x \in S : f[x] \in Int /\ g[x] \in Int /\ h[x] = f[x] + g[x]
  PROVE  SumFunctionOnSet(h, S) = SumFunctionOnSet(f, S) + SumFunctionOnSet(g, S)
<1> DEFINE X == {T \in SUBSET S : SumFunctionOnSet(h, T) = SumFunctionOnSet(f, T) + SumFunctionOnSet(g, T)}
<1>1. ASSUME NEW T \in SUBSET S
      PROVE  /\ SumFunctionOnSet(f, T) \in Int /\ SumFunctionOnSet(g, T) \in Int
             /\ T = {} => /\ SumFunctionOnSet(f, T) = 0 /\ SumFunctionOnSet(g, T) = 0
                          /\ SumFunctionOnSet(h, T) = 0
             /\ \A x \in T : /\ SumFunctionOnSet(f, T) = f[x] + SumFunctionOnSet(f, T \ {x})
                             /\ SumFunctionOnSet(g, T) = g[x] + SumFunctionOnSet(g, T \ {x})
                             /\ SumFunctionOnSet(h, T) = h[x] + SumFunctionOnSet(h, T \ {x})
  <2>1. IsFiniteSet(T)
      BY FS_Subset
  <2>2. \A x \in T : f[x] \in Int
      OBVIOUS
  <2>3. \A x \in T : g[x] \in Int
      OBVIOUS
  <2>4. \A x \in T : h[x] \in Int
      OBVIOUS
  <2>5. /\ SumFunctionOnSet(f, T) \in Int
        /\ T = {} => SumFunctionOnSet(f, T) = 0
        /\ \A x \in T : SumFunctionOnSet(f, T) = f[x] + SumFunctionOnSet(f, T \ {x})
      BY <2>1, <2>2, SumBegins, SumRemoves
  <2>6. /\ SumFunctionOnSet(g, T) \in Int
        /\ T = {} => SumFunctionOnSet(g, T) = 0
        /\ \A x \in T : SumFunctionOnSet(g, T) = g[x] + SumFunctionOnSet(g, T \ {x})
      BY <2>1, <2>3, SumBegins, SumRemoves
  <2>7. /\ T = {} => SumFunctionOnSet(h, T) = 0
        /\ \A x \in T : SumFunctionOnSet(h, T) = h[x] + SumFunctionOnSet(h, T \ {x})
      BY <2>1, <2>4, SumBegins, SumRemoves
  <2> QED
      BY <2>5, <2>6, <2>7
<1>2. {} \in X
    BY <1>1
<1>3. ASSUME NEW T \in SUBSET S, T # {}, \A x \in T : T \ {x} \in X PROVE T \in X
  <2>1. PICK x \in T : TRUE
      BY <1>3
  <2>2. T \ {x} \in SUBSET S /\ SumFunctionOnSet(f, T \ {x}) \in Int /\ SumFunctionOnSet(g, T \ {x}) \in Int
      BY <1>1
  <2>3. SumFunctionOnSet(h, T \ {x}) = SumFunctionOnSet(f, T \ {x}) + SumFunctionOnSet(g, T \ {x})
      BY <1>3
  <2>4. /\ SumFunctionOnSet(f, T) = f[x] + SumFunctionOnSet(f, T \ {x})
        /\ SumFunctionOnSet(g, T) = g[x] + SumFunctionOnSet(g, T \ {x})
        /\ SumFunctionOnSet(h, T) = h[x] + SumFunctionOnSet(h, T \ {x})
      BY <1>1
  <2>5. f[x] \in Int /\ g[x] \in Int /\ h[x] = f[x] + g[x]
      OBVIOUS
  <2>6. SumFunctionOnSet(h, T) = SumFunctionOnSet(f, T) + SumFunctionOnSet(g, T)
      BY <2>2, <2>3, <2>4, <2>5
  <2> QED
      BY <2>6
<1> HIDE DEF X
<1>4. \A T \in SUBSET S : T \in X
    BY <1>2, <1>3, InductionOnSets
<1> QED
    BY <1>4 DEF X

\* The sum of zeros.
LEMMA SumOfZeros ==
  ASSUME NEW S, IsFiniteSet(S), NEW f, \A x \in S : f[x] = 0
  PROVE  SumFunctionOnSet(f, S) = 0
<1>1. \A x \in S : f[x] \in Int /\ f[x] \in Int /\ f[x] = f[x] + f[x]
    OBVIOUS
<1>2. SumFunctionOnSet(f, S) = SumFunctionOnSet(f, S) + SumFunctionOnSet(f, S)
    BY <1>1, SumAdds
<1>3. SumFunctionOnSet(f, S) \in Int
    BY <1>1, SumBegins
<1>4. \A n \in Int : n = n + n => n = 0
    OBVIOUS
<1> QED
    BY <1>2, <1>3, <1>4, Zenon

\* Functions that agree on a set have one sum over it.
LEMMA SumsAgree ==
  ASSUME NEW S, IsFiniteSet(S), NEW f, NEW g, \A x \in S : f[x] \in Int /\ g[x] = f[x]
  PROVE  SumFunctionOnSet(g, S) = SumFunctionOnSet(f, S)
<1> DEFINE z == [x \in S |-> 0]
<1>1. SumFunctionOnSet(z, S) = 0
    BY SumOfZeros
<1>2. \A x \in S : f[x] \in Int /\ z[x] \in Int /\ g[x] = f[x] + z[x]
    OBVIOUS
<1> HIDE DEF z
<1>3. SumFunctionOnSet(g, S) = SumFunctionOnSet(f, S) + SumFunctionOnSet(z, S)
    BY <1>2, SumAdds
<1>4. SumFunctionOnSet(f, S) \in Int
    BY SumBegins
<1> QED
    BY <1>1, <1>3, <1>4

\* A change of one value changes the sum by as much.
LEMMA SumMoves ==
  ASSUME NEW S, IsFiniteSet(S), NEW f, NEW g, NEW p \in S, NEW d \in Int, g[p] = f[p] + d,
         \A x \in S : f[x] \in Int /\ (x # p => g[x] = f[x])
  PROVE  SumFunctionOnSet(g, S) = SumFunctionOnSet(f, S) + d
<1>1. IsFiniteSet(S \ {p})
    BY FS_Subset
<1>2. SumFunctionOnSet(g, S \ {p}) = SumFunctionOnSet(f, S \ {p})
    BY <1>1, SumsAgree
<1>3. SumFunctionOnSet(f, S) = f[p] + SumFunctionOnSet(f, S \ {p})
    BY SumRemoves
<1>4. \A x \in S : g[x] \in Int
    OBVIOUS
<1>5. SumFunctionOnSet(g, S) = g[p] + SumFunctionOnSet(g, S \ {p})
    BY <1>4, SumRemoves
<1>6. SumFunctionOnSet(f, S \ {p}) \in Int
    BY <1>1, SumBegins
<1> QED
    BY <1>2, <1>3, <1>5, <1>6

\* The same, told by the two values.
LEMMA SumChanges ==
  ASSUME NEW S, IsFiniteSet(S), NEW f, NEW g, NEW p \in S, g[p] \in Int,
         \A x \in S : f[x] \in Int /\ (x # p => g[x] = f[x])
  PROVE  SumFunctionOnSet(g, S) = SumFunctionOnSet(f, S) + (g[p] - f[p])
<1> DEFINE d == g[p] - f[p]
<1>1. d \in Int /\ g[p] = f[p] + d
    OBVIOUS
<1> HIDE DEF d
<1>2. SumFunctionOnSet(g, S) = SumFunctionOnSet(f, S) + d
    BY <1>1, SumMoves
<1> QED
    BY <1>2 DEF d

\* A sum of natural numbers is at least as large as each of them.
LEMMA SumBounds ==
  ASSUME NEW S, IsFiniteSet(S), NEW f, \A x \in S : f[x] \in Nat
  PROVE  /\ SumFunctionOnSet(f, S) \in Nat
         /\ \A x \in S : f[x] <= SumFunctionOnSet(f, S)
<1> DEFINE X == {T \in SUBSET S : SumFunctionOnSet(f, T) \in Nat}
<1>1. ASSUME NEW T \in SUBSET S
      PROVE  /\ T = {} => SumFunctionOnSet(f, T) = 0
             /\ \A x \in T : SumFunctionOnSet(f, T) = f[x] + SumFunctionOnSet(f, T \ {x})
  <2>1. IsFiniteSet(T) /\ \A x \in T : f[x] \in Int
      BY FS_Subset
  <2> QED
      BY <2>1, SumBegins, SumRemoves
<1>2. {} \in X
    BY <1>1
<1>3. ASSUME NEW T \in SUBSET S, T # {}, \A x \in T : T \ {x} \in X PROVE T \in X
  <2>1. PICK x \in T : TRUE
      BY <1>3
  <2>2. f[x] \in Nat /\ SumFunctionOnSet(f, T \ {x}) \in Nat
      BY <1>3
  <2>3. SumFunctionOnSet(f, T) = f[x] + SumFunctionOnSet(f, T \ {x})
      BY <1>1
  <2> QED
      BY <2>2, <2>3
<1> HIDE DEF X
<1>4. \A T \in SUBSET S : T \in X
    BY <1>2, <1>3, InductionOnSets
<1>5. \A T \in SUBSET S : SumFunctionOnSet(f, T) \in Nat
    BY <1>4 DEF X
<1>6. ASSUME NEW x \in S PROVE f[x] <= SumFunctionOnSet(f, S)
  <2>1. SumFunctionOnSet(f, S) = f[x] + SumFunctionOnSet(f, S \ {x})
      BY <1>1
  <2>2. SumFunctionOnSet(f, S \ {x}) \in Nat /\ f[x] \in Nat
      BY <1>5
  <2> QED
      BY <2>1, <2>2
<1> QED
    BY <1>5, <1>6

\* The sum over a set is that over a part of it and that over the rest.
LEMMA SumSplits ==
  ASSUME NEW S, IsFiniteSet(S), NEW f, \A x \in S : f[x] \in Int
  PROVE  \A T \in SUBSET S :
           SumFunctionOnSet(f, S) = SumFunctionOnSet(f, T) + SumFunctionOnSet(f, S \ T)
<1> DEFINE X == {T \in SUBSET S :
                   SumFunctionOnSet(f, S) = SumFunctionOnSet(f, T) + SumFunctionOnSet(f, S \ T)}
<1>1. ASSUME NEW T \in SUBSET S
      PROVE  /\ SumFunctionOnSet(f, T) \in Int
             /\ T = {} => SumFunctionOnSet(f, T) = 0
             /\ \A x \in T : SumFunctionOnSet(f, T) = f[x] + SumFunctionOnSet(f, T \ {x})
  <2>1. IsFiniteSet(T) /\ \A x \in T : f[x] \in Int
      BY FS_Subset
  <2> QED
      BY <2>1, SumBegins, SumRemoves
<1>2. {} \in X
  <2>1. {} \in SUBSET S /\ S \in SUBSET S /\ S \ {} = S
      OBVIOUS
  <2>2. SumFunctionOnSet(f, {}) = 0 /\ SumFunctionOnSet(f, S) \in Int
      BY <1>1, <2>1
  <2> QED
      BY <2>1, <2>2
<1>3. ASSUME NEW T \in SUBSET S, T # {}, \A x \in T : T \ {x} \in X PROVE T \in X
  <2>1. PICK x \in T : TRUE
      BY <1>3
  <2>2. SumFunctionOnSet(f, S) = SumFunctionOnSet(f, T \ {x}) + SumFunctionOnSet(f, S \ (T \ {x}))
      BY <1>3
  <2> DEFINE R == S \ (T \ {x})
  <2>3. R \in SUBSET S /\ x \in R /\ R \ {x} = S \ T
      OBVIOUS
  <2>4. SumFunctionOnSet(f, R) = f[x] + SumFunctionOnSet(f, R \ {x})
      BY <1>1, <2>3
  <2>5. SumFunctionOnSet(f, T) = f[x] + SumFunctionOnSet(f, T \ {x})
      BY <1>1
  <2>6. T \ {x} \in SUBSET S /\ S \ T \in SUBSET S
      OBVIOUS
  <2>7. f[x] \in Int /\ SumFunctionOnSet(f, T \ {x}) \in Int /\ SumFunctionOnSet(f, S \ T) \in Int
      BY <1>1, <2>6
  <2>8. SumFunctionOnSet(f, S) = SumFunctionOnSet(f, T \ {x}) + (f[x] + SumFunctionOnSet(f, S \ T))
      BY <2>2, <2>3, <2>4
  <2>9. SumFunctionOnSet(f, S) = SumFunctionOnSet(f, T) + SumFunctionOnSet(f, S \ T)
      BY <2>5, <2>7, <2>8
  <2> QED
      BY <2>9
<1> HIDE DEF X
<1>4. \A T \in SUBSET S : T \in X
    BY <1>2, <1>3, InductionOnSets
<1> QED
    BY <1>4 DEF X

\* What is zero outside a part of the set adds nothing.
LEMMA SumRestricts ==
  ASSUME NEW S, IsFiniteSet(S), NEW T \in SUBSET S, NEW f,
         \A x \in S : f[x] \in Int /\ (x \notin T => f[x] = 0)
  PROVE  SumFunctionOnSet(f, S) = SumFunctionOnSet(f, T)
<1>1. \A x \in S : f[x] \in Int
    OBVIOUS
<1>2. SumFunctionOnSet(f, S) = SumFunctionOnSet(f, T) + SumFunctionOnSet(f, S \ T)
    BY <1>1, SumSplits
<1>3. IsFiniteSet(S \ T) /\ IsFiniteSet(T) /\ \A x \in T : f[x] \in Int
    BY FS_Subset
<1>4. SumFunctionOnSet(f, S \ T) = 0
    BY <1>3, SumOfZeros
<1>5. SumFunctionOnSet(f, T) \in Int
    BY <1>3, SumBegins
<1> QED
    BY <1>2, <1>4, <1>5

\* Table n is table m of integers, rows for columns.
Transposes(m, n, S, T) == \A x \in S, y \in T : m[x][y] \in Int /\ n[y][x] = m[x][y]

\* f lists the sums of the rows of m.
AddsRows(f, m, S, T) == \A x \in S : f[x] = SumFunctionOnSet(m[x], T)

\* A table of numbers has one sum, row by row or column by column.
LEMMA SumSwaps ==
  ASSUME NEW S, IsFiniteSet(S), NEW T, IsFiniteSet(T), NEW m, NEW n, Transposes(m, n, S, T),
         NEW f, AddsRows(f, m, S, T), NEW g, AddsRows(g, n, T, S)
  PROVE  SumFunctionOnSet(f, S) = SumFunctionOnSet(g, T)
<1> USE DEF Transposes, AddsRows
<1> DEFINE column(y) == n[y]
           part(R) == [y \in T |-> SumFunctionOnSet(column(y), R)]
           X == {R \in SUBSET S : SumFunctionOnSet(f, R) = SumFunctionOnSet(part(R), T)}
<1>1. ASSUME NEW R \in SUBSET S, NEW y \in T
      PROVE  /\ part(R)[y] \in Int
             /\ R = {} => part(R)[y] = 0
             /\ \A x \in R : part(R)[y] = m[x][y] + part(R \ {x})[y]
  <2>1. IsFiniteSet(R) /\ \A x \in R : column(y)[x] = m[x][y] /\ column(y)[x] \in Int
      BY FS_Subset
  <2> HIDE DEF column
  <2>2. /\ SumFunctionOnSet(column(y), R) \in Int
        /\ R = {} => SumFunctionOnSet(column(y), R) = 0
      BY <2>1, SumBegins
  <2>3. \A x \in R : SumFunctionOnSet(column(y), R) =
                       column(y)[x] + SumFunctionOnSet(column(y), R \ {x})
      BY <2>1, SumRemoves
  <2> QED
      BY <2>1, <2>2, <2>3
<1>2. ASSUME NEW x \in S PROVE f[x] \in Int
  <2>1. \A y \in T : m[x][y] \in Int
      OBVIOUS
  <2>2. SumFunctionOnSet(m[x], T) \in Int
      BY <2>1, SumBegins
  <2> QED
      BY <2>2
<1>3. {} \in X
  <2>1. {} \in SUBSET S
      OBVIOUS
  <2>2. \A y \in T : part({})[y] = 0
      BY <1>1, <2>1
  <2> HIDE DEF part
  <2>3. SumFunctionOnSet(part({}), T) = 0
      BY <2>2, SumOfZeros
  <2>4. SumFunctionOnSet(f, {}) = 0
      BY SumBegins, FS_EmptySet
  <2> QED
      BY <2>1, <2>3, <2>4
<1>4. ASSUME NEW R \in SUBSET S, R # {}, \A x \in R : R \ {x} \in X PROVE R \in X
  <2>1. PICK x \in R : TRUE
      BY <1>4
  <2>2. SumFunctionOnSet(f, R \ {x}) = SumFunctionOnSet(part(R \ {x}), T)
      BY <1>4
  <2>3. IsFiniteSet(R) /\ \A y \in R : f[y] \in Int
      BY <1>2, FS_Subset
  <2>4. SumFunctionOnSet(f, R) = f[x] + SumFunctionOnSet(f, R \ {x})
      BY <2>3, SumRemoves
  <2>5. R \ {x} \in SUBSET S
      OBVIOUS
  <2>6. \A y \in T : /\ m[x][y] \in Int /\ part(R \ {x})[y] \in Int
                     /\ part(R)[y] = m[x][y] + part(R \ {x})[y]
    <3>1. ASSUME NEW y \in T PROVE part(R \ {x})[y] \in Int
        BY <1>1, <2>5
    <3>2. ASSUME NEW y \in T PROVE part(R)[y] = m[x][y] + part(R \ {x})[y]
        BY <1>1
    <3> HIDE DEF part
    <3> QED
        BY <3>1, <3>2
  <2> HIDE DEF part
  <2>7. SumFunctionOnSet(part(R), T) = SumFunctionOnSet(m[x], T) + SumFunctionOnSet(part(R \ {x}), T)
    <3> DEFINE whole == part(R)
               row == m[x]
               rest == part(R \ {x})
    <3>1. \A y \in T : row[y] \in Int /\ rest[y] \in Int /\ whole[y] = row[y] + rest[y]
        BY <2>6
    <3> HIDE DEF whole, row, rest
    <3>2. SumFunctionOnSet(whole, T) = SumFunctionOnSet(row, T) + SumFunctionOnSet(rest, T)
        BY <3>1, SumAdds
    <3> QED
        BY <3>2 DEF whole, row, rest
  <2>8. SumFunctionOnSet(f, R) = SumFunctionOnSet(part(R), T)
      BY <2>2, <2>4, <2>7
  <2> QED
      BY <2>8
<1> HIDE DEF X
<1>5. \A R \in SUBSET S : R \in X
    BY <1>3, <1>4, InductionOnSets
<1>6. SumFunctionOnSet(f, S) = SumFunctionOnSet(part(S), T)
    BY <1>5 DEF X
<1>7. \A y \in T : g[y] = part(S)[y] /\ g[y] \in Int
    BY <1>1
<1> HIDE DEF part
<1>8. SumFunctionOnSet(part(S), T) = SumFunctionOnSet(g, T)
    BY <1>7, SumsAgree
<1> QED
    BY <1>6, <1>8
=============================================================================

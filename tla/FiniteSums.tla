----------------------------- MODULE FiniteSums ------------------------------
(***************************************************************************)
(* Facts about finite sets of numbers and about the sums of the community  *)
(* modules that the other proofs use.  Where they need induction, they     *)
(* take a smallest counterexample.                                         *)
(***************************************************************************)
EXTENDS Integers, FiniteSets, Functions, FiniteSetTheorems, WellFoundedInduction, TLAPS

LEMMA Least ==
    ASSUME NEW S, S \subseteq Nat, S # {}
    PROVE  \E i \in S : \A j \in S : i <= j
<1> DEFINE below == OpToRel(<, Nat)
<1>1. \A x, y \in Nat : <<x, y>> \in below <=> x < y
  BY DEF OpToRel
<1>2. IsWellFoundedOn(below, Nat)
  BY NatLessThanWellFounded
<1> HIDE DEF below
<1>3. PICK i \in S : \A j \in S : ~(<<j, i>> \in below)
  BY <1>2, WFMin
<1>4. i \in Nat /\ \A j \in S : j \in Nat /\ (<<j, i>> \in below <=> j < i)
  BY <1>1
<1>5. \A j \in S : ~(j < i)
  BY <1>3, <1>4
<1> QED
  BY <1>4, <1>5

\* Two of a finite set are more than one, and the other way round.
LEMMA MoreThanOne ==
    ASSUME NEW S, IsFiniteSet(S)
    PROVE  /\ Cardinality(S) > 1 => \E a, b \in S : a # b
           /\ ~(Cardinality(S) > 1) => \A a, b \in S : a = b
<1>1. ASSUME Cardinality(S) > 1, \A a, b \in S : a = b
      PROVE  FALSE
  <2>1. CASE S = {}
    BY <2>1, <1>1, FS_EmptySet
  <2>2. CASE S # {}
    <3>1. PICK a \in S : TRUE
      BY <2>2
    <3>2. S = {a}
      BY <3>1, <1>1
    <3>3. Cardinality({a}) = 1
      BY FS_Singleton
    <3> QED
      BY <3>2, <3>3, <1>1
  <2> QED
    BY <2>1, <2>2
<1>2. ASSUME ~(Cardinality(S) > 1), NEW a \in S, NEW b \in S, a # b
      PROVE  FALSE
  <2>1. {a, b} \subseteq S
    OBVIOUS
  <2>2. Cardinality({a, b}) <= Cardinality(S)
    BY <2>1, FS_Subset
  <2>3. IsFiniteSet({a}) /\ Cardinality({a}) = 1
    BY FS_Singleton
  <2>4. Cardinality({a} \cup {b}) = 2
    BY <2>3, <1>2, FS_AddElement
  <2>5. {a} \cup {b} = {a, b}
    OBVIOUS
  <2>6. Cardinality({a, b}) = 2
    BY <2>4, <2>5
  <2>7. Cardinality(S) \in Nat
    BY FS_CardinalityType
  <2> QED
    BY <2>2, <2>6, <2>7, <1>2
<1> QED
  BY <1>1, <1>2

-----------------------------------------------------------------------------
(* Sums over finite sets.  The community modules define a sum by recursion   *)
(* over the subsets of the set, with an element chosen at each step; these   *)
(* lemmas say what does not depend on the choice.  Each is shown by a        *)
(* smallest counterexample.                                                  *)

OneOf(s) == CHOOSE x \in s : TRUE

\* One step of the recursion, and the function that satisfies it on all of T.
OneMore(it, f, s) == IF s = {} THEN 0 ELSE f[OneOf(s)] + it[s \ {OneOf(s)}]
IsSum(it, f, T) == it = [s \in SUBSET T |-> OneMore(it, f, s)]

\* The function that satisfies it.
SumOver(f, T) == CHOOSE it : IsSum(it, f, T)

LEMMA SumUnfolds ==
    ASSUME NEW f, NEW T
    PROVE  SumFunctionOnSet(f, T) = SumOver(f, T)[T]
  BY DEF SumFunctionOnSet, FoldFunctionOnSet, MapThenFoldSet, IsSum, OneOf, SumOver, OneMore

LEMMA Fewer ==
    ASSUME NEW s, IsFiniteSet(s), NEW x \in s
    PROVE  /\ IsFiniteSet(s \ {x}) /\ Cardinality(s) \in Nat /\ Cardinality(s \ {x}) \in Nat
           /\ Cardinality(s) = Cardinality(s \ {x}) + 1
  BY FS_RemoveElement, FS_CardinalityType, FS_Subset

LEMMA OneOfIsIn == \A s : s # {} => OneOf(s) \in s
  BY DEF OneOf

\* The recursion has a solution: one that serves for the sets of up to n elements gives
\* one that serves for those of one more.
LEMMA SumExists ==
    ASSUME NEW f, NEW T, IsFiniteSet(T)
    PROVE  IsSum(SumOver(f, T), f, T)
<1> DEFINE Serves(it, n) == \A s \in SUBSET T : Cardinality(s) <= n => it[s] = OneMore(it, f, s)
           Next1(it) == [s \in SUBSET T |-> OneMore(it, f, s)]
           bad == {n \in Nat : ~\E it : Serves(it, n)}
<1>1. \A s \in SUBSET T : IsFiniteSet(s) /\ Cardinality(s) \in Nat
  BY FS_Subset, FS_CardinalityType
<1>2. \A it : \A n \in Nat : Serves(it, n) => Serves(Next1(it), n + 1)
  <2> SUFFICES ASSUME NEW it, NEW n \in Nat, Serves(it, n), NEW s \in SUBSET T,
                      Cardinality(s) <= n + 1
               PROVE  Next1(it)[s] = OneMore(Next1(it), f, s)
    OBVIOUS
  <2>1. CASE s = {}
    BY <2>1 DEF OneMore
  <2>2. CASE s # {}
    <3> DEFINE r == s \ {OneOf(s)}
    <3>1. r \in SUBSET T /\ Cardinality(r) <= n
      BY <1>1, <2>2, OneOfIsIn, Fewer
    <3>2. Next1(it)[r] = it[r]
      BY <3>1
    <3>3. Next1(it)[s] = f[OneOf(s)] + it[r]
      BY <2>2 DEF OneMore
    <3> QED
      BY <2>2, <3>2, <3>3 DEF OneMore
  <2> QED
    BY <2>1, <2>2
<1>3. bad = {}
  <2> SUFFICES ASSUME bad # {} PROVE FALSE
    OBVIOUS
  <2>1. PICK n \in bad : \A m \in bad : n <= m
    <3>1. bad \subseteq Nat
      OBVIOUS
    <3> HIDE DEF bad
    <3> QED
      BY <3>1, Least
  <2>2. n # 0
    <3>1. Serves([s \in SUBSET T |-> 0], 0)
      <4> SUFFICES ASSUME NEW s \in SUBSET T, Cardinality(s) <= 0 PROVE s = {}
        BY DEF OneMore
      <4> QED
        BY <1>1, FS_EmptySet
    <3> HIDE DEF Serves
    <3> QED
      BY <3>1
  <2>3. n - 1 \in Nat /\ n - 1 \notin bad /\ n = (n - 1) + 1
    BY <2>1, <2>2
  <2>4. PICK it : Serves(it, n - 1)
    BY <2>3
  <2>5. Serves(Next1(it), n)
    <3> HIDE DEF Serves, Next1
    <3> QED
      BY <1>2, <2>3, <2>4
  <2> HIDE DEF Serves
  <2> QED
    BY <2>1, <2>5
<1>4. PICK it : Serves(it, Cardinality(T))
  <2> HIDE DEF Serves
  <2> QED
    BY <1>3, FS_CardinalityType
<1>5. Serves(Next1(it), Cardinality(T) + 1)
  <2> HIDE DEF Serves, Next1
  <2> QED
    BY <1>2, <1>4, FS_CardinalityType
<1>6. \A s \in SUBSET T : Cardinality(s) <= Cardinality(T) + 1
  BY FS_Subset, FS_CardinalityType
<1>7. IsSum(Next1(it), f, T)
  <2> DEFINE g == Next1(it)
  <2>1. \A s \in SUBSET T : g[s] = OneMore(g, f, s)
    <3> HIDE DEF Next1
    <3> QED
      BY <1>5, <1>6
  <2>2. g = [s \in SUBSET T |-> g[s]]
    OBVIOUS
  <2> HIDE DEF g
  <2>3. g = [s \in SUBSET T |-> OneMore(g, f, s)]
    BY <2>1, <2>2
  <2>4. IsSum(g, f, T)
    BY <2>3 DEF IsSum
  <2> QED
    BY <2>4 DEF g
<1> QED
  BY <1>7 DEF SumOver

LEMMA SumOverSubsets ==
    ASSUME NEW f, NEW T, IsFiniteSet(T), NEW s \in SUBSET T
    PROVE  SumOver(f, T)[s] = OneMore(SumOver(f, T), f, s)
<1> DEFINE it == SumOver(f, T)
<1>1. it = [r \in SUBSET T |-> OneMore(it, f, r)]
  <2>1. IsSum(SumOver(f, T), f, T)
    BY SumExists
  <2> QED
    BY <2>1 DEF IsSum
<1> HIDE DEF it
<1>2. it[s] = OneMore(it, f, s)
  BY <1>1
<1> QED
  BY <1>2 DEF it

\* What the recursion gives for a subset does not depend on the set it started from.
LEMMA SumOfSubset ==
    ASSUME NEW f
    PROVE  \A T : \A s \in SUBSET T : IsFiniteSet(T) => SumOver(f, T)[s] = SumFunctionOnSet(f, s)
<1> DEFINE Wrong(T, s) == IsFiniteSet(T) /\ SumOver(f, T)[s] # SumOver(f, s)[s]
           bad == {n \in Nat : \E T : \E s \in SUBSET T : Wrong(T, s) /\ Cardinality(s) = n}
<1>1. bad = {}
  <2> SUFFICES ASSUME bad # {} PROVE FALSE
    OBVIOUS
  <2>1. PICK n \in bad : \A m \in bad : n <= m
    <3>1. bad \subseteq Nat
      OBVIOUS
    <3> HIDE DEF bad
    <3> QED
      BY <3>1, Least
  <2>2. PICK T, s : s \in SUBSET T /\ Wrong(T, s) /\ Cardinality(s) = n
    BY <2>1
  <2>3. IsFiniteSet(T) /\ IsFiniteSet(s)
    BY <2>2, FS_Subset
  <2>4. SumOver(f, T)[s] = OneMore(SumOver(f, T), f, s)
    BY <2>2, <2>3, SumOverSubsets
  <2>5. SumOver(f, s)[s] = OneMore(SumOver(f, s), f, s)
    BY <2>3, SumOverSubsets
  <2>6. s # {}
    BY <2>2, <2>4, <2>5 DEF OneMore
  <2> DEFINE r == s \ {OneOf(s)}
  <2>7. r \in SUBSET T /\ r \in SUBSET s /\ Cardinality(r) \in Nat /\ Cardinality(r) < n
    <3>1. OneOf(s) \in s
      BY <2>6, OneOfIsIn
    <3>2. Cardinality(s) \in Nat /\ Cardinality(r) \in Nat /\ Cardinality(s) = Cardinality(r) + 1
      BY <2>3, <3>1, Fewer
    <3>3. Cardinality(r) < n
      BY <2>2, <3>2
    <3> QED
      BY <2>2, <3>2, <3>3
  <2>8. ~Wrong(T, r) /\ ~Wrong(s, r)
    <3>1. Cardinality(r) \notin bad
      <4>1. \A m \in bad : n <= m /\ m \in Nat /\ n \in Nat
        BY <2>1
      <4> HIDE DEF bad, r
      <4> QED
        BY <2>7, <4>1
    <3> HIDE DEF Wrong, r
    <3> QED
      BY <2>7, <3>1
  <2>9. SumOver(f, T)[r] = SumOver(f, s)[r]
    BY <2>3, <2>8
  <2> QED
    BY <2>2, <2>4, <2>5, <2>6, <2>9 DEF OneMore
<1>2. \A T : \A s \in SUBSET T : ~Wrong(T, s)
  <2> SUFFICES ASSUME NEW T, NEW s \in SUBSET T, Wrong(T, s) PROVE FALSE
    OBVIOUS
  <2>1. Cardinality(s) \in Nat
    BY FS_Subset, FS_CardinalityType
  <2> HIDE DEF Wrong
  <2> QED
    BY <1>1, <2>1
<1> QED
  BY <1>2, SumUnfolds

LEMMA SumBegins ==
    ASSUME NEW f
    PROVE  SumFunctionOnSet(f, {}) = 0
  BY SumUnfolds, SumOverSubsets, FS_EmptySet DEF OneMore

LEMMA SumGoesOn ==
    ASSUME NEW f, NEW T, IsFiniteSet(T), T # {}
    PROVE  SumFunctionOnSet(f, T) = f[OneOf(T)] + SumFunctionOnSet(f, T \ {OneOf(T)})
<1>1. SumFunctionOnSet(f, T) = OneMore(SumOver(f, T), f, T)
  BY SumUnfolds, SumOverSubsets
<1>2. SumOver(f, T)[T \ {OneOf(T)}] = SumFunctionOnSet(f, T \ {OneOf(T)})
  BY SumOfSubset
<1> QED
  BY <1>1, <1>2 DEF OneMore

\* A sum of integers is one.
LEMMA SumTyped ==
    ASSUME NEW f
    PROVE  \A T : IsFiniteSet(T) /\ (\A x \in T : f[x] \in Int) => SumFunctionOnSet(f, T) \in Int
<1> DEFINE Wrong(T) == /\ IsFiniteSet(T) /\ \A x \in T : f[x] \in Int
                       /\ SumFunctionOnSet(f, T) \notin Int
           bad == {n \in Nat : \E T : Wrong(T) /\ Cardinality(T) = n}
<1>1. SUFFICES ASSUME NEW T0, Wrong(T0) PROVE FALSE
  OBVIOUS
<1>2. bad # {} /\ bad \subseteq Nat
  BY <1>1, FS_CardinalityType
<1>3. PICK n \in bad : \A m \in bad : n <= m
  <2> HIDE DEF bad
  <2> QED
    BY <1>2, Least
<1>4. PICK T : Wrong(T) /\ Cardinality(T) = n
  BY <1>3
<1>5. T # {}
  BY <1>4, SumBegins
<1> DEFINE r == T \ {OneOf(T)}
<1>6. /\ OneOf(T) \in T /\ IsFiniteSet(r) /\ Cardinality(r) \in Nat
      /\ Cardinality(T) = Cardinality(r) + 1
  BY <1>4, <1>5, OneOfIsIn, Fewer
<1>7. ~Wrong(r)
  <2>1. \A m \in bad : n <= m /\ m \in Nat /\ n \in Nat
    BY <1>2, <1>3
  <2>2. Cardinality(r) \notin bad
    <3> HIDE DEF bad, r
    <3> QED
      BY <1>4, <1>6, <2>1
  <2> HIDE DEF Wrong, r
  <2> QED
    BY <1>6, <2>2
<1>8. SumFunctionOnSet(f, r) \in Int
  BY <1>4, <1>6, <1>7
<1>9. SumFunctionOnSet(f, T) = f[OneOf(T)] + SumFunctionOnSet(f, r) /\ f[OneOf(T)] \in Int
  BY <1>4, <1>5, <1>6, SumGoesOn
<1> QED
  BY <1>4, <1>8, <1>9

\* A sum is what any one element adds to the sum of the others.
LEMMA SumWithout ==
    ASSUME NEW f
    PROVE  \A T : IsFiniteSet(T) /\ (\A x \in T : f[x] \in Int) =>
               \A x \in T : SumFunctionOnSet(f, T) = f[x] + SumFunctionOnSet(f, T \ {x})
<1> DEFINE Wrong(T) == /\ IsFiniteSet(T) /\ \A x \in T : f[x] \in Int
                       /\ \E x \in T : SumFunctionOnSet(f, T) # f[x] + SumFunctionOnSet(f, T \ {x})
           bad == {n \in Nat : \E T : Wrong(T) /\ Cardinality(T) = n}
<1>1. SUFFICES ASSUME NEW T0, Wrong(T0) PROVE FALSE
  OBVIOUS
<1>2. bad # {} /\ bad \subseteq Nat
  BY <1>1, FS_CardinalityType
<1>3. PICK n \in bad : \A m \in bad : n <= m
  <2> HIDE DEF bad
  <2> QED
    BY <1>2, Least
<1>4. PICK T : Wrong(T) /\ Cardinality(T) = n
  BY <1>3
<1>5. PICK x \in T : SumFunctionOnSet(f, T) # f[x] + SumFunctionOnSet(f, T \ {x})
  BY <1>4
<1> DEFINE a == OneOf(T)
<1>6. a \in T /\ IsFiniteSet(T) /\ \A y \in T : f[y] \in Int
  BY <1>4, <1>5, OneOfIsIn
<1>7. SumFunctionOnSet(f, T) = f[a] + SumFunctionOnSet(f, T \ {a})
  BY <1>5, <1>6, SumGoesOn
<1> HIDE DEF a
<1>8. a # x
  BY <1>5, <1>7
<1>9. ASSUME NEW y \in T, NEW z \in T, y # z
      PROVE  SumFunctionOnSet(f, T \ {y}) = f[z] + SumFunctionOnSet(f, (T \ {y}) \ {z})
  <2> DEFINE r == T \ {y}
  <2>1. IsFiniteSet(r) /\ Cardinality(r) \in Nat /\ Cardinality(T) = Cardinality(r) + 1
    BY <1>6, Fewer
  <2>2. ~Wrong(r)
    <3>1. \A m \in bad : n <= m /\ m \in Nat /\ n \in Nat
      BY <1>2, <1>3
    <3>2. Cardinality(r) \notin bad
      <4> HIDE DEF bad, r
      <4> QED
        BY <1>4, <2>1, <3>1
    <3> HIDE DEF Wrong, r
    <3> QED
      BY <2>1, <3>2
  <2>3. z \in r /\ \A w \in r : f[w] \in Int
    BY <1>6, <1>9
  <2> HIDE DEF r
  <2>4. SumFunctionOnSet(f, r) = f[z] + SumFunctionOnSet(f, r \ {z})
    BY <2>1, <2>2, <2>3
  <2> QED
    BY <2>4 DEF r
<1>10. (T \ {a}) \ {x} = (T \ {x}) \ {a}
  OBVIOUS
<1>11. SumFunctionOnSet(f, (T \ {a}) \ {x}) \in Int
  <2>1. IsFiniteSet((T \ {a}) \ {x})
    BY <1>6, FS_Subset
  <2>2. \A w \in (T \ {a}) \ {x} : f[w] \in Int
    BY <1>6
  <2> QED
    BY <2>1, <2>2, SumTyped
<1>12. SumFunctionOnSet(f, T \ {a}) = f[x] + SumFunctionOnSet(f, (T \ {a}) \ {x})
  BY <1>6, <1>8, <1>9
<1>13. SumFunctionOnSet(f, T \ {x}) = f[a] + SumFunctionOnSet(f, (T \ {a}) \ {x})
  <2>1. SumFunctionOnSet(f, T \ {x}) = f[a] + SumFunctionOnSet(f, (T \ {x}) \ {a})
    BY <1>6, <1>8, <1>9
  <2> QED
    BY <1>10, <2>1
<1>14. f[a] \in Int /\ f[x] \in Int
  BY <1>6
<1> QED
  BY <1>5, <1>7, <1>11, <1>12, <1>13, <1>14

\* Sums are compared term by term; what the greater one has more of adds nothing below
\* zero.
LEMMA SumBelow ==
    ASSUME NEW f, NEW g
    PROVE  \A T : \A S \in SUBSET T :
               /\ IsFiniteSet(T) /\ \A x \in T : f[x] \in Int /\ g[x] \in Int
               /\ \A x \in S : f[x] <= g[x]
               /\ \A x \in T \ S : 0 <= g[x]
               => SumFunctionOnSet(f, S) <= SumFunctionOnSet(g, T)
<1> DEFINE Wrong(T, S) == /\ IsFiniteSet(T) /\ \A x \in T : f[x] \in Int /\ g[x] \in Int
                          /\ \A x \in S : f[x] <= g[x]
                          /\ \A x \in T \ S : 0 <= g[x]
                          /\ ~(SumFunctionOnSet(f, S) <= SumFunctionOnSet(g, T))
           bad == {n \in Nat : \E T : \E S \in SUBSET T : Wrong(T, S) /\ Cardinality(T) = n}
<1>1. SUFFICES ASSUME NEW T0, NEW S0 \in SUBSET T0, Wrong(T0, S0) PROVE FALSE
  OBVIOUS
<1>2. bad # {} /\ bad \subseteq Nat
  <2>1. Cardinality(T0) \in Nat
    BY <1>1, FS_CardinalityType
  <2> HIDE DEF Wrong
  <2> QED
    BY <1>1, <2>1
<1>3. PICK n \in bad : \A m \in bad : n <= m
  <2> HIDE DEF bad
  <2> QED
    BY <1>2, Least
<1>4. PICK T, S : S \in SUBSET T /\ Wrong(T, S) /\ Cardinality(T) = n
  <2> HIDE DEF Wrong
  <2> QED
    BY <1>3
<1>5. T # {}
  <2> SUFFICES ASSUME T = {} PROVE FALSE
    OBVIOUS
  <2>1. S = {}
    BY <1>4
  <2>2. SumFunctionOnSet(f, S) = 0 /\ SumFunctionOnSet(g, T) = 0
    BY <2>1, SumBegins
  <2> QED
    BY <1>4, <2>2
<1>6. PICK x \in T : TRUE
  BY <1>5
<1> DEFINE T1 == T \ {x}
           S1 == S \ {x}
<1>7. IsFiniteSet(T1) /\ Cardinality(T1) \in Nat /\ Cardinality(T) = Cardinality(T1) + 1
  BY <1>4, <1>6, Fewer
<1>8. S1 \in SUBSET T1
  BY <1>4
<1>9. SumFunctionOnSet(f, S1) <= SumFunctionOnSet(g, T1)
  <2>1. \A m \in bad : n <= m /\ m \in Nat /\ n \in Nat
    BY <1>2, <1>3
  <2>2. Cardinality(T1) \notin bad
    <3> HIDE DEF bad, T1
    <3> QED
      BY <1>4, <1>7, <2>1
  <2>3. ~Wrong(T1, S1)
    <3> HIDE DEF Wrong, T1, S1
    <3> QED
      BY <1>7, <1>8, <2>2
  <2>4. /\ \A y \in T1 : f[y] \in Int /\ g[y] \in Int
        /\ \A y \in S1 : f[y] <= g[y]
        /\ \A y \in T1 \ S1 : 0 <= g[y]
    BY <1>4
  <2> HIDE DEF T1, S1
  <2> QED
    BY <1>7, <2>3, <2>4
<1>10. IsFiniteSet(S) /\ IsFiniteSet(S1)
  BY <1>4, FS_Subset
<1>11. /\ SumFunctionOnSet(f, S1) \in Int /\ SumFunctionOnSet(g, T1) \in Int
       /\ f[x] \in Int /\ g[x] \in Int
  <2>1. (\A y \in S1 : f[y] \in Int) /\ (\A y \in T1 : g[y] \in Int)
    BY <1>4
  <2> QED
    BY <1>4, <1>6, <1>7, <1>10, <2>1, SumTyped
<1>12. SumFunctionOnSet(g, T) = g[x] + SumFunctionOnSet(g, T1)
  BY <1>4, <1>6, SumWithout
<1>13. CASE x \in S
  <2>1. SumFunctionOnSet(f, S) = f[x] + SumFunctionOnSet(f, S1)
    <3>1. \A y \in S : f[y] \in Int
      BY <1>4
    <3> QED
      BY <1>10, <1>13, <3>1, SumWithout
  <2>2. f[x] <= g[x]
    BY <1>4, <1>13
  <2>3. ~(SumFunctionOnSet(f, S) <= SumFunctionOnSet(g, T))
    BY <1>4
  <2> HIDE DEF S1, T1
  <2> QED
    BY <1>9, <1>11, <1>12, <2>1, <2>2, <2>3
<1>14. CASE x \notin S
  <2>1. S1 = S /\ 0 <= g[x]
    BY <1>4, <1>6, <1>14
  <2>2. ~(SumFunctionOnSet(f, S) <= SumFunctionOnSet(g, T))
    BY <1>4
  <2> HIDE DEF S1, T1
  <2> QED
    BY <1>9, <1>11, <1>12, <2>1, <2>2
<1> QED
  BY <1>13, <1>14

\* Sums of the same terms are the same.
LEMMA SumSame ==
    ASSUME NEW f, NEW g, NEW T, IsFiniteSet(T), \A x \in T : f[x] \in Int /\ g[x] = f[x]
    PROVE  SumFunctionOnSet(g, T) = SumFunctionOnSet(f, T)
<1>1. SumFunctionOnSet(f, T) \in Int /\ SumFunctionOnSet(g, T) \in Int
  BY SumTyped
<1>2. \A x \in T : f[x] \in Int /\ g[x] \in Int /\ f[x] <= g[x] /\ g[x] <= f[x]
  OBVIOUS
<1>3. SumFunctionOnSet(f, T) <= SumFunctionOnSet(g, T)
  BY <1>2, SumBelow
<1>4. SumFunctionOnSet(g, T) <= SumFunctionOnSet(f, T)
  BY <1>2, SumBelow
<1> QED
  BY <1>1, <1>3, <1>4

\* One term changes.
LEMMA SumChanges ==
    ASSUME NEW f, NEW g
    PROVE  \A T : \A a \in T :
               /\ IsFiniteSet(T)
               /\ \A x \in T : f[x] \in Int /\ g[x] \in Int
               /\ \A x \in T : x # a => g[x] = f[x]
               => \E r \in Int : /\ r = SumFunctionOnSet(f, T \ {a})
                                /\ SumFunctionOnSet(f, T) = f[a] + r
                                /\ SumFunctionOnSet(g, T) = g[a] + r
<1> SUFFICES ASSUME NEW T, NEW a \in T, IsFiniteSet(T), \A x \in T : f[x] \in Int /\ g[x] \in Int,
                    \A x \in T : x # a => g[x] = f[x]
             PROVE  \E r \in Int : /\ r = SumFunctionOnSet(f, T \ {a})
                                   /\ SumFunctionOnSet(f, T) = f[a] + r
                                   /\ SumFunctionOnSet(g, T) = g[a] + r
  OBVIOUS
<1>1. /\ SumFunctionOnSet(f, T) = f[a] + SumFunctionOnSet(f, T \ {a})
      /\ SumFunctionOnSet(g, T) = g[a] + SumFunctionOnSet(g, T \ {a})
  BY SumWithout
<1>2. IsFiniteSet(T \ {a})
  BY FS_Subset
<1>3. SumFunctionOnSet(g, T \ {a}) = SumFunctionOnSet(f, T \ {a})
  BY <1>2, SumSame
<1>4. SumFunctionOnSet(f, T \ {a}) \in Int
  BY <1>2, SumTyped
<1> QED
  BY <1>1, <1>3, <1>4

\* No sum is more than as many times its greatest term as there are terms.
LEMMA SumAtMost ==
    ASSUME NEW f, NEW b \in Nat
    PROVE  \A T : IsFiniteSet(T) /\ (\A x \in T : f[x] \in Int /\ f[x] <= b)
               => SumFunctionOnSet(f, T) <= Cardinality(T) * b
<1> DEFINE Wrong(T) == /\ IsFiniteSet(T) /\ \A x \in T : f[x] \in Int /\ f[x] <= b
                       /\ ~(SumFunctionOnSet(f, T) <= Cardinality(T) * b)
           bad == {n \in Nat : \E T : Wrong(T) /\ Cardinality(T) = n}
<1>1. SUFFICES ASSUME NEW T0, Wrong(T0) PROVE FALSE
  OBVIOUS
<1>2. bad # {} /\ bad \subseteq Nat
  <2>1. Cardinality(T0) \in Nat
    BY <1>1, FS_CardinalityType
  <2> HIDE DEF Wrong
  <2> QED
    BY <1>1, <2>1
<1>3. PICK n \in bad : \A m \in bad : n <= m
  <2> HIDE DEF bad
  <2> QED
    BY <1>2, Least
<1>4. PICK T : Wrong(T) /\ Cardinality(T) = n
  <2> HIDE DEF Wrong
  <2> QED
    BY <1>3
<1>5. T # {}
  <2> SUFFICES ASSUME T = {} PROVE FALSE
    OBVIOUS
  <2>1. SumFunctionOnSet(f, T) = 0 /\ Cardinality(T) = 0 /\ 0 * b = 0
    BY SumBegins, FS_EmptySet
  <2> QED
    BY <1>4, <2>1
<1>6. PICK x \in T : TRUE
  BY <1>5
<1> DEFINE r == T \ {x}
<1>7. IsFiniteSet(r) /\ Cardinality(r) \in Nat /\ Cardinality(T) = Cardinality(r) + 1
  BY <1>4, <1>6, Fewer
<1>8. SumFunctionOnSet(f, r) <= Cardinality(r) * b
  <2>1. \A m \in bad : n <= m /\ m \in Nat /\ n \in Nat
    BY <1>2, <1>3
  <2>2. Cardinality(r) \notin bad
    <3> HIDE DEF bad, r
    <3> QED
      BY <1>4, <1>7, <2>1
  <2>3. ~Wrong(r)
    <3> HIDE DEF Wrong, r
    <3> QED
      BY <1>7, <2>2
  <2>4. \A y \in r : f[y] \in Int /\ f[y] <= b
    BY <1>4
  <2> HIDE DEF r
  <2> QED
    BY <1>7, <2>3, <2>4
<1>9. SumFunctionOnSet(f, r) \in Int /\ f[x] \in Int /\ f[x] <= b
  <2>1. \A y \in r : f[y] \in Int
    BY <1>4
  <2> QED
    BY <1>4, <1>6, <1>7, <2>1, SumTyped
<1>10. SumFunctionOnSet(f, T) = f[x] + SumFunctionOnSet(f, r)
  BY <1>4, <1>6, SumWithout
<1>11. Cardinality(T) * b = Cardinality(r) * b + b /\ Cardinality(r) * b \in Int
  <2>1. \A k \in Nat : (k + 1) * b = k * b + b /\ k * b \in Int
    OBVIOUS
  <2> HIDE DEF r
  <2> QED
    BY <1>7, <2>1
<1>12. ~(SumFunctionOnSet(f, T) <= Cardinality(T) * b)
  BY <1>4
<1> HIDE DEF r
<1> QED
  BY <1>8, <1>9, <1>10, <1>11, <1>12

-----------------------------------------------------------------------------
(* Functions that are defined by what they are for smaller arguments.  The   *)
(* definitions choose a function that satisfies the equation, so that one    *)
(* has to exist before anything follows from it.                             *)

\* What holds of a number when it holds of those below it holds of all.
LEMMA FromBelow ==
    ASSUME NEW N \in Nat, NEW S, \A i \in 0..N : (\A j \in 0..(i - 1) : j \in S) => i \in S
    PROVE  0..N \subseteq S
<1> DEFINE bad == {i \in 0..N : i \notin S}
<1>1. SUFFICES ASSUME bad # {} PROVE FALSE
  OBVIOUS
<1>2. bad \subseteq Nat
  OBVIOUS
<1>3. PICK i \in bad : \A j \in bad : i <= j
  <2> HIDE DEF bad
  <2> QED
    BY <1>1, <1>2, Least
<1>4. i \in 0..N /\ i \notin S /\ \A j \in 0..(i - 1) : j \in 0..N /\ ~(i <= j)
  OBVIOUS
<1>5. \A j \in 0..(i - 1) : j \in S
  BY <1>3, <1>4
<1> QED
  BY <1>4, <1>5

Recurs(f, N, A, given, before, step) ==
    f = [i \in 0..N |-> IF i \in A THEN given[i] ELSE step[i][f[before[i]]]]

LEMMA RecursionExists ==
    ASSUME NEW N \in Nat, NEW V, NEW A, NEW given \in [0..N -> V],
           NEW before \in [0..N -> 0..N], NEW step \in [0..N -> [V -> V]],
           \A i \in 0..N : i \notin A => before[i] < i
    PROVE  \E f \in [0..N -> V] : Recurs(f, N, A, given, before, step)
<1> DEFINE Once(f) == [i \in 0..N |-> IF i \in A THEN given[i] ELSE step[i][f[before[i]]]]
           Serves(f, n) == \A i \in 0..N : i <= n => f[i] = Once(f)[i]
           good == {n \in 0..N : \E f \in [0..N -> V] : Serves(f, n)}
<1>1. \A f \in [0..N -> V] : Once(f) \in [0..N -> V]
  OBVIOUS
<1>2. ASSUME NEW n \in 0..N, \A m \in 0..(n - 1) : m \in good
      PROVE  n \in good
  <2>1. PICK f \in [0..N -> V] : \A i \in 0..N : i < n => f[i] = Once(f)[i]
    <3>1. CASE n = 0
      <4>1. given \in [0..N -> V] /\ \A i \in 0..N : ~(i < n)
        BY <3>1
      <4> QED
        BY <4>1
    <3>2. CASE n # 0
      <4>1. n - 1 \in 0..(n - 1) /\ \A i \in 0..N : i < n => i <= n - 1
        BY <3>2
      <4>2. n - 1 \in good
        BY <1>2, <4>1
      <4>3. PICK f \in [0..N -> V] : Serves(f, n - 1)
        BY <4>2
      <4> QED
        BY <4>1, <4>3
    <3> QED
      BY <3>1, <3>2
  <2>2. PICK g \in [0..N -> V] : g = Once(f)
    BY <1>1
  <2>3. ASSUME NEW i \in 0..N, i <= n
        PROVE  g[i] = Once(g)[i]
    <3>1. CASE i \in A
      BY <3>1, <2>2
    <3>2. CASE i \notin A
      <4>1. before[i] \in 0..N /\ before[i] < n
        BY <3>2, <2>3
      <4>2. g[before[i]] = f[before[i]]
        BY <4>1, <2>1, <2>2
      <4> QED
        BY <4>2, <3>2, <2>2
    <3> QED
      BY <3>1, <3>2
  <2> QED
    BY <2>3
<1>3. N \in good
  <2> HIDE DEF good
  <2>1. 0..N \subseteq good
    BY <1>2, FromBelow
  <2> QED
    BY <2>1
<1>4. PICK f \in [0..N -> V] : Serves(f, N)
  BY <1>3
<1>5. f = Once(f)
  BY <1>4, <1>1
<1> QED
  BY <1>5 DEF Recurs

LEMMA GreatestUpTo ==
    ASSUME NEW N \in Nat, NEW S, S \subseteq 0..N, S # {}
    PROVE  \E i \in S : \A j \in S : j <= i
<1> DEFINE R == {N - i : i \in S}
<1>1. R \subseteq Nat /\ R # {}
  OBVIOUS
<1>2. PICK r \in R : \A q \in R : r <= q
  <2> HIDE DEF R
  <2> QED
    BY <1>1, Least
<1>3. PICK i \in S : r = N - i
  OBVIOUS
<1>4. ASSUME NEW j \in S
      PROVE  j <= i
  <2>1. N - j \in R
    OBVIOUS
  <2>2. i \in 0..N /\ j \in 0..N
    OBVIOUS
  <2>3. N - i <= N - j
    <3> HIDE DEF R
    <3> QED
      BY <1>2, <1>3, <2>1
  <2> QED
    BY <2>2, <2>3
<1> QED
  BY <1>4
==============================================================================

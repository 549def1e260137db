------------------------------ MODULE SumProofs ------------------------------
(* What SumFunctionOnSet of the community modules computes, for every       *)
(* finite set: 0 for the empty set, and f[x] more for each element x,       *)
(* whatever order the fold takes them in.  The library's induction theorems *)
(* cannot be instantiated by the provers, so each induction below is an     *)
(* argument about a smallest counterexample among the subsets of a finite   *)
(* set.                                                                     *)
EXTENDS Integers, SequencesExt, FiniteSetTheorems, WellFoundedInduction, TLAPS

\* The element that the fold takes next from s.
Pick(s) == CHOOSE x \in s : TRUE

\* g is the recursive function that the fold defines on the subsets of S.
IsSum(f, S, g) ==
    g = [s \in SUBSET S |-> IF s = {} THEN 0 ELSE f[Pick(s)] + g[s \ {Pick(s)}]]

\* The fold applies such a function to S.
LEMMA SumUnfolds ==
    ASSUME NEW f, NEW S
    PROVE  SumFunctionOnSet(f, S) = (CHOOSE g : IsSum(f, S, g))[S]
    BY DEF SumFunctionOnSet, FoldFunctionOnSet, MapThenFoldSet, IsSum, Pick

\* What the fold takes from a nonempty set is one of its elements.
LEMMA PickIn ==
    ASSUME NEW s, s # {}
    PROVE  Pick(s) \in s
    BY DEF Pick

\* Any set of subsets of a finite set has a member with no smaller one.
LEMMA SmallestSubset ==
    ASSUME NEW S, IsFiniteSet(S), NEW T, T \subseteq SUBSET S, T # {}
    PROVE  \E s \in T : \A t \in T : t \subseteq s => t = s
<1>1. T \subseteq FiniteSubsetsOf(S)
    BY FS_FiniteSubsetsOfFinite
<1>2. \E s \in T : \A t \in T : ~(<<t, s>> \in StrictSubsetOrdering(S))
    BY <1>1, WFMin, FS_StrictSubsetOrderingWellFounded
<1> QED
    BY <1>2 DEF StrictSubsetOrdering

\* At a subset the function has the value its definition gives it.
LEMMA SumAt ==
    ASSUME NEW f, NEW S, NEW g, IsSum(f, S, g), NEW s \in SUBSET S
    PROVE  g[s] = IF s = {} THEN 0 ELSE f[Pick(s)] + g[s \ {Pick(s)}]
    BY DEF IsSum

\* Two such functions agree on the sets that both are defined on.
LEMMA SumUnique ==
    ASSUME NEW f, NEW S, IsFiniteSet(S), NEW R \in SUBSET S,
           NEW g, IsSum(f, S, g), NEW h, IsSum(f, R, h)
    PROVE  \A s \in SUBSET R : g[s] = h[s]
<1> DEFINE T == {s \in SUBSET R : g[s] # h[s]}
<1>1. SUFFICES ASSUME T # {} PROVE FALSE
    OBVIOUS
<1>2. IsFiniteSet(R)
    BY FS_Subset
<1>3. T \subseteq SUBSET R
    OBVIOUS
<1>4. PICK s \in T : \A t \in T : t \subseteq s => t = s
    <2> HIDE DEF T
    <2> QED
        BY <1>1, <1>2, <1>3, SmallestSubset
<1>5. s \in SUBSET R /\ s \in SUBSET S /\ g[s] # h[s]
    BY <1>4
<1>6. CASE s = {}
    BY <1>5, <1>6, SumAt
<1>7. CASE s # {}
    <2>1. Pick(s) \in s
        BY <1>7, PickIn
    <2> DEFINE t == s \ {Pick(s)}
    <2>2. t \subseteq s /\ t # s /\ t \in SUBSET R
        BY <2>1, <1>5
    <2>3. g[t] = h[t]
        BY <2>2, <1>4
    <2>4. g[s] = f[Pick(s)] + g[t] /\ h[s] = f[Pick(s)] + h[t]
        BY <1>5, <1>7, SumAt
    <2> QED
        BY <2>3, <2>4, <1>5
<1> QED
    BY <1>6, <1>7

\* Every finite set has such a function.
LEMMA SumExists ==
    ASSUME NEW f, NEW S, IsFiniteSet(S)
    PROVE  \E g : IsSum(f, S, g)
<1> DEFINE T == {s \in SUBSET S : ~ \E g : IsSum(f, s, g)}
<1>1. SUFFICES ASSUME T # {} PROVE FALSE
    OBVIOUS
<1>2. PICK x \in T : \A t \in T : t \subseteq x => t = x
    <2>1. T \subseteq SUBSET S
        OBVIOUS
    <2> HIDE DEF T
    <2> QED
        BY <1>1, <2>1, SmallestSubset
<1>3. x \in SUBSET S /\ ~ \E g : IsSum(f, x, g)
    BY <1>2
<1> DEFINE K(s) == CHOOSE g : IsSum(f, s, g)
           G == [s \in SUBSET x |->
                    IF s = {} THEN 0
                    ELSE f[Pick(s)] + K(s \ {Pick(s)})[s \ {Pick(s)}]]
<1>4. ASSUME NEW t \in SUBSET x, t # x
      PROVE  IsSum(f, t, K(t)) /\ IsFiniteSet(t)
    <2>1. \E g : IsSum(f, t, g)
        BY <1>2, <1>3, <1>4
    <2>2. IsFiniteSet(t)
        BY <1>3, FS_Subset
    <2> QED
        BY <2>1, <2>2
<1> HIDE DEF K
<1>5. ASSUME NEW t \in SUBSET x, t # x
      PROVE  G[t] = K(t)[t]
    <2>1. IsSum(f, t, K(t)) /\ IsFiniteSet(t)
        BY <1>4, <1>5
    <2>2. K(t)[t] = IF t = {} THEN 0 ELSE f[Pick(t)] + K(t)[t \ {Pick(t)}]
        BY <2>1, SumAt
    <2>3. CASE t = {}
        BY <2>2, <2>3
    <2>4. CASE t # {}
        <3> DEFINE u == t \ {Pick(t)}
        <3>1. Pick(t) \in t
            BY <2>4, PickIn
        <3>2. u \in SUBSET x /\ u # x /\ u \in SUBSET t
            BY <3>1, <1>5
        <3>3. IsSum(f, u, K(u))
            BY <3>2, <1>4
        <3>4. K(t)[u] = K(u)[u]
            BY <2>1, <3>2, <3>3, SumUnique
        <3>5. G[t] = f[Pick(t)] + K(u)[u]
            BY <2>4, <1>5
        <3> QED
            BY <2>2, <2>4, <3>4, <3>5
    <2> QED
        BY <2>3, <2>4
<1>6. ASSUME NEW s \in SUBSET x, s # {}
      PROVE  G[s] = f[Pick(s)] + G[s \ {Pick(s)}]
    <2> DEFINE t == s \ {Pick(s)}
    <2>1. Pick(s) \in s
        BY <1>6, PickIn
    <2>2. t \in SUBSET x /\ t # x
        BY <2>1
    <2>3. G[t] = K(t)[t]
        BY <2>2, <1>5
    <2>4. G[s] = f[Pick(s)] + K(t)[t]
        BY <1>6
    <2> QED
        BY <2>3, <2>4
<1>7. /\ G = [s \in SUBSET x |-> G[s]]
      /\ \A s \in SUBSET x : s = {} => G[s] = 0
    OBVIOUS
<1> HIDE DEF G
<1>8. [s \in SUBSET x |-> G[s]] =
          [s \in SUBSET x |-> IF s = {} THEN 0 ELSE f[Pick(s)] + G[s \ {Pick(s)}]]
    BY <1>6, <1>7
<1>9. IsSum(f, x, G)
    BY <1>7, <1>8 DEF IsSum
<1> QED
    BY <1>9, <1>3

\* The sum over the empty set is 0; over any other finite set it is the
\* value of the element taken first, and the sum over the rest.
LEMMA SumRecursion ==
    ASSUME NEW f, NEW S, IsFiniteSet(S)
    PROVE  SumFunctionOnSet(f, S) =
               IF S = {} THEN 0
               ELSE f[Pick(S)] + SumFunctionOnSet(f, S \ {Pick(S)})
<1> DEFINE R == S \ {Pick(S)}
           g == CHOOSE g : IsSum(f, S, g)
           h == CHOOSE h : IsSum(f, R, h)
<1>1. R \in SUBSET S /\ IsFiniteSet(R)
    BY FS_Subset
<1>2. IsSum(f, S, g) /\ IsSum(f, R, h)
    <2>1. (\E k : IsSum(f, S, k)) /\ (\E k : IsSum(f, R, k))
        <3> HIDE DEF R
        <3> QED
            BY <1>1, SumExists
    <2> QED
        BY <2>1
<1>3. SumFunctionOnSet(f, S) = g[S] /\ SumFunctionOnSet(f, R) = h[R]
    <2> HIDE DEF R
    <2> QED
        BY SumUnfolds
<1> HIDE DEF g, h
<1>4. g[S] = IF S = {} THEN 0 ELSE f[Pick(S)] + g[R]
    BY <1>2, SumAt
<1>5. g[R] = h[R]
    <2> HIDE DEF R
    <2> QED
        BY <1>1, <1>2, SumUnique
<1> QED
    BY <1>3, <1>4, <1>5

\* The sum of natural numbers is a natural number; of integers, an integer.
LEMMA SumType ==
    ASSUME NEW f, NEW S, IsFiniteSet(S), NEW D \in {Nat, Int}, \A x \in S : f[x] \in D
    PROVE  \A s \in SUBSET S : SumFunctionOnSet(f, s) \in D
<1> DEFINE T == {s \in SUBSET S : SumFunctionOnSet(f, s) \notin D}
<1>1. SUFFICES ASSUME T # {} PROVE FALSE
    OBVIOUS
<1>2. PICK s \in T : \A t \in T : t \subseteq s => t = s
    <2>1. T \subseteq SUBSET S
        OBVIOUS
    <2> HIDE DEF T
    <2> QED
        BY <1>1, <2>1, SmallestSubset
<1>3. s \in SUBSET S /\ IsFiniteSet(s) /\ SumFunctionOnSet(f, s) \notin D
    BY <1>2, FS_Subset
<1>4. CASE s = {}
    <2>1. SumFunctionOnSet(f, s) = 0
        BY <1>3, <1>4, SumRecursion
    <2>2. 0 \in D
        OBVIOUS
    <2> QED
        BY <2>1, <2>2, <1>3
<1>5. CASE s # {}
    <2> DEFINE t == s \ {Pick(s)}
    <2>1. Pick(s) \in s
        BY <1>5, PickIn
    <2>2. t \subseteq s /\ t # s /\ t \in SUBSET S
        BY <2>1, <1>3
    <2>3. SumFunctionOnSet(f, t) \in D /\ f[Pick(s)] \in D
        BY <2>1, <2>2, <1>2, <1>3
    <2>4. SumFunctionOnSet(f, s) = f[Pick(s)] + SumFunctionOnSet(f, t)
        BY <1>3, <1>5, SumRecursion
    <2> QED
        BY <2>3, <2>4, <1>3
<1> QED
    BY <1>4, <1>5

\* The order does not matter: every element adds its own value.
LEMMA SumSplit ==
    ASSUME NEW f, NEW S, IsFiniteSet(S), \A x \in S : f[x] \in Int
    PROVE  \A x \in S : SumFunctionOnSet(f, S) = f[x] + SumFunctionOnSet(f, S \ {x})
<1> DEFINE Sum(s) == SumFunctionOnSet(f, s)
           T == {s \in SUBSET S : \E x \in s : Sum(s) # f[x] + Sum(s \ {x})}
<1>1. SUFFICES ASSUME T # {} PROVE FALSE
    OBVIOUS
<1>2. PICK s \in T : \A t \in T : t \subseteq s => t = s
    <2>1. T \subseteq SUBSET S
        OBVIOUS
    <2> HIDE DEF T
    <2> QED
        BY <1>1, <2>1, SmallestSubset
<1>3. s \in SUBSET S /\ IsFiniteSet(s)
    BY <1>2, FS_Subset
<1>4. PICK x \in s : Sum(s) # f[x] + Sum(s \ {x})
    BY <1>2
<1> DEFINE p == Pick(s)
<1>5. p \in s /\ Sum(s) = f[p] + Sum(s \ {p})
    BY <1>3, <1>4, PickIn, SumRecursion
<1> HIDE DEF p
<1>6. x # p
    BY <1>4, <1>5
<1>7. \A t \in SUBSET s : t # s => \A y \in t : Sum(t) = f[y] + Sum(t \ {y})
    BY <1>2, <1>3
<1>8. Sum(s \ {p}) = f[x] + Sum((s \ {p}) \ {x})
    BY <1>4, <1>5, <1>6, <1>7
<1>9. Sum(s \ {x}) = f[p] + Sum((s \ {x}) \ {p})
    BY <1>4, <1>5, <1>6, <1>7
<1>10. (s \ {p}) \ {x} = (s \ {x}) \ {p} /\ (s \ {p}) \ {x} \in SUBSET S
    BY <1>3
<1>11. Sum((s \ {p}) \ {x}) \in Int
    BY <1>10, SumType
<1>12. f[x] \in Int /\ f[p] \in Int
    BY <1>3, <1>4, <1>5
<1> HIDE DEF Sum, T
<1>13. Sum(s) = f[p] + (f[x] + Sum((s \ {p}) \ {x}))
    BY <1>5, <1>8
<1>14. Sum(s \ {x}) = f[p] + Sum((s \ {p}) \ {x})
    BY <1>9, <1>10
<1>15. Sum(s) = f[x] + Sum(s \ {x})
    BY <1>11, <1>12, <1>13, <1>14
<1> QED
    BY <1>4, <1>15

\* Only the values at the elements of the set matter.
LEMMA SumCongruence ==
    ASSUME NEW f, NEW h, NEW S, IsFiniteSet(S), \A x \in S : f[x] = h[x]
    PROVE  SumFunctionOnSet(f, S) = SumFunctionOnSet(h, S)
<1> DEFINE T == {s \in SUBSET S : SumFunctionOnSet(f, s) # SumFunctionOnSet(h, s)}
<1>1. SUFFICES ASSUME T # {} PROVE FALSE
    OBVIOUS
<1>2. PICK s \in T : \A t \in T : t \subseteq s => t = s
    <2>1. T \subseteq SUBSET S
        OBVIOUS
    <2> HIDE DEF T
    <2> QED
        BY <1>1, <2>1, SmallestSubset
<1>3. s \in SUBSET S /\ IsFiniteSet(s) /\ SumFunctionOnSet(f, s) # SumFunctionOnSet(h, s)
    BY <1>2, FS_Subset
<1>4. CASE s = {}
    BY <1>3, <1>4, SumRecursion
<1>5. CASE s # {}
    <2> DEFINE t == s \ {Pick(s)}
    <2>1. Pick(s) \in s
        BY <1>5, PickIn
    <2>2. t \subseteq s /\ t # s /\ t \in SUBSET S
        BY <2>1, <1>3
    <2>3. SumFunctionOnSet(f, t) = SumFunctionOnSet(h, t) /\ f[Pick(s)] = h[Pick(s)]
        BY <2>1, <2>2, <1>2, <1>3
    <2>4. /\ SumFunctionOnSet(f, s) = f[Pick(s)] + SumFunctionOnSet(f, t)
          /\ SumFunctionOnSet(h, s) = h[Pick(s)] + SumFunctionOnSet(h, t)
        BY <1>3, <1>5, SumRecursion
    <2> QED
        BY <2>3, <2>4, <1>3
<1> QED
    BY <1>4, <1>5

-----------------------------------------------------------------------------
(* The facts that other modules use.                                       *)

\* An element joins a finite set.
LEMMA SumJoin ==
    ASSUME NEW f, NEW S, IsFiniteSet(S), NEW x, x \notin S,
           \A y \in S \cup {x} : f[y] \in Int
    PROVE  /\ IsFiniteSet(S \cup {x})
           /\ SumFunctionOnSet(f, S \cup {x}) = f[x] + SumFunctionOnSet(f, S)
<1>1. IsFiniteSet(S \cup {x}) /\ (S \cup {x}) \ {x} = S
    BY FS_AddElement
<1> QED
    BY <1>1, SumSplit

\* The sum over no element.
LEMMA SumEmpty ==
    ASSUME NEW f
    PROVE  SumFunctionOnSet(f, {}) = 0
    BY SumRecursion, FS_EmptySet
=============================================================================

----------------------------- MODULE FoldLemmas -----------------------------
(***************************************************************************)
(* Induction and recursion over numbers and finite sets, stated with sets  *)
(* and functions where textbooks have predicates and operators, so that    *)
(* they can be cited wherever a fold or a recursive function is used.      *)
(***************************************************************************)
EXTENDS Naturals, FiniteSets, Functions, FiniteSetTheorems, WellFoundedInduction, TLAPS

LEMMA LeastNatural == ASSUME NEW S, S \subseteq Nat, S # {} PROVE \E n \in S : \A m \in S : n <= m
<1>1. PICK n \in S : \A m \in S : ~(<<m, n>> \in OpToRel(<, Nat))
    BY WFMin, NatLessThanWellFounded
<1>2. ASSUME NEW m \in S PROVE n <= m
    <2>1. ~(m < n)
        BY <1>1 DEF OpToRel
    <2> QED BY <2>1
<1> QED BY <1>2

(* A set of numbers that contains 0, and the successor of what it contains,*)
(* contains every number.                                                  *)
LEMMA NumberInduction ==
    ASSUME NEW G, 0 \in G, \A n \in Nat : n \in G => n + 1 \in G
    PROVE  Nat \subseteq G
<1> DEFINE Bad == Nat \ G
<1> SUFFICES ASSUME Bad # {} PROVE FALSE
    OBVIOUS
<1>1. PICK n \in Bad : \A m \in Bad : n <= m
    BY LeastNatural
<1>2. n # 0 /\ n - 1 \in Nat /\ n - 1 + 1 = n
    OBVIOUS
<1>3. n - 1 \in G
    BY <1>1, <1>2
<1> QED BY <1>2, <1>3

(* The same for the subsets of a finite set.                               *)
LEMMA SubsetInduction ==
    ASSUME NEW U, IsFiniteSet(U), NEW G, {} \in G,
           \A S \in SUBSET U : S # {} /\ (\A x \in S : S \ {x} \in G) => S \in G
    PROVE  SUBSET U \subseteq G
<1> DEFINE H == {n \in Nat : \A S \in SUBSET U : Cardinality(S) = n => S \in G}
<1>1. 0 \in H
    BY FS_Subset, FS_EmptySet
<1>2. ASSUME NEW n \in Nat, n \in H PROVE n + 1 \in H
    <2> SUFFICES ASSUME NEW S \in SUBSET U, Cardinality(S) = n + 1 PROVE S \in G
        OBVIOUS
    <2>1. S # {} /\ IsFiniteSet(S)
        BY FS_Subset, FS_EmptySet
    <2>2. ASSUME NEW x \in S PROVE S \ {x} \in G
        <3>1. Cardinality(S \ {x}) = Cardinality(S) - 1
            BY <2>1, FS_RemoveElement
        <3>2. Cardinality(S \ {x}) = n /\ S \ {x} \in SUBSET U
            BY <3>1
        <3> QED BY <1>2, <3>2
    <2> QED BY <2>1, <2>2
<1>3. Nat \subseteq H
    <2> HIDE DEF H
    <2> QED BY <1>1, <1>2, NumberInduction
<1> QED BY <1>3, FS_Subset, FS_CardinalityType

(* f takes one element after the other out of a subset of U, as pick says, *)
(* and makes a step with each, from base on.                               *)
Picks(pick, U) == \A S \in SUBSET U : S # {} => pick[S] \in S

IsFold(f, U, V, base, step, pick) ==
    /\ f \in [SUBSET U -> V]
    /\ \A S \in SUBSET U : f[S] = IF S = {} THEN base ELSE step[<<pick[S], f[S \ {pick[S]}]>>]

(* There is such a function, whatever the steps are.                       *)
LEMMA SubsetRecursion ==
    ASSUME NEW U, IsFiniteSet(U), NEW V, NEW base \in V, NEW step \in [U \X V -> V],
           NEW pick, Picks(pick, U)
    PROVE  \E f : IsFold(f, U, V, base, step, pick)
<1> USE DEF Picks
<1> DEFINE Value(f, S) == IF S = {} THEN base ELSE step[<<pick[S], f[S \ {pick[S]}]>>]
           Good(f, n) == \A S \in SUBSET U : Cardinality(S) <= n => f[S] = Value(f, S)
           G == {n \in Nat : \E f \in [SUBSET U -> V] : Good(f, n)}
<1>1. \A S \in SUBSET U : IsFiniteSet(S) /\ Cardinality(S) \in Nat /\ Cardinality(S) <= Cardinality(U)
    BY FS_Subset, FS_CardinalityType
<1>2. ASSUME NEW S \in SUBSET U, S # {}
      PROVE  /\ S \ {pick[S]} \in SUBSET U /\ pick[S] \in U
             /\ Cardinality(S \ {pick[S]}) = Cardinality(S) - 1
    BY <1>1, <1>2, FS_RemoveElement
<1>3. 0 \in G
    <2>1. [S \in SUBSET U |-> base] \in [SUBSET U -> V]
        OBVIOUS
    <2>2. \A S \in SUBSET U : Cardinality(S) <= 0 => S = {}
        BY <1>1, FS_EmptySet
    <2> QED BY <2>1, <2>2
<1>4. ASSUME NEW n \in Nat, n \in G PROVE n + 1 \in G
    <2>1. PICK f \in [SUBSET U -> V] : Good(f, n)
        BY <1>4
    <2> DEFINE g == [S \in SUBSET U |-> IF Cardinality(S) <= n THEN f[S] ELSE Value(f, S)]
    <2>2. g \in [SUBSET U -> V]
        BY <1>2
    <2>3. ASSUME NEW S \in SUBSET U, Cardinality(S) <= n + 1 PROVE g[S] = Value(g, S)
        <3>1. CASE S = {}
            BY <3>1, <2>1
        <3>2. CASE S # {}
            <4>1. g[S \ {pick[S]}] = f[S \ {pick[S]}]
                BY <1>1, <1>2, <2>3, <3>2
            <4>2. g[S] = Value(f, S)
                BY <2>1
            <4> QED BY <3>2, <4>1, <4>2
        <3> QED BY <3>1, <3>2
    <2>4. Good(g, n + 1)
        BY <2>3
    <2>5. \E k \in [SUBSET U -> V] : Good(k, n + 1)
        <3> HIDE DEF g, Good
        <3> QED BY <2>2, <2>4
    <2>6. n + 1 \in Nat
        OBVIOUS
    <2> HIDE DEF Good
    <2> QED BY <2>5, <2>6
<1>5. Nat \subseteq G
    <2> HIDE DEF G
    <2> QED BY <1>3, <1>4, NumberInduction
<1>6. PICK f \in [SUBSET U -> V] : Good(f, Cardinality(U))
    BY <1>1, <1>5
<1>7. \A S \in SUBSET U : f[S] = Value(f, S)
    BY <1>1, <1>6
<1> QED BY <1>7 DEF IsFold

-----------------------------------------------------------------------------
(* Sums.  The sum takes the elements out in some order; a function that    *)
(* says what is left after each is all that is needed of it.               *)

Anyone(S) == CHOOSE x \in S : TRUE

IsSum(total, f, D) ==
    /\ total \in [SUBSET D -> Nat]
    /\ total[{}] = 0
    /\ \A S \in SUBSET D : S # {} => total[S] = f[Anyone(S)] + total[S \ {Anyone(S)}]

LEMMA SumUnfolds ==
    ASSUME NEW D, IsFiniteSet(D), NEW f \in [D -> Nat]
    PROVE  \E total : IsSum(total, f, D) /\ SumFunction(f) = total[D]
<1> DEFINE step == [p \in D \X Nat |-> f[p[1]] + p[2]]
           pick == [S \in SUBSET D |-> Anyone(S)]
           Body(g) == [S \in SUBSET D |-> IF S = {} THEN 0 ELSE f[Anyone(S)] + g[S \ {Anyone(S)}]]
           fold == CHOOSE g : g = Body(g)
<1>1. \A S \in SUBSET D : S # {} => Anyone(S) \in S
    BY DEF Anyone
<1>2. step \in [D \X Nat -> Nat] /\ Picks(pick, D)
    BY <1>1 DEF Picks
<1>3. PICK g : IsFold(g, D, Nat, 0, step, pick)
    <2> HIDE DEF step, pick
    <2> QED BY <1>2, SubsetRecursion
<1>4. /\ g \in [SUBSET D -> Nat]
      /\ \A S \in SUBSET D : g[S] = IF S = {} THEN 0 ELSE f[Anyone(S)] + g[S \ {Anyone(S)}]
    BY <1>1, <1>3 DEF IsFold
<1>5. g = Body(g)
    BY <1>4
<1>6. fold = Body(fold)
    BY <1>5
<1>7. SumFunction(f) = fold[D]
    BY DEF SumFunction, SumFunctionOnSet, FoldFunctionOnSet, MapThenFoldSet, Anyone
<1>8. fold[{}] = 0 /\ \A S \in SUBSET D : S # {} => fold[S] = f[Anyone(S)] + fold[S \ {Anyone(S)}]
    <2> HIDE DEF fold
    <2> QED BY <1>6
<1>9. fold \in [SUBSET D -> Nat]
    <2> DEFINE K == {S \in SUBSET D : fold[S] \in Nat}
    <2> HIDE DEF fold
    <2>1. {} \in K
        BY <1>8
    <2>2. ASSUME NEW S \in SUBSET D, S # {}, \A x \in S : S \ {x} \in K PROVE S \in K
        <3>1. Anyone(S) \in D /\ fold[S \ {Anyone(S)}] \in Nat
            BY <1>1, <2>2
        <3> QED BY <1>8, <2>2, <3>1
    <2>3. SUBSET D \subseteq K
        <3> HIDE DEF K
        <3> QED BY <2>1, <2>2, SubsetInduction, Zenon
    <2> QED BY <1>6, <2>3
<1> QED
    <2> HIDE DEF fold
    <2> QED BY <1>7, <1>8, <1>9 DEF IsSum

LEMMA SumType ==
    ASSUME NEW D, IsFiniteSet(D), NEW f \in [D -> Nat]
    PROVE  SumFunction(f) \in Nat
<1>1. PICK total : IsSum(total, f, D) /\ SumFunction(f) = total[D]
    BY SumUnfolds
<1> QED BY <1>1 DEF IsSum

(* When one value changes the sum changes by as much.                      *)
LEMMA SumChanges ==
    ASSUME NEW D, IsFiniteSet(D), NEW f \in [D -> Nat], NEW g \in [D -> Nat], NEW x \in D,
           \A y \in D \ {x} : f[y] = g[y]
    PROVE  SumFunction(g) + f[x] = SumFunction(f) + g[x]
<1>1. PICK F : IsSum(F, f, D) /\ SumFunction(f) = F[D]
    BY SumUnfolds
<1>2. PICK G : IsSum(G, g, D) /\ SumFunction(g) = G[D]
    BY SumUnfolds
<1> DEFINE K == {S \in SUBSET D : IF x \in S THEN G[S] + f[x] = F[S] + g[x] ELSE G[S] = F[S]}
<1>3. {} \in K
    BY <1>1, <1>2 DEF IsSum
<1>4. ASSUME NEW S \in SUBSET D, S # {}, \A y \in S : S \ {y} \in K PROVE S \in K
    <2>1. PICK a \in S : a = Anyone(S)
        BY <1>4 DEF Anyone
    <2>2. PICK T \in SUBSET D : T = S \ {a}
        OBVIOUS
    <2>3. /\ F[S] = f[a] + F[T] /\ G[S] = g[a] + G[T]
          /\ F[T] \in Nat /\ G[T] \in Nat /\ f[a] \in Nat /\ g[a] \in Nat /\ f[x] \in Nat /\ g[x] \in Nat
        BY <1>1, <1>2, <1>4, <2>1, <2>2 DEF IsSum
    <2>4. T \in K
        BY <1>4, <2>2
    <2>5. CASE a = x
        BY <2>2, <2>3, <2>4, <2>5
    <2>6. CASE a # x
        BY <2>2, <2>3, <2>4, <2>6
    <2> QED BY <2>5, <2>6
<1>5. SUBSET D \subseteq K
    <2> HIDE DEF K
    <2> QED BY <1>3, <1>4, SubsetInduction, Zenon
<1> QED BY <1>1, <1>2, <1>5

LEMMA SumOfNothing ==
    ASSUME NEW D, IsFiniteSet(D), NEW f \in [D -> Nat], \A x \in D : f[x] = 0
    PROVE  SumFunction(f) = 0
<1>1. PICK F : IsSum(F, f, D) /\ SumFunction(f) = F[D]
    BY SumUnfolds
<1> DEFINE K == {S \in SUBSET D : F[S] = 0}
<1>2. {} \in K
    BY <1>1 DEF IsSum
<1>3. ASSUME NEW S \in SUBSET D, S # {}, \A y \in S : S \ {y} \in K PROVE S \in K
    <2>1. Anyone(S) \in S
        BY <1>3 DEF Anyone
    <2>2. F[S] = f[Anyone(S)] + F[S \ {Anyone(S)}] /\ F[S \ {Anyone(S)}] = 0
        BY <1>1, <1>3, <2>1 DEF IsSum
    <2> QED BY <2>1, <2>2
<1>4. SUBSET D \subseteq K
    <2> HIDE DEF K
    <2> QED BY <1>2, <1>3, SubsetInduction, Zenon
<1> QED BY <1>1, <1>4
=============================================================================

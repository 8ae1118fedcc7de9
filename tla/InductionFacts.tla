---------------------------- MODULE InductionFacts ----------------------------
(***************************************************************************)
(* Induction over the natural numbers and over the subsets of a finite     *)
(* set, so that it can be used without a second-order argument: a property *)
(* is passed as the set of the numbers, or of the subsets, that have it.   *)
(* Then sums over finite sets (SumFunctionOnSet of the community modules): *)
(* that they exist, that any element can be taken out of one, and how they *)
(* compare.                                                                *)
(***************************************************************************)
EXTENDS Integers, Functions, FiniteSetTheorems, WellFoundedInduction, TLAPS

(* A nonempty set of natural numbers has a least element. *)
LEMMA LeastNatural ==
    ASSUME NEW T, T \subseteq Nat, T # {}
    PROVE  \E x \in T : \A y \in T : x <= y
<1>1. \E x \in T : \A y \in T : ~(<<y, x>> \in OpToRel(<, Nat))
    BY WFMin, NatLessThanWellFounded, Zenon
<1>2. PICK x \in T : \A y \in T : ~(<<y, x>> \in OpToRel(<, Nat))
    BY <1>1
<1>3. \A y \in T : ~(y < x)
    BY <1>2 DEF OpToRel
<1>4. ASSUME NEW y \in T PROVE x <= y
    <2>1. x \in Nat /\ y \in Nat
        BY <1>2
    <2>2. QED
        BY <1>3, <2>1
<1>5. QED
    BY <1>2, <1>4

(* A set with zero and the successor of each of its members has them all. *)
LEMMA SetInduction ==
    ASSUME NEW T, T \subseteq Nat, 0 \in T, \A n \in T : n + 1 \in T
    PROVE  T = Nat
<1>1. SUFFICES ASSUME Nat \ T # {} PROVE FALSE
    OBVIOUS
<1>2. PICK x \in Nat \ T : \A y \in Nat \ T : x <= y
    <2>1. Nat \ T \subseteq Nat
        OBVIOUS
    <2>2. QED
        BY <1>1, <2>1, LeastNatural, Zenon
<1>3. x # 0
    BY <1>2
<1>4. x - 1 \in Nat /\ x - 1 \notin Nat \ T
    BY <1>2, <1>3
<1>5. QED
    BY <1>2, <1>4

------------------------------------------------------------------------------
(* Induction over a finite set, with the property as the set of the        *)
(* subsets that have it.                                                   *)
LEMMA SubsetInduction ==
    ASSUME NEW U, IsFiniteSet(U), NEW P, {} \in P,
           \A S \in SUBSET U : S \in P => \A x \in U \ S : S \cup {x} \in P
    PROVE  SUBSET U \subseteq P
<1> DEFINE T == {n \in Nat : \A S \in SUBSET U : Cardinality(S) = n => S \in P}
<1>1. \A S \in SUBSET U : IsFiniteSet(S) /\ Cardinality(S) \in Nat
    BY FS_Subset, FS_CardinalityType
<1>2. 0 \in T
    BY <1>1, FS_EmptySet
<1>3. ASSUME NEW n \in T PROVE n + 1 \in T
    <2>1. SUFFICES ASSUME NEW S \in SUBSET U, Cardinality(S) = n + 1
                   PROVE  S \in P
        OBVIOUS
    <2>2. S # {}
        BY <1>3, <2>1, FS_EmptySet
    <2>3. PICK x \in S : TRUE
        BY <2>2
    <2>4. Cardinality(S \ {x}) = n
        BY <1>1, <1>3, <2>1, FS_RemoveElement
    <2>5. S \ {x} \in P
        BY <1>3, <2>4
    <2>6. S = (S \ {x}) \cup {x} /\ S \ {x} \in SUBSET U /\ x \in U \ (S \ {x})
        OBVIOUS
    <2>7. QED
        BY <2>5, <2>6
<1>4. T = Nat
    <2>1. T \subseteq Nat
        OBVIOUS
    <2> HIDE DEF T
    <2>2. QED
        BY <1>2, <1>3, <2>1, SetInduction
<1>5. QED
    BY <1>1, <1>4

(* One element of a set, the one a sum takes first.                        *)
First(S) == CHOOSE x \in S : TRUE

(* `sum` gives, for every subset of U, the sum of f over it.               *)
Sums(f, U, sum) ==
    sum = [S \in SUBSET U |-> IF S = {} THEN 0
                              ELSE f[First(S)] + sum[S \ {First(S)}]]

Addends(f, U) == \A x \in U : f[x] \in Nat

LEMMA FirstIn == ASSUME NEW S, S # {} PROVE First(S) \in S
BY DEF First

(* Sums exist: those of the sets of up to n + 1 elements come from those   *)
(* of the sets of up to n.                                                 *)
LEMMA SumsExist ==
    ASSUME NEW U, IsFiniteSet(U), NEW f, Addends(f, U)
    PROVE  \E sum \in [SUBSET U -> Nat] : Sums(f, U, sum)
<1> DEFINE Upto(n) == {S \in SUBSET U : Cardinality(S) <= n}
           Good(n, g) == \A S \in Upto(n) :
                g[S] = IF S = {} THEN 0 ELSE f[First(S)] + g[S \ {First(S)}]
           T == {n \in Nat : \E g \in [Upto(n) -> Nat] : Good(n, g)}
<1>1. \A S \in SUBSET U : IsFiniteSet(S) /\ Cardinality(S) \in Nat
    BY FS_Subset, FS_CardinalityType
<1>2. \A S \in SUBSET U : Cardinality(S) = 0 <=> S = {}
    BY <1>1, FS_EmptySet
<1>3. ASSUME NEW S \in SUBSET U, S # {}
      PROVE  /\ First(S) \in S /\ f[First(S)] \in Nat
             /\ S \ {First(S)} \in SUBSET U
             /\ Cardinality(S \ {First(S)}) = Cardinality(S) - 1
    BY <1>1, <1>3, FirstIn, FS_RemoveElement DEF Addends
<1>4. 0 \in T
    <2> DEFINE g == [S \in Upto(0) |-> 0]
    <2>1. \A S \in Upto(0) : S = {}
        BY <1>1, <1>2
    <2>2. g \in [Upto(0) -> Nat] /\ Good(0, g)
        BY <2>1
    <2>3. QED
        BY <2>2
<1>5. ASSUME NEW n \in T PROVE n + 1 \in T
    <2>1. PICK g \in [Upto(n) -> Nat] : Good(n, g)
        BY <1>5
    <2> DEFINE h == [S \in Upto(n + 1) |->
                        IF S = {} THEN 0 ELSE f[First(S)] + g[S \ {First(S)}]]
    <2>2. n \in Nat
        BY <1>5
    <2>3. ASSUME NEW S \in Upto(n + 1), S # {}
          PROVE  S \ {First(S)} \in Upto(n)
        BY <1>1, <1>3, <2>2, <2>3
    <2>4. h \in [Upto(n + 1) -> Nat]
        <3>1. ASSUME NEW S \in Upto(n + 1)
              PROVE  (IF S = {} THEN 0 ELSE f[First(S)] + g[S \ {First(S)}])
                        \in Nat
            BY <1>3, <2>1, <2>3
        <3>2. QED
            BY <3>1
    <2>5. \A S \in Upto(n) : S \in Upto(n + 1) /\ h[S] = g[S]
        <3>1. \A S \in Upto(n) : S \in Upto(n + 1)
            BY <1>1, <2>2
        <3>2. QED
            BY <2>1, <3>1
    <2>6. Good(n + 1, h)
        <3>1. ASSUME NEW S \in Upto(n + 1), S # {}
              PROVE  h[S] = f[First(S)] + h[S \ {First(S)}]
            <4>1. h[S] = f[First(S)] + g[S \ {First(S)}]
                BY <3>1
            <4> HIDE DEF h
            <4>2. QED
                BY <2>3, <2>5, <3>1, <4>1
        <3>2. QED
            BY <3>1
    <2> HIDE DEF h, Upto, Good
    <2>7. \E k \in [Upto(n + 1) -> Nat] : Good(n + 1, k)
        BY <2>4, <2>6
    <2>8. QED
        BY <2>2, <2>7
<1>6. T = Nat
    <2>1. T \subseteq Nat
        OBVIOUS
    <2> HIDE DEF T
    <2>2. QED
        BY <1>4, <1>5, <2>1, SetInduction
<1>7. Cardinality(U) \in T
    BY <1>1, <1>6
<1>8. PICK g \in [Upto(Cardinality(U)) -> Nat] : Good(Cardinality(U), g)
    BY <1>7
<1>9. Upto(Cardinality(U)) = SUBSET U
    BY <1>1, FS_Subset
<1>10. g \in [SUBSET U -> Nat]
    BY <1>8, <1>9
<1>11. Sums(f, U, g)
    <2>1. \A S \in SUBSET U :
              g[S] = IF S = {} THEN 0 ELSE f[First(S)] + g[S \ {First(S)}]
        BY <1>8, <1>9
    <2>2. QED
        BY <1>10, <2>1 DEF Sums
<1>12. QED
    BY <1>10, <1>11

LEMMA SumUnfolds ==
    ASSUME NEW f, NEW U, NEW g, Sums(f, U, g)
    PROVE  \E sum : Sums(f, U, sum) /\ SumFunctionOnSet(f, U) = sum[U]
<1> DEFINE it == CHOOSE sum : Sums(f, U, sum)
<1>1. Sums(f, U, it)
    OBVIOUS
<1>2. SumFunctionOnSet(f, U) = it[U]
    BY DEF SumFunctionOnSet, FoldFunctionOnSet, MapThenFoldSet, Sums, First
<1>3. QED
    BY <1>1, <1>2

(* Whatever the universe, a set has one sum.                               *)
LEMMA SumsAgree ==
    ASSUME NEW U, IsFiniteSet(U), NEW W, NEW f, NEW g, NEW h,
           Sums(f, U, g), Sums(f, W, h), NEW V, V \subseteq U, V \subseteq W
    PROVE  g[V] = h[V]
<1> DEFINE T == {n \in Nat : \A S \in SUBSET U :
                    S \subseteq W /\ Cardinality(S) = n => g[S] = h[S]}
<1>1. \A S \in SUBSET U : IsFiniteSet(S) /\ Cardinality(S) \in Nat
    BY FS_Subset, FS_CardinalityType
<1>2. \A S \in SUBSET U : Cardinality(S) = 0 <=> S = {}
    BY <1>1, FS_EmptySet
<1>3. \A S \in SUBSET U :
          g[S] = IF S = {} THEN 0 ELSE f[First(S)] + g[S \ {First(S)}]
    BY DEF Sums
<1>4. \A S \in SUBSET W :
          h[S] = IF S = {} THEN 0 ELSE f[First(S)] + h[S \ {First(S)}]
    BY DEF Sums
<1>5. 0 \in T
    BY <1>2, <1>3, <1>4
<1>6. ASSUME NEW n \in T PROVE n + 1 \in T
    <2>1. SUFFICES ASSUME NEW S \in SUBSET U, S \subseteq W,
                          Cardinality(S) = n + 1
                   PROVE  g[S] = h[S]
        BY <1>6
    <2>2. S # {}
        BY <1>2, <1>6, <2>1
    <2> DEFINE R == S \ {First(S)}
    <2>17. First(S) \in S /\ IsFiniteSet(S)
        BY <1>1, <2>2, FirstIn
    <2>18. Cardinality(R) = Cardinality(S) - 1
        BY <2>17, FS_RemoveElement
    <2>3. R \in SUBSET U /\ R \subseteq W /\ Cardinality(R) = n
        BY <1>6, <2>1, <2>18
    <2>4. g[R] = h[R]
        BY <1>6, <2>3
    <2>5. QED
        BY <1>3, <1>4, <2>1, <2>2, <2>4
<1>7. T = Nat
    <2>1. T \subseteq Nat
        OBVIOUS
    <2> HIDE DEF T
    <2>2. QED
        BY <1>5, <1>6, <2>1, SetInduction
<1>8. Cardinality(V) \in T
    BY <1>1, <1>7
<1>9. QED
    BY <1>8

(* All sums over subsets of U at once.                                     *)
Totals(f, U, sum) ==
    /\ sum \in [SUBSET U -> Nat]
    /\ Sums(f, U, sum)
    /\ \A S \in SUBSET U : SumFunctionOnSet(f, S) = sum[S]

LEMMA SumIs ==
    ASSUME NEW U, IsFiniteSet(U), NEW f, Addends(f, U)
    PROVE  \E sum : Totals(f, U, sum)
<1>1. PICK g \in [SUBSET U -> Nat] : Sums(f, U, g)
    BY SumsExist
<1>2. ASSUME NEW S \in SUBSET U PROVE SumFunctionOnSet(f, S) = g[S]
    <2>1. IsFiniteSet(S) /\ Addends(f, S)
        BY FS_Subset DEF Addends
    <2>2. PICK k : Sums(f, S, k)
        BY <2>1, SumsExist
    <2>3. PICK h : Sums(f, S, h) /\ SumFunctionOnSet(f, S) = h[S]
        BY <2>2, SumUnfolds
    <2>4. h[S] = g[S]
        BY <1>1, <2>1, <2>3, SumsAgree
    <2>5. QED
        BY <2>3, <2>4
<1>3. Totals(f, U, g)
    BY <1>1, <1>2 DEF Totals
<1>4. QED
    BY <1>3

(* Taking any element out of a sum.                                        *)
LEMMA SumTakes ==
    ASSUME NEW U, IsFiniteSet(U), NEW f, Addends(f, U)
    PROVE  /\ SumFunctionOnSet(f, U) \in Nat
           /\ SumFunctionOnSet(f, {}) = 0
           /\ \A x \in U : SumFunctionOnSet(f, U)
                              = f[x] + SumFunctionOnSet(f, U \ {x})
<1>0. PICK g : Totals(f, U, g)
    BY SumIs
<1>1. /\ g \in [SUBSET U -> Nat]
      /\ Sums(f, U, g)
      /\ \A S \in SUBSET U : SumFunctionOnSet(f, S) = g[S]
    BY <1>0 DEF Totals
<1>2. \A S \in SUBSET U :
          g[S] = IF S = {} THEN 0 ELSE f[First(S)] + g[S \ {First(S)}]
    BY <1>1 DEF Sums
<1>13. \A S \in SUBSET U : g[S] \in Nat
    BY <1>1
<1> DEFINE T == {n \in Nat : \A S \in SUBSET U : Cardinality(S) = n =>
                    \A x \in S : g[S] = f[x] + g[S \ {x}]}
<1>3. \A S \in SUBSET U : IsFiniteSet(S) /\ Cardinality(S) \in Nat
    BY FS_Subset, FS_CardinalityType
<1>4. 0 \in T
    BY <1>3, FS_EmptySet
<1>5. ASSUME NEW n \in T PROVE n + 1 \in T
    <2>1. SUFFICES ASSUME NEW S \in SUBSET U, Cardinality(S) = n + 1,
                          NEW x \in S
                   PROVE  g[S] = f[x] + g[S \ {x}]
        <3>1. n + 1 \in Nat
            BY <1>5
        <3>2. QED
            BY <3>1, Zenon
    <2> DEFINE y == First(S)
    <2>2. y \in S /\ g[S] = f[y] + g[S \ {y}]
        BY <1>2, FirstIn
    <2> HIDE DEF y
    <2>3. CASE x = y
        BY <2>2, <2>3
    <2>4. CASE x # y
        <3>1. /\ S \ {x} \in SUBSET U /\ Cardinality(S \ {x}) = n
              /\ S \ {y} \in SUBSET U /\ Cardinality(S \ {y}) = n
            BY <1>3, <1>5, <2>1, <2>2, FS_RemoveElement
        <3>2. g[S \ {x}] = f[y] + g[(S \ {x}) \ {y}]
            BY <1>5, <2>2, <2>4, <3>1
        <3>3. g[S \ {y}] = f[x] + g[(S \ {y}) \ {x}]
            BY <1>5, <2>4, <3>1
        <3>4. (S \ {x}) \ {y} = (S \ {y}) \ {x}
            OBVIOUS
        <3>5. f[x] \in Nat /\ f[y] \in Nat
            BY <2>1, <2>2 DEF Addends
        <3>14. (S \ {y}) \ {x} \in SUBSET U
            BY <2>1
        <3>15. g[(S \ {y}) \ {x}] \in Nat
            BY <1>13, <3>14
        <3>16. g[(S \ {x}) \ {y}] = g[(S \ {y}) \ {x}]
            BY <3>4, Zenon
        <3>6. QED
            BY <2>2, <3>2, <3>3, <3>5, <3>15, <3>16
    <2>5. QED
        BY <2>3, <2>4
<1>6. T = Nat
    <2>1. T \subseteq Nat
        OBVIOUS
    <2> HIDE DEF T
    <2>2. QED
        BY <1>4, <1>5, <2>1, SetInduction
<1>7. Cardinality(U) \in T
    BY <1>3, <1>6
<1>8. \A x \in U : g[U] = f[x] + g[U \ {x}]
    BY <1>7
<1>9. g[{}] = 0 /\ g[U] \in Nat
    BY <1>1, <1>2
<1>10. QED
    BY <1>1, <1>8, <1>9

(* Putting an element in.                                                  *)
LEMMA SumAdd ==
    ASSUME NEW U, IsFiniteSet(U), NEW f, Addends(f, U),
           NEW V \in SUBSET U, NEW x \in U \ V
    PROVE  /\ SumFunctionOnSet(f, V) \in Nat
           /\ SumFunctionOnSet(f, V \cup {x}) = f[x] + SumFunctionOnSet(f, V)
<1>1. /\ V \cup {x} \in SUBSET U
      /\ x \in V \cup {x}
      /\ (V \cup {x}) \ {x} = V
    OBVIOUS
<1>2. /\ IsFiniteSet(V \cup {x}) /\ Addends(f, V \cup {x})
      /\ IsFiniteSet(V) /\ Addends(f, V)
    BY <1>1, FS_Subset DEF Addends
<1>3. SumFunctionOnSet(f, V) \in Nat
    BY <1>2, SumTakes
<1>4. SumFunctionOnSet(f, V \cup {x})
          = f[x] + SumFunctionOnSet(f, (V \cup {x}) \ {x})
    BY <1>1, <1>2, SumTakes
<1>5. QED
    BY <1>1, <1>3, <1>4

(* A part of a sum, of smaller addends.                                    *)
LEMMA SumLeq ==
    ASSUME NEW U, IsFiniteSet(U), NEW S \in SUBSET U, NEW f, NEW g,
           Addends(f, S), Addends(g, U), \A x \in S : f[x] <= g[x]
    PROVE  SumFunctionOnSet(f, S) <= SumFunctionOnSet(g, U)
<1> DEFINE P == {V \in SUBSET U :
                    SumFunctionOnSet(f, V \cap S) <= SumFunctionOnSet(g, V)}
<1>1. {} \in P
    <2>1. SumFunctionOnSet(f, {}) = 0 /\ SumFunctionOnSet(g, {}) = 0
        BY FS_Subset, SumTakes
    <2>2. {} \cap S = {}
        OBVIOUS
    <2>3. QED
        BY <2>1, <2>2
<1>2. ASSUME NEW V \in SUBSET U, V \in P, NEW x \in U \ V
      PROVE  V \cup {x} \in P
    <2>1. /\ SumFunctionOnSet(g, V) \in Nat
          /\ SumFunctionOnSet(g, V \cup {x}) = g[x] + SumFunctionOnSet(g, V)
        BY SumAdd
    <2>2. SumFunctionOnSet(f, V \cap S) <= SumFunctionOnSet(g, V)
        BY <1>2
    <2>3. g[x] \in Nat
        BY DEF Addends
    <2>4. CASE x \in S
        <3>1. /\ V \cap S \in SUBSET S /\ x \in S \ (V \cap S)
              /\ (V \cup {x}) \cap S = (V \cap S) \cup {x}
              /\ IsFiniteSet(S)
            BY <2>4, FS_Subset
        <3>14. SumFunctionOnSet(f, V \cap S) \in Nat
            BY <3>1, SumAdd
        <3>15. SumFunctionOnSet(f, (V \cap S) \cup {x})
                  = f[x] + SumFunctionOnSet(f, V \cap S)
            BY <3>1, SumAdd
        <3>2. /\ SumFunctionOnSet(f, V \cap S) \in Nat
              /\ SumFunctionOnSet(f, (V \cap S) \cup {x})
                    = f[x] + SumFunctionOnSet(f, V \cap S)
            BY <3>14, <3>15
        <3>3. f[x] \in Nat /\ f[x] <= g[x]
            BY <2>4 DEF Addends
        <3>4. SumFunctionOnSet(f, (V \cap S) \cup {x})
                  <= SumFunctionOnSet(g, V \cup {x})
            BY <2>1, <2>2, <2>3, <3>2, <3>3
        <3>5. QED
            BY <3>1, <3>4
    <2>5. CASE x \notin S
        <3>1. /\ (V \cup {x}) \cap S = V \cap S
              /\ IsFiniteSet(V \cap S) /\ Addends(f, V \cap S)
            BY <2>5, FS_Subset DEF Addends
        <3>2. SumFunctionOnSet(f, V \cap S) \in Nat
            BY <3>1, SumTakes
        <3>3. SumFunctionOnSet(f, V \cap S)
                  <= SumFunctionOnSet(g, V \cup {x})
            BY <2>1, <2>2, <2>3, <3>2
        <3>4. QED
            BY <3>1, <3>3
    <2>6. QED
        BY <2>4, <2>5
<1> HIDE DEF P
<1>3. SUBSET U \subseteq P
    BY <1>1, <1>2, SubsetInduction
<1>4. U \in P
    BY <1>3
<1>5. U \cap S = S
    OBVIOUS
<1>6. QED
    BY <1>4, <1>5 DEF P

LEMMA SumSame ==
    ASSUME NEW U, IsFiniteSet(U), NEW f, NEW g, Addends(f, U),
           \A x \in U : f[x] = g[x]
    PROVE  SumFunctionOnSet(f, U) = SumFunctionOnSet(g, U)
<1>1. /\ Addends(g, U) /\ U \in SUBSET U
      /\ \A x \in U : f[x] <= g[x] /\ g[x] <= f[x]
    BY DEF Addends
<1>2. /\ SumFunctionOnSet(f, U) <= SumFunctionOnSet(g, U)
      /\ SumFunctionOnSet(g, U) <= SumFunctionOnSet(f, U)
    BY <1>1, SumLeq
<1>3. SumFunctionOnSet(f, U) \in Nat /\ SumFunctionOnSet(g, U) \in Nat
    BY <1>1, SumTakes
<1>4. QED
    BY <1>2, <1>3

(* A sum is one over more, with zeros.                                     *)
LEMMA SumExtend ==
    ASSUME NEW U, IsFiniteSet(U), NEW S \in SUBSET U, NEW f, NEW g,
           Addends(f, S),
           \A x \in U : g[x] = IF x \in S THEN f[x] ELSE 0
    PROVE  SumFunctionOnSet(f, S) = SumFunctionOnSet(g, U)
<1> DEFINE P == {V \in SUBSET U :
                    SumFunctionOnSet(f, V \cap S) = SumFunctionOnSet(g, V)}
<1>0. Addends(g, U)
    BY DEF Addends
<1>1. {} \in P
    <2>1. SumFunctionOnSet(f, {}) = 0 /\ SumFunctionOnSet(g, {}) = 0
        BY <1>0, FS_Subset, SumTakes
    <2>2. {} \cap S = {}
        OBVIOUS
    <2>3. QED
        BY <2>1, <2>2
<1>2. ASSUME NEW V \in SUBSET U, V \in P, NEW x \in U \ V
      PROVE  V \cup {x} \in P
    <2>1. /\ SumFunctionOnSet(g, V) \in Nat
          /\ SumFunctionOnSet(g, V \cup {x}) = g[x] + SumFunctionOnSet(g, V)
        BY <1>0, SumAdd
    <2>2. SumFunctionOnSet(f, V \cap S) = SumFunctionOnSet(g, V)
        BY <1>2
    <2>4. CASE x \in S
        <3>1. /\ V \cap S \in SUBSET S /\ x \in S \ (V \cap S)
              /\ (V \cup {x}) \cap S = (V \cap S) \cup {x}
              /\ IsFiniteSet(S)
            BY <2>4, FS_Subset
        <3>2. SumFunctionOnSet(f, (V \cap S) \cup {x})
                    = f[x] + SumFunctionOnSet(f, V \cap S)
            BY <3>1, SumAdd
        <3>3. f[x] = g[x]
            BY <2>4
        <3>5. QED
            BY <2>1, <2>2, <3>1, <3>2, <3>3
    <2>5. CASE x \notin S
        <3>1. (V \cup {x}) \cap S = V \cap S /\ g[x] = 0
            BY <2>5
        <3>2. SumFunctionOnSet(g, V \cup {x}) = SumFunctionOnSet(g, V)
            BY <2>1, <3>1
        <3>4. QED
            BY <2>2, <3>1, <3>2
    <2>6. QED
        BY <2>4, <2>5
<1> HIDE DEF P
<1>3. SUBSET U \subseteq P
    BY <1>1, <1>2, SubsetInduction
<1>4. U \in P
    BY <1>3
<1>5. U \cap S = S
    OBVIOUS
<1>6. QED
    BY <1>4, <1>5 DEF P

LEMMA SumPlus ==
    ASSUME NEW U, IsFiniteSet(U), NEW f, NEW g, NEW h,
           Addends(f, U), Addends(g, U), \A x \in U : h[x] = f[x] + g[x]
    PROVE  SumFunctionOnSet(h, U)
              = SumFunctionOnSet(f, U) + SumFunctionOnSet(g, U)
<1> DEFINE P == {V \in SUBSET U :
                    SumFunctionOnSet(h, V)
                       = SumFunctionOnSet(f, V) + SumFunctionOnSet(g, V)}
<1>0. Addends(h, U)
    BY DEF Addends
<1>1. {} \in P
    <2>1. /\ SumFunctionOnSet(f, {}) = 0 /\ SumFunctionOnSet(g, {}) = 0
          /\ SumFunctionOnSet(h, {}) = 0
        BY <1>0, SumTakes
    <2>2. QED
        BY <2>1
<1>2. ASSUME NEW V \in SUBSET U, V \in P, NEW x \in U \ V
      PROVE  V \cup {x} \in P
    <2>1. /\ SumFunctionOnSet(f, V) \in Nat
          /\ SumFunctionOnSet(f, V \cup {x}) = f[x] + SumFunctionOnSet(f, V)
        BY SumAdd
    <2>2. /\ SumFunctionOnSet(g, V) \in Nat
          /\ SumFunctionOnSet(g, V \cup {x}) = g[x] + SumFunctionOnSet(g, V)
        BY SumAdd
    <2>3. SumFunctionOnSet(h, V \cup {x}) = h[x] + SumFunctionOnSet(h, V)
        BY <1>0, SumAdd
    <2>4. SumFunctionOnSet(h, V)
              = SumFunctionOnSet(f, V) + SumFunctionOnSet(g, V)
        BY <1>2
    <2>5. f[x] \in Nat /\ g[x] \in Nat /\ h[x] = f[x] + g[x]
        BY DEF Addends
    <2>6. SumFunctionOnSet(h, V \cup {x})
              = SumFunctionOnSet(f, V \cup {x}) + SumFunctionOnSet(g, V \cup {x})
        BY <2>1, <2>2, <2>3, <2>4, <2>5
    <2>7. QED
        BY <2>6
<1> HIDE DEF P
<1>3. SUBSET U \subseteq P
    BY <1>1, <1>2, SubsetInduction
<1>4. QED
    BY <1>3 DEF P

(* A sum is the sum of those of its parts.                                 *)
Part(f, V, key, k) == SumFunctionOnSet(f, {x \in V : key[x] = k})

LEMMA SumPart ==
    ASSUME NEW U, IsFiniteSet(U), NEW f, Addends(f, U),
           NEW K, IsFiniteSet(K), NEW key, \A x \in U : key[x] \in K
    PROVE  SumFunctionOnSet(f, U)
              = SumFunctionOnSet([k \in K |-> Part(f, U, key, k)], K)
<1> DEFINE Parts(V) == [k \in K |-> Part(f, V, key, k)]
           P == {V \in SUBSET U :
                    SumFunctionOnSet(f, V) = SumFunctionOnSet(Parts(V), K)}
<1>0. ASSUME NEW V \in SUBSET U PROVE Addends(Parts(V), K)
    <2>1. ASSUME NEW k \in K PROVE Part(f, V, key, k) \in Nat
        <3> DEFINE W == {x \in V : key[x] = k}
        <3>1. IsFiniteSet(W) /\ Addends(f, W)
            <4>1. W \subseteq U
                OBVIOUS
            <4>2. IsFiniteSet(W)
                BY <4>1, FS_Subset
            <4>3. QED
                BY <4>1, <4>2 DEF Addends
        <3> HIDE DEF W
        <3>2. SumFunctionOnSet(f, W) \in Nat
            BY <3>1, SumTakes
        <3>3. QED
            BY <3>2 DEF Part, W
    <2>2. QED
        BY <2>1 DEF Addends
<1>1. {} \in P
    <2>1. SumFunctionOnSet(f, {}) = 0
        BY SumTakes
    <2>2. ASSUME NEW k \in K PROVE Part(f, {}, key, k) = 0
        <3>1. {x \in {} : key[x] = k} = {}
            OBVIOUS
        <3>2. QED
            BY <2>1, <3>1 DEF Part
    <2>3. /\ {} \in SUBSET K
          /\ Addends(f, {})
          /\ \A k \in K : Parts({})[k] = IF k \in {} THEN f[k] ELSE 0
        BY <2>2 DEF Addends
    <2> HIDE DEF Parts
    <2>4. SumFunctionOnSet(f, {}) = SumFunctionOnSet(Parts({}), K)
        BY <2>3, SumExtend
    <2>5. QED
        BY <2>4
<1>2. ASSUME NEW V \in SUBSET U, V \in P, NEW x \in U \ V
      PROVE  V \cup {x} \in P
    <2> DEFINE a == key[x]
               W == V \cup {x}
    <2>1. /\ SumFunctionOnSet(f, V) \in Nat
          /\ SumFunctionOnSet(f, W) = f[x] + SumFunctionOnSet(f, V)
        BY SumAdd
    <2>2. a \in K /\ f[x] \in Nat /\ W \in SUBSET U
        BY DEF Addends
    <2>3. Parts(W)[a] = f[x] + Parts(V)[a]
        <3> DEFINE Y == {y \in V : key[y] = a}
        <3>1. /\ Y \in SUBSET U /\ x \in U \ Y
              /\ {y \in W : key[y] = a} = Y \cup {x}
            OBVIOUS
        <3> HIDE DEF Y
        <3>2. SumFunctionOnSet(f, Y \cup {x}) = f[x] + SumFunctionOnSet(f, Y)
            BY <3>1, SumAdd
        <3> HIDE DEF W, a
        <3>3. QED
            BY <2>2, <3>1, <3>2 DEF Part, Y
    <2>4. ASSUME NEW k \in K \ {a} PROVE Parts(W)[k] = Parts(V)[k]
        <3>1. {y \in W : key[y] = k} = {y \in V : key[y] = k}
            OBVIOUS
        <3> HIDE DEF W
        <3>2. QED
            BY <3>1 DEF Part
    <2>5. Addends(Parts(V), K) /\ Addends(Parts(W), K)
        BY <1>0, <2>2
    <2>6. SumFunctionOnSet(f, V) = SumFunctionOnSet(Parts(V), K)
        BY <1>2
    <2> HIDE DEF Parts, W, a
    <2>7. /\ SumFunctionOnSet(Parts(W), K)
                = Parts(W)[a] + SumFunctionOnSet(Parts(W), K \ {a})
          /\ SumFunctionOnSet(Parts(V), K)
                = Parts(V)[a] + SumFunctionOnSet(Parts(V), K \ {a})
        BY <2>2, <2>5, SumTakes
    <2>8. /\ IsFiniteSet(K \ {a})
          /\ Addends(Parts(V), K \ {a}) /\ Addends(Parts(W), K \ {a})
        BY <2>5, FS_Subset DEF Addends
    <2>9. /\ SumFunctionOnSet(Parts(W), K \ {a})
                = SumFunctionOnSet(Parts(V), K \ {a})
          /\ SumFunctionOnSet(Parts(V), K \ {a}) \in Nat
        BY <2>4, <2>8, SumSame, SumTakes
    <2>10. Parts(V)[a] \in Nat
        BY <2>2, <2>5 DEF Addends
    <2>11. SumFunctionOnSet(f, W) = SumFunctionOnSet(Parts(W), K)
        BY <2>1, <2>2, <2>3, <2>6, <2>7, <2>9, <2>10
    <2>12. QED
        BY <2>2, <2>11 DEF W
<1> HIDE DEF P
<1>3. SUBSET U \subseteq P
    BY <1>1, <1>2, SubsetInduction
<1>4. QED
    BY <1>3 DEF P

(* Sums over part of a function.                                           *)
LEMMA SumOf ==
    ASSUME NEW U, IsFiniteSet(U), NEW f, Addends(f, U), NEW S \in SUBSET U,
           NEW g, DOMAIN g = S, \A x \in S : g[x] = f[x]
    PROVE  /\ SumFunction(g) = SumFunctionOnSet(f, S)
           /\ SumFunctionOnSet(f, S) \in Nat
<1>1. IsFiniteSet(S) /\ Addends(f, S)
    BY FS_Subset DEF Addends
<1>2. SumFunctionOnSet(f, S) = SumFunctionOnSet(g, S)
    BY <1>1, SumSame
<1>3. SumFunctionOnSet(f, S) \in Nat
    BY <1>1, SumTakes
<1>4. QED
    BY <1>2, <1>3 DEF SumFunction

(* One addend grows.                                                       *)
LEMMA SumBump ==
    ASSUME NEW U, IsFiniteSet(U), NEW f, Addends(f, U), NEW x \in U, NEW k \in Nat,
           NEW g, g[x] = f[x] + k, \A y \in U \ {x} : g[y] = f[y]
    PROVE  SumFunctionOnSet(g, U) = SumFunctionOnSet(f, U) + k
<1>1. f[x] \in Nat /\ Addends(g, U)
    BY DEF Addends
<1>2. /\ SumFunctionOnSet(f, U) = f[x] + SumFunctionOnSet(f, U \ {x})
      /\ SumFunctionOnSet(g, U) = g[x] + SumFunctionOnSet(g, U \ {x})
    BY <1>1, SumTakes
<1>3. IsFiniteSet(U \ {x}) /\ Addends(f, U \ {x})
    BY FS_Subset DEF Addends
<1>4. SumFunctionOnSet(f, U \ {x}) = SumFunctionOnSet(g, U \ {x})
    BY <1>3, SumSame
<1>5. SumFunctionOnSet(f, U \ {x}) \in Nat
    BY <1>3, SumTakes
<1>6. QED
    BY <1>1, <1>2, <1>4, <1>5

LEMMA SumZero ==
    ASSUME NEW U, IsFiniteSet(U), NEW f, \A x \in U : f[x] = 0
    PROVE  SumFunctionOnSet(f, U) = 0
<1>1. /\ {} \in SUBSET U /\ Addends(f, {})
      /\ \A x \in U : f[x] = IF x \in {} THEN f[x] ELSE 0
    BY DEF Addends
<1>2. SumFunctionOnSet(f, {}) = SumFunctionOnSet(f, U)
    BY <1>1, SumExtend
<1>3. IsFiniteSet({})
    BY FS_EmptySet
<1>4. SumFunctionOnSet(f, {}) = 0
    BY <1>1, <1>3, SumTakes
<1>5. QED
    BY <1>2, <1>4

LEMMA SumSpot ==
    ASSUME NEW U, IsFiniteSet(U), NEW f, NEW x \in U, f[x] \in Nat,
           \A y \in U \ {x} : f[y] = 0
    PROVE  SumFunctionOnSet(f, U) = f[x]
<1> DEFINE z == [y \in U |-> 0]
<1>1. /\ \A y \in U : z[y] = 0
      /\ f[x] = z[x] + f[x] /\ \A y \in U \ {x} : f[y] = z[y]
      /\ Addends(z, U)
    BY DEF Addends
<1> HIDE DEF z
<1>2. SumFunctionOnSet(z, U) = 0
    BY <1>1, SumZero
<1>3. SumFunctionOnSet(f, U) = SumFunctionOnSet(z, U) + f[x]
    BY <1>1, SumBump
<1>4. QED
    BY <1>2, <1>3
==============================================================================

------------------------------- MODULE FoldFacts -------------------------------
(* Facts about the folds of the community modules, for the proofs of components
   that sum over a set. A fold takes its members out one by one, by a choice; the
   lemmas go by the size of the set, from the least of the sizes that would refute
   them.                                                                       *)
EXTENDS Naturals, FiniteSets, FiniteSetsExt, FiniteSetTheorems, WellFoundedInduction, TLAPS

\* A set of numbers that is not empty has a least one.
LEMMA Least ==
    ASSUME NEW T, T \subseteq Nat, T # {}
    PROVE  \E n \in T : \A m \in T : n <= m
<1> DEFINE R == OpToRel(<, Nat)
<1>1. \A x, y \in Nat : x < y => <<x, y>> \in R
    BY DEF OpToRel
<1>2. IsWellFoundedOn(R, Nat)
    BY NatLessThanWellFounded
<1> HIDE DEF R
<1>3. PICK x \in T : \A y \in T : ~ (<<y, x>> \in R)
    BY <1>2, WFMin
<1>4. ASSUME NEW m \in T PROVE x <= m
    <2>1. x \in Nat /\ m \in Nat
        OBVIOUS
    <2>2. ~(m < x)
        BY <1>1, <1>3, <2>1
    <2> QED BY <2>1, <2>2
<1> QED BY <1>4

\* The sum of the weights of the members of a set, by the fold of the library.
Total(w, s) == FoldSet(LAMBDA f, n : w[f] + n, 0, s)

\* The function g sums the weights over every set of D as that fold does: a
\* member is chosen and taken out.
Adds(w, D, g) ==
    \A s \in D : g[s] = IF s = {} THEN 0
                        ELSE w[CHOOSE x \in s : TRUE] + g[s \ {CHOOSE x \in s : TRUE}]
Sums(w, D, g) == DOMAIN g = D /\ Adds(w, D, g)

\* There is one over every set of members: by the size of the sets it covers.
LEMMA SumsExist ==
    ASSUME NEW S, IsFiniteSet(S), NEW w, \A x \in S : w[x] \in Nat
    PROVE  \E g \in [SUBSET S -> Nat] : Sums(w, SUBSET S, g)
<1> DEFINE Small(n) == {s \in SUBSET S : Cardinality(s) <= n}
           Summed(n) == \E g \in [Small(n) -> Nat] : Sums(w, Small(n), g)
<1>1. \A s \in SUBSET S :
          IsFiniteSet(s) /\ Cardinality(s) \in Nat /\ Cardinality(s) <= Cardinality(S)
    BY FS_Subset, FS_CardinalityType
<1>2. Summed(0)
    <2>1. \A s \in Small(0) : s = {}
        BY <1>1, FS_EmptySet
    <2> DEFINE g == [s \in Small(0) |-> 0]
    <2>2. g \in [Small(0) -> Nat] /\ Sums(w, Small(0), g)
        BY <2>1 DEF Sums, Adds
    <2> QED BY <2>2
<1>3. ASSUME NEW n \in Nat, Summed(n) PROVE Summed(n + 1)
    <2>1. PICK g \in [Small(n) -> Nat] : Sums(w, Small(n), g)
        BY <1>3
    <2> DEFINE a(s) == CHOOSE x \in s : TRUE
               h == [s \in Small(n + 1) |-> IF s = {} THEN 0 ELSE w[a(s)] + g[s \ {a(s)}]]
    <2>2. ASSUME NEW s \in Small(n + 1), s # {} 
          PROVE  a(s) \in S /\ s \ {a(s)} \in Small(n)
        <3>1. a(s) \in s /\ s \in SUBSET S /\ Cardinality(s) <= n + 1
            BY <2>2
        <3> HIDE DEF a
        <3>2. Cardinality(s \ {a(s)}) = Cardinality(s) - 1
            BY <1>1, <3>1, FS_RemoveElement
        <3> QED BY <1>1, <3>1, <3>2
    <2>3. \A s \in Small(n) : s \in Small(n + 1) /\ h[s] = g[s]
        <3>1. ASSUME NEW s \in Small(n) PROVE s \in Small(n + 1)
            BY <1>1
        <3>2. ASSUME NEW s \in Small(n) PROVE h[s] = g[s]
            BY <2>1, <3>1, <3>2 DEF Sums, Adds
        <3> QED BY <3>1, <3>2
    <2>4. h \in [Small(n + 1) -> Nat]
        <3>1. ASSUME NEW s \in Small(n + 1), s # {} PROVE w[a(s)] + g[s \ {a(s)}] \in Nat
            BY <2>2, <3>1
        <3> QED BY <3>1
    <2>5. Sums(w, Small(n + 1), h)
        <3>1. ASSUME NEW s \in Small(n + 1), s # {} PROVE h[s] = w[a(s)] + h[s \ {a(s)}]
            BY <2>2, <2>3, <3>1
        <3>2. ASSUME NEW s \in Small(n + 1), s = {} PROVE h[s] = 0
            BY <3>2
        <3>3. DOMAIN h = Small(n + 1)
            OBVIOUS
        <3> HIDE DEF h, Small
        <3> QED BY <3>1, <3>2, <3>3 DEF Sums, Adds
    <2> QED BY <2>4, <2>5
<1> HIDE DEF Summed
<1>4. \A n \in Nat : Summed(n)
    <2>1. SUFFICES ASSUME {n \in Nat : ~Summed(n)} # {} PROVE FALSE
        OBVIOUS
    <2>2. PICK n \in {m \in Nat : ~Summed(m)} : \A m \in {k \in Nat : ~Summed(k)} : n <= m
        BY <2>1, Least
    <2>3. n # 0
        BY <1>2, <2>2
    <2>4. n - 1 \in Nat /\ ~(n <= n - 1)
        BY <2>2, <2>3
    <2>5. Summed(n - 1)
        BY <2>2, <2>4
    <2>6. Summed((n - 1) + 1)
        BY <1>3, <2>4, <2>5
    <2> QED BY <2>2, <2>4, <2>6
<1>5. Summed(Cardinality(S)) /\ Small(Cardinality(S)) = SUBSET S
    <2>1. Cardinality(S) \in Nat
        BY FS_CardinalityType
    <2> QED BY <1>1, <1>4, <2>1
<1> HIDE DEF Small
<1> QED BY <1>5 DEF Summed

\* The order of the choice does not matter: any member may be taken out first.
LEMMA SumsAny ==
    ASSUME NEW S, IsFiniteSet(S), NEW w, \A x \in S : w[x] \in Nat,
           NEW g \in [SUBSET S -> Nat], Sums(w, SUBSET S, g)
    PROVE  \A s \in SUBSET S : \A x \in s : g[s] = w[x] + g[s \ {x}]
<1> DEFINE Odd == {s \in SUBSET S : \E x \in s : g[s] # w[x] + g[s \ {x}]}
<1> SUFFICES ASSUME Odd # {} PROVE FALSE
    OBVIOUS
<1>1. \A s \in SUBSET S : IsFiniteSet(s) /\ Cardinality(s) \in Nat
    BY FS_Subset, FS_CardinalityType
<1> DEFINE Counts == {n \in Nat : \E s \in Odd : Cardinality(s) = n}
<1>2. PICK n \in Counts : \A m \in Counts : n <= m
    <2>1. Counts # {}
        BY <1>1
    <2>2. Counts \subseteq Nat
        OBVIOUS
    <2> HIDE DEF Counts
    <2> QED BY <2>1, <2>2, Least
<1>3. PICK s \in Odd : Cardinality(s) = n
    BY <1>2
<1>4. PICK x \in s : g[s] # w[x] + g[s \ {x}]
    BY <1>3
<1> DEFINE y == CHOOSE z \in s : TRUE
<1>5. s \in SUBSET S /\ y \in s /\ x \in S /\ y \in S
    BY <1>3, <1>4
<1>6. g[s] = w[y] + g[s \ {y}]
    BY <1>5 DEF Sums, Adds
<1> HIDE DEF y
<1>7. x # y /\ x \in s \ {y} /\ y \in s \ {x} /\ s \ {y} \in SUBSET S /\ s \ {x} \in SUBSET S
    BY <1>4, <1>5, <1>6
<1>8. Cardinality(s \ {x}) < n /\ Cardinality(s \ {y}) < n
    <2>1. Cardinality(s \ {x}) = n - 1 /\ Cardinality(s \ {y}) = n - 1
        BY <1>1, <1>3, <1>4, <1>5, FS_RemoveElement
    <2> QED BY <1>2, <2>1
<1>9. s \ {x} \notin Odd /\ s \ {y} \notin Odd
    <2>1. ASSUME NEW t \in Odd PROVE n <= Cardinality(t)
        BY <1>1, <1>2
    <2>2. ASSUME NEW t \in SUBSET S, Cardinality(t) < n PROVE t \notin Odd
        BY <1>1, <1>2, <2>1, <2>2
    <2> QED BY <1>7, <1>8, <2>2
<1>10. g[s \ {x}] = w[y] + g[(s \ {x}) \ {y}] /\ g[s \ {y}] = w[x] + g[(s \ {y}) \ {x}]
    BY <1>7, <1>9
<1>11. (s \ {x}) \ {y} = (s \ {y}) \ {x} /\ (s \ {x}) \ {y} \in SUBSET S
    BY <1>5
<1>12. w[x] \in Nat /\ w[y] \in Nat /\ g[(s \ {x}) \ {y}] \in Nat
    BY <1>5, <1>11
<1> DEFINE rest == g[(s \ {x}) \ {y}]
<1>13. g[s] = w[y] + (w[x] + rest) /\ g[s \ {x}] = w[y] + rest /\ rest \in Nat
    BY <1>6, <1>10, <1>11, <1>12
<1> HIDE DEF rest
<1> QED BY <1>4, <1>12, <1>13

\* There is one such function.
LEMMA SumsOnce ==
    ASSUME NEW S, IsFiniteSet(S), NEW w, NEW g, NEW h,
           Adds(w, SUBSET S, g), Adds(w, SUBSET S, h)
    PROVE  \A s \in SUBSET S : g[s] = h[s]
<1> DEFINE Odd == {s \in SUBSET S : g[s] # h[s]}
           Counts == {n \in Nat : \E s \in Odd : Cardinality(s) = n}
<1> SUFFICES ASSUME Odd # {} PROVE FALSE
    OBVIOUS
<1>1. \A s \in SUBSET S : IsFiniteSet(s) /\ Cardinality(s) \in Nat
    BY FS_Subset, FS_CardinalityType
<1>2. PICK n \in Counts : \A m \in Counts : n <= m
    <2>1. Counts # {}
        BY <1>1
    <2>2. Counts \subseteq Nat
        OBVIOUS
    <2> HIDE DEF Counts
    <2> QED BY <2>1, <2>2, Least
<1>3. PICK s \in Odd : Cardinality(s) = n
    BY <1>2
<1>4. s # {}
    BY <1>3 DEF Adds
<1> DEFINE y == CHOOSE z \in s : TRUE
<1>5. y \in s /\ g[s] = w[y] + g[s \ {y}] /\ h[s] = w[y] + h[s \ {y}]
    BY <1>3, <1>4 DEF Adds
<1> HIDE DEF y
<1>6. s \ {y} \in SUBSET S /\ Cardinality(s \ {y}) = n - 1
    BY <1>1, <1>3, <1>5, FS_RemoveElement
<1>7. s \ {y} \notin Odd
    <2>1. n - 1 \notin Counts
        BY <1>2
    <2> QED BY <1>1, <1>6, <2>1
<1> QED BY <1>3, <1>5, <1>6, <1>7

\* What the fold of the library computes is such a function.
LEMMA TotalSums ==
    ASSUME NEW S, IsFiniteSet(S), NEW w, \A x \in S : w[x] \in Nat
    PROVE  \E g \in [SUBSET S -> Nat] : Sums(w, SUBSET S, g) /\ Total(w, S) = g[S]
<1> DEFINE Rec(i) == i = [s \in SUBSET S |->
                          IF s = {} THEN 0
                          ELSE w[CHOOSE x \in s : TRUE] + i[s \ {CHOOSE x \in s : TRUE}]]
           iter == CHOOSE i : Rec(i)
<1>1. PICK g \in [SUBSET S -> Nat] : Sums(w, SUBSET S, g)
    BY SumsExist
<1>2. Rec(g)
    BY <1>1 DEF Sums, Adds
<1>3. Rec(iter)
    BY <1>2
<1>4. Total(w, S) = iter[S]
    BY DEF Total, FoldSet, MapThenFoldSet
<1> HIDE DEF iter
<1>5. Adds(w, SUBSET S, iter) /\ Adds(w, SUBSET S, g)
    BY <1>1, <1>3 DEF Sums, Adds
<1>6. \A s \in SUBSET S : iter[s] = g[s]
    BY <1>5, SumsOnce
<1> QED BY <1>1, <1>4, <1>6

\* The total is a number: nothing if every weight is, and the weight of any one
\* member with the total of the others.
LEMMA TotalSplits ==
    ASSUME NEW S, IsFiniteSet(S), NEW w, \A x \in S : w[x] \in Nat
    PROVE  /\ Total(w, S) \in Nat
           /\ (\A x \in S : w[x] = 0) => Total(w, S) = 0
           /\ \A x \in S : Total(w, S) = w[x] + Total(w, S \ {x})
<1>1. PICK g \in [SUBSET S -> Nat] : Sums(w, SUBSET S, g) /\ Total(w, S) = g[S]
    BY TotalSums
<1>2. ASSUME \A x \in S : w[x] = 0
      PROVE  g[S] = 0
    <2> DEFINE h == [s \in SUBSET S |-> 0]
    <2>1. Adds(w, SUBSET S, h)
        BY <1>2 DEF Adds
    <2>2. S \in SUBSET S /\ h[S] = 0
        OBVIOUS
    <2>3. Adds(w, SUBSET S, g)
        BY <1>1 DEF Sums
    <2> HIDE DEF h
    <2>4. \A s \in SUBSET S : g[s] = h[s]
        BY <2>1, <2>3, SumsOnce
    <2> QED BY <2>2, <2>4
<1>3. ASSUME NEW x \in S
      PROVE  g[S] = w[x] + Total(w, S \ {x})
    <2> DEFINE T == S \ {x}
    <2>1. IsFiniteSet(T) /\ \A y \in T : w[y] \in Nat
        BY FS_RemoveElement
    <2>2. SUBSET T \subseteq SUBSET S /\ T \in SUBSET T
        OBVIOUS
    <2>3. PICK h \in [SUBSET T -> Nat] : Sums(w, SUBSET T, h) /\ Total(w, T) = h[T]
        BY <2>1, TotalSums
    <2>4. g[S] = w[x] + g[T]
        BY <1>1, SumsAny
    <2> HIDE DEF T
    <2>5. Adds(w, SUBSET T, g)
        BY <1>1, <2>2 DEF Sums, Adds
    <2>6. Adds(w, SUBSET T, h)
        BY <2>3 DEF Sums
    <2>7. \A s \in SUBSET T : g[s] = h[s]
        BY <2>1, <2>5, <2>6, SumsOnce
    <2> QED BY <2>2, <2>3, <2>4, <2>7 DEF T
<1> QED BY <1>1, <1>2, <1>3

\* The sum over fewer members is no more.
LEMMA TotalMonotone ==
    ASSUME NEW S, IsFiniteSet(S), NEW w, \A x \in S : w[x] \in Nat, NEW T \in SUBSET S
    PROVE  Total(w, T) <= Total(w, S)
<1> DEFINE Bad == {U \in SUBSET S : T \subseteq U /\ ~(Total(w, T) <= Total(w, U))}
           Counts == {n \in Nat : \E U \in Bad : Cardinality(U) = n}
<1>1. \A U \in SUBSET S : /\ IsFiniteSet(U) /\ Cardinality(U) \in Nat
                          /\ \A x \in U : w[x] \in Nat
    BY FS_Subset, FS_CardinalityType
<1>2. \A U \in SUBSET S : Total(w, U) \in Nat
    BY <1>1, TotalSplits
<1>3. SUFFICES ASSUME Bad # {} PROVE FALSE
    OBVIOUS
<1>4. PICK n \in Counts : \A m \in Counts : n <= m
    <2>1. Counts # {}
        BY <1>1, <1>3
    <2>2. Counts \subseteq Nat
        OBVIOUS
    <2> HIDE DEF Counts
    <2> QED BY <2>1, <2>2, Least
<1>5. PICK U \in Bad : Cardinality(U) = n
    BY <1>4
<1>6. U # T
    BY <1>2, <1>5
<1>7. PICK x \in U : x \notin T
    BY <1>5, <1>6
<1> DEFINE V == U \ {x}
<1>8. V \in SUBSET S /\ T \subseteq V /\ Cardinality(V) = n - 1
    <2>1. Cardinality(V) = Cardinality(U) - 1
        BY <1>1, FS_RemoveElement
    <2> QED BY <1>5, <1>7, <2>1
<1>9. Total(w, U) = w[x] + Total(w, V) /\ w[x] \in Nat
    BY <1>1, TotalSplits
<1>10. Total(w, T) \in Nat /\ Total(w, U) \in Nat /\ Total(w, V) \in Nat
    BY <1>2, <1>8
<1>11. V \in Bad
    BY <1>5, <1>8, <1>9, <1>10
<1>12. n - 1 \in Counts
    BY <1>1, <1>8, <1>11
<1> QED BY <1>4, <1>12
===============================================================================

--------------------------- MODULE InductionLemmas ---------------------------
(***************************************************************************)
(* Induction and recursion over the natural numbers, stated with sets and  *)
(* functions in place of predicates and operators.                         *)
(***************************************************************************)
EXTENDS Integers, Sequences, FiniteSets, Functions, FiniteSetTheorems, SequenceTheorems,
        WellFoundedInduction, TLAPS

\* A set of natural numbers that is not empty has a least element.
LEMMA LeastNatural ==
  ASSUME NEW T \in SUBSET Nat, T # {}
  PROVE  \E x \in T : \A y \in T : x <= y
<1> DEFINE R == OpToRel(<, Nat)
<1>1. IsWellFoundedOn(R, Nat)
  BY NatLessThanWellFounded
<1>2. \A x, y \in Nat : x < y => <<x, y>> \in R
  BY DEF OpToRel
<1> HIDE DEF R
<1>3. PICK x \in T : \A y \in T : ~ (<<y, x>> \in R)
  BY <1>1, WFMin
<1>4. \A y \in T : ~ (y < x)
  BY <1>2, <1>3
<1>5. \A y \in T : x <= y
  BY <1>4
<1> QED
  BY <1>5

\* A set that has 0 and the successor of each of its members has them all.
LEMMA SetInduction ==
  ASSUME NEW S, 0 \in S, \A n \in Nat : n \in S => n + 1 \in S
  PROVE  Nat \subseteq S
<1> SUFFICES ASSUME Nat \ S # {} PROVE FALSE
  OBVIOUS
<1>1. PICK x \in Nat \ S : \A y \in Nat \ S : x <= y
  BY LeastNatural
<1>2. x # 0
  BY <1>1
<1>3. x - 1 \in Nat /\ x - 1 \in S
  BY <1>1, <1>2
<1> QED
  BY <1>1, <1>3

\* A set that has << >> and, with a sequence, what appending to it gives, has
\* every sequence.
LEMMA SequenceInduction ==
  ASSUME NEW T, NEW S, << >> \in S,
         \A s \in Seq(T), x \in T : s \in S => Append(s, x) \in S
  PROVE  Seq(T) \subseteq S
<1> DEFINE L == {n \in Nat : \A s \in Seq(T) : Len(s) = n => s \in S}
<1>1. 0 \in L
  BY EmptySeq
<1>2. ASSUME NEW n \in Nat, n \in L PROVE n + 1 \in L
  <2> SUFFICES ASSUME NEW s \in Seq(T), Len(s) = n + 1 PROVE s \in S
    OBVIOUS
  <2> DEFINE r == SubSeq(s, 1, n)
             x == s[n+1]
  <2>1. r \in Seq(T) /\ Len(r) = n /\ x \in T
    OBVIOUS
  <2>2. r \in S
    BY <1>2, <2>1
  <2>3. s = Append(r, x)
    OBVIOUS
  <2> HIDE DEF r, x
  <2> QED
    BY <2>1, <2>2, <2>3
<1> HIDE DEF L
<1>3. Nat \subseteq L
  BY <1>1, <1>2, SetInduction
<1> QED
  BY <1>3 DEF L

\* f is the function on 0 .. N that begins with b and goes on with h.
Recursive(N, T, b, h, f) ==
  /\ f \in [0 .. N -> T]
  /\ f[0] = b
  /\ \A n \in 1 .. N : f[n] = h[<<n, f[n-1]>>]

\* There is such a function, whatever h does at each step.
LEMMA RecursionExists ==
  ASSUME NEW N \in Nat, NEW T, NEW b \in T, NEW h \in [(1 .. N) \X T -> T]
  PROVE  \E f : Recursive(N, T, b, h, f)
<1> DEFINE Good(k, f) == /\ f[0] = b
                         /\ \A n \in 1 .. k : f[n] = h[<<n, f[n-1]>>]
           S == {k \in Nat : k <= N => \E f \in [0 .. k -> T] : Good(k, f)}
<1>1. 0 \in S
  <2>1. [n \in 0 .. 0 |-> b] \in [0 .. 0 -> T]
    OBVIOUS
  <2>2. Good(0, [n \in 0 .. 0 |-> b])
    OBVIOUS
  <2> QED
    BY <2>1, <2>2
<1>2. ASSUME NEW k \in Nat, k \in S PROVE k + 1 \in S
  <2> SUFFICES ASSUME k + 1 <= N PROVE \E f \in [0 .. (k + 1) -> T] : Good(k + 1, f)
    OBVIOUS
  <2>1. PICK f \in [0 .. k -> T] : Good(k, f)
    BY <1>2
  <2> DEFINE g == [n \in 0 .. (k + 1) |-> IF n <= k THEN f[n] ELSE h[<<k + 1, f[k]>>]]
  <2>2. h[<<k + 1, f[k]>>] \in T
    BY <2>1
  <2>3. g \in [0 .. (k + 1) -> T]
    BY <2>1, <2>2
  <2>4. g[0] = b
    BY <2>1
  <2>5. ASSUME NEW n \in 1 .. (k + 1) PROVE g[n] = h[<<n, g[n-1]>>]
    <3>1. CASE n <= k
      BY <2>1, <3>1
    <3>2. CASE n = k + 1
      <4>1. n - 1 = k /\ k \in 0 .. (k + 1) /\ n \in 0 .. (k + 1) /\ ~ (n <= k)
        BY <3>2
      <4>2. g[n] = h[<<k + 1, f[k]>>] /\ g[k] = f[k]
        BY <4>1
      <4> QED
        BY <3>2, <4>1, <4>2
    <3> QED
      BY <3>1, <3>2
  <2> HIDE DEF g
  <2> QED
    BY <2>3, <2>4, <2>5
<1> HIDE DEF S
<1>3. Nat \subseteq S
  BY <1>1, <1>2, SetInduction
<1>4. N \in S
  BY <1>3
<1> QED
  BY <1>4 DEF S, Recursive
---------------------------------------------------------------------------
(***************************************************************************)
(* The sum of a function over a finite set                                 *)
(***************************************************************************)

SumOver(c, S) == FoldFunctionOnSet(+, 0, c, S)

\* The element of s that the fold takes first, and what it says of a function
\* from the subsets of S to their sums.
Pick(s) == CHOOSE x \in s : TRUE
IsFold(c, S, f) ==
  f = [s \in SUBSET S |-> IF s = {} THEN 0 ELSE c[Pick(s)] + f[s \ {Pick(s)}]]

LEMMA SumIsFold ==
  ASSUME NEW c, NEW S
  PROVE  SumOver(c, S) = (CHOOSE f : IsFold(c, S, f))[S]
BY DEF SumOver, FoldFunctionOnSet, MapThenFoldSet, IsFold, Pick

LEMMA Picked == ASSUME NEW s, s # {} PROVE Pick(s) \in s
BY DEF Pick

\* The fold exists: after as many rounds as S has elements nothing changes.
LEMMA FoldExists ==
  ASSUME NEW S, IsFiniteSet(S), NEW c, \A x \in S : c[x] \in Nat
  PROVE  \E f : IsFold(c, S, f)
<1> DEFINE N == Cardinality(S) + 1
           T == [SUBSET S -> Nat]
           Round(g) == [s \in SUBSET S |-> IF s = {} THEN 0 ELSE c[Pick(s)] + g[s \ {Pick(s)}]]
           b == [s \in SUBSET S |-> 0]
           h == [p \in (1 .. N) \X T |-> Round(p[2])]
<1>1. N \in Nat /\ N - 1 = Cardinality(S)
  BY FS_CardinalityType
<1>2. \A s \in SUBSET S : s # {} => Pick(s) \in S /\ s \ {Pick(s)} \in SUBSET S
  BY Picked
<1>3. \A g \in T : Round(g) \in T
  BY <1>2
<1>4. b \in T
  OBVIOUS
<1>5. h \in [(1 .. N) \X T -> T]
  BY <1>3
<1> HIDE DEF N, T, b, h
<1>6. PICK f : Recursive(N, T, b, h, f)
  BY <1>1, <1>4, <1>5, RecursionExists
<1>7. /\ f \in [0 .. N -> T]
      /\ f[0] = b
      /\ \A n \in 1 .. N : f[n] = h[<<n, f[n-1]>>]
  BY <1>6 DEF Recursive
<1>8. \A n \in 1 .. N : f[n-1] \in T /\ f[n] = Round(f[n-1])
  <2> SUFFICES ASSUME NEW n \in 1 .. N PROVE f[n-1] \in T /\ f[n] = Round(f[n-1])
    OBVIOUS
  <2>1. n - 1 \in 0 .. N
    BY <1>1
  <2>2. f[n-1] \in T
    BY <1>7, <2>1
  <2>3. h[<<n, f[n-1]>>] = Round(f[n-1])
    BY <2>2 DEF h
  <2> QED
    BY <1>7, <2>2, <2>3
<1> DEFINE P == {k \in Nat : k < N =>
                   \A s \in SUBSET S : Cardinality(s) <= k => f[k+1][s] = f[k][s]}
<1>9. 0 \in P
  <2>1. 1 \in 1 .. N /\ 1 - 1 = 0 /\ 0 + 1 = 1
    BY <1>1, FS_CardinalityType DEF N
  <2>2. f[1] = Round(f[0])
    BY <1>8, <2>1
  <2>3. ASSUME NEW s \in SUBSET S, Cardinality(s) <= 0 PROVE f[1][s] = f[0][s]
    <3>1. s = {}
      BY <2>3, FS_EmptySet, FS_Subset, FS_CardinalityType
    <3>2. f[1][s] = 0
      BY <2>2, <3>1
    <3>3. f[0][s] = 0
      BY <1>7 DEF b
    <3> QED
      BY <3>2, <3>3
  <2> QED
    BY <2>1, <2>3
<1>10. ASSUME NEW k \in Nat, k \in P PROVE k + 1 \in P
  <2> SUFFICES ASSUME k + 1 < N, NEW s \in SUBSET S, Cardinality(s) <= k + 1
               PROVE  f[(k + 1) + 1][s] = f[k + 1][s]
    OBVIOUS
  <2>1. k + 1 \in 1 .. N /\ (k + 1) + 1 \in 1 .. N /\ (k + 1) - 1 = k /\ ((k + 1) + 1) - 1 = k + 1
    BY <1>1
  <2>2. f[k + 1] = Round(f[k]) /\ f[(k + 1) + 1] = Round(f[k + 1])
    BY <1>8, <2>1
  <2>3. CASE s = {}
    BY <2>2, <2>3
  <2>4. CASE s # {}
    <3> DEFINE r == s \ {Pick(s)}
    <3>1. r \in SUBSET S /\ Cardinality(r) <= k
      <4>1. Pick(s) \in s /\ IsFiniteSet(s)
        BY <2>4, Picked, FS_Subset
      <4>2. Cardinality(r) = Cardinality(s) - 1 /\ Cardinality(s) \in Nat
        BY <4>1, FS_RemoveElement, FS_CardinalityType
      <4> QED
        BY <4>2
    <3>2. f[k + 1][r] = f[k][r]
      BY <1>10, <1>1, <3>1
    <3> QED
      BY <2>2, <2>4, <3>2
  <2> QED
    BY <2>3, <2>4
<1>11. N - 1 \in P
  <2> HIDE DEF P
  <2>1. Nat \subseteq P
    BY <1>9, <1>10, SetInduction
  <2> QED
    BY <1>1, <2>1, FS_CardinalityType
<1>12. N \in 1 .. N /\ N - 1 \in Nat /\ N - 1 < N /\ (N - 1) + 1 = N
  BY <1>1, FS_CardinalityType
<1>13. \A s \in SUBSET S : Cardinality(s) <= N - 1
  BY <1>1, FS_Subset
<1>14. \A s \in SUBSET S : f[N][s] = f[N - 1][s]
  BY <1>11, <1>12, <1>13
<1>15. f[N] \in T /\ f[N - 1] \in T /\ f[N] = Round(f[N - 1])
  <2>1. N \in 0 .. N /\ N - 1 \in 0 .. N
    BY <1>1, <1>12
  <2> QED
    BY <1>7, <1>8, <1>12, <2>1
<1>16. f[N] = f[N - 1]
  BY <1>14, <1>15 DEF T
<1> QED
  BY <1>15, <1>16 DEF IsFold

\* Two folds agree on the sets that both of them sum.
LEMMA FoldsAgree ==
  ASSUME NEW S, IsFiniteSet(S), NEW c, NEW T \in SUBSET S, NEW f, NEW g,
         IsFold(c, S, f), IsFold(c, T, g), NEW t \in SUBSET T
  PROVE  f[t] = g[t]
<1> DEFINE P == {k \in Nat : \A s \in SUBSET T : Cardinality(s) = k => f[s] = g[s]}
<1>0. \A s \in SUBSET T : IsFiniteSet(s) /\ Cardinality(s) \in Nat
  BY FS_Subset, FS_CardinalityType
<1>1. 0 \in P
  <2>1. f[{}] = 0 /\ g[{}] = 0
    BY DEF IsFold
  <2>2. \A s \in SUBSET T : Cardinality(s) = 0 => s = {}
    BY <1>0, FS_EmptySet
  <2> QED
    BY <2>1, <2>2
<1>2. ASSUME NEW k \in Nat, k \in P PROVE k + 1 \in P
  <2> SUFFICES ASSUME NEW s \in SUBSET T, Cardinality(s) = k + 1 PROVE f[s] = g[s]
    OBVIOUS
  <2> DEFINE r == s \ {Pick(s)}
  <2>1. s # {}
    BY FS_EmptySet
  <2>2. Pick(s) \in s
    BY <2>1, Picked
  <2>3. Cardinality(r) = k /\ r \in SUBSET T
    <3>1. IsFiniteSet(s)
      BY <1>0
    <3>2. Cardinality(r) = Cardinality(s) - 1
      BY <2>2, <3>1, FS_RemoveElement
    <3> QED
      BY <3>2
  <2>4. f[r] = g[r]
    BY <1>2, <2>3
  <2>5. f[s] = c[Pick(s)] + f[r] /\ g[s] = c[Pick(s)] + g[r]
    BY <2>1 DEF IsFold
  <2> QED
    BY <2>4, <2>5
<1> HIDE DEF P
<1>3. Nat \subseteq P
  BY <1>1, <1>2, SetInduction
<1>4. Cardinality(t) \in P
  BY <1>0, <1>3
<1> QED
  BY <1>4 DEF P

\* How a sum is taken apart: nothing, or one element and the rest.
LEMMA SumStep ==
  ASSUME NEW S, IsFiniteSet(S), NEW c, \A x \in S : c[x] \in Nat
  PROVE  /\ S = {} => SumOver(c, S) = 0
         /\ S # {} => SumOver(c, S) = c[Pick(S)] + SumOver(c, S \ {Pick(S)})
<1> DEFINE f == CHOOSE f : IsFold(c, S, f)
           R == S \ {Pick(S)}
           g == CHOOSE g : IsFold(c, R, g)
<1>1. IsFold(c, S, f)
  BY FoldExists
<1>2. IsFiniteSet(R) /\ \A x \in R : c[x] \in Nat
  BY FS_RemoveElement
<1>3. IsFold(c, R, g)
  BY <1>2, FoldExists
<1>4. SumOver(c, S) = f[S] /\ SumOver(c, R) = g[R]
  BY SumIsFold
<1> HIDE DEF f, g
<1>5. R \in SUBSET S
  OBVIOUS
<1>6. f[R] = g[R]
  BY <1>1, <1>3, <1>5, FoldsAgree
<1>7. f[S] = IF S = {} THEN 0 ELSE c[Pick(S)] + f[R]
  BY <1>1 DEF IsFold
<1> QED
  BY <1>4, <1>6, <1>7

\* A sum of natural numbers is one, and any element may be taken first.
LEMMA SumRemove ==
  ASSUME NEW B, IsFiniteSet(B), NEW c, \A x \in B : c[x] \in Nat
  PROVE  \A S \in SUBSET B :
           /\ SumOver(c, S) \in Nat
           /\ \A x \in S : SumOver(c, S) = c[x] + SumOver(c, S \ {x})
<1> DEFINE Good(S) == /\ SumOver(c, S) \in Nat
                      /\ \A x \in S : SumOver(c, S) = c[x] + SumOver(c, S \ {x})
           P == {k \in Nat : \A S \in SUBSET B : Cardinality(S) <= k => Good(S)}
<1>0. \A S \in SUBSET B : /\ IsFiniteSet(S) /\ Cardinality(S) \in Nat
                          /\ \A x \in S : c[x] \in Nat
  BY FS_Subset, FS_CardinalityType
<1>1. \A S \in SUBSET B : S = {} => Good(S)
  BY <1>0, SumStep
<1>2. 0 \in P
  <2>1. \A S \in SUBSET B : Cardinality(S) <= 0 => S = {}
    BY <1>0, FS_EmptySet
  <2> QED
    BY <1>1, <2>1
<1>3. ASSUME NEW k \in Nat, k \in P PROVE k + 1 \in P
  <2> SUFFICES ASSUME NEW S \in SUBSET B, Cardinality(S) <= k + 1, S # {} PROVE Good(S)
    BY <1>1
  <2> DEFINE y == Pick(S)
  <2>1. y \in S
    BY Picked
  <2>2. ASSUME NEW x \in S PROVE Cardinality(S \ {x}) <= k
    <3>1. IsFiniteSet(S) /\ Cardinality(S) \in Nat
      BY <1>0
    <3>2. Cardinality(S \ {x}) = Cardinality(S) - 1
      BY <3>1, FS_RemoveElement
    <3> QED
      BY <3>1, <3>2
  <2>3. \A x \in S : Good(S \ {x})
    BY <1>3, <2>2
  <2>4. SumOver(c, S) = c[y] + SumOver(c, S \ {y})
    BY <1>0, SumStep
  <2>5. c[y] \in Nat /\ SumOver(c, S \ {y}) \in Nat
    BY <1>0, <2>1, <2>3
  <2>6. SumOver(c, S) \in Nat
    BY <2>4, <2>5
  <2> HIDE DEF y
  <2>7. ASSUME NEW x \in S PROVE SumOver(c, S) = c[x] + SumOver(c, S \ {x})
    <3>1. CASE x = y
      BY <2>4, <3>1
    <3>2. CASE x # y
      <4> DEFINE R == S \ {x, y}
      <4>1. x \in S \ {y} /\ y \in S \ {x}
        BY <2>1, <3>2
      <4>2. (S \ {x}) \ {y} = R /\ (S \ {y}) \ {x} = R
        OBVIOUS
      <4>3. SumOver(c, S \ {y}) = c[x] + SumOver(c, R)
        BY <2>1, <2>3, <4>1, <4>2
      <4>4. SumOver(c, S \ {x}) = c[y] + SumOver(c, R)
        BY <2>3, <4>1, <4>2
      <4>5. R \in SUBSET (S \ {x}) /\ IsFiniteSet(S \ {x})
        BY <1>0
      <4>6. Cardinality(R) <= Cardinality(S \ {x})
        BY <4>5, FS_Subset
      <4>7. Cardinality(R) <= k /\ R \in SUBSET B
        BY <1>0, <2>2, <4>6
      <4>8. SumOver(c, R) \in Nat
        BY <1>3, <4>7
      <4> QED
        BY <1>0, <2>1, <2>4, <4>3, <4>4, <4>8
    <3> QED
      BY <3>1, <3>2
  <2> QED
    BY <2>6, <2>7
<1> HIDE DEF P
<1>4. Nat \subseteq P
  BY <1>2, <1>3, SetInduction
<1>5. ASSUME NEW S \in SUBSET B PROVE Good(S)
  <2>1. Cardinality(S) \in P /\ Cardinality(S) \in Nat
    BY <1>0, <1>4
  <2> QED
    BY <2>1 DEF P
<1> QED
  BY <1>5

\* Functions that agree on a set have the same sum over it.
LEMMA SumAgrees ==
  ASSUME NEW B, IsFiniteSet(B), NEW c, NEW d, \A x \in B : c[x] \in Nat /\ d[x] = c[x]
  PROVE  SumOver(c, B) = SumOver(d, B)
<1> DEFINE P == {k \in Nat : \A S \in SUBSET B :
                   Cardinality(S) = k => SumOver(c, S) = SumOver(d, S)}
<1>0. \A S \in SUBSET B : /\ IsFiniteSet(S) /\ Cardinality(S) \in Nat
                          /\ \A x \in S : c[x] \in Nat /\ d[x] \in Nat
  BY FS_Subset, FS_CardinalityType
<1>1. 0 \in P
  <2>1. \A S \in SUBSET B : Cardinality(S) = 0 => S = {}
    BY <1>0, FS_EmptySet
  <2>2. SumOver(c, {}) = 0 /\ SumOver(d, {}) = 0
    BY <1>0, SumStep
  <2> QED
    BY <2>1, <2>2
<1>2. ASSUME NEW k \in Nat, k \in P PROVE k + 1 \in P
  <2> SUFFICES ASSUME NEW S \in SUBSET B, Cardinality(S) = k + 1
               PROVE  SumOver(c, S) = SumOver(d, S)
    OBVIOUS
  <2> DEFINE R == S \ {Pick(S)}
  <2>1. S # {} /\ IsFiniteSet(S)
    BY <1>0, FS_EmptySet
  <2>2. Pick(S) \in S
    BY <2>1, Picked
  <2>3. Cardinality(R) = Cardinality(S) - 1
    BY <2>1, <2>2, FS_RemoveElement
  <2>4. Cardinality(R) = k /\ R \in SUBSET B
    BY <2>3
  <2>5. SumOver(c, R) = SumOver(d, R)
    BY <1>2, <2>4
  <2>6. SumOver(c, S) = c[Pick(S)] + SumOver(c, R)
    BY <1>0, <2>1, SumStep
  <2>7. SumOver(d, S) = d[Pick(S)] + SumOver(d, R)
    BY <1>0, <2>1, SumStep
  <2> QED
    BY <2>2, <2>5, <2>6, <2>7
<1> HIDE DEF P
<1>3. Nat \subseteq P
  BY <1>1, <1>2, SetInduction
<1>4. Cardinality(B) \in P
  BY <1>0, <1>3
<1> QED
  BY <1>4 DEF P

\* The sum over a part and over the rest.
LEMMA SumSplit ==
  ASSUME NEW B, IsFiniteSet(B), NEW c, \A x \in B : c[x] \in Nat, NEW A \in SUBSET B
  PROVE  SumOver(c, B) = SumOver(c, A) + SumOver(c, B \ A)
<1> DEFINE P == {k \in Nat : \A S \in SUBSET B : Cardinality(S) = k =>
                   SumOver(c, B) = SumOver(c, S) + SumOver(c, B \ S)}
<1>0. \A S \in SUBSET B : /\ IsFiniteSet(S) /\ Cardinality(S) \in Nat
                          /\ SumOver(c, S) \in Nat /\ SumOver(c, B \ S) \in Nat
  <2>1. \A S \in SUBSET B : IsFiniteSet(S) /\ Cardinality(S) \in Nat /\ B \ S \in SUBSET B
    BY FS_Subset, FS_CardinalityType
  <2> QED
    BY <2>1, SumRemove
<1>1. 0 \in P
  <2>1. \A S \in SUBSET B : Cardinality(S) = 0 => S = {}
    BY <1>0, FS_EmptySet
  <2>2. SumOver(c, {}) = 0
    BY FS_EmptySet, SumStep
  <2>3. B \ {} = B /\ SumOver(c, B) \in Nat
    BY SumRemove
  <2> QED
    BY <2>1, <2>2, <2>3
<1>2. ASSUME NEW k \in Nat, k \in P PROVE k + 1 \in P
  <2> SUFFICES ASSUME NEW S \in SUBSET B, Cardinality(S) = k + 1
               PROVE  SumOver(c, B) = SumOver(c, S) + SumOver(c, B \ S)
    OBVIOUS
  <2>1. S # {} /\ IsFiniteSet(S)
    <3>1. S # {}
      BY FS_EmptySet
    <3> QED
      BY <1>0, <3>1
  <2>2. PICK x : x \in S
    BY <2>1
  <2> DEFINE R == S \ {x}
  <2>3. Cardinality(R) = Cardinality(S) - 1
    BY <2>1, <2>2, FS_RemoveElement
  <2>4. Cardinality(R) = k /\ R \in SUBSET B
    BY <2>3
  <2>5. SumOver(c, B) = SumOver(c, R) + SumOver(c, B \ R)
    BY <1>2, <2>4
  <2>6. SumOver(c, S) = c[x] + SumOver(c, R)
    BY <2>2, SumRemove
  <2>7. B \ R \in SUBSET B /\ x \in B \ R /\ (B \ R) \ {x} = B \ S
    BY <2>2
  <2>8. SumOver(c, B \ R) = c[x] + SumOver(c, B \ S)
    BY <2>7, SumRemove
  <2>9. c[x] \in Nat /\ SumOver(c, R) \in Nat /\ SumOver(c, B \ S) \in Nat
    BY <1>0, <2>2, <2>4
  <2> HIDE DEF R
  <2> QED
    BY <2>5, <2>6, <2>8, <2>9
<1> HIDE DEF P
<1>3. Nat \subseteq P
  BY <1>1, <1>2, SetInduction
<1>4. Cardinality(A) \in P
  BY <1>0, <1>3
<1> QED
  BY <1>4 DEF P

\* A sum of nothing but 0.
LEMMA SumZero ==
  ASSUME NEW B, IsFiniteSet(B), NEW c, \A x \in B : c[x] = 0
  PROVE  SumOver(c, B) = 0
<1> DEFINE P == {k \in Nat : \A S \in SUBSET B : Cardinality(S) = k => SumOver(c, S) = 0}
<1>0. \A S \in SUBSET B : /\ IsFiniteSet(S) /\ Cardinality(S) \in Nat
                          /\ \A x \in S : c[x] \in Nat
  BY FS_Subset, FS_CardinalityType
<1>1. 0 \in P
  <2>1. \A S \in SUBSET B : Cardinality(S) = 0 => S = {}
    BY <1>0, FS_EmptySet
  <2>2. SumOver(c, {}) = 0
    BY <1>0, SumStep
  <2> QED
    BY <2>1, <2>2
<1>2. ASSUME NEW k \in Nat, k \in P PROVE k + 1 \in P
  <2> SUFFICES ASSUME NEW S \in SUBSET B, Cardinality(S) = k + 1 PROVE SumOver(c, S) = 0
    OBVIOUS
  <2> DEFINE R == S \ {Pick(S)}
  <2>1. S # {} /\ IsFiniteSet(S)
    BY <1>0, FS_EmptySet
  <2>2. Pick(S) \in S
    BY <2>1, Picked
  <2>3. Cardinality(R) = Cardinality(S) - 1
    BY <2>1, <2>2, FS_RemoveElement
  <2>4. Cardinality(R) = k /\ R \in SUBSET B
    BY <2>3
  <2>5. SumOver(c, R) = 0
    BY <1>2, <2>4
  <2>6. SumOver(c, S) = c[Pick(S)] + SumOver(c, R)
    BY <1>0, <2>1, SumStep
  <2> QED
    BY <2>2, <2>5, <2>6
<1> HIDE DEF P
<1>3. Nat \subseteq P
  BY <1>1, <1>2, SetInduction
<1>4. Cardinality(B) \in P
  BY <1>0, <1>3
<1> QED
  BY <1>4 DEF P

\* The sum after the elements of A were set to 0.
LEMMA SumCleared ==
  ASSUME NEW B, IsFiniteSet(B), NEW c, \A x \in B : c[x] \in Nat,
         NEW A \in SUBSET B, NEW d, \A x \in B : d[x] = IF x \in A THEN 0 ELSE c[x]
  PROVE  /\ SumOver(d, B) = SumOver(c, B) - SumOver(c, A)
         /\ SumOver(c, A) <= SumOver(c, B)
         /\ SumOver(d, B) \in Nat /\ SumOver(c, A) \in Nat /\ SumOver(c, B) \in Nat
<1> DEFINE R == B \ A
<1>1. IsFiniteSet(A) /\ IsFiniteSet(R)
  BY FS_Subset
<1>2. \A x \in B : d[x] \in Nat
  OBVIOUS
<1>3. SumOver(c, B) = SumOver(c, A) + SumOver(c, R)
  BY SumSplit
<1>4. SumOver(d, B) = SumOver(d, A) + SumOver(d, R)
  BY <1>2, SumSplit
<1>5. SumOver(d, A) = 0
  BY <1>1, SumZero
<1>6. SumOver(c, R) = SumOver(d, R)
  <2>1. \A x \in R : c[x] \in Nat /\ d[x] = c[x]
    OBVIOUS
  <2> HIDE DEF R
  <2> QED
    BY <1>1, <2>1, SumAgrees
<1>7. SumOver(c, A) \in Nat /\ SumOver(c, R) \in Nat
  <2>1. A \in SUBSET B /\ R \in SUBSET B
    OBVIOUS
  <2> HIDE DEF R
  <2> QED
    BY <2>1, SumRemove
<1> HIDE DEF R
<1> QED
  BY <1>3, <1>4, <1>5, <1>6, <1>7

\* The sum after one element grew.
LEMMA SumGrows ==
  ASSUME NEW B, IsFiniteSet(B), NEW c, \A x \in B : c[x] \in Nat, NEW y \in B, NEW k \in Nat,
         NEW d, \A x \in B : d[x] = IF x = y THEN c[x] + k ELSE c[x]
  PROVE  SumOver(d, B) = SumOver(c, B) + k
<1> DEFINE R == B \ {y}
<1>1. IsFiniteSet(R) /\ B \in SUBSET B /\ R \in SUBSET B
  BY FS_Subset
<1>2. \A x \in B : d[x] \in Nat
  OBVIOUS
<1>3. SumOver(c, B) = c[y] + SumOver(c, R)
  BY <1>1, SumRemove
<1>4. SumOver(d, B) = d[y] + SumOver(d, R)
  BY <1>1, <1>2, SumRemove
<1>5. SumOver(c, R) = SumOver(d, R)
  <2>1. \A x \in R : c[x] \in Nat /\ d[x] = c[x]
    OBVIOUS
  <2> HIDE DEF R
  <2> QED
    BY <1>1, <2>1, SumAgrees
<1>6. SumOver(c, R) \in Nat
  BY <1>1, SumRemove
<1> HIDE DEF R
<1>7. d[y] = c[y] + k /\ c[y] \in Nat
  OBVIOUS
<1> QED
  BY <1>3, <1>4, <1>5, <1>6, <1>7
=============================================================================

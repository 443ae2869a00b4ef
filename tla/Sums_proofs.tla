----------------------------- MODULE Sums_proofs -----------------------------
(***************************************************************************)
(* Least and greatest ones, for arguments by the first counterexample; and *)
(* sums over finite sets: the fold takes the elements in some order, and   *)
(* the order does not matter.                                              *)
(***************************************************************************)
EXTENDS Sums, Integers, SequencesExt, FiniteSetTheorems, NaturalsInduction, WellFoundedInduction, TLAPS

Chosen(S) == CHOOSE e \in S : TRUE
Turn(f, g, s) == IF s = {} THEN 0 ELSE f[Chosen(s)] + g[s \ {Chosen(s)}]
Folds(f, g, S) == g = [s \in SUBSET S |-> Turn(f, g, s)]
Fold(f, S) == CHOOSE g : Folds(f, g, S)

LEMMA SumIsAFold == \A f, S : SumAt(f, S) = Fold(f, S)[S]
BY DEF SumAt, MapThenSumSet, MapThenFoldSet, Fold, Folds, Turn, Chosen

\* A non-empty collection of finite sets has a least one.
LEMMA LeastSet ==
  ASSUME NEW C, \A S \in C : IsFiniteSet(S), NEW S0 \in C
  PROVE  \E S \in C : \A R \in C : ~(R \subseteq S /\ R # S)
<1> DEFINE sizes == {n \in Nat : \E S \in C : n = Cardinality(S)}
<1>1. sizes \subseteq Nat /\ Cardinality(S0) \in sizes
  BY FS_CardinalityType
<1>2. PICK m \in sizes : \A n \in sizes : ~ (<<n, m>> \in OpToRel(<, Nat))
  BY <1>1, NatLessThanWellFounded, WFMin
<1>3. \A n \in sizes : ~(n < m)
  BY <1>1, <1>2 DEF OpToRel
<1>4. PICK S \in C : m = Cardinality(S)
  OBVIOUS
<1>5. ASSUME NEW R \in C, R \subseteq S, R # S PROVE FALSE
  <2>1. Cardinality(R) < Cardinality(S)
    <3>1. R \in SUBSET S /\ IsFiniteSet(S)  BY <1>4, <1>5
    <3>2. Cardinality(R) <= Cardinality(S) /\ (Cardinality(R) = Cardinality(S) => R = S)
      BY <3>1, FS_Subset
    <3>3. Cardinality(R) \in Nat /\ Cardinality(S) \in Nat
      BY <3>1, FS_Subset, FS_CardinalityType
    <3> QED BY <1>5, <3>2, <3>3
  <2>2. Cardinality(R) \in sizes
    BY FS_CardinalityType
  <2> QED BY <1>3, <1>4, <2>1, <2>2
<1> QED BY <1>5

\* A nonempty set of numbers has a least one.
LEMMA LeastNumber ==
  ASSUME NEW T \in SUBSET Nat, T # {}
  PROVE  Min(T) \in T /\ \A t \in T : Min(T) <= t
<1>1. PICK m \in T : \A t \in T : ~ (<<t, m>> \in OpToRel(<, Nat))
  BY NatLessThanWellFounded, WFMin
<1>2. \A t \in T : ~(t < m)
  BY <1>1 DEF OpToRel
<1>3. \A t \in T : m <= t
  BY <1>2
<1> QED
  BY <1>3 DEF Min

\* One of numbers up to n has a greatest.
LEMMA GreatestNumber ==
  ASSUME NEW n \in Nat, NEW T \in SUBSET (1..n), T # {}
  PROVE  \E m \in T : \A t \in T : t <= m
<1> DEFINE Depths == {n - t : t \in T}
<1>1. Depths \in SUBSET Nat /\ Depths # {}
  <2>1. \A t \in T : t \in Int /\ t <= n /\ n - t \in Nat  OBVIOUS
  <2> QED BY <2>1
<1>2. PICK d \in Depths : \A e \in Depths : d <= e  BY <1>1, LeastNumber
<1>3. PICK m \in T : d = n - m  BY <1>2
<1>4. \A t \in T : n - m <= n - t  BY <1>2, <1>3
<1>5. \A t \in T : t <= m
  <2> TAKE t \in T
  <2>1. n - m <= n - t /\ t \in Int /\ m \in Int /\ n \in Int  BY <1>4
  <2> QED BY <2>1
<1> QED BY <1>5

LEMMA ChosenOf == \A S : S # {} => Chosen(S) \in S
BY DEF Chosen

\* What a fold is at a set depends on that set alone.
LEMMA FoldUnique ==
  ASSUME NEW f, NEW A, NEW B, NEW g, NEW h, Folds(f, g, A), Folds(f, h, B),
         NEW S, S \subseteq A, S \subseteq B, IsFiniteSet(S)
  PROVE  g[S] = h[S]
<1> DEFINE C == {R \in SUBSET S : g[R] # h[R]}
<1>1. SUFFICES ASSUME g[S] # h[S] PROVE FALSE
  OBVIOUS
<1>2. S \in C /\ \A R \in C : IsFiniteSet(R)
  BY <1>1, FS_Subset
<1>3. PICK R \in C : \A Q \in C : ~(Q \subseteq R /\ Q # R)
  <2> HIDE DEF C
  <2> QED BY <1>2, LeastSet
<1>4. R \subseteq S /\ g[R] # h[R] /\ g[R] = Turn(f, g, R) /\ h[R] = Turn(f, h, R)
  BY DEF Folds
<1>5. R # {}
  BY <1>4 DEF Turn
<1> DEFINE Q == R \ {Chosen(R)}
<1>6. Q \subseteq R /\ Q # R
  BY <1>5, ChosenOf
<1>7. g[Q] = h[Q]
  BY <1>3, <1>4, <1>6
<1> QED BY <1>4, <1>5, <1>7 DEF Turn

\* Every finite set has one.
LEMMA FoldExists ==
  ASSUME NEW f, NEW S, IsFiniteSet(S)
  PROVE  Folds(f, Fold(f, S), S)
<1> DEFINE C == {R \in SUBSET S : ~ \E g : Folds(f, g, R)}
<1>1. SUFFICES ASSUME S \in C PROVE FALSE
  BY DEF Fold
<1>2. \A R \in C : IsFiniteSet(R)
  BY FS_Subset
<1>3. PICK R \in C : \A Q \in C : ~(Q \subseteq R /\ Q # R)
  <2> HIDE DEF C
  <2> QED BY <1>1, <1>2, LeastSet
<1>4. R \subseteq S /\ ~ \E g : Folds(f, g, R)
  OBVIOUS
<1>5. ASSUME NEW Q \in SUBSET R, Q # R PROVE Folds(f, Fold(f, Q), Q)
  BY <1>3, <1>4, <1>5 DEF Fold
<1> DEFINE Below(s) == Fold(f, s)[s]
           Here(s) == IF s = {} THEN 0 ELSE f[Chosen(s)] + Below(s \ {Chosen(s)})
           g == [s \in SUBSET R |-> Here(s)]
<1>6. ASSUME NEW s \in SUBSET R, s # R PROVE Below(s) = Here(s)
  <2>1. Folds(f, Fold(f, s), s)
    BY <1>5, <1>6
  <2>2. Below(s) = Turn(f, Fold(f, s), s)
    BY <2>1 DEF Folds
  <2>3. CASE s = {}
    BY <2>2, <2>3 DEF Turn
  <2>4. CASE s # {}
    <3> DEFINE q == s \ {Chosen(s)}
    <3>1. q \subseteq s /\ q # R /\ q \subseteq q
      BY <1>6, <2>4, ChosenOf
    <3>2. Folds(f, Fold(f, q), q)
      BY <1>5, <3>1
    <3>3. IsFiniteSet(q)
      BY <1>4, <3>1, FS_Subset
    <3>4. Fold(f, s)[q] = Fold(f, q)[q]
      BY <2>1, <3>1, <3>2, <3>3, FoldUnique
    <3> QED BY <2>2, <2>4, <3>4 DEF Turn
  <2> QED BY <2>3, <2>4
<1>7. ASSUME NEW s \in SUBSET R PROVE Here(s) = Turn(f, g, s)
  <2>1. CASE s = {}
    BY <2>1 DEF Turn
  <2>2. CASE s # {}
    <3> DEFINE q == s \ {Chosen(s)}
    <3>1. q \in SUBSET R /\ q # R
      BY <2>2, ChosenOf
    <3>2. g[q] = Below(q)
      BY <1>6, <3>1
    <3> QED BY <2>2, <3>2 DEF Turn
  <2> QED BY <2>1, <2>2
<1>8. Folds(f, g, R)
  BY <1>7 DEF Folds
<1> QED BY <1>4, <1>8

LEMMA SumStart ==
  ASSUME NEW f, NEW S, IsFiniteSet(S)
  PROVE  SumAt(f, S) = IF S = {} THEN 0 ELSE f[Chosen(S)] + SumAt(f, S \ {Chosen(S)})
<1>1. Folds(f, Fold(f, S), S)
  BY FoldExists
<1>2. SumAt(f, S) = Turn(f, Fold(f, S), S)
  BY <1>1, SumIsAFold DEF Folds
<1>3. CASE S = {}
  BY <1>2, <1>3 DEF Turn
<1>4. CASE S # {}
  <2> DEFINE q == S \ {Chosen(S)}
  <2>1. IsFiniteSet(q)  BY FS_Subset
  <2>2. Folds(f, Fold(f, q), q)  BY <2>1, FoldExists
  <2>3. Fold(f, S)[q] = Fold(f, q)[q]
    BY <1>1, <2>1, <2>2, FoldUnique
  <2>4. SumAt(f, q) = Fold(f, q)[q]  BY SumIsAFold
  <2> QED BY <1>2, <1>4, <2>3, <2>4 DEF Turn
<1> QED BY <1>3, <1>4

LEMMA SumEmpty == \A f : SumAt(f, {}) = 0
BY SumStart, FS_EmptySet

LEMMA SumType ==
  ASSUME NEW f, NEW S, IsFiniteSet(S), \A e \in S : f[e] \in Nat
  PROVE  SumAt(f, S) \in Nat
<1> DEFINE C == {R \in SUBSET S : SumAt(f, R) \notin Nat}
<1>1. SUFFICES ASSUME S \in C PROVE FALSE
  OBVIOUS
<1>2. \A R \in C : IsFiniteSet(R)  BY FS_Subset
<1>3. PICK R \in C : \A Q \in C : ~(Q \subseteq R /\ Q # R)
  <2> HIDE DEF C
  <2> QED BY <1>1, <1>2, LeastSet
<1>4. R # {}  BY SumEmpty
<1>5. Chosen(R) \in S /\ R \ {Chosen(R)} \subseteq S /\ R \ {Chosen(R)} # R  BY <1>4, ChosenOf
<1>6. SumAt(f, R \ {Chosen(R)}) \in Nat  BY <1>3, <1>5
<1>7. SumAt(f, R) = f[Chosen(R)] + SumAt(f, R \ {Chosen(R)})  BY <1>2, <1>4, SumStart
<1> QED BY <1>5, <1>6, <1>7

\* Any element may be taken first.
LEMMA SumTakes ==
  ASSUME NEW f, NEW S, IsFiniteSet(S), \A e \in S : f[e] \in Nat, NEW a \in S
  PROVE  SumAt(f, S) = f[a] + SumAt(f, S \ {a})
<1> DEFINE Off(R) == \E b \in R : SumAt(f, R) # f[b] + SumAt(f, R \ {b})
           C == {R \in SUBSET S : Off(R)}
<1>1. SUFFICES ASSUME S \in C PROVE FALSE
  OBVIOUS
<1>2. \A R \in C : IsFiniteSet(R)  BY FS_Subset
<1>3. PICK R \in C : \A Q \in C : ~(Q \subseteq R /\ Q # R)
  <2> HIDE DEF C
  <2> QED BY <1>1, <1>2, LeastSet
<1>4. PICK b \in R : SumAt(f, R) # f[b] + SumAt(f, R \ {b})
  OBVIOUS
<1> DEFINE c == Chosen(R)
<1>5. c \in R /\ R \subseteq S  BY ChosenOf
<1>6. SumAt(f, R) = f[c] + SumAt(f, R \ {c})  BY <1>2, SumStart
<1> HIDE DEF c
<1>7. b # c  BY <1>4, <1>6
<1>8. IsFiniteSet(R) /\ IsFiniteSet(R \ {b}) /\ IsFiniteSet(R \ {c}) /\ IsFiniteSet((R \ {b}) \ {c})
  BY <1>2, FS_Subset
<1>9. ASSUME NEW e \in R PROVE ~Off(R \ {e})
  <2>1. R \ {e} \subseteq R /\ R \ {e} # R /\ R \ {e} \in SUBSET S  BY <1>5
  <2> HIDE DEF Off
  <2> QED BY <1>3, <2>1
<1>10. SumAt(f, R \ {b}) = f[c] + SumAt(f, (R \ {b}) \ {c})
  BY <1>5, <1>7, <1>9
<1>11. SumAt(f, R \ {c}) = f[b] + SumAt(f, (R \ {c}) \ {b})
  BY <1>5, <1>7, <1>9
<1>12. (R \ {b}) \ {c} = (R \ {c}) \ {b}
  OBVIOUS
<1>13. SumAt(f, (R \ {b}) \ {c}) \in Nat /\ f[b] \in Nat /\ f[c] \in Nat
  BY <1>5, <1>8, SumType
<1>14. SumAt(f, R) = f[c] + (f[b] + SumAt(f, (R \ {b}) \ {c}))
  BY <1>6, <1>11, <1>12
<1>15. \A i, j, k \in Nat : i + (j + k) = j + (i + k)
  OBVIOUS
<1> QED BY <1>4, <1>10, <1>13, <1>14, <1>15

LEMMA SumAdds ==
  ASSUME NEW f, NEW S, IsFiniteSet(S), NEW a, a \notin S, \A e \in S \cup {a} : f[e] \in Nat
  PROVE  SumAt(f, S \cup {a}) = SumAt(f, S) + f[a]
<1>1. IsFiniteSet(S \cup {a}) /\ a \in S \cup {a} /\ (S \cup {a}) \ {a} = S  BY FS_AddElement
<1>2. SumAt(f, S \cup {a}) = f[a] + SumAt(f, S)  BY <1>1, SumTakes
<1>3. SumAt(f, S) \in Nat  BY SumType
<1> QED BY <1>2, <1>3

LEMMA SumGrows ==
  ASSUME NEW f, NEW S, IsFiniteSet(S), \A e \in S : f[e] \in Nat, NEW R \in SUBSET S
  PROVE  SumAt(f, R) <= SumAt(f, S)
<1> DEFINE C == {Q \in SUBSET S : R \subseteq Q /\ ~(SumAt(f, R) <= SumAt(f, Q))}
<1>1. SUFFICES ASSUME S \in C PROVE FALSE
  OBVIOUS
<1>2. \A Q \in C : IsFiniteSet(Q)  BY FS_Subset
<1>3. PICK Q \in C : \A P \in C : ~(P \subseteq Q /\ P # Q)
  <2> HIDE DEF C
  <2> QED BY <1>1, <1>2, LeastSet
<1>4. IsFiniteSet(R) /\ IsFiniteSet(Q)  BY <1>2, FS_Subset
<1>5. SumAt(f, R) \in Nat /\ SumAt(f, Q) \in Nat  BY <1>4, SumType
<1>6. PICK b \in Q : b \notin R  BY <1>5
<1>7. SumAt(f, Q) = f[b] + SumAt(f, Q \ {b}) /\ f[b] \in Nat  BY <1>4, SumTakes
<1>8. SumAt(f, Q \ {b}) \in Nat  BY <1>4, FS_Subset, SumType
<1>9. SumAt(f, R) <= SumAt(f, Q \ {b})  BY <1>3, <1>6
<1> QED BY <1>5, <1>7, <1>8, <1>9

\* Two functions that agree on the set have the same sum, one below the other
\* the smaller one.
LEMMA SumBelow ==
  ASSUME NEW f, NEW g, NEW S, IsFiniteSet(S),
         \A e \in S : f[e] \in Nat /\ g[e] \in Nat /\ f[e] <= g[e]
  PROVE  SumAt(f, S) <= SumAt(g, S)
<1> DEFINE C == {R \in SUBSET S : ~(SumAt(f, R) <= SumAt(g, R))}
<1>1. SUFFICES ASSUME S \in C PROVE FALSE
  OBVIOUS
<1>2. \A R \in C : IsFiniteSet(R)  BY FS_Subset
<1>3. PICK R \in C : \A Q \in C : ~(Q \subseteq R /\ Q # R)
  <2> HIDE DEF C
  <2> QED BY <1>1, <1>2, LeastSet
<1>4. R # {}  BY SumEmpty
<1> DEFINE c == Chosen(R)
           Q == R \ {c}
<1>5. c \in S /\ Q \subseteq S /\ Q \subseteq R /\ Q # R  BY <1>4, ChosenOf
<1>6. SumAt(f, Q) <= SumAt(g, Q)  BY <1>3, <1>5
<1>7. SumAt(f, R) = f[c] + SumAt(f, Q) /\ SumAt(g, R) = g[c] + SumAt(g, Q)
  BY <1>2, <1>4, SumStart
<1>8. IsFiniteSet(Q)  BY <1>5, FS_Subset
<1>9. SumAt(f, Q) \in Nat /\ SumAt(g, Q) \in Nat  BY <1>5, <1>8, SumType
<1>10. f[c] \in Nat /\ g[c] \in Nat /\ f[c] <= g[c]  BY <1>5
<1> HIDE DEF c, Q
<1>11. SumAt(f, R) <= SumAt(g, R)  BY <1>6, <1>7, <1>9, <1>10
<1> QED BY <1>11

LEMMA SumEqual ==
  ASSUME NEW f, NEW g, NEW S, IsFiniteSet(S), \A e \in S : f[e] \in Nat /\ g[e] = f[e]
  PROVE  SumAt(f, S) = SumAt(g, S)
<1>1. SumAt(f, S) \in Nat /\ SumAt(g, S) \in Nat  BY SumType
<1>2. SumAt(f, S) <= SumAt(g, S)
  <2>1. \A e \in S : f[e] \in Nat /\ g[e] \in Nat /\ f[e] <= g[e]  OBVIOUS
  <2> QED BY <2>1, SumBelow
<1>3. SumAt(g, S) <= SumAt(f, S)
  <2>1. \A e \in S : g[e] \in Nat /\ f[e] \in Nat /\ g[e] <= f[e]  OBVIOUS
  <2> QED BY <2>1, SumBelow
<1> QED BY <1>1, <1>2, <1>3

\* A sum falls into the sums of two parts.
LEMMA SumSplit ==
  ASSUME NEW f, NEW S, IsFiniteSet(S), \A e \in S : f[e] \in Nat, NEW R \in SUBSET S
  PROVE  SumAt(f, S) = SumAt(f, R) + SumAt(f, S \ R)
<1> DEFINE C == {Q \in SUBSET S : SumAt(f, Q) # SumAt(f, Q \cap R) + SumAt(f, Q \ R)}
<1>1. SUFFICES ASSUME S \in C PROVE FALSE
  <2>1. S \cap R = R  OBVIOUS
  <2> QED BY <2>1
<1>2. \A Q \in C : IsFiniteSet(Q)  BY FS_Subset
<1>3. PICK Q \in C : \A P \in C : ~(P \subseteq Q /\ P # Q)
  <2> HIDE DEF C
  <2> QED BY <1>1, <1>2, LeastSet
<1>4. Q # {}
  <2> SUFFICES ASSUME Q = {} PROVE FALSE
    OBVIOUS
  <2>1. SumAt(f, Q) = 0 /\ Q \cap R = Q /\ Q \ R = Q  BY SumEmpty
  <2>2. SumAt(f, Q) = SumAt(f, Q \cap R) + SumAt(f, Q \ R)  BY <2>1
  <2> QED BY <2>2
<1>5. PICK c \in Q : TRUE  BY <1>4
<1> DEFINE P == Q \ {c}
<1>6. P \subseteq S /\ P \subseteq Q /\ P # Q  BY <1>5
<1>7. SumAt(f, P) = SumAt(f, P \cap R) + SumAt(f, P \ R)  BY <1>3, <1>6
<1>8. \A W \in SUBSET S : IsFiniteSet(W) /\ SumAt(f, W) \in Nat  BY FS_Subset, SumType
<1>9. SumAt(f, Q) = f[c] + SumAt(f, P) /\ f[c] \in Nat  BY <1>2, SumTakes
<1>10. CASE c \in R
  <2> DEFINE A == Q \cap R
  <2>1. c \in A /\ A \ {c} = P \cap R /\ Q \ R = P \ R /\ A \in SUBSET S  BY <1>10
  <2>2. IsFiniteSet(A) /\ \A e \in A : f[e] \in Nat  BY <1>8, <2>1
  <2> HIDE DEF A
  <2>3. SumAt(f, A) = f[c] + SumAt(f, A \ {c})  BY <2>1, <2>2, SumTakes
  <2>4. P \cap R \in SUBSET S /\ P \ R \in SUBSET S  BY <1>6
  <2>5. SumAt(f, P \cap R) \in Nat /\ SumAt(f, P \ R) \in Nat  BY <1>8, <2>4
  <2> HIDE DEF P
  <2>6. SumAt(f, Q) = f[c] + (SumAt(f, P \cap R) + SumAt(f, P \ R))  BY <1>7, <1>9
  <2>7. SumAt(f, Q) = (f[c] + SumAt(f, P \cap R)) + SumAt(f, P \ R)  BY <1>9, <2>5, <2>6
  <2>8. SumAt(f, Q) = SumAt(f, A) + SumAt(f, Q \ R)  BY <2>1, <2>3, <2>7
  <2> QED BY <2>8 DEF A
<1>11. CASE c \notin R
  <2> DEFINE A == Q \ R
  <2>1. c \in A /\ A \ {c} = P \ R /\ Q \cap R = P \cap R /\ A \in SUBSET S  BY <1>11
  <2>2. IsFiniteSet(A) /\ \A e \in A : f[e] \in Nat  BY <1>8, <2>1
  <2> HIDE DEF A
  <2>3. SumAt(f, A) = f[c] + SumAt(f, A \ {c})  BY <2>1, <2>2, SumTakes
  <2>4. P \cap R \in SUBSET S /\ P \ R \in SUBSET S  BY <1>6
  <2>5. SumAt(f, P \cap R) \in Nat /\ SumAt(f, P \ R) \in Nat  BY <1>8, <2>4
  <2> HIDE DEF P
  <2>6. SumAt(f, Q) = f[c] + (SumAt(f, P \cap R) + SumAt(f, P \ R))  BY <1>7, <1>9
  <2>7. SumAt(f, Q) = SumAt(f, P \cap R) + (f[c] + SumAt(f, P \ R))  BY <1>9, <2>5, <2>6
  <2>8. SumAt(f, Q) = SumAt(f, Q \cap R) + SumAt(f, A)  BY <2>1, <2>3, <2>7
  <2> QED BY <2>8 DEF A
<1> QED BY <1>10, <1>11

\* Zeros add nothing.
LEMMA SumOfZeros ==
  ASSUME NEW f, NEW S, IsFiniteSet(S), \A e \in S : f[e] = 0
  PROVE  SumAt(f, S) = 0
<1> DEFINE C == {R \in SUBSET S : SumAt(f, R) # 0}
<1>1. SUFFICES ASSUME S \in C PROVE FALSE
  OBVIOUS
<1>2. \A R \in C : IsFiniteSet(R)  BY FS_Subset
<1>3. PICK R \in C : \A Q \in C : ~(Q \subseteq R /\ Q # R)
  <2> HIDE DEF C
  <2> QED BY <1>1, <1>2, LeastSet
<1>4. R # {}  BY SumEmpty
<1>5. Chosen(R) \in S /\ R \ {Chosen(R)} \subseteq S /\ R \ {Chosen(R)} # R  BY <1>4, ChosenOf
<1>6. SumAt(f, R \ {Chosen(R)}) = 0  BY <1>3, <1>5
<1>7. SumAt(f, R) = f[Chosen(R)] + SumAt(f, R \ {Chosen(R)})  BY <1>2, <1>4, SumStart
<1> QED BY <1>5, <1>6, <1>7

-----------------------------------------------------------------------------
(***************************************************************************)
(* Sets of numbers as ascending lists.                                     *)
(***************************************************************************)
Rank(S, x) == Cardinality({y \in S : y < x})

LEMMA FiniteNumbers ==
  ASSUME NEW n \in Nat, NEW S \in SUBSET (1..n)
  PROVE  IsFiniteSet(S) /\ Cardinality(S) \in Nat /\ \A x \in S : x \in Int /\ 1 <= x /\ x <= n
<1>1. IsFiniteSet(1..n)  BY FS_Interval
<1>2. IsFiniteSet(S)  BY <1>1, FS_Subset
<1>3. Cardinality(S) \in Nat  BY <1>2, FS_CardinalityType
<1>4. ASSUME NEW x \in S PROVE x \in Int /\ 1 <= x /\ x <= n
  <2>1. x \in 1..n  OBVIOUS
  <2> QED BY <2>1
<1> QED BY <1>2, <1>3, <1>4

LEMMA Ranks ==
  ASSUME NEW n \in Nat, NEW S \in SUBSET (1..n)
  PROVE  /\ \A x \in S : Rank(S, x) \in 0..Cardinality(S) - 1
         /\ \A x, y \in S : x < y => Rank(S, x) < Rank(S, y)
         /\ \A k \in 1..Cardinality(S) : \E x \in S : Rank(S, x) = k - 1
<1>1. IsFiniteSet(S) /\ Cardinality(S) \in Nat /\ \A x \in S : x \in Int  BY FiniteNumbers
<1>2. ASSUME NEW x \in S PROVE Rank(S, x) \in 0..Cardinality(S) - 1
  <2> DEFINE T == {y \in S : y < x}
  <2>1. T \in SUBSET S /\ x \notin T  BY <1>1
  <2>2. Cardinality(T) <= Cardinality(S) /\ Cardinality(T) # Cardinality(S) /\ IsFiniteSet(T)  BY <1>1, <2>1, FS_Subset
  <2>3. Cardinality(T) \in Nat  BY <2>2, FS_CardinalityType
  <2> QED BY <1>1, <2>2, <2>3 DEF Rank
<1>3. ASSUME NEW x \in S, NEW y \in S, x < y PROVE Rank(S, x) < Rank(S, y)
  <2> DEFINE T == {z \in S : z < x}
             U == {z \in S : z < y}
  <2>0. x \in Int /\ y \in Int /\ \A z \in S : z \in Int  BY <1>1
  <2>1. T \in SUBSET U /\ x \in U /\ x \notin T
    <3>1. \A z \in S : z < x => z < y  BY <1>3, <2>0
    <3>2. T \in SUBSET U  BY <3>1
    <3>3. x \in U  BY <1>3
    <3>4. ~(x < x)  BY <2>0
    <3> QED BY <3>2, <3>3, <3>4
  <2>2. IsFiniteSet(U)  BY <1>1, FS_Subset
  <2>3. Cardinality(T) <= Cardinality(U) /\ Cardinality(T) # Cardinality(U) /\ IsFiniteSet(T)  BY <2>1, <2>2, FS_Subset
  <2>4. Cardinality(T) \in Nat /\ Cardinality(U) \in Nat  BY <2>2, <2>3, FS_CardinalityType
  <2> QED BY <2>3, <2>4 DEF Rank
<1> DEFINE f == [x \in S |-> Rank(S, x)]
<1>4. f \in Injection(S, 0..Cardinality(S) - 1)
  <2>1. f \in [S -> 0..Cardinality(S) - 1]  BY <1>2
  <2>2. ASSUME NEW x \in S, NEW y \in S, f[x] = f[y] PROVE x = y
    <3>1. Rank(S, x) = Rank(S, y) /\ Rank(S, x) \in Int  BY <1>2, <2>2
    <3>2. x \in Int /\ y \in Int  BY <1>1
    <3>3. ~(x < y) /\ ~(y < x)  BY <1>3, <3>1
    <3> QED BY <3>2, <3>3
  <2> QED BY <2>1, <2>2 DEF Injection, IsInjective
<1>5. IsFiniteSet(0..Cardinality(S) - 1) /\ Cardinality(0..Cardinality(S) - 1) = Cardinality(S)
  <2>1. Cardinality(S) - 1 \in Int /\ 0 \in Int  BY <1>1
  <2> QED BY <1>1, <2>1, FS_Interval
<1>6. f \in Surjection(S, 0..Cardinality(S) - 1)  BY <1>4, <1>5, FS_Injection
<1>7. ASSUME NEW k \in 1..Cardinality(S) PROVE \E x \in S : Rank(S, x) = k - 1
  <2>1. k - 1 \in 0..Cardinality(S) - 1  BY <1>1
  <2> QED BY <1>6, <2>1 DEF Surjection
<1> QED BY <1>2, <1>3, <1>7

LEMMA AscendingList ==
  ASSUME NEW n \in Nat, NEW S \in SUBSET (1..n)
  PROVE  /\ DOMAIN Ascending(S) = 1..Cardinality(S) /\ Cardinality(S) \in Nat
         /\ Ascending(S) \in [1..Cardinality(S) -> S]
         /\ \A k \in 1..Cardinality(S) : Ascending(S)[k] \in S /\ Rank(S, Ascending(S)[k]) = k - 1
         /\ ToSet(Ascending(S)) = S
         /\ \A k, l \in 1..Cardinality(S) : k < l <=> Ascending(S)[k] < Ascending(S)[l]
<1>1. Cardinality(S) \in Nat /\ \A x \in S : x \in Int  BY FiniteNumbers
<1>2. Ascending(S) = [k \in 1..Cardinality(S) |-> CHOOSE x \in S : Rank(S, x) = k - 1]
  BY DEF Ascending, Sorted, Rank
<1>3. ASSUME NEW k \in 1..Cardinality(S) PROVE Ascending(S)[k] \in S /\ Rank(S, Ascending(S)[k]) = k - 1
  BY <1>2, Ranks
<1>4. ASSUME NEW x \in S PROVE \E k \in 1..Cardinality(S) : Ascending(S)[k] = x
  <2> DEFINE k == Rank(S, x) + 1
  <2>1. Rank(S, x) \in 0..Cardinality(S) - 1  BY Ranks
  <2>2. k \in 1..Cardinality(S) /\ k - 1 = Rank(S, x)  BY <1>1, <2>1
  <2> HIDE DEF k
  <2>3. Ascending(S)[k] \in S /\ Rank(S, Ascending(S)[k]) = Rank(S, x)  BY <1>3, <2>2
  <2> DEFINE y == Ascending(S)[k]
  <2> HIDE DEF y
  <2>4. y \in S /\ Rank(S, y) = Rank(S, x)  BY <2>3 DEF y
  <2>5. Rank(S, x) \in Int /\ x \in Int /\ y \in Int  BY <1>1, <2>1, <2>4
  <2>6. ~(x < y) /\ ~(y < x)
    <3>1. x < y => Rank(S, x) < Rank(S, y)  BY <2>4, Ranks
    <3>2. y < x => Rank(S, y) < Rank(S, x)  BY <2>4, Ranks
    <3> QED BY <2>4, <2>5, <3>1, <3>2
  <2>7. Ascending(S)[k] = x  BY <2>5, <2>6 DEF y
  <2> QED BY <2>2, <2>7
<1>5. DOMAIN Ascending(S) = 1..Cardinality(S)  BY <1>2
<1>6. ToSet(Ascending(S)) = S  BY <1>3, <1>4, <1>5 DEF ToSet
<1>7. ASSUME NEW k \in 1..Cardinality(S), NEW l \in 1..Cardinality(S) PROVE k < l <=> Ascending(S)[k] < Ascending(S)[l]
  <2>1. /\ Ascending(S)[k] \in S /\ Rank(S, Ascending(S)[k]) = k - 1
        /\ Ascending(S)[l] \in S /\ Rank(S, Ascending(S)[l]) = l - 1
    BY <1>3
  <2>2. Ascending(S)[k] < Ascending(S)[l] => k - 1 < l - 1  BY <2>1, Ranks
  <2>3. Ascending(S)[l] < Ascending(S)[k] => l - 1 < k - 1  BY <2>1, Ranks
  <2>4. Ascending(S)[l] = Ascending(S)[k] => l - 1 = k - 1  BY <2>1
  <2>5. Ascending(S)[k] \in Int /\ Ascending(S)[l] \in Int  BY <1>1, <2>1
  <2>6. k \in Int /\ l \in Int  OBVIOUS
  <2> QED BY <2>2, <2>3, <2>4, <2>5, <2>6
<1>8. Ascending(S) \in [1..Cardinality(S) -> S]
  <2> DEFINE e(k) == CHOOSE x \in S : Rank(S, x) = k - 1
  <2>1. Ascending(S) = [k \in 1..Cardinality(S) |-> e(k)]  BY <1>2
  <2> HIDE DEF e
  <2> QED BY <1>3, <2>1
<1> QED BY <1>1, <1>3, <1>5, <1>6, <1>7, <1>8

\* A nonempty set of naturals has a least element, and Min is it.
LEMMA MinIsLeast ==
  ASSUME NEW S \in SUBSET Nat, S # {}
  PROVE  Min(S) \in S /\ \A e \in S : Min(S) <= e
<1>1. PICK m \in S : \A e \in S : ~ (<<e, m>> \in OpToRel(<, Nat))
  BY NatLessThanWellFounded, WFMin
<1>2. \A e \in S : ~(e < m)
  BY <1>1 DEF OpToRel
<1>3. \A e \in S : m <= e
  BY <1>2
<1> QED
  BY <1>3 DEF Min
=============================================================================

------------------------- MODULE BlockTriangle_proofs -------------------------
(***************************************************************************)
(* Proofs about BlockTriangle, for any square patterns: the transversal is *)
(* maximum (Koenig's theorem over the searches of hk_transversal and       *)
(* mc21_transversal), and btf_from_matching emits the strongly connected   *)
(* components (Tarjan's algorithm), in an order without entries below.     *)
(***************************************************************************)
EXTENDS BlockTriangle, Sums_proofs, SequenceTheorems

-----------------------------------------------------------------------------
(***************************************************************************)
(* Matchings of a square pattern.                                          *)
(***************************************************************************)
Square(n, p) == n \in Nat /\ p \in [1..n -> SUBSET (1..n)]

Matching(n, p, m) ==
  /\ m \in [1..n -> 0..n]
  /\ \A c \in 1..n : m[c] # 0 => m[c] \in p[c]
  /\ \A c, d \in 1..n : m[c] = m[d] /\ m[c] # 0 => c = d

Free(n, m) == {c \in 1..n : m[c] = 0}

\* A set of columns whose rows are all matched within it.
Shut(n, p, m, D) ==
  /\ D \in SUBSET (1..n)
  /\ \A d \in D : \A r \in p[d] : \E e \in D : m[e] = r

-----------------------------------------------------------------------------
(***************************************************************************)
(* The walk, by the sets of columns on the stack (S) and emitted (D).      *)
(***************************************************************************)
Arc(p, m, c, d) == m[d] \in p[c]

Reaches(n, p, m, c, d) ==
  \A X \in SUBSET (1..n) :
    (c \in X /\ \A x \in X, y \in 1..n : Arc(p, m, x, y) => y \in X) => d \in X

\* The arc has been looked at.
Looked(p, m, fr, c, d) ==
  Arc(p, m, c, d) /\ \A i \in DOMAIN fr : fr[i][1] = c => m[d] \notin fr[i][2]

Seen(n, ix) == {c \in 1..n : ix[c] # -1}

Numbered(n, ix, S, D) ==
  /\ ix \in [1..n -> -1..n]
  /\ \A c \in 1..n : ix[c] < Cardinality(Seen(n, ix))
  /\ \A c, d \in 1..n : ix[c] = ix[d] /\ ix[c] # -1 => c = d
  /\ Seen(n, ix) = S \cup D /\ S \cap D = {}

Framed(n, p, m, ix, S, fr) ==
  /\ fr \in Seq((1..n) \X SUBSET (1..n))
  /\ \A i \in DOMAIN fr : fr[i][1] \in S /\ fr[i][2] \subseteq p[fr[i][1]]
  /\ \A i, j \in DOMAIN fr : i < j => ix[fr[i][1]] < ix[fr[j][1]]
  /\ \A i, j \in DOMAIN fr : j = i + 1 => Arc(p, m, fr[i][1], fr[j][1])

\* But for W, what has been looked at has been seen.
Explored(n, p, m, ix, fr, W) ==
  \A c \in Seen(n, ix), d \in 1..n : Looked(p, m, fr, c, d) => d \in Seen(n, ix) \cup W

Sealed(n, p, m, D) == \A c \in D, d \in 1..n : Arc(p, m, c, d) => d \in D

Linked(n, p, m, ix, S, fr) ==
  /\ \A x, y \in S : ix[x] <= ix[y] => Reaches(n, p, m, x, y)
  /\ \A y \in S : \E i \in DOMAIN fr : ix[fr[i][1]] <= ix[y] /\ Reaches(n, p, m, y, fr[i][1])

\* The lowlink of a column being searched is a column's it reaches, and as
\* low as any its part of the stack has looked at.
Lows(n, p, m, ix, lw, S, fr) ==
  /\ lw \in [1..n -> -1..n]
  /\ \A i \in DOMAIN fr :
       /\ lw[fr[i][1]] <= ix[fr[i][1]]
       /\ \E w \in S : ix[w] = lw[fr[i][1]] /\ Reaches(n, p, m, fr[i][1], w)
       /\ \A x, y \in S :
            /\ ix[fr[i][1]] <= ix[x] /\ (i + 1 \in DOMAIN fr => ix[x] < ix[fr[i + 1][1]])
            /\ Looked(p, m, fr, x, y)
            => lw[fr[i][1]] <= ix[y]

Walks(n, p, m, ix, lw, S, D, fr, W) ==
  /\ Numbered(n, ix, S, D)
  /\ Framed(n, p, m, ix, S, fr)
  /\ Explored(n, p, m, ix, fr, W)
  /\ Sealed(n, p, m, D)
  /\ Linked(n, p, m, ix, S, fr)
  /\ Lows(n, p, m, ix, lw, S, fr)

\* The stack is in the order of discovery.
Discovered(n, ix, st) ==
  st \in Seq(1..n) /\ \A i, j \in DOMAIN st : i < j => ix[st[i]] < ix[st[j]]

\* What has been emitted: no column twice, each block strongly connected,
\* nothing leads out of the blocks so far.
Emitted(n, p, m, cp, bp) ==
  /\ cp \in Seq(1..n) /\ \A i, j \in DOMAIN cp : cp[i] = cp[j] => i = j
  /\ bp \in Seq(Nat) /\ bp # <<>> /\ bp[1] = 1 /\ bp[Len(bp)] = Len(cp) + 1
  /\ \A b, e \in DOMAIN bp : b < e => bp[b] < bp[e]
  /\ \A b \in DOMAIN bp : Sealed(n, p, m, {cp[i] : i \in 1..bp[b] - 1})
  /\ \A b, e \in DOMAIN bp : e = b + 1 =>
       \A i, j \in bp[b]..bp[e] - 1 : Reaches(n, p, m, cp[i], cp[j])

-----------------------------------------------------------------------------
MatchInv ==
  /\ pattern \in Patterns /\ rule \in {"diagonal", "free", "mc21"}
  /\ stage \in {"seed", "layers", "augment", "matched", "dropped", "walk"}
  /\ Matching(Len(pattern), pattern, rowMatch)
  /\ open \subseteq Free(Len(pattern), rowMatch)
  /\ stage = "augment" => open # {}
  /\ (stage = "augment" /\ rule = "mc21") =>
       \E D : Shut(Len(pattern), pattern, rowMatch, D) /\ Free(Len(pattern), rowMatch) \ open \subseteq D
  /\ stage = "matched" =>
       \E D : Shut(Len(pattern), pattern, rowMatch, D) /\ Free(Len(pattern), rowMatch) \subseteq D
  /\ stage = "walk" => Free(Len(pattern), rowMatch) = {}

WalkInv ==
  /\ Walks(Len(pattern), pattern, rowMatch, index, low, Range(stack), Range(colPerm), frames, {})
  /\ Discovered(Len(pattern), index, stack)
  /\ Emitted(Len(pattern), pattern, rowMatch, colPerm, blockPtr)

BtfInv ==
  /\ MatchInv
  /\ stage # "walk" =>
       /\ index = [c \in Slot |-> UNSET] /\ low = index
       /\ stack = <<>> /\ frames = <<>> /\ colPerm = <<>> /\ blockPtr = <<1>>
  /\ stage = "walk" => WalkInv

-----------------------------------------------------------------------------
(***************************************************************************)
(* Koenig: a matching is as large as any where the free columns lie in a   *)
(* shut set.                                                               *)
(***************************************************************************)
LEMMA FinitePart ==
  ASSUME NEW n \in Nat, NEW S \in SUBSET (1..n)
  PROVE  IsFiniteSet(S) /\ Cardinality(S) \in Nat
<1>1. IsFiniteSet(1..n)  BY FS_Interval
<1>2. IsFiniteSet(S)  BY <1>1, FS_Subset
<1> QED BY <1>2, FS_CardinalityType

LEMMA Injects ==
  ASSUME NEW S, NEW T, IsFiniteSet(T), NEW f \in [S -> T], \A x, y \in S : f[x] = f[y] => x = y
  PROVE  /\ IsFiniteSet(S) /\ Cardinality(S) <= Cardinality(T)
         /\ Cardinality(S) = Cardinality(T) => \A t \in T : \E s \in S : f[s] = t
<1>1. f \in Injection(S, T)  BY DEF Injection, IsInjective
<1>2. IsFiniteSet(S) /\ Cardinality(S) <= Cardinality(T) /\ (Cardinality(S) = Cardinality(T) <=> f \in Surjection(S, T))
  BY <1>1, FS_Injection
<1> QED BY <1>2 DEF Surjection

LEMMA Deficient ==
  ASSUME NEW n, NEW p, NEW m, Square(n, p), Matching(n, p, m), NEW S \in SUBSET (1..n)
  PROVE  /\ UNION {p[c] : c \in S} \in SUBSET (1..n)
         /\ Cardinality(S) - Cardinality(UNION {p[c] : c \in S}) <= Cardinality(Free(n, m))
<1> DEFINE N == UNION {p[c] : c \in S}
           T == S \ Free(n, m)
           f == [c \in T |-> m[c]]
<1>0. n \in Nat /\ \A c \in 1..n : p[c] \subseteq 1..n  BY DEF Square
<1>1. N \in SUBSET (1..n) /\ T \in SUBSET (1..n) /\ Free(n, m) \in SUBSET (1..n) /\ S \cap Free(n, m) \in SUBSET Free(n, m)
  BY <1>0 DEF Free
<1>2. IsFiniteSet(N) /\ IsFiniteSet(S) /\ IsFiniteSet(Free(n, m)) /\ Cardinality(N) \in Nat /\ Cardinality(S) \in Nat
      /\ Cardinality(T) \in Nat /\ Cardinality(Free(n, m)) \in Nat
  BY <1>0, <1>1, FinitePart
<1>3. f \in [T -> N] /\ \A x, y \in T : f[x] = f[y] => x = y
  <2>1. \A c \in T : c \in S /\ c \in 1..n /\ m[c] # 0  BY DEF Free
  <2>2. \A c \in T : m[c] \in p[c]  BY <2>1 DEF Matching
  <2>3. \A c \in T : m[c] \in N  BY <2>1, <2>2
  <2>4. \A x, y \in T : m[x] = m[y] => x = y  BY <2>1 DEF Matching
  <2> QED BY <2>3, <2>4
<1>4. Cardinality(T) <= Cardinality(N)
  <2> HIDE DEF f, T, N
  <2> QED BY <1>2, <1>3, Injects
<1>5. Cardinality(T) = Cardinality(S) - Cardinality(S \cap Free(n, m))  BY <1>2, FS_Difference
<1>6. Cardinality(S \cap Free(n, m)) <= Cardinality(Free(n, m)) /\ Cardinality(S \cap Free(n, m)) \in Nat
  BY <1>1, <1>2, FS_Subset, FS_CardinalityType
<1> QED BY <1>1, <1>2, <1>4, <1>5, <1>6

Deficiency(C, p) == Max({Cardinality(S) - Cardinality(UNION {p[c] : c \in S}) : S \in SUBSET C})

LEMMA Koenig ==
  ASSUME NEW n, NEW p, NEW m, Square(n, p), Matching(n, p, m), NEW D, Shut(n, p, m, D), Free(n, m) \subseteq D
  PROVE  Cardinality(Free(n, m)) = Deficiency(1..n, p)
<1> DEFINE N == UNION {p[c] : c \in D}
           T == D \ Free(n, m)
           h == [r \in N |-> CHOOSE e \in D : m[e] = r]
           All == {Cardinality(S) - Cardinality(UNION {p[c] : c \in S}) : S \in SUBSET (1..n)}
<1>0. n \in Nat /\ D \in SUBSET (1..n)  BY DEF Square, Shut
<1>1. N \in SUBSET (1..n) /\ Cardinality(D) - Cardinality(N) <= Cardinality(Free(n, m))  BY <1>0, Deficient
<1>2. IsFiniteSet(N) /\ IsFiniteSet(D) /\ IsFiniteSet(T) /\ Cardinality(N) \in Nat /\ Cardinality(D) \in Nat
      /\ Cardinality(T) \in Nat /\ Cardinality(Free(n, m)) \in Nat
  <2>1. T \in SUBSET (1..n) /\ Free(n, m) \in SUBSET (1..n)  BY <1>0 DEF Free
  <2> QED BY <1>0, <1>1, <2>1, FinitePart
<1>3. h \in [N -> T] /\ \A x, y \in N : h[x] = h[y] => x = y
  <2>1. ASSUME NEW r \in N PROVE h[r] \in T /\ m[h[r]] = r
    <3>1. \E e \in D : m[e] = r  BY DEF Shut
    <3>2. h[r] \in D /\ m[h[r]] = r  BY <3>1
    <3>3. r # 0  BY <1>1
    <3> QED BY <3>2, <3>3 DEF Free
  <2>2. h \in [N -> T]
    <3>1. h = [r \in N |-> h[r]]  OBVIOUS
    <3> HIDE DEF h, N, T
    <3> QED BY <2>1, <3>1
  <2> HIDE DEF h
  <2> QED BY <2>1, <2>2
<1>4. Cardinality(N) <= Cardinality(T)
  <2> HIDE DEF h, T, N
  <2> QED BY <1>2, <1>3, Injects
<1>5. Cardinality(T) = Cardinality(D) - Cardinality(Free(n, m))
  <2>1. D \cap Free(n, m) = Free(n, m)  OBVIOUS
  <2> QED BY <1>2, <2>1, FS_Difference
<1>6. Cardinality(Free(n, m)) = Cardinality(D) - Cardinality(N)  BY <1>1, <1>2, <1>4, <1>5
<1>7. Cardinality(Free(n, m)) \in All  BY <1>0, <1>6
<1>8. \A a \in All : a <= Cardinality(Free(n, m))
  <2>1. \A S \in SUBSET (1..n) : Cardinality(S) - Cardinality(UNION {p[c] : c \in S}) <= Cardinality(Free(n, m))
    BY Deficient
  <2> QED BY <2>1
<1>9. ASSUME NEW x \in All, \A a \in All : x >= a PROVE x = Cardinality(Free(n, m))
  <2>1. x <= Cardinality(Free(n, m)) /\ x >= Cardinality(Free(n, m))  BY <1>7, <1>8, <1>9
  <2>2. x \in Int
    <3>1. PICK S \in SUBSET (1..n) : x = Cardinality(S) - Cardinality(UNION {p[c] : c \in S})  OBVIOUS
    <3>2. Cardinality(S) \in Nat  BY <1>0, FinitePart
    <3>3. Cardinality(UNION {p[c] : c \in S}) \in Nat  BY <1>0, Deficient, FinitePart
    <3> QED BY <3>1, <3>2, <3>3
  <2> QED BY <1>2, <2>1, <2>2
<1>10. Cardinality(Free(n, m)) = CHOOSE x \in All : \A a \in All : x >= a
  <2> HIDE DEF All
  <2>1. Cardinality(Free(n, m)) \in All /\ \A a \in All : Cardinality(Free(n, m)) >= a  
    <3>1. \A a \in All : a \in Int
      <4>1. ASSUME NEW S \in SUBSET (1..n) PROVE Cardinality(S) - Cardinality(UNION {p[c] : c \in S}) \in Int
        <5>1. Cardinality(S) \in Nat  BY <1>0, FinitePart
        <5>2. Cardinality(UNION {p[c] : c \in S}) \in Nat  BY <1>0, Deficient, FinitePart
        <5> QED BY <5>1, <5>2
      <4> QED BY <4>1 DEF All
    <3> QED BY <1>2, <1>7, <1>8, <3>1
  <2> QED BY <1>9, <2>1
<1> QED BY <1>10 DEF Max, Deficiency

-----------------------------------------------------------------------------
(***************************************************************************)
(* An augmenting path: columns q, no one twice, each row but the last      *)
(* matched to the next column, the last row r free.                        *)
(***************************************************************************)
IsPath(n, p, m, k, q, r) ==
  /\ k \in Nat \ {0} /\ q \in [1..k -> 1..n] /\ \A i, j \in 1..k : q[i] = q[j] => i = j
  /\ \A i \in 1..k : i < k => m[q[i + 1]] \in p[q[i]]
  /\ r \in p[q[k]] /\ \A c \in 1..n : m[c] # r

Turned(n, m, k, q, r, m2) ==
  /\ m2 \in [1..n -> 0..n]
  /\ \A i \in 1..k : m2[q[i]] = IF i = k THEN r ELSE m[q[i + 1]]
  /\ \A c \in 1..n : (\A i \in 1..k : q[i] # c) => m2[c] = m[c]

LEMMA TurnedMatches ==
  ASSUME NEW n, NEW p, NEW m, NEW k, NEW q, NEW r, NEW m2,
         Square(n, p), Matching(n, p, m), IsPath(n, p, m, k, q, r), Turned(n, m, k, q, r, m2)
  PROVE  Matching(n, p, m2)
<1> DEFINE Row(i) == IF i = k THEN r ELSE m[q[i + 1]]
<1>0. n \in Nat /\ k \in Nat /\ k # 0 /\ \A c \in 1..n : p[c] \subseteq 1..n  BY DEF Square, IsPath
<1>1. \A i \in 1..k : q[i] \in 1..n /\ m2[q[i]] = Row(i) /\ Row(i) \in p[q[i]] /\ Row(i) # 0
  <2> SUFFICES ASSUME NEW i \in 1..k PROVE q[i] \in 1..n /\ m2[q[i]] = Row(i) /\ Row(i) \in p[q[i]] /\ Row(i) # 0
    OBVIOUS
  <2>1. q[i] \in 1..n /\ m2[q[i]] = Row(i)  BY DEF IsPath, Turned
  <2>2. i # k => i < k  BY <1>0
  <2>3. Row(i) \in p[q[i]]  BY <2>2 DEF IsPath
  <2>4. Row(i) \in 1..n  BY <1>0, <2>1, <2>3
  <2> QED BY <2>1, <2>3, <2>4
<1>2. ASSUME NEW c \in 1..n, m2[c] # 0 PROVE m2[c] \in p[c]
  <2>1. CASE \E i \in 1..k : q[i] = c  BY <1>1, <2>1
  <2>2. CASE \A i \in 1..k : q[i] # c  BY <1>2, <2>2 DEF Matching, Turned
  <2> QED BY <2>1, <2>2
\* A row on the path is the old row of no column off it.
<1>3. ASSUME NEW i \in 1..k, NEW d \in 1..n, \A j \in 1..k : q[j] # d PROVE m[d] # Row(i)
  <2>1. CASE i = k  BY <2>1 DEF IsPath
  <2>2. CASE i # k
    <3>1. i + 1 \in 1..k /\ Row(i) = m[q[i + 1]]  BY <1>0, <2>2
    <3>2. q[i + 1] \in 1..n /\ Row(i) # 0 /\ q[i + 1] # d  BY <1>1, <1>3, <3>1
    <3> QED BY <3>1, <3>2 DEF Matching
  <2> QED BY <2>1, <2>2
<1>4. ASSUME NEW i \in 1..k, NEW j \in 1..k, Row(i) = Row(j) PROVE i = j
  <2>1. CASE i = k /\ j # k
    <3>1. j + 1 \in 1..k /\ Row(j) = m[q[j + 1]]  BY <1>0, <2>1
    <3>2. q[j + 1] \in 1..n  BY <1>1, <3>1
    <3> QED BY <1>4, <2>1, <3>1, <3>2 DEF IsPath
  <2>2. CASE i # k /\ j = k
    <3>1. i + 1 \in 1..k /\ Row(i) = m[q[i + 1]]  BY <1>0, <2>2
    <3>2. q[i + 1] \in 1..n  BY <1>1, <3>1
    <3> QED BY <1>4, <2>2, <3>1, <3>2 DEF IsPath
  <2>3. CASE i # k /\ j # k
    <3>1. i + 1 \in 1..k /\ Row(i) = m[q[i + 1]] /\ j + 1 \in 1..k /\ Row(j) = m[q[j + 1]]  BY <1>0, <2>3
    <3>2. q[i + 1] \in 1..n /\ q[j + 1] \in 1..n /\ m[q[i + 1]] # 0  BY <1>1, <3>1
    <3>3. q[i + 1] = q[j + 1]  BY <1>4, <3>1, <3>2 DEF Matching
    <3>4. i + 1 = j + 1  BY <3>1, <3>3 DEF IsPath
    <3> QED BY <3>4
  <2> QED BY <2>1, <2>2, <2>3
<1>5. ASSUME NEW c \in 1..n, NEW d \in 1..n, m2[c] = m2[d], m2[c] # 0 PROVE c = d
  <2>1. CASE (\E i \in 1..k : q[i] = c) /\ (\E j \in 1..k : q[j] = d)
    <3>1. PICK i \in 1..k, j \in 1..k : q[i] = c /\ q[j] = d  BY <2>1
    <3>2. Row(i) = Row(j)  BY <1>1, <1>5, <3>1
    <3> QED BY <1>4, <3>1, <3>2
  <2>2. CASE (\E i \in 1..k : q[i] = c) /\ (\A j \in 1..k : q[j] # d)
    <3>1. PICK i \in 1..k : q[i] = c  BY <2>2
    <3>2. m[d] # Row(i) /\ m2[d] = m[d] /\ m2[c] = Row(i)  BY <1>1, <1>3, <2>2, <3>1 DEF Turned
    <3> QED BY <1>5, <3>2
  <2>3. CASE (\A i \in 1..k : q[i] # c) /\ (\E j \in 1..k : q[j] = d)
    <3>1. PICK j \in 1..k : q[j] = d  BY <2>3
    <3>2. m[c] # Row(j) /\ m2[c] = m[c] /\ m2[d] = Row(j)  BY <1>1, <1>3, <2>3, <3>1 DEF Turned
    <3> QED BY <1>5, <3>2
  <2>4. CASE (\A i \in 1..k : q[i] # c) /\ (\A j \in 1..k : q[j] # d)
    <3>1. m2[c] = m[c] /\ m2[d] = m[d]  BY <2>4 DEF Turned
    <3> QED BY <1>5, <3>1 DEF Matching
  <2> QED BY <2>1, <2>2, <2>3, <2>4
<1> QED BY <1>2, <1>5 DEF Matching, Turned

LEMMA TurnedFree ==
  ASSUME NEW n, NEW p, NEW m, NEW k, NEW q, NEW r, NEW m2,
         Square(n, p), Matching(n, p, m), IsPath(n, p, m, k, q, r), Turned(n, m, k, q, r, m2)
  PROVE  Free(n, m2) = Free(n, m) \ {q[1]}
<1>0. n \in Nat /\ k \in Nat /\ 1 \in 1..k /\ \A c \in 1..n : p[c] \subseteq 1..n  BY DEF Square, IsPath
<1>1. ASSUME NEW i \in 1..k PROVE q[i] \in 1..n /\ m2[q[i]] # 0 /\ (i # 1 => m[q[i]] # 0)
  <2>1. q[i] \in 1..n  BY DEF IsPath
  <2>2. ASSUME i = k PROVE m2[q[i]] # 0
    <3>1. r \in p[q[i]]  BY <2>2 DEF IsPath
    <3>2. r \in 1..n  BY <1>0, <2>1, <3>1
    <3> QED BY <2>2, <3>2 DEF Turned
  <2>3. ASSUME i # k PROVE m2[q[i]] # 0
    <3>1. i < k  BY <1>0, <2>3
    <3>2. m[q[i + 1]] \in p[q[i]]  BY <3>1 DEF IsPath
    <3>3. m[q[i + 1]] \in 1..n  BY <1>0, <2>1, <3>2
    <3> QED BY <2>3, <3>3 DEF Turned
  <2>4. ASSUME i # 1 PROVE m[q[i]] # 0
    <3>1. i - 1 \in 1..k /\ i - 1 < k /\ (i - 1) + 1 = i  BY <1>0, <2>4
    <3>2. m[q[i]] \in p[q[i - 1]] /\ q[i - 1] \in 1..n  BY <3>1 DEF IsPath
    <3>3. m[q[i]] \in 1..n  BY <1>0, <3>2
    <3> QED BY <3>3
  <2> QED BY <2>1, <2>2, <2>3, <2>4
<1>2. ASSUME NEW c \in 1..n PROVE c \in Free(n, m2) <=> c \in Free(n, m) /\ c # q[1]
  <2>1. CASE \E i \in 1..k : q[i] = c  BY <1>0, <1>1, <2>1 DEF Free
  <2>2. CASE \A i \in 1..k : q[i] # c
    <3>1. m2[c] = m[c]  BY <2>2 DEF Turned
    <3> QED BY <1>0, <2>2, <3>1 DEF Free
  <2> QED BY <2>1, <2>2
<1>3. Free(n, m) \subseteq 1..n /\ Free(n, m2) \subseteq 1..n  BY DEF Free
<1> QED BY <1>2, <1>3

\* No augmenting path enters a shut set.
LEMMA TurnedShut ==
  ASSUME NEW n, NEW p, NEW m, NEW k, NEW q, NEW r, NEW m2, NEW D,
         Square(n, p), Matching(n, p, m), IsPath(n, p, m, k, q, r), Turned(n, m, k, q, r, m2),
         Shut(n, p, m, D)
  PROVE  Shut(n, p, m2, D)
<1> DEFINE Inside == {i \in 1..k : q[i] \in D}
<1>0. n \in Nat /\ k \in Nat /\ D \in SUBSET (1..n) /\ \A c \in 1..n : p[c] \subseteq 1..n
  BY DEF Square, IsPath, Shut
<1>1. Inside = {}
  <2> SUFFICES ASSUME Inside # {} PROVE FALSE  OBVIOUS
  <2>1. PICK i \in Inside : \A j \in Inside : j <= i
    <3>1. Inside \in SUBSET (1..k)  OBVIOUS
    <3> HIDE DEF Inside
    <3> QED BY <1>0, <3>1, GreatestNumber
  <2>2. i \in 1..k /\ q[i] \in D /\ q[i] \in 1..n  BY <1>0
  <2>3. CASE i = k
    <3>1. r \in p[q[i]]  BY <2>3 DEF IsPath
    <3>2. PICK e \in D : m[e] = r  BY <2>2, <3>1 DEF Shut
    <3> QED BY <1>0, <3>2 DEF IsPath
  <2>4. CASE i # k
    <3>1. i + 1 \in 1..k /\ i < k  BY <1>0, <2>2, <2>4
    <3>2. m[q[i + 1]] \in p[q[i]] /\ q[i + 1] \in 1..n  BY <2>2, <3>1 DEF IsPath
    <3>3. PICK e \in D : m[e] = m[q[i + 1]]  BY <2>2, <3>2 DEF Shut
    <3>4. m[q[i + 1]] # 0  BY <1>0, <2>2, <3>2
    <3>5. e = q[i + 1]  BY <1>0, <3>2, <3>3, <3>4 DEF Matching
    <3>6. i + 1 \in Inside  BY <3>1, <3>3, <3>5
    <3> QED BY <2>1, <2>2, <3>6
  <2> QED BY <2>3, <2>4
<1>2. \A d \in D : m2[d] = m[d]
  <2>1. \A d \in D : d \in 1..n /\ \A i \in 1..k : q[i] # d  BY <1>0, <1>1
  <2> QED BY <2>1 DEF Turned
<1> QED BY <1>0, <1>2 DEF Shut
-----------------------------------------------------------------------------
(***************************************************************************)
(* What the operators of the module are, in a state.                       *)
(***************************************************************************)
LEMMA PatternIsSquare ==
  ASSUME pattern \in Patterns
  PROVE  Square(Len(pattern), pattern) /\ Slot = 1..Len(pattern)
<1>1. pattern \in Seq(SUBSET DOMAIN pattern)  BY SquarePatterns
<1>2. Len(pattern) \in Nat /\ pattern \in [1..Len(pattern) -> SUBSET DOMAIN pattern] /\ DOMAIN pattern = 1..Len(pattern)
  BY <1>1, LenProperties
<1> QED BY <1>2 DEF Square, Slot

Matched == pattern \in Patterns /\ Matching(Len(pattern), pattern, rowMatch)

LEMMA Operators ==
  ASSUME Matched
  PROVE  /\ Square(Len(pattern), pattern) /\ Slot = 1..Len(pattern)
         /\ FreeCols = Free(Len(pattern), rowMatch)
         /\ \A r \in 1..Len(pattern) : (\E c \in Slot : rowMatch[c] = r) =>
              ColOfRow(r) \in Slot /\ rowMatch[ColOfRow(r)] = r
         /\ \A c \in Slot, r \in Slot : r \in FreeRows(c) <=> r \in pattern[c] /\ \A e \in Slot : rowMatch[e] # r
         /\ \A c \in Slot : FreeRows(c) \subseteq Slot
<1>1. Square(Len(pattern), pattern) /\ Slot = 1..Len(pattern)  BY PatternIsSquare DEF Matched
<1>2. FreeCols = Free(Len(pattern), rowMatch)  BY <1>1 DEF FreeCols, Free, UNMATCHED
<1>3. DOMAIN rowMatch = Slot  BY <1>1 DEF Matched, Matching
<1>4. \A r : r \in Range(rowMatch) <=> \E c \in Slot : rowMatch[c] = r  BY <1>3 DEF Range
<1>5. ASSUME NEW r, \E c \in Slot : rowMatch[c] = r
      PROVE  ColOfRow(r) \in Slot /\ rowMatch[ColOfRow(r)] = r
  BY <1>4, <1>5 DEF ColOfRow
<1>6. ASSUME NEW r PROVE ColOfRow(r) = UNMATCHED <=> \A e \in Slot : rowMatch[e] # r
  <2>1. CASE \E c \in Slot : rowMatch[c] = r
    <3>1. ColOfRow(r) \in 1..Len(pattern)  BY <1>1, <1>5, <2>1
    <3>2. ColOfRow(r) # UNMATCHED  BY <3>1 DEF UNMATCHED
    <3> QED BY <2>1, <3>2
  <2>2. CASE ~ \E c \in Slot : rowMatch[c] = r  BY <1>4, <2>2 DEF ColOfRow
  <2> QED BY <2>1, <2>2
<1>7. \A c \in Slot : pattern[c] \subseteq Slot  BY <1>1 DEF Square
<1> QED BY <1>1, <1>2, <1>5, <1>6, <1>7 DEF FreeRows

-----------------------------------------------------------------------------
(***************************************************************************)
(* Functions by recursion on their first arguments 0..n.                   *)
(***************************************************************************)
Iteration(k, a, F, g) == \A i \in 0..k : g[i] = IF i = 0 THEN a ELSE F[<<i, g[i - 1]>>]

LEMMA Iterates ==
  ASSUME NEW n \in Nat, NEW A, NEW a \in A, NEW F \in [(1..n) \X A -> A]
  PROVE  \E g \in [0..n -> A] : Iteration(n, a, F, g)
<1> DEFINE Lacking == {k \in 0..n : ~ \E g \in [0..k -> A] : Iteration(k, a, F, g)}
<1> SUFFICES ASSUME Lacking # {} PROVE FALSE
  BY n \in 0..n
<1>1. PICK l \in Lacking : \A k \in Lacking : l <= k
  <2>1. Lacking \in SUBSET Nat  OBVIOUS
  <2> HIDE DEF Lacking
  <2> QED BY <2>1, LeastNumber
<1>2. l \in 0..n /\ ~ \E g \in [0..l -> A] : Iteration(l, a, F, g)  OBVIOUS
<1>3. CASE l = 0
  <2> DEFINE g == [i \in 0..0 |-> a]
  <2>1. g \in [0..0 -> A] /\ Iteration(0, a, F, g)  BY DEF Iteration
  <2> QED BY <1>2, <1>3, <2>1
<1>4. CASE l # 0
  <2>1. l - 1 \in 0..n /\ l - 1 \notin Lacking  BY <1>1, <1>2, <1>4
  <2>2. PICK g \in [0..l - 1 -> A] : Iteration(l - 1, a, F, g)  BY <2>1
  <2> DEFINE f == [i \in 0..l |-> IF i = l THEN F[<<l, g[l - 1]>>] ELSE g[i]]
  <2>3. g[l - 1] \in A /\ <<l, g[l - 1]>> \in (1..n) \X A  BY <1>2, <1>4
  <2>4. F[<<l, g[l - 1]>>] \in A  BY <2>3
  <2>5. f \in [0..l -> A]  BY <1>2, <2>4
  <2>6. ASSUME NEW i \in 0..l PROVE f[i] = IF i = 0 THEN a ELSE F[<<i, f[i - 1]>>]
    <3>1. CASE i = l
      <4>1. f[i - 1] = g[l - 1] /\ f[i] = F[<<l, g[l - 1]>>]  BY <1>2, <1>4, <3>1
      <4> QED BY <1>4, <3>1, <4>1
    <3>2. CASE i # l
      <4>1. i \in 0..l - 1 /\ f[i] = g[i] /\ (i # 0 => f[i - 1] = g[i - 1])  BY <1>2, <3>2
      <4> QED BY <2>2, <4>1 DEF Iteration
    <3> QED BY <3>1, <3>2
  <2>7. Iteration(l, a, F, f)
    <3> HIDE DEF f
    <3> QED BY <2>6 DEF Iteration
  <2> QED BY <1>2, <2>5, <2>7
<1> QED BY <1>3, <1>4

-----------------------------------------------------------------------------
(***************************************************************************)
(* The seeds match.                                                        *)
(***************************************************************************)
SeedSteps(g) ==
  g = [c \in 0..Len(pattern) |-> IF c = 0 THEN OnDiagonal ELSE FirstFree(g[c - 1], c)]

LEMMA FirstFreeMatches ==
  ASSUME pattern \in Patterns, NEW m, Matching(Len(pattern), pattern, m), NEW c \in Slot
  PROVE  Matching(Len(pattern), pattern, FirstFree(m, c))
<1> DEFINE n == Len(pattern)
           rows == pattern[c] \ Range(m)
<1>1. Square(n, pattern) /\ Slot = 1..n  BY PatternIsSquare
<1>2. CASE m[c] # UNMATCHED \/ rows = {}  BY <1>2 DEF FirstFree
<1>3. CASE ~(m[c] # UNMATCHED \/ rows = {})
  <2>1. rows \in SUBSET (1..n)  BY <1>1 DEF Square
  <2>2. Min(rows) \in rows
    <3>1. rows \in SUBSET Nat /\ rows # {}  BY <1>3, <2>1
    <3> HIDE DEF rows
    <3> QED BY <3>1, LeastNumber
  <2>3. FirstFree(m, c) = [m EXCEPT ![c] = Min(rows)]  BY <1>3 DEF FirstFree
  <2>4. \A e \in 1..n : m[e] # Min(rows)
    <3>1. DOMAIN m = 1..n  BY DEF Matching
    <3> QED BY <2>2, <3>1 DEF Range
  <2>5. Min(rows) \in 1..n /\ Min(rows) \in pattern[c]  BY <2>1, <2>2
  <2> HIDE DEF rows, n
  <2>6. \A e \in 1..n : FirstFree(m, c)[e] = IF e = c THEN Min(rows) ELSE m[e]
    BY <1>1, <2>3 DEF Matching, n
  <2>7. FirstFree(m, c) \in [1..n -> 0..n]  BY <1>1, <2>3, <2>5 DEF Matching, Square, n
  <2> QED BY <1>1, <2>4, <2>5, <2>6, <2>7 DEF Matching, n
<1> QED BY <1>2, <1>3

LEMMA OnDiagonalMatches ==
  ASSUME pattern \in Patterns
  PROVE  Matching(Len(pattern), pattern, OnDiagonal)
BY PatternIsSquare DEF OnDiagonal, Matching, UNMATCHED, Square

LEMMA SeededMatches ==
  ASSUME pattern \in Patterns
  PROVE  Matching(Len(pattern), pattern, Seeded)
<1> DEFINE n == Len(pattern)
           A == {m \in [1..n -> 0..n] : Matching(n, pattern, m)}
           F == [x \in (1..n) \X A |-> FirstFree(x[2], x[1])]
<1>1. n \in Nat /\ Slot = 1..n  BY PatternIsSquare DEF Square
<1>2. OnDiagonal \in A  BY OnDiagonalMatches DEF Matching
<1>3. \A c \in 1..n, m \in A : FirstFree(m, c) \in A  BY <1>1, FirstFreeMatches DEF Matching
<1>4. \E g : SeedSteps(g)
  <2>1. F \in [(1..n) \X A -> A]  BY <1>3
  <2>2. \A c \in 1..n, m \in A : F[<<c, m>>] = FirstFree(m, c)  OBVIOUS
  <2> HIDE DEF A, F
  <2>3. PICK g \in [0..n -> A] : Iteration(n, OnDiagonal, F, g)  BY <1>1, <1>2, <2>1, Iterates
  <2>4. ASSUME NEW c \in 0..n PROVE g[c] = IF c = 0 THEN OnDiagonal ELSE FirstFree(g[c - 1], c)
    <3>1. c # 0 => c \in 1..n /\ g[c - 1] \in A  BY <1>1
    <3> QED BY <2>2, <2>3, <3>1 DEF Iteration
  <2>5. g = [c \in 0..n |-> g[c]]  OBVIOUS
  <2>6. SeedSteps(g)  BY <2>4, <2>5 DEF SeedSteps
  <2> QED BY <2>6
<1>5. PICK g : SeedSteps(g) /\ Seeded = g[n]
  <2>1. Seeded = (CHOOSE g : SeedSteps(g))[n]  BY DEF Seeded, SeedSteps
  <2> QED BY <1>4, <2>1
<1> DEFINE Bad == {k \in 0..n : g[k] \notin A}
<1>6. Bad = {}
  <2> SUFFICES ASSUME Bad # {} PROVE FALSE  OBVIOUS
  <2>1. PICK l \in Bad : \A k \in Bad : l <= k
    <3>1. Bad \in SUBSET Nat  OBVIOUS
    <3> HIDE DEF Bad
    <3> QED BY <3>1, LeastNumber
  <2>2. l \in 0..n /\ g[l] \notin A  OBVIOUS
  <2>3. g[l] = IF l = 0 THEN OnDiagonal ELSE FirstFree(g[l - 1], l)  BY <1>5, <2>2 DEF SeedSteps
  <2>4. l # 0 => l - 1 \in 0..n /\ l \in 1..n /\ l - 1 \notin Bad  BY <2>1, <2>2
  <2>5. l # 0 => g[l - 1] \in A  BY <2>4
  <2> HIDE DEF A, Bad
  <2> QED BY <1>2, <1>3, <2>2, <2>3, <2>4, <2>5
<1>7. n \in 0..n  BY <1>1
<1> QED BY <1>5, <1>6, <1>7
-----------------------------------------------------------------------------
(***************************************************************************)
(* The paths a search may take, and a search that finds none.              *)
(***************************************************************************)
LEMMA ColumnsAre ==
  ASSUME Matched, NEW c \in Slot, NEW q
  PROVE  q \in ColumnsFrom(c) <=>
           \E k \in Slot : /\ q \in [1..k -> Slot] /\ Len(q) = k /\ q[1] = c
                           /\ \A i, j \in 1..k : q[i] = q[j] => i = j
                           /\ \A i \in 1..k : i < k => rowMatch[q[i + 1]] \in pattern[q[i]]
<1>0. Slot = 1..Len(pattern) /\ Len(pattern) \in Nat  BY Operators DEF Square
<1>1. ASSUME NEW k \in Slot, q \in [1..k -> Slot] PROVE Len(q) = k /\ DOMAIN q = 1..k
  <2>1. k \in Nat  BY <1>0
  <2>2. q \in Seq(Slot)  BY <1>1, <2>1
  <2> QED BY <1>1, <2>1, <2>2, LenProperties
<1> DEFINE Fits(k) == /\ q \in [1..k -> Slot] /\ q[1] = c
                      /\ \A i, j \in 1..k : q[i] = q[j] => i = j
                      /\ \A i \in 1..k : i < k => rowMatch[q[i + 1]] \in pattern[q[i]]
<1>2. ASSUME NEW k \in Slot, q \in [1..k -> Slot]
      PROVE  /\ (\A i \in 1..k : i < k => rowMatch[q[i + 1]] \in pattern[q[i]])
                  <=> \A i \in 1..Len(q) - 1 : rowMatch[q[i + 1]] \in pattern[q[i]]
             /\ IsInjective(q) <=> \A i, j \in 1..k : q[i] = q[j] => i = j
  <2>1. \A i : i \in 1..k /\ i < k <=> i \in 1..k - 1  BY <1>0
  <2>2. Len(q) = k /\ DOMAIN q = 1..k  BY <1>1, <1>2
  <2> QED BY <2>1, <2>2 DEF IsInjective
<1>3. ASSUME q \in ColumnsFrom(c) PROVE \E k \in Slot : Len(q) = k /\ Fits(k)
  <2>1. PICK k \in Slot : q \in [1..k -> Slot]  BY <1>3 DEF ColumnsFrom
  <2> QED BY <1>1, <1>2, <1>3, <2>1 DEF ColumnsFrom
<1>4. ASSUME NEW k \in Slot, Fits(k) PROVE q \in ColumnsFrom(c)
  BY <1>2, <1>4 DEF ColumnsFrom
<1> QED BY <1>3, <1>4

LEMMA PathsTurn ==
  ASSUME Matched, NEW c \in Slot, NEW path \in PathsFrom(c)
  PROVE  \E k, q, r : /\ IsPath(Len(pattern), pattern, rowMatch, k, q, r) /\ q[1] = c
                      /\ Turned(Len(pattern), rowMatch, k, q, r, Rematched(path))
<1> DEFINE n == Len(pattern)
<1>0. Slot = 1..n /\ n \in Nat /\ \A x \in 1..n : pattern[x] \subseteq 1..n  BY Operators DEF Square
<1>1. PICK q \in ColumnsFrom(c) : \E r \in FreeRows(q[Len(q)]) : path = Steps(q, r)  BY DEF PathsFrom
<1>2. PICK r \in FreeRows(q[Len(q)]) : path = Steps(q, r)  BY <1>1
<1>3. PICK k \in Slot : /\ q \in [1..k -> Slot] /\ Len(q) = k /\ q[1] = c
                        /\ \A i, j \in 1..k : q[i] = q[j] => i = j
                        /\ \A i \in 1..k : i < k => rowMatch[q[i + 1]] \in pattern[q[i]]
  BY ColumnsAre
<1>4. k \in 1..n /\ k \in 1..k /\ q[k] \in 1..n  BY <1>0, <1>3
<1>5. r \in pattern[q[k]] /\ r \in 1..n /\ \A e \in 1..n : rowMatch[e] # r
  <2>1. r \in FreeRows(q[k]) /\ r \in Slot  BY <1>0, <1>3, <1>4, Operators
  <2> QED BY <1>0, <1>4, <2>1, Operators
<1>6. IsPath(n, pattern, rowMatch, k, q, r)  BY <1>0, <1>3, <1>4, <1>5 DEF IsPath
<1> DEFINE Row(i) == IF i = k THEN r ELSE rowMatch[q[i + 1]]
<1>7. DOMAIN path = 1..k /\ \A i \in 1..k : path[i] = <<q[i], Row(i)>>  BY <1>2, <1>3 DEF Steps
<1>8. \A s : s \in Range(path) <=> \E i \in 1..k : s = <<q[i], Row(i)>>
  <2>1. Range(path) = {path[i] : i \in 1..k}  BY <1>7 DEF Range
  <2> HIDE DEF Row
  <2> QED BY <1>7, <2>1
<1>9. ASSUME NEW x \in 1..n, \A i \in 1..k : q[i] # x PROVE Rematched(path)[x] = rowMatch[x]
  <2>1. ~ \E s \in Range(path) : s[1] = x  BY <1>8, <1>9
  <2> QED BY <1>0, <2>1 DEF Rematched
<1>10. ASSUME NEW i \in 1..k PROVE Rematched(path)[q[i]] = Row(i)
  <2>1. <<q[i], Row(i)>> \in Range(path) /\ q[i] \in Slot  BY <1>3, <1>8
  <2>2. \A s \in Range(path) : s[1] = q[i] => s = <<q[i], Row(i)>>
    <3> SUFFICES ASSUME NEW s \in Range(path), s[1] = q[i] PROVE s = <<q[i], Row(i)>>  OBVIOUS
    <3>1. PICK j \in 1..k : s = <<q[j], Row(j)>>  BY <1>8
    <3>2. q[j] = q[i]  BY <3>1
    <3>3. j = i  BY <1>3, <3>2
    <3> QED BY <3>1, <3>3
  <2> DEFINE t == CHOOSE s \in Range(path) : s[1] = q[i]
  <2>3. \E s \in Range(path) : s[1] = q[i]  BY <2>1
  <2>4. t = <<q[i], Row(i)>>  BY <2>2, <2>3
  <2>5. Rematched(path)[q[i]] = t[2]  BY <2>1, <2>3 DEF Rematched
  <2>6. <<q[i], Row(i)>>[2] = Row(i)  OBVIOUS
  <2> HIDE DEF t, Row
  <2> QED BY <2>4, <2>5, <2>6
<1>11. Rematched(path) \in [1..n -> 0..n]
  <2>1. Rematched(path) = [x \in 1..n |-> Rematched(path)[x]]  BY <1>0 DEF Rematched
  <2>2. ASSUME NEW x \in 1..n PROVE Rematched(path)[x] \in 0..n
    <3>1. CASE \E i \in 1..k : q[i] = x
      <4>1. PICK i \in 1..k : q[i] = x  BY <3>1
      <4>2. Row(i) \in 0..n
        <5>1. i # k => q[i + 1] \in 1..n  BY <1>0, <1>3
        <5> QED BY <1>5, <5>1 DEF Matched, Matching
      <4> QED BY <1>10, <4>1, <4>2
    <3>2. CASE \A i \in 1..k : q[i] # x  BY <1>9, <3>2 DEF Matched, Matching
    <3> QED BY <3>1, <3>2
  <2> QED BY <2>1, <2>2
<1>12. Turned(n, rowMatch, k, q, r, Rematched(path))  BY <1>9, <1>10, <1>11 DEF Turned
<1> QED BY <1>3, <1>6, <1>12

LEMMA NoPathShut ==
  ASSUME Matched, NEW c \in Slot, PathsFrom(c) = {}
  PROVE  \E D : Shut(Len(pattern), pattern, rowMatch, D) /\ c \in D
<1> DEFINE n == Len(pattern)
           D == {d \in Slot : \E q \in ColumnsFrom(c) : q[Len(q)] = d}
<1>0. Slot = 1..n /\ n \in Nat /\ \A x \in 1..n : pattern[x] \subseteq 1..n  BY Operators DEF Square
<1>1. c \in D
  <2> DEFINE q == [i \in 1..1 |-> c]
  <2>1. 1 \in Slot /\ q \in [1..1 -> Slot] /\ q[1] = c  BY <1>0
  <2>2. Len(q) = 1
    <3>1. q \in Seq(Slot)  BY <2>1
    <3> QED BY <2>1, <3>1, LenProperties
  <2>3. (\A i, j \in 1..1 : i = j) /\ \A i \in 1..1 : ~(i < 1)  OBVIOUS
  <2> HIDE DEF q
  <2>4. q \in ColumnsFrom(c)
    <3>1. /\ q \in [1..1 -> Slot] /\ Len(q) = 1 /\ q[1] = c
          /\ \A i, j \in 1..1 : q[i] = q[j] => i = j
          /\ \A i \in 1..1 : i < 1 => rowMatch[q[i + 1]] \in pattern[q[i]]
      BY <2>1, <2>2, <2>3
    <3> QED BY <2>1, <3>1, ColumnsAre
  <2> QED BY <2>1, <2>2, <2>4
<1>2. ASSUME NEW d \in D, NEW r \in pattern[d] PROVE \E e \in D : rowMatch[e] = r
  <2>1. PICK q \in ColumnsFrom(c) : q[Len(q)] = d  OBVIOUS
  <2>2. PICK k \in Slot : /\ q \in [1..k -> Slot] /\ Len(q) = k /\ q[1] = c
                          /\ \A i, j \in 1..k : q[i] = q[j] => i = j
                          /\ \A i \in 1..k : i < k => rowMatch[q[i + 1]] \in pattern[q[i]]
    BY ColumnsAre
  <2>3. k \in Nat /\ k \in 1..n /\ d \in Slot /\ q[k] = d /\ r \in Slot  BY <1>0, <2>1, <2>2
  <2>4. r \notin FreeRows(d)
    <3> SUFFICES ASSUME r \in FreeRows(d) PROVE FALSE  OBVIOUS
    <3>1. Steps(q, r) \in PathsFrom(c)  BY <2>1 DEF PathsFrom
    <3> QED BY <3>1
  <2>5. PICK e \in Slot : rowMatch[e] = r  BY <2>3, <2>4, Operators
  <2>6. CASE \E j \in 1..k : q[j] = e
    <3>1. PICK j \in 1..k : q[j] = e  BY <2>6
    <3> DEFINE s == [i \in 1..j |-> q[i]]
    <3>2. j \in Slot /\ s \in [1..j -> Slot] /\ s[1] = c /\ s[j] = e  BY <1>0, <2>2, <2>3, <3>1
    <3>3. Len(s) = j
      <4>1. j \in Nat /\ s \in Seq(Slot)  BY <2>3, <3>2
      <4> QED BY <3>2, <4>1, LenProperties
    <3>4. \A x, y \in 1..j : s[x] = s[y] => x = y  BY <2>2, <2>3, <3>1
    <3>5. \A x \in 1..j : x < j => rowMatch[s[x + 1]] \in pattern[s[x]]
      <4> SUFFICES ASSUME NEW x \in 1..j, x < j PROVE rowMatch[s[x + 1]] \in pattern[s[x]]  OBVIOUS
      <4>1. x \in 1..k /\ x < k /\ x + 1 \in 1..j  BY <2>3, <3>1
      <4> QED BY <2>2, <4>1
    <3> HIDE DEF s
    <3>6. s \in ColumnsFrom(c)  BY <3>2, <3>3, <3>4, <3>5, ColumnsAre
    <3> QED BY <2>5, <3>2, <3>3, <3>6
  <2>7. CASE \A j \in 1..k : q[j] # e
    <3> DEFINE s == [i \in 1..k + 1 |-> IF i = k + 1 THEN e ELSE q[i]]
    <3>1. s \in [1..k + 1 -> Slot] /\ s[1] = c /\ s[k + 1] = e  BY <1>0, <2>2, <2>3
    <3>2. \A x, y \in 1..k + 1 : s[x] = s[y] => x = y
      <4> SUFFICES ASSUME NEW x \in 1..k + 1, NEW y \in 1..k + 1, s[x] = s[y] PROVE x = y  OBVIOUS
      <4>1. (x = k + 1 \/ x \in 1..k) /\ (y = k + 1 \/ y \in 1..k)  BY <2>3
      <4> QED BY <2>2, <2>3, <2>7, <4>1
    <3>3. \A x \in 1..k + 1 : x < k + 1 => rowMatch[s[x + 1]] \in pattern[s[x]]
      <4> SUFFICES ASSUME NEW x \in 1..k + 1, x < k + 1 PROVE rowMatch[s[x + 1]] \in pattern[s[x]]  OBVIOUS
      <4>1. x \in 1..k /\ s[x] = q[x]  BY <2>3
      <4>2. CASE x = k
        <5>1. s[x + 1] = e /\ q[x] = d  BY <2>3, <4>2
        <5> QED BY <2>5, <4>1, <5>1
      <4>3. CASE x # k
        <5>1. x < k /\ s[x + 1] = q[x + 1]  BY <2>3, <4>1, <4>3
        <5> QED BY <2>2, <4>1, <5>1
      <4> QED BY <4>2, <4>3
    <3> HIDE DEF s
    <3>4. k + 1 \in Slot
      <4>1. IsFiniteSet(Slot) /\ Cardinality(Slot) = n
        <5>1. IsFiniteSet(1..n) /\ Cardinality(1..n) = IF 1 > n THEN 0 ELSE n - 1 + 1  BY <1>0, FS_Interval
        <5> QED BY <1>0, <5>1
      <4>2. Cardinality(1..k + 1) <= n
        <5> DEFINE I == 1..k + 1
        <5>1. s \in [I -> Slot] /\ \A x, y \in I : s[x] = s[y] => x = y  BY <3>1, <3>2
        <5> HIDE DEF I
        <5>2. Cardinality(I) <= Cardinality(Slot)  BY <4>1, <5>1, Injects
        <5> QED BY <4>1, <5>2 DEF I
      <4>3. Cardinality(1..k + 1) = k + 1  BY <2>3, FS_Interval
      <4> QED BY <1>0, <2>3, <4>2, <4>3
    <3>5. Len(s) = k + 1
      <4>1. k + 1 \in Nat  BY <2>3
      <4>2. s \in Seq(Slot)  BY <3>1, <4>1
      <4> QED BY <3>1, <4>1, <4>2, LenProperties
    <3>6. s \in ColumnsFrom(c)  BY <3>1, <3>2, <3>3, <3>4, <3>5, ColumnsAre
    <3> QED BY <2>5, <3>1, <3>5, <3>6
  <2> QED BY <2>6, <2>7
<1>3. D \in SUBSET (1..n)  BY <1>0
<1> HIDE DEF D
<1> QED BY <1>1, <1>2, <1>3 DEF Shut

-----------------------------------------------------------------------------
(***************************************************************************)
(* The levels of a Hopcroft-Karp phase.                                    *)
(***************************************************************************)
LevelSteps(g) ==
  g = [k \in 0..Len(pattern) |->
        IF k = 0 THEN [c \in Slot |-> IF c \in FreeCols THEN 0 ELSE UNSET] ELSE Deeper(g[k - 1], k - 1)]

Ranked(k, of) ==
  /\ of \in [Slot -> -1..k]
  /\ \A c \in Slot : of[c] = 0 <=> c \in FreeCols
  /\ \A c \in Slot : of[c] > 0 => \E d \in Slot : of[d] = of[c] - 1
  /\ \/ \E c \in Slot : of[c] # -1 /\ FreeRows(c) # {}
     \/ \A c \in Slot, r \in Slot : of[c] \in 0..k - 1 /\ r \in pattern[c] =>
          \E e \in Slot : rowMatch[e] = r /\ of[e] # -1

LEMMA DeeperRanked ==
  ASSUME Matched, NEW k \in Nat, NEW of, Ranked(k, of)
  PROVE  Ranked(k + 1, Deeper(of, k))
<1> DEFINE here == {c \in Slot : of[c] = k}
           n == Len(pattern)
           new == Deeper(of, k)
<1> SUFFICES Ranked(k + 1, new)  OBVIOUS
<1>0. Slot = 1..n /\ n \in Nat /\ \A x \in Slot : pattern[x] \subseteq Slot  BY Operators DEF Square
<1>1. CASE \E c \in here : FreeRows(c) # {}
  <2>1. new = of  BY <1>1 DEF Deeper
  <2>2. of \in [Slot -> -1..k + 1]  BY DEF Ranked
  <2>3. \E c \in Slot : of[c] # -1 /\ FreeRows(c) # {}  BY <1>1
  <2> HIDE DEF new
  <2> QED BY <2>1, <2>2, <2>3 DEF Ranked
<1>2. CASE \A c \in here : FreeRows(c) = {}
  <2> DEFINE Next(c) == of[c] = UNSET /\ rowMatch[c] \in UNION {pattern[h] : h \in here}
  <2>1. new = [c \in Slot |-> IF Next(c) THEN k + 1 ELSE of[c]]  BY <1>2 DEF Deeper
  <2>2. \A c \in Slot : new[c] = IF Next(c) THEN k + 1 ELSE of[c]  BY <2>1
  <2>3. \A c \in Slot : of[c] \in -1..k  BY DEF Ranked
  <2>4. new \in [Slot -> -1..k + 1]
    <3>1. \A c \in Slot : (IF Next(c) THEN k + 1 ELSE of[c]) \in -1..k + 1  BY <2>3
    <3> HIDE DEF Next, new
    <3> QED BY <2>1, <3>1
  <2>6. \A c \in Slot : Next(c) <=> of[c] = -1 /\ \E h \in Slot : of[h] = k /\ rowMatch[c] \in pattern[h]
    BY DEF UNSET
  <2> HIDE DEF Next, new
  <2>5. \A c \in Slot : (new[c] = of[c] \/ (of[c] = -1 /\ new[c] = k + 1 /\ Next(c)))
    <3> SUFFICES ASSUME NEW c \in Slot PROVE new[c] = of[c] \/ (of[c] = -1 /\ new[c] = k + 1 /\ Next(c))  OBVIOUS
    <3>1. new[c] = IF Next(c) THEN k + 1 ELSE of[c]  BY <2>2
    <3>2. CASE Next(c)
      <4>1. of[c] = -1  BY <2>6, <3>2
      <4> QED BY <3>1, <3>2, <4>1
    <3>3. CASE ~ Next(c)  BY <3>1, <3>3
    <3> QED BY <3>2, <3>3
  <2>7. \A c \in Slot : new[c] = 0 <=> c \in FreeCols
    <3> SUFFICES ASSUME NEW c \in Slot PROVE new[c] = 0 <=> c \in FreeCols  OBVIOUS
    <3>1. of[c] = 0 <=> c \in FreeCols  BY DEF Ranked
    <3> QED BY <2>5, <3>1
  <2>8. ASSUME NEW c \in Slot, new[c] > 0 PROVE \E d \in Slot : new[d] = new[c] - 1
    <3>1. CASE new[c] = of[c]
      <4>1. PICK d \in Slot : of[d] = of[c] - 1  BY <2>8, <3>1 DEF Ranked
      <4>2. of[d] # -1  BY <2>3, <2>8, <3>1, <4>1
      <4> QED BY <2>5, <3>1, <4>1, <4>2
    <3>2. CASE new[c] # of[c]
      <4>1. PICK h \in Slot : of[h] = k  BY <2>5, <2>6, <3>2
      <4>2. new[h] = k  BY <2>5, <4>1
      <4> QED BY <2>5, <3>2, <4>2
    <3> QED BY <3>1, <3>2
  <2>9. CASE \E c \in Slot : of[c] # -1 /\ FreeRows(c) # {}
    <3>1. \E c \in Slot : new[c] # -1 /\ FreeRows(c) # {}  BY <2>5, <2>9
    <3> QED BY <2>4, <2>7, <2>8, <3>1 DEF Ranked
  <2>10. CASE ~ \E c \in Slot : of[c] # -1 /\ FreeRows(c) # {}
    <3>1. ASSUME NEW c \in Slot, NEW r \in Slot, new[c] \in 0..k + 1 - 1, r \in pattern[c]
          PROVE  \E e \in Slot : rowMatch[e] = r /\ new[e] # -1
      <4>1. new[c] = of[c] /\ of[c] \in 0..k  BY <2>5, <3>1
      <4>2. CASE of[c] = k
        <5>1. FreeRows(c) = {}  BY <1>2, <4>2
        <5>2. PICK e \in Slot : rowMatch[e] = r  BY <3>1, <5>1, Operators
        <5>3. of[e] = -1 => Next(e)  BY <2>6, <3>1, <4>2, <5>2
        <5>4. new[e] # -1  BY <2>2, <2>3, <5>3
        <5> QED BY <5>2, <5>4
      <4>3. CASE of[c] # k
        <5>1. of[c] \in 0..k - 1  BY <4>1, <4>3
        <5>2. PICK e \in Slot : rowMatch[e] = r /\ of[e] # -1  BY <2>10, <3>1, <5>1 DEF Ranked
        <5> QED BY <2>5, <5>2
      <4> QED BY <4>2, <4>3
    <3> QED BY <2>4, <2>7, <2>8, <3>1 DEF Ranked
  <2> QED BY <2>9, <2>10
<1> QED BY <1>1, <1>2

LEMMA LevelsRanked ==
  ASSUME Matched
  PROVE  Ranked(Len(pattern), Levels)
<1> DEFINE n == Len(pattern)
           start == [c \in Slot |-> IF c \in FreeCols THEN 0 ELSE UNSET]
           A == [Slot -> -1..n + 1]
           F == [x \in (1..n) \X A |-> IF Ranked(x[1] - 1, x[2]) THEN Deeper(x[2], x[1] - 1) ELSE x[2]]
<1>0. Slot = 1..n /\ n \in Nat  BY Operators DEF Square
<1>1. start \in A /\ Ranked(0, start)
  <2>1. \A c \in Slot : start[c] = IF c \in FreeCols THEN 0 ELSE -1  BY DEF UNSET
  <2>2. start \in [Slot -> -1..0] /\ start \in A  BY <1>0 DEF UNSET
  <2> HIDE DEF start
  <2>3. \A c \in Slot : ~(start[c] > 0) /\ start[c] \notin 0..0 - 1  BY <2>1
  <2> QED BY <2>1, <2>2, <2>3 DEF Ranked
<1>2. ASSUME NEW k \in 1..n, NEW of, Ranked(k - 1, of) PROVE Ranked(k, Deeper(of, k - 1)) /\ of \in A /\ Deeper(of, k - 1) \in A
  <2>1. k - 1 \in Nat /\ k - 1 + 1 = k  BY <1>0
  <2>2. Ranked(k, Deeper(of, k - 1))  BY <1>2, <2>1, DeeperRanked
  <2>3. -1..k \subseteq -1..n + 1 /\ -1..k - 1 \subseteq -1..n + 1  BY <1>0
  <2>4. of \in [Slot -> -1..k - 1] /\ Deeper(of, k - 1) \in [Slot -> -1..k]  BY <1>2, <2>2 DEF Ranked
  <2> HIDE DEF A
  <2>5. of \in A /\ Deeper(of, k - 1) \in A  BY <2>3, <2>4 DEF A
  <2> QED BY <2>2, <2>5
<1>3. PICK g \in [0..n -> A] : Iteration(n, start, F, g)
  <2>1. F \in [(1..n) \X A -> A]
    <3>1. \A x \in (1..n) \X A : (IF Ranked(x[1] - 1, x[2]) THEN Deeper(x[2], x[1] - 1) ELSE x[2]) \in A
      <4> HIDE DEF A
      <4> QED BY <1>2
    <3> HIDE DEF A
    <3> QED BY <3>1
  <2> HIDE DEF A, F, start
  <2> QED BY <1>0, <1>1, <2>1, Iterates
<1>4. \A k \in 1..n, of \in A : F[<<k, of>>] = IF Ranked(k - 1, of) THEN Deeper(of, k - 1) ELSE of  OBVIOUS
<1> DEFINE Bad(f) == {k \in 0..n : ~ Ranked(k, f[k])}
<1>5. Bad(g) = {}
  <2> SUFFICES ASSUME Bad(g) # {} PROVE FALSE  OBVIOUS
  <2>1. PICK l \in Bad(g) : \A k \in Bad(g) : l <= k
    <3>1. Bad(g) \in SUBSET Nat  OBVIOUS
    <3> HIDE DEF Bad
    <3> QED BY <3>1, LeastNumber
  <2>2. l \in 0..n /\ ~ Ranked(l, g[l])  OBVIOUS
  <2> HIDE DEF A, F, start
  <2>3. CASE l = 0
    <3>1. g[l] = start  BY <1>3, <2>2, <2>3 DEF Iteration
    <3> QED BY <1>1, <2>2, <2>3, <3>1
  <2>4. CASE l # 0
    <3>1. l - 1 \in 0..n /\ l \in 1..n /\ l - 1 \notin Bad(g)  BY <2>1, <2>2, <2>4
    <3>2. Ranked(l - 1, g[l - 1])  BY <3>1
    <3>3. g[l] = F[<<l, g[l - 1]>>]  BY <1>3, <2>2, <2>4 DEF Iteration
    <3>4. g[l] = Deeper(g[l - 1], l - 1)  BY <1>2, <1>4, <3>1, <3>2, <3>3
    <3> QED BY <1>2, <2>2, <3>1, <3>2, <3>4
  <2> QED BY <2>3, <2>4
<1>6. LevelSteps(g)
  <2>1. ASSUME NEW k \in 0..n PROVE g[k] = IF k = 0 THEN start ELSE Deeper(g[k - 1], k - 1)
    <3>1. g[k] = IF k = 0 THEN start ELSE F[<<k, g[k - 1]>>]  BY <1>3 DEF Iteration
    <3>2. ASSUME k # 0 PROVE F[<<k, g[k - 1]>>] = Deeper(g[k - 1], k - 1)
      <4>1. k \in 1..n /\ k - 1 \in 0..n  BY <1>0, <3>2
      <4>2. Ranked(k - 1, g[k - 1])  BY <1>5, <4>1
      <4>3. g[k - 1] \in A  BY <4>1
      <4> HIDE DEF A, F
      <4> QED BY <1>4, <4>1, <4>2, <4>3
    <3> HIDE DEF F, start
    <3> QED BY <3>1, <3>2
  <2>2. g = [k \in 0..n |-> g[k]]  OBVIOUS
  <2> HIDE DEF A, F
  <2>3. g = [k \in 0..n |-> IF k = 0 THEN start ELSE Deeper(g[k - 1], k - 1)]
    <3> HIDE DEF start
    <3> QED BY <2>1, <2>2
  <2> QED BY <2>3 DEF LevelSteps
<1>7. PICK h : LevelSteps(h) /\ Levels = h[n]
  <2>1. Levels = (CHOOSE f : LevelSteps(f))[n]  BY DEF Levels, LevelSteps
  <2> QED BY <1>6, <2>1
<1>8. Bad(h) = {}
  <2> SUFFICES ASSUME Bad(h) # {} PROVE FALSE  OBVIOUS
  <2>1. PICK l \in Bad(h) : \A k \in Bad(h) : l <= k
    <3>1. Bad(h) \in SUBSET Nat  OBVIOUS
    <3> HIDE DEF Bad
    <3> QED BY <3>1, LeastNumber
  <2>2. l \in 0..n /\ ~ Ranked(l, h[l])  OBVIOUS
  <2>3. h[l] = IF l = 0 THEN start ELSE Deeper(h[l - 1], l - 1)  BY <1>7, <2>2 DEF LevelSteps
  <2> HIDE DEF start
  <2>4. CASE l = 0  BY <1>1, <2>2, <2>3, <2>4
  <2>5. CASE l # 0
    <3>1. l - 1 \in 0..n /\ l \in 1..n /\ l - 1 \notin Bad(h)  BY <2>1, <2>2, <2>5
    <3>2. Ranked(l - 1, h[l - 1])  BY <3>1
    <3> QED BY <1>2, <2>2, <2>3, <2>5, <3>1, <3>2
  <2> QED BY <2>4, <2>5
<1>9. n \in 0..n  BY <1>0
<1> QED BY <1>7, <1>8, <1>9

\* Every level below that of a column has a column.
LEMMA LevelsFilled ==
  ASSUME Matched, NEW c \in Slot, Levels[c] # -1, NEW j \in 0..Levels[c]
  PROVE  \E d \in Slot : Levels[d] = j
<1> DEFINE L == Levels
           Empty == {i \in 0..L[c] : ~ \E d \in Slot : L[d] = i}
<1>1. Ranked(Len(pattern), L) /\ Len(pattern) \in Nat  BY LevelsRanked, Operators DEF Square
<1>2. L[c] \in Nat  BY <1>1 DEF Ranked
<1> HIDE DEF L
<1> SUFFICES ASSUME j \in Empty PROVE FALSE  BY DEF L
<1>3. PICK i \in Empty : \A k \in Empty : k <= i
  <2>1. Empty # {} /\ Empty \in SUBSET (0..L[c])  OBVIOUS
  <2>2. Empty \in SUBSET Nat /\ \A k \in Empty : k <= L[c]  BY <1>2, <2>1
  <2> HIDE DEF Empty
  <2> DEFINE Below == {k \in 0..L[c] : L[c] - k \in Empty}
  <2>3. PICK k \in Below : \A l \in Below : k <= l
    <3>1. PICK e \in Empty : TRUE  BY <2>1
    <3>2. L[c] - e \in Below  BY <1>2, <2>1, <3>1
    <3>3. Below \in SUBSET Nat /\ Below # {}  BY <1>2, <3>2
    <3> HIDE DEF Below
    <3> QED BY <3>3, LeastNumber
  <2>4. ASSUME NEW e \in Empty PROVE e <= L[c] - k
    <3>1. L[c] - e \in Below  BY <1>2, <2>1
    <3> QED BY <1>2, <2>1, <2>3, <3>1
  <2> QED BY <2>3, <2>4
<1>4. i \in 0..L[c] /\ i # L[c] /\ ~ \E d \in Slot : L[d] = i  OBVIOUS
<1>5. i + 1 \in 0..L[c] /\ i + 1 \notin Empty  BY <1>2, <1>3, <1>4
<1>6. PICK d \in Slot : L[d] = i + 1  BY <1>5
<1>7. L[d] > 0 /\ L[d] - 1 = i  BY <1>2, <1>4, <1>6
<1>8. \E e \in Slot : L[e] = i  BY <1>1, <1>7 DEF Ranked
<1> QED BY <1>4, <1>8

LEMMA LevelsReach ==
  ASSUME Matched, NEW c \in Slot, Levels[c] # -1
  PROVE  FreeCols # {}
<1>1. Ranked(Len(pattern), Levels) /\ Len(pattern) \in Nat  BY LevelsRanked, Operators DEF Square
<1>2. Levels[c] \in Nat  BY <1>1 DEF Ranked
<1>3. 0 \in 0..Levels[c]  BY <1>2
<1>4. PICK d \in Slot : Levels[d] = 0  BY <1>3, LevelsFilled
<1> QED BY <1>1, <1>4 DEF Ranked

\* The levels that reach no free row close a shut set.
LEMMA LevelsClose ==
  ASSUME Matched, \A c \in Slot : Levels[c] # -1 => FreeRows(c) = {}
  PROVE  \E D : Shut(Len(pattern), pattern, rowMatch, D) /\ FreeCols \subseteq D
<1> DEFINE n == Len(pattern)
           L == Levels
           D == {c \in Slot : L[c] # -1}
<1>0. Slot = 1..n /\ n \in Nat /\ \A x \in Slot : pattern[x] \subseteq Slot  BY Operators DEF Square
<1>1. Ranked(n, L)  BY LevelsRanked
<1>2. ASSUME NEW c \in Slot, L[c] = n PROVE FALSE
  <2> DEFINE h == [j \in 0..n |-> CHOOSE d \in Slot : L[d] = j]
             I == 0..n
  <2>1. \A j \in 0..n : \E d \in Slot : L[d] = j
    <3>1. L[c] # -1  BY <1>0, <1>2
    <3> QED BY <1>2, <3>1, LevelsFilled
  <2> HIDE DEF L
  <2>2. \A j \in I : h[j] \in Slot /\ L[h[j]] = j  BY <2>1
  <2>3. h \in [I -> Slot] /\ \A x, y \in I : h[x] = h[y] => x = y
    <3>1. h = [j \in I |-> h[j]]  OBVIOUS
    <3> HIDE DEF h, I
    <3> QED BY <2>2, <3>1
  <2>4. IsFiniteSet(Slot) /\ Cardinality(Slot) = n
    <3>1. IsFiniteSet(1..n) /\ Cardinality(1..n) = IF 1 > n THEN 0 ELSE n - 1 + 1  BY <1>0, FS_Interval
    <3> QED BY <1>0, <3>1
  <2>5. Cardinality(I) = n + 1
    <3>1. Cardinality(0..n) = IF 0 > n THEN 0 ELSE n - 0 + 1  BY <1>0, FS_Interval
    <3> QED BY <1>0, <3>1
  <2>6. Cardinality(I) <= Cardinality(Slot)
    <3> HIDE DEF h, I
    <3> QED BY <2>3, <2>4, Injects
  <2> QED BY <1>0, <2>4, <2>5, <2>6
<1>3. ASSUME NEW c \in D, NEW r \in pattern[c] PROVE \E e \in D : rowMatch[e] = r
  <2>1. c \in Slot /\ L[c] \in -1..n /\ L[c] # -1 /\ L[c] # n  BY <1>1, <1>2 DEF Ranked
  <2>2. L[c] \in 0..n - 1 /\ r \in Slot  BY <1>0, <2>1
  <2>3. ~ \E d \in Slot : L[d] # -1 /\ FreeRows(d) # {}  OBVIOUS
  <2>4. PICK e \in Slot : rowMatch[e] = r /\ L[e] # -1
    <3> HIDE DEF L
    <3> QED BY <1>1, <2>1, <2>2, <2>3 DEF Ranked
  <2> QED BY <2>4
<1>4. FreeCols \subseteq D
  <2>1. \A c \in FreeCols : c \in Slot /\ L[c] = 0  BY <1>1 DEF Ranked, FreeCols
  <2> HIDE DEF L
  <2> QED BY <2>1
<1>5. D \in SUBSET (1..n)  BY <1>0
<1> HIDE DEF D, L
<1>6. Shut(n, pattern, rowMatch, D)  BY <1>3, <1>5 DEF Shut
<1> QED BY <1>4, <1>6

-----------------------------------------------------------------------------
(***************************************************************************)
(* The matching: every search leaves a matching, and a search that ends    *)
(* leaves a shut set about the columns it gave up.                         *)
(***************************************************************************)
LEMMA ShutUnion ==
  ASSUME NEW n, NEW p, NEW m, NEW D, NEW E, Shut(n, p, m, D), Shut(n, p, m, E)
  PROVE  Shut(n, p, m, D \cup E)
BY DEF Shut

LEMMA NothingShut ==
  ASSUME NEW n, NEW p, NEW m
  PROVE  Shut(n, p, m, {})
BY DEF Shut

LEMMA MatchInvMatched ==
  ASSUME MatchInv
  PROVE  /\ Matched /\ Square(Len(pattern), pattern) /\ Slot = 1..Len(pattern) /\ Len(pattern) \in Nat
         /\ FreeCols = Free(Len(pattern), rowMatch)
<1>1. Matched  BY DEF MatchInv, Matched
<1> QED BY <1>1, Operators DEF Square

LEMMA SeedMatches ==
  ASSUME MatchInv, Seed
  PROVE  MatchInv'
<1> DEFINE n == Len(pattern)
<1>1. pattern' = pattern /\ rule' = rule /\ rowMatch' = Seeded /\ stage = "seed"
      /\ open' = {c \in Slot : rowMatch'[c] = UNMATCHED}
      /\ stage' = IF open' = {} THEN "matched" ELSE IF rule = "mc21" THEN "augment" ELSE "layers"
  BY DEF Seed
<1>2. Matching(n, pattern, rowMatch') /\ pattern \in Patterns /\ rule \in {"diagonal", "free", "mc21"}
  BY <1>1, SeededMatches DEF MatchInv
<1>3. open' = Free(n, rowMatch')  BY <1>1, MatchInvMatched DEF Free, UNMATCHED
<1>4. CASE open' = {}
  <2>1. stage' = "matched"  BY <1>1, <1>4
  <2>2. Shut(n, pattern, rowMatch', {}) /\ Free(n, rowMatch') \subseteq {}  BY <1>3, <1>4, NothingShut
  <2> QED BY <1>1, <1>2, <1>3, <2>1, <2>2 DEF MatchInv
<1>5. CASE open' # {}
  <2>1. stage' = "augment" \/ stage' = "layers"  BY <1>1, <1>5
  <2>2. Shut(n, pattern, rowMatch', {}) /\ Free(n, rowMatch') \ open' \subseteq {}  BY <1>3, NothingShut
  <2> QED BY <1>1, <1>2, <1>3, <1>5, <2>1, <2>2 DEF MatchInv
<1> QED BY <1>4, <1>5

LEMMA LayersMatch ==
  ASSUME MatchInv, Layers
  PROVE  MatchInv'
<1> DEFINE n == Len(pattern)
           reached == {c \in Slot : Levels[c] # UNSET /\ FreeRows(c) # {}}
<1>1. pattern' = pattern /\ rule' = rule /\ rowMatch' = rowMatch
      /\ stage' = (IF reached = {} THEN "matched" ELSE "augment")
      /\ open' = IF reached = {} THEN {} ELSE FreeCols
  BY DEF Layers
<1>2. Matching(n, pattern, rowMatch) /\ pattern \in Patterns /\ rule \in {"diagonal", "free", "mc21"}  BY DEF MatchInv
<1>3. FreeCols = Free(n, rowMatch) /\ Matched  BY MatchInvMatched
<1>4. CASE reached = {}
  <2>1. \A c \in Slot : Levels[c] # -1 => FreeRows(c) = {}  BY <1>4 DEF UNSET
  <2>2. PICK D : Shut(n, pattern, rowMatch, D) /\ FreeCols \subseteq D  BY <1>3, <2>1, LevelsClose
  <2>3. stage' = "matched" /\ open' = {}  BY <1>1, <1>4
  <2> QED BY <1>1, <1>2, <1>3, <2>2, <2>3 DEF MatchInv
<1>5. CASE reached # {}
  <2>1. PICK c \in Slot : Levels[c] # -1  BY <1>5 DEF UNSET
  <2>2. FreeCols # {}  BY <1>3, <2>1, LevelsReach
  <2>3. stage' = "augment" /\ open' = FreeCols  BY <1>1, <1>5
  <2>4. Shut(n, pattern, rowMatch, {}) /\ Free(n, rowMatch) \ open' \subseteq {}  BY <1>3, <2>3, NothingShut
  <2> QED BY <1>1, <1>2, <1>3, <2>2, <2>3, <2>4 DEF MatchInv
<1> QED BY <1>4, <1>5

LEMMA AugmentMatches ==
  ASSUME MatchInv, Augment
  PROVE  MatchInv'
<1> DEFINE n == Len(pattern)
           c == Min(open)
           F == Free(n, rowMatch)
<1>0. Matched /\ Square(n, pattern) /\ Slot = 1..n /\ n \in Nat  BY MatchInvMatched
<1>1. pattern' = pattern /\ rule' = rule /\ open' = open \ {c} /\ stage = "augment" /\ stage' = AfterSearch  BY DEF Augment
<1>2. Matching(n, pattern, rowMatch) /\ pattern \in Patterns /\ rule \in {"diagonal", "free", "mc21"}
      /\ open \subseteq F /\ open # {}
  BY <1>1 DEF MatchInv
<1>3. c \in open /\ c \in Slot
  <2>1. open \subseteq 1..n  BY <1>2 DEF Free
  <2>2. open \in SUBSET Nat  BY <1>0, <2>1
  <2>3. Min(open) \in open  BY <1>2, <2>2, LeastNumber
  <2> QED BY <1>0, <2>1, <2>3
\* It is enough to know the matching and the shut set afterwards.
<1>4. ASSUME Matching(n, pattern, rowMatch'), open' \subseteq Free(n, rowMatch'),
             rule = "mc21" => \E D : Shut(n, pattern, rowMatch', D) /\ Free(n, rowMatch') \ open' \subseteq D
      PROVE  MatchInv'
  <2>1. CASE open' # {}
    <3>1. stage' = "augment"  BY <1>1, <2>1 DEF AfterSearch
    <3> QED BY <1>1, <1>2, <1>4, <2>1, <3>1 DEF MatchInv
  <2>2. CASE open' = {} /\ rule = "mc21"
    <3>1. stage' = "matched"  BY <1>1, <2>2 DEF AfterSearch
    <3>2. PICK D : Shut(n, pattern, rowMatch', D) /\ Free(n, rowMatch') \subseteq D
      <4>1. PICK D : Shut(n, pattern, rowMatch', D) /\ Free(n, rowMatch') \ open' \subseteq D  BY <1>4, <2>2
      <4>2. Free(n, rowMatch') \subseteq D  BY <2>2, <4>1
      <4> QED BY <4>1, <4>2
    <3> QED BY <1>1, <1>2, <1>4, <3>1, <3>2 DEF MatchInv
  <2>3. CASE open' = {} /\ rule # "mc21"
    <3>1. stage' = "layers"  BY <1>1, <2>3 DEF AfterSearch
    <3> QED BY <1>1, <1>2, <1>4, <3>1 DEF MatchInv
  <2> QED BY <2>1, <2>2, <2>3
<1>5. CASE \E p \in Followed(c) : rowMatch' = Rematched(p)
  <2>1. PICK p \in PathsFrom(c) : rowMatch' = Rematched(p)  BY <1>5 DEF Followed
  <2>2. PICK k, q, r : IsPath(n, pattern, rowMatch, k, q, r) /\ q[1] = c /\ Turned(n, rowMatch, k, q, r, rowMatch')
    BY <1>0, <1>3, <2>1, PathsTurn
  <2>3. Matching(n, pattern, rowMatch')  BY <1>0, <1>2, <2>2, TurnedMatches
  <2>4. Free(n, rowMatch') = F \ {c}  BY <1>0, <1>2, <2>2, TurnedFree
  <2>5. ASSUME rule = "mc21"
        PROVE  \E D : Shut(n, pattern, rowMatch', D) /\ Free(n, rowMatch') \ open' \subseteq D
    <3>1. PICK D : Shut(n, pattern, rowMatch, D) /\ F \ open \subseteq D  BY <1>1, <2>5 DEF MatchInv
    <3>2. Shut(n, pattern, rowMatch', D)  BY <1>0, <1>2, <2>2, <3>1, TurnedShut
    <3>3. Free(n, rowMatch') \ open' \subseteq D  BY <1>1, <2>4, <3>1
    <3> QED BY <3>2, <3>3
  <2>6. open' \subseteq Free(n, rowMatch')  BY <1>1, <1>2, <2>4
  <2> QED BY <1>4, <2>3, <2>5, <2>6
<1>6. CASE Followed(c) = {} /\ rowMatch' = rowMatch
  <2>1. ASSUME rule = "mc21"
        PROVE  \E D : Shut(n, pattern, rowMatch, D) /\ F \ open' \subseteq D
    <3>1. PICK D : Shut(n, pattern, rowMatch, D) /\ F \ open \subseteq D  BY <1>1, <2>1 DEF MatchInv
    <3>2. PathsFrom(c) = {}  BY <1>6, <2>1 DEF Followed
    <3>3. PICK E : Shut(n, pattern, rowMatch, E) /\ c \in E  BY <1>0, <1>3, <3>2, NoPathShut
    <3>4. Shut(n, pattern, rowMatch, D \cup E)  BY <3>1, <3>3, ShutUnion
    <3>5. F \ open' \subseteq D \cup E  BY <1>1, <3>1, <3>3
    <3> QED BY <3>4, <3>5
  <2>2. open' \subseteq F  BY <1>1, <1>2
  <2> QED BY <1>2, <1>4, <1>6, <2>1, <2>2
<1> QED BY <1>5, <1>6 DEF Augment

LEMMA MatchStep ==
  ASSUME MatchInv, [BtfNext]_btfVars
  PROVE  MatchInv'
<1>1. CASE Seed  BY <1>1, SeedMatches
<1>2. CASE Layers  BY <1>2, LayersMatch
<1>3. CASE Augment  BY <1>3, AugmentMatches
<1>4. CASE DropCandidate  BY <1>4 DEF MatchInv, DropCandidate, matchVars
<1>5. CASE StartWalk
  <2>1. Free(Len(pattern), rowMatch) = {}  BY <1>5, MatchInvMatched DEF StartWalk
  <2> QED BY <1>5, <2>1 DEF MatchInv, StartWalk, matchVars
<1>6. CASE Root \/ Look \/ Finish
  BY <1>6 DEF MatchInv, Root, Look, Finish, matchVars
<1>7. CASE UNCHANGED btfVars  BY <1>7 DEF MatchInv, btfVars, matchVars
<1> QED BY <1>1, <1>2, <1>3, <1>4, <1>5, <1>6, <1>7 DEF BtfNext

LEMMA MatchIsMaximum ==
  ASSUME MatchInv
  PROVE  TransversalIsMaximum
<1> SUFFICES ASSUME stage = "matched" PROVE TransversalIsMaximum  BY DEF TransversalIsMaximum
<1>1. Square(Len(pattern), pattern) /\ Slot = 1..Len(pattern) /\ FreeCols = Free(Len(pattern), rowMatch)
  BY MatchInvMatched
<1>2. PICK D : Shut(Len(pattern), pattern, rowMatch, D) /\ Free(Len(pattern), rowMatch) \subseteq D  BY DEF MatchInv
<1>3. Matching(Len(pattern), pattern, rowMatch)  BY DEF MatchInv
<1>4. \A c \in Slot : rowMatch[c] \in pattern[c] \cup {UNMATCHED}  BY <1>1, <1>3 DEF Matching, UNMATCHED
<1>5. Cardinality(FreeCols) =
        Max({Cardinality(S) - Cardinality(UNION {pattern[c] : c \in S}) : S \in SUBSET Slot})
  <2>1. Cardinality(FreeCols) = Deficiency(1..Len(pattern), pattern)  BY <1>1, <1>2, <1>3, Koenig
  <2>2. Cardinality(FreeCols) = Deficiency(Slot, pattern)  BY <1>1, <2>1
  <2> QED BY <2>2 DEF Deficiency
<1> QED BY <1>4, <1>5 DEF TransversalIsMaximum

-----------------------------------------------------------------------------
(***************************************************************************)
(* Reachability.                                                           *)
(***************************************************************************)
LEMMA ReachesRefl ==
  ASSUME NEW n, NEW p, NEW m, NEW c
  PROVE  Reaches(n, p, m, c, c)
BY DEF Reaches

LEMMA ArcReaches ==
  ASSUME NEW n, NEW p, NEW m, NEW c, NEW d \in 1..n, Arc(p, m, c, d)
  PROVE  Reaches(n, p, m, c, d)
BY DEF Reaches

LEMMA ReachesTrans ==
  ASSUME NEW n, NEW p, NEW m, NEW c, NEW d, NEW e, Reaches(n, p, m, c, d), Reaches(n, p, m, d, e)
  PROVE  Reaches(n, p, m, c, e)
BY DEF Reaches

LEMMA SealedReaches ==
  ASSUME NEW n, NEW p, NEW m, NEW D \in SUBSET (1..n), Sealed(n, p, m, D),
         NEW c \in D, NEW d, Reaches(n, p, m, c, d)
  PROVE  d \in D
BY DEF Reaches, Sealed

-----------------------------------------------------------------------------
(***************************************************************************)
(* What a walk is, frame by frame.                                         *)
(***************************************************************************)
Frames(n, ix, lw, S, D, fr, l) ==
  /\ S \in SUBSET (1..n) /\ D \in SUBSET (1..n) /\ Seen(n, ix) \in SUBSET (1..n)
  /\ Cardinality(Seen(n, ix)) \in 0..n
  /\ \A c \in S : ix[c] \in 0..n /\ ix[c] < Cardinality(Seen(n, ix))
  /\ l \in Nat /\ DOMAIN fr = 1..l /\ (l > 0 => l \in 1..l)
  /\ \A i \in 1..l : fr[i] = <<fr[i][1], fr[i][2]>> /\ fr[i][1] \in S /\ ix[fr[i][1]] \in 0..n
  /\ \A i \in 1..l : lw[fr[i][1]] \in Int
  /\ \A i, j \in 1..l : fr[i][1] = fr[j][1] => i = j
  /\ \A i, j \in 1..l : i <= j => ix[fr[i][1]] <= ix[fr[j][1]]

LEMMA WalkFacts ==
  ASSUME NEW n \in Nat, NEW p, NEW m, NEW ix, NEW lw, NEW S, NEW D, NEW fr, NEW W,
         Walks(n, p, m, ix, lw, S, D, fr, W)
  PROVE  Frames(n, ix, lw, S, D, fr, Len(fr))
<1>1. S \cup D = Seen(n, ix) /\ Seen(n, ix) \in SUBSET (1..n) /\ ix \in [1..n -> -1..n]
  BY DEF Walks, Numbered, Seen
<1>2. Cardinality(Seen(n, ix)) \in 0..n
  <2>1. IsFiniteSet(1..n) /\ Cardinality(1..n) = IF 1 > n THEN 0 ELSE n - 1 + 1  BY FS_Interval
  <2>2. Cardinality(Seen(n, ix)) <= Cardinality(1..n)  BY <1>1, <2>1, FS_Subset
  <2>3. Cardinality(Seen(n, ix)) \in Nat  BY <1>1, FinitePart
  <2> QED BY <2>1, <2>2, <2>3
<1>3. \A c \in S : ix[c] \in 0..n /\ ix[c] < Cardinality(Seen(n, ix))
  <2>1. \A c \in S : c \in 1..n /\ ix[c] # -1  BY <1>1 DEF Seen
  <2>2. \A c \in 1..n : ix[c] < Cardinality(Seen(n, ix)) /\ ix[c] \in -1..n  BY <1>1 DEF Walks, Numbered
  <2>3. \A i \in -1..n : i # -1 => i \in 0..n  OBVIOUS
  <2> QED BY <2>1, <2>2, <2>3
<1>4. fr \in Seq((1..n) \X SUBSET (1..n))  BY DEF Walks, Framed
<1>5. Len(fr) \in Nat /\ DOMAIN fr = 1..Len(fr) /\ \A i \in 1..Len(fr) : fr[i] \in (1..n) \X SUBSET (1..n)
  BY <1>4, LenProperties, ElementOfSeq
<1>6. \A i \in 1..Len(fr) : fr[i][1] \in S  BY <1>5 DEF Walks, Framed
<1>7. \A i, j \in 1..Len(fr) : i < j => ix[fr[i][1]] < ix[fr[j][1]]  BY <1>5 DEF Walks, Framed
<1>8. \A i \in 1..Len(fr) : ix[fr[i][1]] \in 0..n  BY <1>3, <1>6
<1>9. \A i, j \in 1..Len(fr) : fr[i][1] = fr[j][1] => i = j
  <2> SUFFICES ASSUME NEW i \in 1..Len(fr), NEW j \in 1..Len(fr), fr[i][1] = fr[j][1] PROVE i = j  OBVIOUS
  <2>1. ~(i < j) /\ ~(j < i)  BY <1>7, <1>8
  <2> QED BY <1>5, <2>1
<1>10. \A i, j \in 1..Len(fr) : i <= j => ix[fr[i][1]] <= ix[fr[j][1]]
  <2> SUFFICES ASSUME NEW i \in 1..Len(fr), NEW j \in 1..Len(fr), i <= j PROVE ix[fr[i][1]] <= ix[fr[j][1]]
    OBVIOUS
  <2>1. CASE i = j  BY <1>8, <2>1
  <2>2. CASE i # j
    <3>1. i < j  BY <1>5, <2>2
    <3> QED BY <1>7, <1>8, <3>1
  <2> QED BY <2>1, <2>2
<1>11. \A i \in 1..Len(fr) : lw[fr[i][1]] \in Int
  <2>1. lw \in [1..n -> -1..n]  BY DEF Walks, Lows
  <2> QED BY <1>1, <1>6, <2>1
<1>12. \A i \in 1..Len(fr) : fr[i] = <<fr[i][1], fr[i][2]>>  BY <1>5
<1>13. Len(fr) > 0 => Len(fr) \in 1..Len(fr)  BY <1>5
<1> QED BY <1>1, <1>2, <1>3, <1>5, <1>6, <1>8, <1>9, <1>10, <1>11, <1>12, <1>13 DEF Frames

\* A column on the stack reaches the column being searched.
LEMMA ReachesTop ==
  ASSUME NEW n \in Nat, NEW p, NEW m, NEW ix, NEW lw, NEW S, NEW D, NEW fr, NEW W,
         Walks(n, p, m, ix, lw, S, D, fr, W), NEW x \in S
  PROVE  Len(fr) > 0 /\ Reaches(n, p, m, x, fr[Len(fr)][1])
<1>1. PICK i \in DOMAIN fr : Reaches(n, p, m, x, fr[i][1])  BY DEF Walks, Linked
<1>0. Frames(n, ix, lw, S, D, fr, Len(fr))  BY WalkFacts
<1>2. Len(fr) \in Nat /\ i \in 1..Len(fr) /\ Len(fr) \in 1..Len(fr)  BY <1>0, <1>1 DEF Frames
<1>3. ix[fr[i][1]] <= ix[fr[Len(fr)][1]] /\ fr[i][1] \in S /\ fr[Len(fr)][1] \in S  BY <1>0, <1>2 DEF Frames
<1>4. Reaches(n, p, m, fr[i][1], fr[Len(fr)][1])  BY <1>3 DEF Walks, Linked
<1> QED BY <1>1, <1>2, <1>4, ReachesTrans

-----------------------------------------------------------------------------
(***************************************************************************)
(* A column is discovered.                                                 *)
(***************************************************************************)
LEMMA Entered ==
  ASSUME NEW n \in Nat, NEW p, NEW m, NEW ix, NEW lw, NEW S, NEW D, NEW fr, NEW w \in 1..n,
         Square(n, p), Walks(n, p, m, ix, lw, S, D, fr, {w}), ix[w] = -1,
         Len(fr) > 0 => Arc(p, m, fr[Len(fr)][1], w),
         NEW ix2, NEW lw2, NEW fr2,
         ix2 = [ix EXCEPT ![w] = Cardinality(Seen(n, ix))],
         lw2 = [lw EXCEPT ![w] = Cardinality(Seen(n, ix))],
         fr2 = Append(fr, <<w, p[w]>>)
  PROVE  Walks(n, p, m, ix2, lw2, S \cup {w}, D, fr2, {})
<1> DEFINE k == Cardinality(Seen(n, ix))
           l == Len(fr)
           T == S \cup {w}
<1>1. /\ S \in SUBSET (1..n) /\ D \in SUBSET (1..n) /\ k \in 0..n /\ l \in Nat
      /\ \A c \in S : ix[c] \in 0..n /\ ix[c] < k
      /\ \A i \in 1..l : fr[i][1] \in S
  <2>1. Frames(n, ix, lw, S, D, fr, l)  BY WalkFacts
  <2> HIDE DEF k, l
  <2> QED BY <2>1 DEF Frames, k
<1>2. ix \in [1..n -> -1..n] /\ lw \in [1..n -> -1..n]  BY DEF Walks, Numbered, Lows
<1>3. w \notin S /\ w \notin D /\ w \notin Seen(n, ix)  BY DEF Walks, Numbered, Seen
<1>4. \A c \in 1..n : ix2[c] = (IF c = w THEN k ELSE ix[c]) /\ lw2[c] = IF c = w THEN k ELSE lw[c]
  BY <1>2
<1>5. ix2 \in [1..n -> -1..n] /\ lw2 \in [1..n -> -1..n]
  <2>1. k \in -1..n  BY <1>1
  <2> HIDE DEF k
  <2> QED BY <1>2, <2>1 DEF k
<1>6. /\ fr2 \in Seq((1..n) \X SUBSET (1..n)) /\ Len(fr2) = l + 1 /\ DOMAIN fr2 = 1..l + 1
      /\ \A i \in 1..l : fr2[i] = fr[i] /\ i \in 1..l + 1
      /\ fr2[l + 1][1] = w /\ fr2[l + 1][2] = p[w] /\ DOMAIN fr = 1..l
  <2>1. fr \in Seq((1..n) \X SUBSET (1..n))  BY DEF Walks, Framed
  <2>2. <<w, p[w]>> \in (1..n) \X SUBSET (1..n)  BY DEF Square
  <2>3. fr2[l + 1] = <<w, p[w]>> /\ Len(fr2) = l + 1 /\ \A i \in 1..l : fr2[i] = fr[i]
    BY <1>1, <2>1, <2>2, AppendProperties
  <2>4. fr2 \in Seq((1..n) \X SUBSET (1..n))  BY <2>1, <2>2, AppendProperties
  <2>5. DOMAIN fr2 = 1..l + 1 /\ DOMAIN fr = 1..l  BY <2>1, <2>3, <2>4, LenProperties
  <2>6. \A i \in 1..l : i \in 1..l + 1  BY <1>1
  <2> QED BY <2>3, <2>4, <2>5, <2>6
<1>7. \A i \in 1..l + 1 : i \in 1..l \/ i = l + 1  BY <1>1
<1>8. Seen(n, ix2) = Seen(n, ix) \cup {w}
  <2>1. k # -1  BY <1>1
  <2> HIDE DEF k
  <2>2. \A c \in 1..n : ix2[c] # -1 <=> ix[c] # -1 \/ c = w  BY <1>4, <2>1
  <2> QED BY <2>2 DEF Seen
<1>9. \A c \in S : c # w /\ ix2[c] = ix[c] /\ ix2[c] \in 0..n /\ ix2[c] < k /\ lw2[c] = lw[c]
  BY <1>1, <1>3, <1>4
<1>10. ix2[w] = k /\ lw2[w] = k  BY <1>4
\* The new frame has looked at nothing.
<1>11. ASSUME NEW c, NEW d, Looked(p, m, fr2, c, d) PROVE Looked(p, m, fr, c, d) /\ c # w
  <2>1. \A i \in 1..l : fr[i][1] = c => m[d] \notin fr[i][2]  BY <1>6, <1>11 DEF Looked
  <2>2. c # w
    <3>1. l + 1 \in DOMAIN fr2  BY <1>1, <1>6
    <3> QED BY <1>6, <1>11, <3>1 DEF Looked, Arc
  <2> QED BY <1>6, <1>11, <2>1, <2>2 DEF Looked
<1> HIDE DEF k, l
<1>12. Numbered(n, ix2, T, D)
  <2>1. Cardinality(Seen(n, ix2)) = k + 1
    <3>1. IsFiniteSet(Seen(n, ix))  BY FinitePart DEF Seen
    <3> QED BY <1>3, <1>8, <3>1, FS_AddElement DEF k
  <2>2. \A c \in 1..n : ix2[c] < k + 1
    <3>1. \A c \in 1..n : ix[c] < k  BY DEF Walks, Numbered, k
    <3> QED BY <1>1, <1>2, <1>4, <3>1
  <2>3. ASSUME NEW c \in 1..n, NEW d \in 1..n, ix2[c] = ix2[d], ix2[c] # -1 PROVE c = d
    <3>1. \A e \in 1..n : ix[e] < k /\ ix[e] \in Int
      <4>1. \A e \in 1..n : ix[e] < k  BY DEF Walks, Numbered, k
      <4>2. \A e \in 1..n : ix[e] \in -1..n  BY <1>2
      <4> QED BY <4>1, <4>2
    <3>2. CASE c = w  BY <1>1, <1>4, <2>3, <3>1, <3>2
    <3>3. CASE d = w  BY <1>1, <1>4, <2>3, <3>1, <3>3
    <3>4. CASE c # w /\ d # w
      <4>1. ix[c] = ix[d] /\ ix[c] # -1  BY <1>4, <2>3, <3>4
      <4> QED BY <4>1 DEF Walks, Numbered
    <3> QED BY <3>2, <3>3, <3>4
  <2>4. Seen(n, ix2) = T \cup D /\ T \cap D = {}  BY <1>3, <1>8 DEF Walks, Numbered
  <2>5. \A c \in 1..n : ix2[c] < Cardinality(Seen(n, ix2))  BY ONLY <2>1, <2>2
  <2>6. \A c, d \in 1..n : ix2[c] = ix2[d] /\ ix2[c] # -1 => c = d  BY ONLY <2>3
  <2>7. ix2 \in [1..n -> -1..n]  BY <1>5
  <2> QED BY ONLY <2>4, <2>5, <2>6, <2>7 DEF Numbered
<1>13. Framed(n, p, m, ix2, T, fr2)
  <2>1. ASSUME NEW i \in 1..l + 1 PROVE fr2[i][1] \in T /\ fr2[i][2] \subseteq p[fr2[i][1]]
    <3>1. CASE i \in 1..l
      <4>1. fr[i][1] \in S /\ fr[i][2] \subseteq p[fr[i][1]]  BY <1>6, <3>1 DEF Walks, Framed
      <4> QED BY <1>6, <3>1, <4>1
    <3>2. CASE i = l + 1  BY <1>6, <3>2
    <3> QED BY <1>7, <3>1, <3>2
  <2>2. ASSUME NEW i \in 1..l + 1, NEW j \in 1..l + 1, i < j PROVE ix2[fr2[i][1]] < ix2[fr2[j][1]]
    <3>1. i \in 1..l  BY <1>1, <2>2
    <3>2. fr[i][1] \in S /\ fr2[i][1] = fr[i][1]  BY <1>1, <1>6, <3>1
    <3>3. CASE j = l + 1  BY <1>6, <1>9, <1>10, <3>2, <3>3
    <3>4. CASE j \in 1..l
      <4>1. ix[fr[i][1]] < ix[fr[j][1]] /\ fr[j][1] \in S  BY <1>1, <1>6, <2>2, <3>1, <3>4 DEF Walks, Framed
      <4>2. fr2[j][1] = fr[j][1]  BY <1>6, <3>4
      <4>3. ix2[fr[i][1]] = ix[fr[i][1]] /\ ix2[fr[j][1]] = ix[fr[j][1]]  BY <1>9, <3>2, <4>1
      <4> QED BY <3>2, <4>1, <4>2, <4>3
    <3> QED BY <1>7, <3>3, <3>4
  <2>3. ASSUME NEW i \in 1..l + 1, NEW j \in 1..l + 1, j = i + 1 PROVE Arc(p, m, fr2[i][1], fr2[j][1])
    <3>1. i \in 1..l  BY <1>1, <2>3
    <3>2. CASE j = l + 1
      <4>1. i = l /\ l > 0  BY <1>1, <2>3, <3>1, <3>2
      <4>2. Arc(p, m, fr[l][1], w)  BY <4>1 DEF l
      <4> QED BY <1>6, <3>1, <3>2, <4>1, <4>2
    <3>3. CASE j \in 1..l
      <4>1. Arc(p, m, fr[i][1], fr[j][1])  BY <1>6, <2>3, <3>1, <3>3 DEF Walks, Framed
      <4> QED BY <1>6, <3>1, <3>3, <4>1
    <3> QED BY <1>7, <3>2, <3>3
  <2> QED BY <1>6, <2>1, <2>2, <2>3 DEF Framed
<1>14. Explored(n, p, m, ix2, fr2, {})
  <2>1. ASSUME NEW c \in Seen(n, ix2), NEW d \in 1..n, Looked(p, m, fr2, c, d) PROVE d \in Seen(n, ix2)
    <3>1. Looked(p, m, fr, c, d) /\ c \in Seen(n, ix)  BY <1>8, <1>11, <2>1
    <3>2. d \in Seen(n, ix) \cup {w}  BY <3>1 DEF Walks, Explored
    <3> QED BY <1>8, <3>2
  <2> QED BY <2>1 DEF Explored
<1>15. Sealed(n, p, m, D)  BY DEF Walks
<1>16. Linked(n, p, m, ix2, T, fr2)
  <2>1. ASSUME NEW x \in S PROVE Reaches(n, p, m, x, w)
    <3>1. l > 0 /\ Reaches(n, p, m, x, fr[l][1])  BY ReachesTop DEF l
    <3>2. Arc(p, m, fr[l][1], w)  BY <3>1 DEF l
    <3>3. Reaches(n, p, m, fr[l][1], w)  BY <3>2, ArcReaches
    <3> QED BY <3>1, <3>3, ReachesTrans
  <2>2. ASSUME NEW x \in T, NEW y \in T, ix2[x] <= ix2[y] PROVE Reaches(n, p, m, x, y)
    <3>1. CASE x = w
      <4>1. y = w  BY <1>1, <1>9, <1>10, <2>2, <3>1
      <4> QED BY <3>1, <4>1, ReachesRefl
    <3>2. CASE x \in S /\ y = w  BY <2>1, <3>2
    <3>3. CASE x \in S /\ y \in S
      <4>1. ix[x] <= ix[y]  BY <1>9, <2>2, <3>3
      <4> QED BY <3>3, <4>1 DEF Walks, Linked
    <3> QED BY <3>1, <3>2, <3>3
  <2>3. ASSUME NEW y \in T PROVE \E i \in 1..l + 1 : ix2[fr2[i][1]] <= ix2[y] /\ Reaches(n, p, m, y, fr2[i][1])
    <3>1. CASE y = w
      <4>1. l + 1 \in 1..l + 1 /\ k <= k  BY <1>1
      <4> QED BY <1>6, <1>10, <3>1, <4>1, ReachesRefl
    <3>2. CASE y \in S
      <4>1. PICK i \in 1..l : ix[fr[i][1]] <= ix[y] /\ Reaches(n, p, m, y, fr[i][1])
        BY <1>6, <3>2 DEF Walks, Linked
      <4>2. fr[i][1] \in S /\ fr2[i] = fr[i] /\ i \in 1..l + 1  BY <1>1, <1>6
      <4> QED BY <1>9, <3>2, <4>1, <4>2
    <3> QED BY <3>1, <3>2
  <2> QED BY <1>6, <2>2, <2>3 DEF Linked
<1>17. Lows(n, p, m, ix2, lw2, T, fr2)
  <2>1. ASSUME NEW i \in 1..l
        PROVE  /\ lw2[fr2[i][1]] <= ix2[fr2[i][1]]
               /\ \E x \in T : ix2[x] = lw2[fr2[i][1]] /\ Reaches(n, p, m, fr2[i][1], x)
               /\ lw2[fr2[i][1]] = lw[fr[i][1]] /\ ix2[fr2[i][1]] = ix[fr[i][1]]
    <3>1. fr2[i][1] = fr[i][1] /\ fr[i][1] \in S  BY <1>1, <1>6
    <3>2. lw[fr[i][1]] <= ix[fr[i][1]] /\ \E x \in S : ix[x] = lw[fr[i][1]] /\ Reaches(n, p, m, fr[i][1], x)
      BY <1>6 DEF Walks, Lows
    <3> QED BY <1>9, <3>1, <3>2
  <2>2. ASSUME NEW i \in 1..l, NEW x \in T, NEW y \in T, ix2[fr2[i][1]] <= ix2[x],
               i + 1 \in 1..l + 1 => ix2[x] < ix2[fr2[i + 1][1]], Looked(p, m, fr2, x, y)
        PROVE  lw2[fr2[i][1]] <= ix2[y]
    <3>1. x \in S /\ Looked(p, m, fr, x, y)  BY <1>11, <2>2
    <3>2. ix[fr[i][1]] <= ix[x]  BY <1>9, <2>1, <2>2, <3>1
    <3>3. i + 1 \in 1..l => ix[x] < ix[fr[i + 1][1]]
      <4> SUFFICES ASSUME i + 1 \in 1..l PROVE ix[x] < ix[fr[i + 1][1]]  OBVIOUS
      <4>1. i + 1 \in 1..l + 1 /\ fr[i + 1][1] \in S /\ fr2[i + 1] = fr[i + 1]  BY <1>1, <1>6
      <4> QED BY <1>9, <2>2, <3>1, <4>1
    <3>4. CASE y \in S
      <4>1. lw[fr[i][1]] <= ix[y]  BY <1>6, <3>1, <3>2, <3>3, <3>4 DEF Walks, Lows
      <4> QED BY <1>9, <2>1, <3>4, <4>1
    <3>5. CASE y = w
      <4>1. fr[i][1] \in S /\ ix[fr[i][1]] < k /\ ix[fr[i][1]] \in Int /\ fr2[i] = fr[i]  BY <1>1, <1>6
      <4>2. lw2[fr2[i][1]] \in Int
        <5>1. fr2[i][1] \in 1..n  BY <1>1, <4>1
        <5>2. lw2[fr2[i][1]] \in -1..n  BY <1>5, <5>1
        <5> QED BY ONLY <5>2, n \in Nat
      <4>3. lw2[fr2[i][1]] <= ix[fr[i][1]]  BY <2>1
      <4>4. k \in Int /\ ix2[y] = k  BY <1>1, <1>10, <3>5
      <4> QED BY ONLY <4>1, <4>2, <4>3, <4>4
    <3> QED BY <3>4, <3>5
  <2>3. /\ lw2[fr2[l + 1][1]] <= ix2[fr2[l + 1][1]]
        /\ \E x \in T : ix2[x] = lw2[fr2[l + 1][1]] /\ Reaches(n, p, m, fr2[l + 1][1], x)
    <3>1. Reaches(n, p, m, w, w) /\ w \in T  BY ReachesRefl
    <3>2. fr2[l + 1][1] = w /\ k <= k  BY <1>1, <1>6
    <3> QED BY <1>10, <3>1, <3>2
  <2>4. ASSUME NEW x \in T, ix2[fr2[l + 1][1]] <= ix2[x], NEW y, Looked(p, m, fr2, x, y) PROVE FALSE
    <3>1. x \in S  BY <1>11, <2>4
    <3> QED BY <1>1, <1>6, <1>9, <1>10, <2>4, <3>1
  <2>5. ASSUME NEW i \in 1..l + 1
        PROVE  /\ lw2[fr2[i][1]] <= ix2[fr2[i][1]]
               /\ \E x \in T : ix2[x] = lw2[fr2[i][1]] /\ Reaches(n, p, m, fr2[i][1], x)
               /\ \A x, y \in T :
                    /\ ix2[fr2[i][1]] <= ix2[x] /\ (i + 1 \in 1..l + 1 => ix2[x] < ix2[fr2[i + 1][1]])
                    /\ Looked(p, m, fr2, x, y)
                    => lw2[fr2[i][1]] <= ix2[y]
    <3>1. CASE i \in 1..l  BY <2>1, <2>2, <3>1
    <3>2. CASE i = l + 1  BY <2>3, <2>4, <3>2
    <3> QED BY <1>7, <3>1, <3>2
  <2> QED BY <1>5, <1>6, <2>5 DEF Lows
<1> QED BY <1>12, <1>13, <1>14, <1>15, <1>16, <1>17 DEF Walks

-----------------------------------------------------------------------------
(***************************************************************************)
(* The column being searched looks at a row.                               *)
(***************************************************************************)
Trimmed(n, fr, r, fr2) ==
  /\ fr2 \in Seq((1..n) \X SUBSET (1..n)) /\ Len(fr2) = Len(fr)
  /\ \A i \in 1..Len(fr) :
       fr2[i][1] = fr[i][1] /\ fr2[i][2] = IF i = Len(fr) THEN fr[i][2] \ {r} ELSE fr[i][2]

LEMMA LookedAt ==
  ASSUME NEW n \in Nat, NEW p, NEW m, NEW ix, NEW lw, NEW S, NEW D, NEW fr,
         Square(n, p), Matching(n, p, m), Walks(n, p, m, ix, lw, S, D, fr, {}),
         NEW v, NEW l, l = Len(fr), l > 0, v = fr[l][1],
         NEW w \in 1..n, m[w] \in fr[l][2], m[w] # 0,
         NEW lw2, lw2 \in [1..n -> -1..n], \A c \in 1..n : c # v => lw2[c] = lw[c],
         lw2[v] = IF w \in S /\ ix[w] < lw[v] THEN ix[w] ELSE lw[v],
         NEW fr2, Trimmed(n, fr, m[w], fr2)
  PROVE  Walks(n, p, m, ix, lw2, S, D, fr2, {w})
<1>1. /\ S \in SUBSET (1..n) /\ D \in SUBSET (1..n) /\ l \in Nat /\ l \in 1..l /\ DOMAIN fr = 1..l
      /\ \A i \in 1..l : fr[i][1] \in S /\ ix[fr[i][1]] \in 0..n /\ lw[fr[i][1]] \in Int
      /\ \A i, j \in 1..l : fr[i][1] = fr[j][1] => i = j
      /\ \A i, j \in 1..l : i <= j => ix[fr[i][1]] <= ix[fr[j][1]]
      /\ \A c \in S : ix[c] \in 0..n
  <2>1. Frames(n, ix, lw, S, D, fr, l)  BY WalkFacts
  <2> QED BY <2>1 DEF Frames
<1>2. /\ DOMAIN fr2 = 1..l
      /\ \A i \in 1..l : fr2[i][1] = fr[i][1] /\ fr2[i][2] = IF i = l THEN fr[i][2] \ {m[w]} ELSE fr[i][2]
  BY LenProperties DEF Trimmed
<1>3. v \in S /\ v \in 1..n /\ Arc(p, m, v, w)
  <2>1. v \in S /\ fr[l][2] \subseteq p[v]  BY <1>1 DEF Walks, Framed
  <2> QED BY <1>1, <2>1 DEF Arc
\* What is new of what has been looked at.
<1>4. ASSUME NEW c, NEW d \in 1..n, Looked(p, m, fr2, c, d), ~ Looked(p, m, fr, c, d) PROVE c = v /\ d = w
  <2>1. PICK i \in 1..l : fr[i][1] = c /\ m[d] \in fr[i][2]  BY <1>1, <1>4 DEF Looked
  <2>2. m[d] \notin fr2[i][2]  BY <1>2, <1>4, <2>1 DEF Looked
  <2>3. i = l /\ m[d] = m[w]  BY <1>2, <2>1, <2>2
  <2> QED BY <2>1, <2>3 DEF Matching
<1>5. Framed(n, p, m, ix, S, fr2)
  <2>1. ASSUME NEW i \in 1..l PROVE fr2[i][1] \in S /\ fr2[i][2] \subseteq p[fr2[i][1]]
    <3>1. fr[i][1] \in S /\ fr[i][2] \subseteq p[fr[i][1]] /\ fr2[i][1] = fr[i][1] /\ fr2[i][2] \subseteq fr[i][2]
      BY <1>1, <1>2 DEF Walks, Framed
    <3> QED BY <3>1
  <2>2. \A i, j \in 1..l : /\ i < j => ix[fr2[i][1]] < ix[fr2[j][1]]
                           /\ j = i + 1 => Arc(p, m, fr2[i][1], fr2[j][1])
    <3>1. \A i, j \in 1..l : /\ i < j => ix[fr[i][1]] < ix[fr[j][1]]
                             /\ j = i + 1 => Arc(p, m, fr[i][1], fr[j][1])
      BY <1>1 DEF Walks, Framed
    <3> QED BY <1>2, <3>1
  <2> QED BY <1>2, <2>1, <2>2 DEF Framed, Trimmed
<1>6. Explored(n, p, m, ix, fr2, {w})
  <2>1. ASSUME NEW c \in Seen(n, ix), NEW d \in 1..n, Looked(p, m, fr2, c, d) PROVE d \in Seen(n, ix) \cup {w}
    <3>1. CASE Looked(p, m, fr, c, d)  BY <3>1 DEF Walks, Explored
    <3>2. CASE ~ Looked(p, m, fr, c, d)  BY <1>4, <2>1, <3>2
    <3> QED BY <3>1, <3>2
  <2> QED BY <2>1 DEF Explored
<1>7. Linked(n, p, m, ix, S, fr2)
  <2>1. \A y \in S : \E i \in 1..l : ix[fr[i][1]] <= ix[y] /\ Reaches(n, p, m, y, fr[i][1])
    BY <1>1 DEF Walks, Linked
  <2>2. \A y \in S : \E i \in 1..l : ix[fr2[i][1]] <= ix[y] /\ Reaches(n, p, m, y, fr2[i][1])  BY <1>2, <2>1
  <2>3. \A x, y \in S : ix[x] <= ix[y] => Reaches(n, p, m, x, y)  BY DEF Walks, Linked
  <2> QED BY <1>2, <2>2, <2>3 DEF Linked
<1>8. Lows(n, p, m, ix, lw2, S, fr2)
  <2> SUFFICES ASSUME NEW i \in 1..l
               PROVE  /\ lw2[fr2[i][1]] <= ix[fr2[i][1]]
                      /\ \E x \in S : ix[x] = lw2[fr2[i][1]] /\ Reaches(n, p, m, fr2[i][1], x)
                      /\ \A x, y \in S :
                           /\ ix[fr2[i][1]] <= ix[x] /\ (i + 1 \in 1..l => ix[x] < ix[fr2[i + 1][1]])
                           /\ Looked(p, m, fr2, x, y)
                           => lw2[fr2[i][1]] <= ix[y]
    BY <1>2 DEF Lows
  <2> DEFINE u == fr[i][1]
  <2>0. u \in S /\ u \in 1..n /\ fr2[i][1] = u /\ ix[u] \in Int /\ lw[u] \in Int /\ ix[v] \in Int /\ lw[v] \in Int
    <3>1. u \in S /\ fr2[i][1] = u /\ ix[u] \in 0..n /\ lw[u] \in Int  BY <1>1, <1>2
    <3>2. ix[v] \in 0..n /\ lw[v] \in Int  BY <1>1
    <3> HIDE DEF u
    <3> QED BY <1>1, <3>1, <3>2
  <2>1. /\ lw[u] <= ix[u] /\ \E x \in S : ix[x] = lw[u] /\ Reaches(n, p, m, u, x)
        /\ \A x, y \in S :
             /\ ix[u] <= ix[x] /\ (i + 1 \in 1..l => ix[x] < ix[fr[i + 1][1]]) /\ Looked(p, m, fr, x, y)
             => lw[u] <= ix[y]
    BY <1>1 DEF Walks, Lows
  <2>2. u = v <=> i = l  BY <1>1
  <2>3. lw2[u] <= lw[u] /\ lw2[u] \in Int
    <3>1. CASE u # v
      <4> HIDE DEF u
      <4>1. lw2[u] = lw[u]  BY <2>0, <3>1
      <4>2. lw[u] \in Int  BY <2>0
      <4> QED BY ONLY <4>1, <4>2
    <3>2. CASE u = v
      <4>1. w \in S => ix[w] \in Int  BY <1>1
      <4>2. lw2[u] = (IF w \in S /\ ix[w] < lw[u] THEN ix[w] ELSE lw[u])  BY <3>2
      <4>3. lw[u] \in Int  BY <2>0
      <4> HIDE DEF u
      <4> QED BY ONLY <4>1, <4>2, <4>3
    <3> QED BY <3>1, <3>2
  <2>4. lw2[u] <= ix[u]  BY <2>0, <2>1, <2>3
  <2>5. \E x \in S : ix[x] = lw2[u] /\ Reaches(n, p, m, u, x)
    <3>1. CASE lw2[u] = lw[u]  BY <2>1, <3>1
    <3>2. CASE lw2[u] # lw[u]
      <4>1. u = v /\ w \in S /\ lw2[u] = ix[w]  BY <2>0, <3>2
      <4>2. Reaches(n, p, m, v, w)  BY <1>3, ArcReaches
      <4> QED BY <4>1, <4>2
    <3> QED BY <3>1, <3>2
  <2>6. ASSUME NEW x \in S, NEW y \in S, ix[u] <= ix[x], i + 1 \in 1..l => ix[x] < ix[fr2[i + 1][1]],
               Looked(p, m, fr2, x, y)
        PROVE  lw2[u] <= ix[y]
    <3>0. ix[y] \in Int /\ y \in 1..n  BY <1>1
    <3>1. CASE Looked(p, m, fr, x, y)
      <4>1. i + 1 \in 1..l => ix[x] < ix[fr[i + 1][1]]  BY <1>2, <2>6
      <4>2. lw[u] <= ix[y]  BY <2>1, <2>6, <3>1, <4>1
      <4> QED BY <2>0, <2>3, <3>0, <4>2
    <3>2. CASE ~ Looked(p, m, fr, x, y)
      <4>1. x = v /\ y = w  BY <1>4, <2>6, <3>0, <3>2
      <4>2. i = l
        <5> SUFFICES ASSUME i # l PROVE FALSE  OBVIOUS
        <5>1. i + 1 \in 1..l  BY <1>1
        <5>2. ix[x] < ix[fr[i + 1][1]]  BY <4>1, <5>1, <1>2, <2>6
        <5>4. ix[fr[i + 1][1]] <= ix[v]
          <6>1. i + 1 <= l /\ l \in 1..l  BY <1>1, <5>1
          <6> QED BY <1>1, <5>1, <6>1
        <5>3. ix[fr[i + 1][1]] \in Int  BY <1>1, <5>1
        <5>5. ix[v] \in Int  BY <2>0
        <5> QED BY ONLY <4>1, <5>2, <5>3, <5>4, <5>5
      <4> QED BY <2>0, <2>2, <3>0, <4>1, <4>2
    <3> QED BY <3>1, <3>2
  <2> QED BY <2>0, <2>4, <2>5, <2>6
<1> QED BY <1>5, <1>6, <1>7, <1>8 DEF Walks

\* A column already seen adds nothing to explore.
LEMMA LookedAtSeen ==
  ASSUME NEW n, NEW p, NEW m, NEW ix, NEW lw, NEW S, NEW D, NEW fr, NEW w \in 1..n,
         Walks(n, p, m, ix, lw, S, D, fr, {w}), ix[w] # -1
  PROVE  Walks(n, p, m, ix, lw, S, D, fr, {})
<1>1. w \in Seen(n, ix)  BY DEF Seen
<1>2. Explored(n, p, m, ix, fr, {})  BY <1>1 DEF Walks, Explored
<1> QED BY <1>2 DEF Walks

-----------------------------------------------------------------------------
(***************************************************************************)
(* A finished column: its frame is dropped.                                *)
(***************************************************************************)
Dropped(n, fr, fr2) ==
  /\ fr2 \in Seq((1..n) \X SUBSET (1..n)) /\ Len(fr2) = Len(fr) - 1
  /\ \A i \in 1..Len(fr) - 1 : fr2[i] = fr[i]

LEMMA DroppedFrames ==
  ASSUME NEW n \in Nat, NEW p, NEW m, NEW ix, NEW lw, NEW S, NEW D, NEW fr, NEW fr2, NEW T \in SUBSET S,
         Walks(n, p, m, ix, lw, S, D, fr, {}), NEW l, l = Len(fr), l > 0, fr[l][2] = {}, Dropped(n, fr, fr2),
         \A i \in 1..l - 1 : fr[i][1] \in T
  PROVE  /\ Framed(n, p, m, ix, T, fr2) /\ Explored(n, p, m, ix, fr2, {})
         /\ DOMAIN fr2 = 1..l - 1
         /\ \A c, d : Looked(p, m, fr2, c, d) => Looked(p, m, fr, c, d)
<1>1. l \in Nat /\ DOMAIN fr = 1..l  BY WalkFacts DEF Frames
<1>2. DOMAIN fr2 = 1..l - 1 /\ \A i \in 1..l - 1 : fr2[i] = fr[i] /\ i \in 1..l
  <2>1. DOMAIN fr2 = 1..l - 1  BY LenProperties DEF Dropped
  <2> QED BY <1>1, <2>1 DEF Dropped
<1>3. ASSUME NEW c, NEW d, Looked(p, m, fr2, c, d) PROVE Looked(p, m, fr, c, d)
  <2>1. ASSUME NEW i \in 1..l, fr[i][1] = c PROVE m[d] \notin fr[i][2]
    <3>1. CASE i = l  BY <3>1
    <3>2. CASE i # l
      <4>1. i \in 1..l - 1  BY <1>1, <3>2
      <4> QED BY <1>2, <1>3, <2>1, <4>1 DEF Looked
    <3> QED BY <3>1, <3>2
  <2> QED BY <1>1, <1>3, <2>1 DEF Looked
<1>4. Framed(n, p, m, ix, T, fr2)
  <2>1. \A i \in 1..l : fr[i][2] \subseteq p[fr[i][1]]  BY <1>1 DEF Walks, Framed
  <2>2. \A i, j \in 1..l : /\ i < j => ix[fr[i][1]] < ix[fr[j][1]]
                           /\ j = i + 1 => Arc(p, m, fr[i][1], fr[j][1])
    BY <1>1 DEF Walks, Framed
  <2>3. \A i \in 1..l - 1 : fr2[i][1] \in T /\ fr2[i][2] \subseteq p[fr2[i][1]]  BY <1>2, <2>1
  <2>4. \A i, j \in 1..l - 1 : /\ i < j => ix[fr2[i][1]] < ix[fr2[j][1]]
                               /\ j = i + 1 => Arc(p, m, fr2[i][1], fr2[j][1])
    BY <1>2, <2>2
  <2> QED BY <1>2, <2>3, <2>4 DEF Framed, Dropped
<1>5. Explored(n, p, m, ix, fr2, {})
  <2>1. ASSUME NEW c \in Seen(n, ix), NEW d \in 1..n, Looked(p, m, fr2, c, d) PROVE d \in Seen(n, ix)
    <3>1. Looked(p, m, fr, c, d)  BY <1>3, <2>1
    <3> QED BY <3>1 DEF Walks, Explored
  <2> QED BY <2>1 DEF Explored
<1> QED BY <1>2, <1>3, <1>4, <1>5

Handed(n, fr, l, lw, k, lw2) ==
  /\ lw2 \in [1..n -> -1..n]
  /\ \A i \in 1..l - 1 : lw2[fr[i][1]] = IF i = l - 1 /\ k < lw[fr[i][1]] THEN k ELSE lw[fr[i][1]]

\* It may reach lower: its part of the stack goes to the column below it.
LEMMA HandsDown ==
  ASSUME NEW n \in Nat, NEW p, NEW m, NEW ix, NEW lw, NEW S, NEW D, NEW fr, NEW fr2,
         Walks(n, p, m, ix, lw, S, D, fr, {}), Dropped(n, fr, fr2),
         NEW l, l = Len(fr), l > 0, fr[l][2] = {}, NEW v, v = fr[l][1], lw[v] # ix[v],
         NEW lw2, Handed(n, fr, l, lw, lw[v], lw2)
  PROVE  l > 1 /\ Walks(n, p, m, ix, lw2, S, D, fr2, {})
<1>1. /\ S \in SUBSET (1..n) /\ D \in SUBSET (1..n) /\ l \in Nat /\ l \in 1..l /\ DOMAIN fr = 1..l
      /\ \A i \in 1..l : fr[i][1] \in S /\ ix[fr[i][1]] \in 0..n /\ lw[fr[i][1]] \in Int
      /\ \A i, j \in 1..l : i <= j => ix[fr[i][1]] <= ix[fr[j][1]]
      /\ \A c \in S : ix[c] \in 0..n
  <2>1. Frames(n, ix, lw, S, D, fr, l)  BY WalkFacts
  <2> QED BY <2>1 DEF Frames
<1>2. ix[v] \in Int /\ lw[v] \in Int /\ v \in S  BY <1>1
<1>3. /\ lw[v] <= ix[v]
      /\ \E x \in S : ix[x] = lw[v] /\ Reaches(n, p, m, v, x)
      /\ \A x, y \in S : ix[v] <= ix[x] /\ Looked(p, m, fr, x, y) => lw[v] <= ix[y]
  <2>1. l + 1 \notin 1..l  BY <1>1
  <2> QED BY <1>1, <2>1 DEF Walks, Lows
<1>4. PICK w \in S : ix[w] = lw[v] /\ Reaches(n, p, m, v, w)  BY <1>3
<1>5. PICK j \in 1..l : ix[fr[j][1]] <= ix[w] /\ Reaches(n, p, m, w, fr[j][1])  BY <1>1 DEF Walks, Linked
<1>6. j \in 1..l - 1 /\ ix[fr[j][1]] < ix[v]
  <2>1. ix[fr[j][1]] < ix[v]
    <3>1. ix[fr[j][1]] \in Int  BY <1>1
    <3> QED BY <1>2, <1>3, <1>4, <1>5, <3>1
  <2>2. j # l  BY <1>2, <2>1
  <2> QED BY <1>1, <2>1, <2>2
<1>7. l > 1  BY <1>1, <1>6
<1>8. \A i \in 1..l - 1 : i \in 1..l /\ fr2[i] = fr[i] /\ fr[i][1] \in S  BY <1>1 DEF Dropped
<1>9. /\ Framed(n, p, m, ix, S, fr2) /\ Explored(n, p, m, ix, fr2, {}) /\ DOMAIN fr2 = 1..l - 1
      /\ \A c, d : Looked(p, m, fr2, c, d) => Looked(p, m, fr, c, d)
  <2>1. S \in SUBSET S /\ \A i \in 1..l - 1 : fr[i][1] \in S  BY <1>8
  <2>2. DOMAIN fr2 = 1..l - 1  BY LenProperties DEF Dropped
  <2>3. Framed(n, p, m, ix, S, fr2)  BY <2>1, DroppedFrames
  <2>4. Explored(n, p, m, ix, fr2, {})  BY <2>1, DroppedFrames
  <2>5. \A c, d : Looked(p, m, fr2, c, d) => Looked(p, m, fr, c, d)  BY <2>1, DroppedFrames
  <2> QED BY <2>2, <2>3, <2>4, <2>5
<1>10. Linked(n, p, m, ix, S, fr2)
  <2>1. ASSUME NEW y \in S PROVE \E i \in 1..l - 1 : ix[fr2[i][1]] <= ix[y] /\ Reaches(n, p, m, y, fr2[i][1])
    <3>1. PICK i \in 1..l : ix[fr[i][1]] <= ix[y] /\ Reaches(n, p, m, y, fr[i][1])  BY <1>1 DEF Walks, Linked
    <3>2. CASE i # l
      <4>1. i \in 1..l - 1  BY <1>1, <3>2
      <4> QED BY <1>8, <3>1, <4>1
    <3>3. CASE i = l
      <4>1. Reaches(n, p, m, y, w)  BY <1>4, <3>1, <3>3, ReachesTrans
      <4>2. Reaches(n, p, m, y, fr[j][1])  BY <1>5, <4>1, ReachesTrans
      <4>3. ix[fr[j][1]] \in Int /\ ix[y] \in Int  BY <1>1
      <4>4. ix[fr[j][1]] <= ix[y]  BY <1>2, <1>6, <3>1, <3>3, <4>3
      <4> QED BY <1>6, <1>8, <4>2, <4>4
    <3> QED BY <3>2, <3>3
  <2>2. \A x, y \in S : ix[x] <= ix[y] => Reaches(n, p, m, x, y)  BY DEF Walks, Linked
  <2> QED BY <1>9, <2>1, <2>2 DEF Linked
<1>11. Lows(n, p, m, ix, lw2, S, fr2)
  <2> SUFFICES ASSUME NEW i \in 1..l - 1
               PROVE  /\ lw2[fr2[i][1]] <= ix[fr2[i][1]]
                      /\ \E x \in S : ix[x] = lw2[fr2[i][1]] /\ Reaches(n, p, m, fr2[i][1], x)
                      /\ \A x, y \in S :
                           /\ ix[fr2[i][1]] <= ix[x] /\ (i + 1 \in 1..l - 1 => ix[x] < ix[fr2[i + 1][1]])
                           /\ Looked(p, m, fr2, x, y)
                           => lw2[fr2[i][1]] <= ix[y]
    BY <1>9 DEF Lows, Handed
  <2> DEFINE u == fr[i][1]
  <2>0. i \in 1..l /\ u \in S /\ fr2[i][1] = u /\ ix[u] \in Int /\ lw[u] \in Int
        /\ lw2[u] = IF i = l - 1 /\ lw[v] < lw[u] THEN lw[v] ELSE lw[u]
    BY <1>1, <1>8 DEF Handed
  <2>1. /\ lw[u] <= ix[u] /\ \E x \in S : ix[x] = lw[u] /\ Reaches(n, p, m, u, x)
        /\ \A x, y \in S :
             /\ ix[u] <= ix[x] /\ (i + 1 \in 1..l => ix[x] < ix[fr[i + 1][1]]) /\ Looked(p, m, fr, x, y)
             => lw[u] <= ix[y]
    BY <1>1, <2>0 DEF Walks, Lows
  <2> HIDE DEF u
  <2>2. lw2[u] \in Int /\ lw2[u] <= lw[u] /\ (i = l - 1 => lw2[u] <= lw[v])  BY <1>2, <2>0
  <2>3. lw2[u] <= ix[u]  BY <2>0, <2>1, <2>2
  <2>4. \E x \in S : ix[x] = lw2[u] /\ Reaches(n, p, m, u, x)
    <3>1. CASE lw2[u] = lw[u]  BY <2>1, <3>1
    <3>2. CASE lw2[u] # lw[u]
      <4>1. i = l - 1 /\ lw2[u] = lw[v]  BY <2>0, <3>2
      <4>2. l \in DOMAIN fr /\ i \in DOMAIN fr /\ l = i + 1  BY <1>1, <2>0, <4>1
      <4>3. Arc(p, m, u, v)  BY <4>2 DEF Walks, Framed, u
      <4>4. v \in 1..n  BY <1>1, <1>2
      <4>5. Reaches(n, p, m, u, v)  BY <4>3, <4>4, ArcReaches
      <4>6. Reaches(n, p, m, u, w)  BY <1>4, <4>5, ReachesTrans
      <4> QED BY <1>4, <4>1, <4>6
    <3> QED BY <3>1, <3>2
  <2>5. ASSUME NEW x \in S, NEW y \in S, ix[u] <= ix[x], i + 1 \in 1..l - 1 => ix[x] < ix[fr2[i + 1][1]],
               Looked(p, m, fr2, x, y)
        PROVE  lw2[u] <= ix[y]
    <3>0. ix[y] \in Int /\ ix[x] \in Int /\ Looked(p, m, fr, x, y)  BY <1>1, <1>9, <2>5
    <3>1. CASE i + 1 \in 1..l => ix[x] < ix[fr[i + 1][1]]
      <4>1. lw[u] <= ix[y]  BY <2>1, <2>5, <3>0, <3>1
      <4> QED BY <2>0, <2>2, <3>0, <4>1
    <3>2. CASE ~ (i + 1 \in 1..l => ix[x] < ix[fr[i + 1][1]])
      <4>1. i + 1 \notin 1..l - 1
        <5> SUFFICES ASSUME i + 1 \in 1..l - 1 PROVE FALSE  OBVIOUS
        <5>1. fr2[i + 1] = fr[i + 1]  BY <1>8
        <5> QED BY <2>5, <3>2, <5>1
      <4>2. i = l - 1 /\ i + 1 = l  BY <1>1, <4>1
      <4>3. ix[v] <= ix[x]  BY <1>2, <3>0, <3>2, <4>2
      <4>4. lw[v] <= ix[y]  BY <1>3, <3>0, <4>3
      <4> QED BY <1>2, <2>2, <3>0, <4>2, <4>4
    <3> QED BY <3>1, <3>2
  <2> QED BY <2>0, <2>3, <2>4, <2>5
<1> QED BY <1>7, <1>9, <1>10, <1>11 DEF Walks

Above(S, ix, v) == {x \in S : ix[v] <= ix[x]}

Joined(n, p, m, C) == \A x, y \in C : Reaches(n, p, m, x, y)

Completed(n, p, m, ix, lw, S, D, fr, fr2, l, v, C) ==
  /\ Walks(n, p, m, ix, lw, S \ C, D \cup C, fr2, {})
  /\ Joined(n, p, m, C)
  /\ \A i \in 1..l - 1 : lw[fr[i][1]] < lw[v]

\* It reaches no lower: all above it on the stack is a component.
LEMMA Completes ==
  ASSUME NEW n \in Nat, NEW p, NEW m, NEW ix, NEW lw, NEW S, NEW D, NEW fr, NEW fr2,
         Walks(n, p, m, ix, lw, S, D, fr, {}), Dropped(n, fr, fr2),
         NEW l, l = Len(fr), l > 0, fr[l][2] = {}, NEW v, v = fr[l][1], lw[v] = ix[v]
  PROVE  Completed(n, p, m, ix, lw, S, D, fr, fr2, l, v, Above(S, ix, v))
<1> DEFINE C == Above(S, ix, v)
<1>0. C = {x \in S : ix[v] <= ix[x]}  BY DEF Above
<1> HIDE DEF C
<1>1. /\ S \in SUBSET (1..n) /\ D \in SUBSET (1..n) /\ l \in Nat /\ l \in 1..l /\ DOMAIN fr = 1..l
      /\ \A i \in 1..l : fr[i][1] \in S /\ ix[fr[i][1]] \in 0..n /\ lw[fr[i][1]] \in Int
      /\ \A i, j \in 1..l : i <= j => ix[fr[i][1]] <= ix[fr[j][1]]
      /\ \A c \in S : ix[c] \in 0..n
  <2>1. Frames(n, ix, lw, S, D, fr, l)  BY WalkFacts
  <2> QED BY <2>1 DEF Frames
<1>2. ix[v] \in Int /\ v \in S /\ v \in C  BY <1>0, <1>1
<1>3. \A i \in 1..l - 1 : i \in 1..l /\ ix[fr[i][1]] < ix[v] /\ lw[fr[i][1]] <= ix[fr[i][1]] /\ fr[i][1] \in S \ C
  <2> SUFFICES ASSUME NEW i \in 1..l - 1
               PROVE  i \in 1..l /\ ix[fr[i][1]] < ix[v] /\ lw[fr[i][1]] <= ix[fr[i][1]] /\ fr[i][1] \in S \ C
    OBVIOUS
  <2>1. i \in 1..l /\ i < l  BY <1>1
  <2>2. ix[fr[i][1]] < ix[v]  BY <1>1, <2>1 DEF Walks, Framed
  <2>3. lw[fr[i][1]] <= ix[fr[i][1]]  BY <1>1, <2>1 DEF Walks, Lows
  <2>4. fr[i][1] \in S /\ ix[fr[i][1]] \in Int  BY <1>1, <2>1
  <2>5. fr[i][1] \notin C  BY <1>0, <1>2, <2>2, <2>4
  <2> QED BY <2>1, <2>2, <2>3, <2>4, <2>5
<1>4. \A x \in S \ C : ix[x] < ix[v]  BY <1>0, <1>1, <1>2
<1>5. /\ Framed(n, p, m, ix, S \ C, fr2) /\ Explored(n, p, m, ix, fr2, {}) /\ DOMAIN fr2 = 1..l - 1
      /\ \A c, d : Looked(p, m, fr2, c, d) => Looked(p, m, fr, c, d)
  <2>1. S \ C \in SUBSET S /\ \A i \in 1..l - 1 : fr[i][1] \in S \ C  BY <1>3
  <2>2. DOMAIN fr2 = 1..l - 1  BY LenProperties DEF Dropped
  <2>3. Framed(n, p, m, ix, S \ C, fr2)  BY <2>1, DroppedFrames
  <2>4. Explored(n, p, m, ix, fr2, {})  BY <2>1, DroppedFrames
  <2>5. \A c, d : Looked(p, m, fr2, c, d) => Looked(p, m, fr, c, d)  BY <2>1, DroppedFrames
  <2> QED BY <2>2, <2>3, <2>4, <2>5
<1>6. Numbered(n, ix, S \ C, D \cup C)
  <2>1. (S \ C) \cup (D \cup C) = S \cup D /\ (S \ C) \cap (D \cup C) = {}  BY <1>0 DEF Walks, Numbered
  <2> QED BY <2>1 DEF Walks, Numbered
<1>7. ASSUME NEW c \in C, NEW d \in 1..n, Arc(p, m, c, d) PROVE d \in D \cup C
  <2>1. ASSUME NEW i \in 1..l, fr[i][1] = c PROVE m[d] \notin fr[i][2]
    <3>1. CASE i = l  BY <3>1
    <3>2. CASE i # l
      <4>1. i \in 1..l - 1  BY <1>1, <3>2
      <4> QED BY <1>3, <2>1, <4>1
    <3> QED BY <3>1, <3>2
  <2>2. Looked(p, m, fr, c, d)  BY <1>1, <1>7, <2>1 DEF Looked
  <2>3. c \in Seen(n, ix) /\ S \cup D = Seen(n, ix)  BY <1>0 DEF Walks, Numbered
  <2>4. d \in S \cup D  BY <2>2, <2>3 DEF Walks, Explored
  <2>5. ASSUME d \in S PROVE ix[v] <= ix[d]
    <3>1. l + 1 \notin 1..l /\ ix[v] <= ix[c] /\ c \in S  BY <1>0, <1>1
    <3>2. lw[v] <= ix[d]  BY <1>1, <2>2, <2>5, <3>1 DEF Walks, Lows
    <3> QED BY <3>2
  <2> QED BY <1>0, <2>4, <2>5
<1>8. Sealed(n, p, m, D \cup C)
  <2>1. \A c \in D, d \in 1..n : Arc(p, m, c, d) => d \in D  BY DEF Walks, Sealed
  <2> QED BY <1>7, <2>1 DEF Sealed
<1>9. Linked(n, p, m, ix, S \ C, fr2)
  <2>1. ASSUME NEW y \in S \ C PROVE \E i \in 1..l - 1 : ix[fr2[i][1]] <= ix[y] /\ Reaches(n, p, m, y, fr2[i][1])
    <3>1. PICK i \in 1..l : ix[fr[i][1]] <= ix[y] /\ Reaches(n, p, m, y, fr[i][1])  BY <1>1 DEF Walks, Linked
    <3>2. i # l
      <4>1. ix[y] < ix[v] /\ ix[y] \in Int  BY <1>1, <1>4
      <4> QED BY <1>2, <3>1, <4>1
    <3>3. i \in 1..l - 1 /\ fr2[i] = fr[i]  BY <1>1, <3>2 DEF Dropped
    <3> QED BY <3>1, <3>3
  <2>2. \A x, y \in S : ix[x] <= ix[y] => Reaches(n, p, m, x, y)  BY DEF Walks, Linked
  <2> QED BY <1>5, <2>1, <2>2 DEF Linked
<1>10. Lows(n, p, m, ix, lw, S \ C, fr2)
  <2>0. lw \in [1..n -> -1..n]  BY DEF Walks, Lows
  <2> SUFFICES ASSUME NEW i \in 1..l - 1
               PROVE  /\ lw[fr2[i][1]] <= ix[fr2[i][1]]
                      /\ \E x \in S \ C : ix[x] = lw[fr2[i][1]] /\ Reaches(n, p, m, fr2[i][1], x)
                      /\ \A x, y \in S \ C :
                           /\ ix[fr2[i][1]] <= ix[x] /\ (i + 1 \in 1..l - 1 => ix[x] < ix[fr2[i + 1][1]])
                           /\ Looked(p, m, fr2, x, y)
                           => lw[fr2[i][1]] <= ix[y]
    BY <1>5, <2>0 DEF Lows
  <2> DEFINE u == fr[i][1]
  <2>1. i \in 1..l /\ fr2[i][1] = u /\ ix[u] \in Int /\ lw[u] \in Int /\ ix[u] < ix[v]  BY <1>1, <1>3 DEF Dropped
  <2>2. /\ lw[u] <= ix[u] /\ \E x \in S : ix[x] = lw[u] /\ Reaches(n, p, m, u, x)
        /\ \A x, y \in S :
             /\ ix[u] <= ix[x] /\ (i + 1 \in 1..l => ix[x] < ix[fr[i + 1][1]]) /\ Looked(p, m, fr, x, y)
             => lw[u] <= ix[y]
    BY <1>1, <2>1 DEF Walks, Lows
  <2>3. PICK x \in S : ix[x] = lw[u] /\ Reaches(n, p, m, u, x)  BY <2>2
  <2>4. x \notin C  BY <1>0, <1>2, <2>1, <2>2, <2>3
  <2>5. ASSUME NEW y \in S \ C, NEW z \in S \ C, ix[u] <= ix[y], i + 1 \in 1..l - 1 => ix[y] < ix[fr2[i + 1][1]],
               Looked(p, m, fr2, y, z)
        PROVE  lw[u] <= ix[z]
    <3>1. i + 1 \in 1..l => ix[y] < ix[fr[i + 1][1]]
      <4> SUFFICES ASSUME i + 1 \in 1..l PROVE ix[y] < ix[fr[i + 1][1]]  OBVIOUS
      <4>1. CASE i + 1 = l  BY <1>4, <4>1
      <4>2. CASE i + 1 # l
        <5>1. i + 1 \in 1..l - 1  BY <1>1, <4>2
        <5>2. fr2[i + 1] = fr[i + 1]  BY <5>1 DEF Dropped
        <5> QED BY <2>5, <5>1, <5>2
      <4> QED BY <4>1, <4>2
    <3> QED BY <1>5, <2>2, <2>5, <3>1
  <2> QED BY <2>1, <2>2, <2>3, <2>4, <2>5
<1>11. ASSUME NEW x \in C, NEW y \in C PROVE Reaches(n, p, m, x, y)
  <2>1. Reaches(n, p, m, x, v)  BY <1>0, ReachesTop
  <2>2. Reaches(n, p, m, v, y)  BY <1>0, <1>2 DEF Walks, Linked
  <2> QED BY <2>1, <2>2, ReachesTrans
<1>12. ASSUME NEW i \in 1..l - 1 PROVE lw[fr[i][1]] < lw[v]
  <2>1. lw[fr[i][1]] \in Int /\ ix[fr[i][1]] \in Int  BY <1>1, <1>3
  <2>2. lw[fr[i][1]] <= ix[fr[i][1]] /\ ix[fr[i][1]] < ix[v]  BY <1>3
  <2> QED BY <1>2, <2>1, <2>2
<1> QED BY <1>5, <1>6, <1>8, <1>9, <1>10, <1>11, <1>12 DEF Walks, Joined, C, Completed

-----------------------------------------------------------------------------
(***************************************************************************)
(* The stack and the form, as sequences.                                   *)
(***************************************************************************)
LEMMA RangeOf ==
  ASSUME NEW X, NEW s \in Seq(X)
  PROVE  \A x : x \in Range(s) <=> \E i \in 1..Len(s) : s[i] = x
<1>1. DOMAIN s = 1..Len(s)  BY LenProperties
<1> QED BY <1>1 DEF Range

LEMMA CutAt ==
  ASSUME NEW X, NEW s \in Seq(X), NEW k \in 1..Len(s)
  PROVE  /\ SubSeq(s, 1, k - 1) \in Seq(X) /\ Len(SubSeq(s, 1, k - 1)) = k - 1
         /\ \A i \in 1..k - 1 : SubSeq(s, 1, k - 1)[i] = s[i]
         /\ SubSeq(s, k, Len(s)) \in Seq(X) /\ Len(SubSeq(s, k, Len(s))) = Len(s) - k + 1
         /\ \A i \in 1..Len(s) - k + 1 : SubSeq(s, k, Len(s))[i] = s[k + i - 1]
<1>1. Len(s) \in Nat /\ k \in Int /\ k - 1 \in Int /\ Len(s) \in Int /\ 1 \in Int  BY LenProperties
<1>2. \A i \in 1..Len(s) : s[i] \in X  BY ElementOfSeq
<1>3. (\A i \in 1..k - 1 : s[i] \in X) /\ \A i \in k..Len(s) : s[i] \in X
  <2>1. \A i \in 1..k - 1 : i \in 1..Len(s)  BY <1>1
  <2>2. \A i \in k..Len(s) : i \in 1..Len(s)  BY <1>1
  <2> QED BY <1>2, <2>1, <2>2
<1>4. /\ SubSeq(s, 1, k - 1) \in Seq(X)
      /\ Len(SubSeq(s, 1, k - 1)) = IF 1 <= k - 1 THEN k - 1 - 1 + 1 ELSE 0
      /\ \A i \in 1..k - 1 - 1 + 1 : SubSeq(s, 1, k - 1)[i] = s[1 + i - 1]
  BY <1>1, <1>3, SubSeqProperties
<1>5. /\ SubSeq(s, k, Len(s)) \in Seq(X)
      /\ Len(SubSeq(s, k, Len(s))) = IF k <= Len(s) THEN Len(s) - k + 1 ELSE 0
      /\ \A i \in 1..Len(s) - k + 1 : SubSeq(s, k, Len(s))[i] = s[k + i - 1]
  BY <1>1, <1>3, SubSeqProperties
<1>6. \A i \in 1..k - 1 : i \in 1..k - 1 - 1 + 1 /\ 1 + i - 1 = i  BY <1>1
<1>7. Len(SubSeq(s, 1, k - 1)) = k - 1  BY <1>1, <1>4
<1>8. Len(SubSeq(s, k, Len(s))) = Len(s) - k + 1  BY <1>1, <1>5
<1>9. \A i \in 1..k - 1 : SubSeq(s, 1, k - 1)[i] = s[i]
  <2> SUFFICES ASSUME NEW i \in 1..k - 1 PROVE SubSeq(s, 1, k - 1)[i] = s[i]  OBVIOUS
  <2>1. SubSeq(s, 1, k - 1)[i] = s[1 + i - 1] /\ 1 + i - 1 = i  BY <1>4, <1>6
  <2> QED BY <2>1
<1> QED BY <1>4, <1>5, <1>7, <1>8, <1>9

Distinct(t) == \A i, j \in 1..Len(t) : t[i] = t[j] => i = j

Split(n, ix, st, C, a, b) ==
  /\ Discovered(n, ix, a) /\ Range(a) = Range(st) \ C
  /\ b \in Seq(1..n) /\ Len(b) \in Nat \ {0} /\ Range(b) = C /\ Distinct(b)

LEMMA StackSplits ==
  ASSUME NEW n \in Nat, NEW ix, ix \in [1..n -> -1..n], NEW st, Discovered(n, ix, st), NEW k \in 1..Len(st),
         NEW C, C = Above(Range(st), ix, st[k])
  PROVE  Split(n, ix, st, C, SubSeq(st, 1, k - 1), SubSeq(st, k, Len(st)))
<1> DEFINE a == SubSeq(st, 1, k - 1)
           b == SubSeq(st, k, Len(st))
           l == Len(st)
<1>1. st \in Seq(1..n) /\ l \in Nat /\ DOMAIN st = 1..l /\ \A i \in 1..l : st[i] \in 1..n
  BY LenProperties, ElementOfSeq DEF Discovered
<1>2. /\ a \in Seq(1..n) /\ Len(a) = k - 1 /\ \A i \in 1..k - 1 : a[i] = st[i]
      /\ b \in Seq(1..n) /\ Len(b) = l - k + 1 /\ \A i \in 1..l - k + 1 : b[i] = st[k + i - 1]
  BY <1>1, CutAt
<1>3. DOMAIN a = 1..k - 1  BY <1>2, LenProperties
<1>4. \A i, j \in 1..l : i < j => ix[st[i]] < ix[st[j]]  BY <1>1 DEF Discovered
<1>5. /\ \A x : x \in Range(st) <=> \E i \in 1..l : st[i] = x
      /\ \A x : x \in Range(a) <=> \E i \in 1..k - 1 : a[i] = x
      /\ \A x : x \in Range(b) <=> \E i \in 1..l - k + 1 : b[i] = x
  <2> HIDE DEF a, b
  <2>1. \A x : x \in Range(st) <=> \E i \in 1..l : st[i] = x  BY <1>1, RangeOf
  <2>2. \A x : x \in Range(a) <=> \E i \in 1..Len(a) : a[i] = x  BY <1>2, RangeOf
  <2>3. \A x : x \in Range(b) <=> \E i \in 1..Len(b) : b[i] = x  BY <1>2, RangeOf
  <2>4. Len(a) = k - 1 /\ Len(b) = l - k + 1  BY <1>2
  <2> HIDE DEF l
  <2> QED BY <2>1, <2>2, <2>3, <2>4
<1>6. \A i \in 1..l : ix[st[i]] \in Int
  <2>1. \A i \in 1..l : ix[st[i]] \in -1..n  BY <1>1
  <2> QED BY <2>1
<1>7. \A i \in 1..l : st[i] \in C <=> k <= i
  <2> SUFFICES ASSUME NEW i \in 1..l PROVE st[i] \in C <=> k <= i  OBVIOUS
  <2>1. st[i] \in Range(st)  BY <1>5
  <2>2. i < k => ix[st[i]] < ix[st[k]]  BY <1>4
  <2>3. k < i => ix[st[k]] < ix[st[i]]  BY <1>4
  <2>4. i = k => ix[st[k]] <= ix[st[i]]  BY <1>6
  <2>5. ix[st[i]] \in Int /\ ix[st[k]] \in Int /\ i \in Int /\ k \in Int  BY <1>1, <1>6
  <2>6. st[i] \in C <=> ix[st[k]] <= ix[st[i]]  BY <2>1 DEF Above
  <2> QED BY ONLY <2>2, <2>3, <2>4, <2>5, <2>6
<1>8. \A x : x \in C => \E i \in 1..l : st[i] = x  BY <1>5 DEF Above
<1> HIDE DEF a, b, l
<1>9. \A i \in 1..k - 1 : i \in 1..l /\ ~(k <= i)  BY <1>1
<1>10. \A i \in 1..l - k + 1 : k + i - 1 \in 1..l /\ k <= k + i - 1  BY <1>1
<1>11. \A i \in 1..l : (k <= i => i - k + 1 \in 1..l - k + 1 /\ k + (i - k + 1) - 1 = i) /\ (~(k <= i) => i \in 1..k - 1)
  BY <1>1
<1>12. Discovered(n, ix, a)
  <2>1. \A i, j \in 1..k - 1 : i < j => ix[a[i]] < ix[a[j]]
    <3> SUFFICES ASSUME NEW i \in 1..k - 1, NEW j \in 1..k - 1, i < j PROVE ix[a[i]] < ix[a[j]]  OBVIOUS
    <3>1. a[i] = st[i] /\ a[j] = st[j] /\ i \in 1..l /\ j \in 1..l  BY <1>2, <1>9
    <3> QED BY <1>4, <3>1
  <2> QED BY <1>2, <1>3, <2>1 DEF Discovered
<1>13. Range(a) = Range(st) \ C
  <2>1. ASSUME NEW x \in Range(a) PROVE x \in Range(st) \ C
    <3>1. PICK i \in 1..k - 1 : a[i] = x  BY <1>5
    <3>2. st[i] = x /\ i \in 1..l /\ ~(k <= i)  BY <1>2, <1>9, <3>1
    <3> QED BY <1>5, <1>7, <3>2
  <2>2. ASSUME NEW x \in Range(st) \ C PROVE x \in Range(a)
    <3>1. PICK i \in 1..l : st[i] = x  BY <1>5
    <3>2. i \in 1..k - 1  BY <1>7, <1>11, <3>1
    <3> QED BY <1>2, <1>5, <3>1, <3>2
  <2> QED BY <2>1, <2>2
<1>14. Range(b) = C
  <2>1. ASSUME NEW x \in Range(b) PROVE x \in C
    <3>1. PICK i \in 1..l - k + 1 : b[i] = x  BY <1>5
    <3>2. st[k + i - 1] = x /\ k + i - 1 \in 1..l /\ k <= k + i - 1  BY <1>2, <1>10, <3>1
    <3> QED BY <1>7, <3>2
  <2>2. ASSUME NEW x \in C PROVE x \in Range(b)
    <3>1. PICK i \in 1..l : st[i] = x  BY <1>8
    <3>2. k <= i  BY <1>7, <3>1
    <3>3. i - k + 1 \in 1..l - k + 1 /\ k + (i - k + 1) - 1 = i  BY <1>11, <3>2
    <3>4. b[i - k + 1] = st[k + (i - k + 1) - 1]  BY <1>2, <3>3
    <3>5. b[i - k + 1] = x  BY <3>1, <3>3, <3>4
    <3> QED BY <1>5, <3>3, <3>5
  <2> QED BY <2>1, <2>2
<1>15. ASSUME NEW i \in 1..Len(b), NEW j \in 1..Len(b), b[i] = b[j] PROVE i = j
  <2>1. i \in 1..l - k + 1 /\ j \in 1..l - k + 1  BY <1>2
  <2>2. st[k + i - 1] = st[k + j - 1] /\ k + i - 1 \in 1..l /\ k + j - 1 \in 1..l  BY <1>2, <1>10, <1>15, <2>1
  <2>3. ~(k + i - 1 < k + j - 1) /\ ~(k + j - 1 < k + i - 1)  BY <1>4, <1>6, <2>2
  <2> QED BY <1>1, <2>1, <2>3
<1>16. Len(b) \in Nat \ {0}
  <2>1. k \in 1..l  BY DEF l
  <2> QED BY <1>1, <1>2, <2>1
<1> QED BY <1>2, <1>12, <1>13, <1>14, <1>15, <1>16 DEF a, b, Distinct, Split

Under(n, ix, k) == \A c \in 1..n : ix[c] < k

Grown(n, ix2, st, w, t) == Discovered(n, ix2, t) /\ Range(t) = Range(st) \cup {w}

LEMMA StackGrows ==
  ASSUME NEW n \in Nat, NEW ix, ix \in [1..n -> -1..n], NEW st, Discovered(n, ix, st),
         NEW w \in 1..n, NEW k \in 0..n, Under(n, ix, k), w \notin Range(st),
         NEW ix2, ix2 = [ix EXCEPT ![w] = k]
  PROVE  Grown(n, ix2, st, w, Append(st, w))
<1> DEFINE l == Len(st)
           t == Append(st, w)
<1>1. st \in Seq(1..n) /\ l \in Nat /\ DOMAIN st = 1..l /\ \A i \in 1..l : st[i] \in 1..n
  BY LenProperties, ElementOfSeq DEF Discovered
<1>2. t \in Seq(1..n) /\ Len(t) = l + 1 /\ (\A i \in 1..l : t[i] = st[i]) /\ t[l + 1] = w
  BY <1>1, AppendProperties
<1>3. DOMAIN t = 1..l + 1  BY <1>2, LenProperties
<1>4. \A c \in 1..n : ix2[c] = IF c = w THEN k ELSE ix[c]  OBVIOUS
<1> HIDE DEF l, t
<1>5. /\ \A x : x \in Range(st) <=> \E i \in 1..l : st[i] = x
      /\ \A x : x \in Range(t) <=> \E i \in 1..l + 1 : t[i] = x
  <2>1. \A x : x \in Range(st) <=> \E i \in 1..Len(st) : st[i] = x  BY ONLY <1>1, RangeOf
  <2>2. \A x : x \in Range(t) <=> \E i \in 1..Len(t) : t[i] = x  BY ONLY <1>2, RangeOf
  <2>3. Len(st) = l /\ Len(t) = l + 1  BY ONLY <1>2 DEF l
  <2> QED BY ONLY <2>1, <2>2, <2>3
<1>6. \A i \in 1..l + 1 : i \in 1..l \/ i = l + 1  BY <1>1
<1>7. \A i \in 1..l : i \in 1..l + 1 /\ t[i] = st[i] /\ ix2[t[i]] = ix[st[i]] /\ st[i] \in 1..n
  <2> SUFFICES ASSUME NEW i \in 1..l PROVE i \in 1..l + 1 /\ t[i] = st[i] /\ ix2[t[i]] = ix[st[i]] /\ st[i] \in 1..n
    OBVIOUS
  <2>1. st[i] \in Range(st) /\ st[i] # w  BY <1>5
  <2> QED BY <1>1, <1>2, <1>4, <2>1
<1>8. l + 1 \in 1..l + 1 /\ ix2[t[l + 1]] = k  BY <1>1, <1>2, <1>4
<1>9. \A i, j \in 1..l + 1 : i < j => ix2[t[i]] < ix2[t[j]]
  <2> SUFFICES ASSUME NEW i \in 1..l + 1, NEW j \in 1..l + 1, i < j PROVE ix2[t[i]] < ix2[t[j]]  OBVIOUS
  <2>1. i \in 1..l  BY <1>1
  <2>2. CASE j = l + 1
    <3>1. ix[st[i]] < k  BY <1>7, <2>1 DEF Under
    <3> QED BY <1>7, <1>8, <2>1, <2>2, <3>1
  <2>3. CASE j \in 1..l
    <3>1. ix[st[i]] < ix[st[j]]  BY <1>1, <2>1, <2>3 DEF Discovered
    <3> QED BY <1>7, <2>1, <2>3, <3>1
  <2> QED BY <1>6, <2>2, <2>3
<1>10. Discovered(n, ix2, t)  BY <1>2, <1>3, <1>9 DEF Discovered
<1>11. \A x : x \in Range(t) <=> x \in Range(st) \cup {w}
  <2>1. ASSUME NEW x \in Range(t) PROVE x \in Range(st) \cup {w}
    <3>1. PICK i \in 1..l + 1 : t[i] = x  BY <1>5
    <3>2. CASE i \in 1..l  BY <1>5, <1>7, <3>1, <3>2
    <3>3. CASE i = l + 1  BY <1>2, <3>1, <3>3
    <3> QED BY <1>6, <3>2, <3>3
  <2>2. ASSUME NEW x \in Range(st) PROVE x \in Range(t)
    <3>1. PICK i \in 1..l : st[i] = x  BY <1>5
    <3> QED BY <1>5, <1>7, <3>1
  <2>3. w \in Range(t)  BY <1>2, <1>5, <1>8
  <2> QED BY <2>1, <2>2, <2>3
<1> QED BY <1>10, <1>11 DEF t, Grown

LEMMA Emits ==
  ASSUME NEW n \in Nat, NEW p, NEW m, NEW cp, NEW bp, Emitted(n, p, m, cp, bp),
         NEW t \in Seq(1..n), Len(t) \in Nat \ {0}, Distinct(t),
         Range(cp) \cap Range(t) = {}, Sealed(n, p, m, Range(cp) \cup Range(t)),
         Joined(n, p, m, Range(t))
  PROVE  /\ Emitted(n, p, m, cp \o t, Append(bp, Len(cp \o t) + 1))
         /\ Range(cp \o t) = Range(cp) \cup Range(t)
<1> DEFINE c2 == cp \o t
           b2 == Append(bp, Len(c2) + 1)
           k == Len(cp)
           l == Len(t)
           e == Len(bp)
<1>1. /\ cp \in Seq(1..n) /\ DOMAIN cp = 1..k /\ k \in Nat
      /\ bp \in Seq(Nat) /\ DOMAIN bp = 1..e /\ e \in Nat
  BY LenProperties DEF Emitted
<1>2. l \in Nat /\ l > 0 /\ DOMAIN t = 1..l  BY LenProperties
<1>3. c2 \in Seq(1..n) /\ Len(c2) = k + l
      /\ \A i \in 1..k + l : c2[i] = IF i <= k THEN cp[i] ELSE t[i - k]
  BY <1>1, ConcatProperties
<1>4. DOMAIN c2 = 1..k + l  BY <1>3, LenProperties
<1>5. b2 \in Seq(Nat) /\ b2 # <<>> /\ Len(b2) = e + 1 /\ (\A i \in 1..e : b2[i] = bp[i]) /\ b2[e + 1] = k + l + 1
  <2>1. k + l + 1 \in Nat /\ Len(c2) + 1 = k + l + 1  BY <1>1, <1>2, <1>3
  <2> DEFINE x == Len(c2) + 1
  <2>2. b2 = Append(bp, x) /\ x \in Nat /\ x = k + l + 1  BY <2>1
  <2> HIDE DEF c2, k, l, x, b2
  <2>3. b2 \in Seq(Nat) /\ b2 # <<>> /\ Len(b2) = Len(bp) + 1 /\ (\A i \in 1..Len(bp) : b2[i] = bp[i])
        /\ b2[Len(bp) + 1] = x
    <3>1. bp \in Seq(Nat)  BY <1>1
    <3>3. x \in Nat  BY <2>2
    <3>2. /\ Append(bp, x) \in Seq(Nat) /\ Append(bp, x) # <<>> /\ Len(Append(bp, x)) = Len(bp) + 1
          /\ (\A i \in 1..Len(bp) : Append(bp, x)[i] = bp[i]) /\ Append(bp, x)[Len(bp) + 1] = x
      BY ONLY <3>1, <3>3, AppendProperties
    <3> QED BY <2>2, <3>2
  <2> QED BY <2>2, <2>3
<1>6. DOMAIN b2 = 1..e + 1  BY <1>5, LenProperties
<1>7. /\ \A x : x \in Range(cp) <=> \E i \in 1..k : cp[i] = x
      /\ \A x : x \in Range(t) <=> \E i \in 1..l : t[i] = x
      /\ \A x : x \in Range(c2) <=> \E i \in 1..k + l : c2[i] = x
  <2>1. \A x : x \in Range(cp) <=> \E i \in 1..Len(cp) : cp[i] = x  BY <1>1, RangeOf
  <2>2. \A x : x \in Range(t) <=> \E i \in 1..Len(t) : t[i] = x  BY RangeOf
  <2>3. \A x : x \in Range(c2) <=> \E i \in 1..Len(c2) : c2[i] = x
    <3> HIDE DEF c2
    <3>1. c2 \in Seq(1..n)  BY <1>3
    <3> QED BY ONLY <3>1, RangeOf
  <2>4. Len(c2) = k + l  BY <1>3
  <2> HIDE DEF c2
  <2> QED BY <2>1, <2>2, <2>3, <2>4
<1>8. e > 0 /\ bp[1] = 1 /\ bp[e] = k + 1 /\ (\A i \in 1..e : bp[i] \in Nat) /\ \A i, j \in 1..e : i < j => bp[i] < bp[j]
  <2>1. bp # <<>> /\ bp[1] = 1 /\ bp[e] = k + 1 /\ \A i, j \in 1..e : i < j => bp[i] < bp[j]  BY <1>1 DEF Emitted
  <2>2. e # 0  BY <1>1, <2>1, EmptySeq
  <2>3. \A i \in 1..e : bp[i] \in Nat  BY <1>1, ElementOfSeq
  <2> QED BY <1>1, <2>1, <2>2, <2>3
<1> HIDE DEF c2, b2, k, l, e
<1>9. /\ \A i \in 1..k : i \in 1..k + l /\ c2[i] = cp[i]
      /\ \A i \in 1..l : k + i \in 1..k + l /\ c2[k + i] = t[i]
      /\ \A i \in 1..k + l : i \in 1..k \/ (i - k \in 1..l /\ k + (i - k) = i /\ c2[i] = t[i - k])
  <2>1. ASSUME NEW i \in 1..k PROVE i \in 1..k + l /\ c2[i] = cp[i]
    <3>1. i \in 1..k + l /\ i <= k  BY <1>1, <1>2
    <3> QED BY <1>3, <3>1
  <2>2. ASSUME NEW i \in 1..l PROVE k + i \in 1..k + l /\ c2[k + i] = t[i]
    <3>1. k + i \in 1..k + l /\ ~(k + i <= k) /\ (k + i) - k = i  BY <1>1, <1>2
    <3>2. c2[k + i] = t[(k + i) - k]  BY <1>3, <3>1
    <3> QED BY <3>1, <3>2
  <2>3. ASSUME NEW i \in 1..k + l, i \notin 1..k PROVE i - k \in 1..l /\ k + (i - k) = i /\ c2[i] = t[i - k]
    <3>1. i - k \in 1..l /\ k + (i - k) = i /\ ~(i <= k)  BY <1>1, <1>2, <2>3
    <3> QED BY <1>3, <3>1
  <2> QED BY <2>1, <2>2, <2>3
<1>10. \A x : x \in Range(c2) <=> x \in Range(cp) \cup Range(t)
  <2>1. ASSUME NEW x \in Range(c2) PROVE x \in Range(cp) \cup Range(t)
    <3>1. PICK i \in 1..k + l : c2[i] = x  BY <1>7
    <3>2. CASE i \in 1..k  BY <1>7, <1>9, <3>1, <3>2
    <3>3. CASE i - k \in 1..l /\ c2[i] = t[i - k]  BY <1>7, <3>1, <3>3
    <3> QED BY <1>9, <3>2, <3>3
  <2>2. ASSUME NEW x \in Range(cp) PROVE x \in Range(c2)  BY <1>7, <1>9
  <2>3. ASSUME NEW x \in Range(t) PROVE x \in Range(c2)  BY <1>7, <1>9
  <2> QED BY <2>1, <2>2, <2>3
<1>11. ASSUME NEW i \in 1..k + l, NEW j \in 1..k + l, c2[i] = c2[j] PROVE i = j
  <2>1. CASE i \in 1..k /\ j \in 1..k
    <3>1. cp[i] = cp[j]  BY <1>9, <1>11, <2>1
    <3> QED BY <1>1, <2>1, <3>1 DEF Emitted
  <2>2. CASE i \in 1..k /\ j - k \in 1..l /\ c2[j] = t[j - k]
    <3>1. cp[i] \in Range(cp) /\ t[j - k] \in Range(t)  BY <1>7, <2>2
    <3>2. cp[i] = t[j - k]  BY <1>9, <1>11, <2>2
    <3> QED BY <3>1, <3>2
  <2>3. CASE j \in 1..k /\ i - k \in 1..l /\ c2[i] = t[i - k]
    <3>1. cp[j] \in Range(cp) /\ t[i - k] \in Range(t)  BY <1>7, <2>3
    <3>2. cp[j] = t[i - k]  BY <1>9, <1>11, <2>3
    <3> QED BY <3>1, <3>2
  <2>4. CASE i - k \in 1..l /\ c2[i] = t[i - k] /\ j - k \in 1..l /\ c2[j] = t[j - k]
    <3>1. i - k = j - k  BY <1>11, <2>4 DEF l, Distinct
    <3> QED BY <1>1, <1>2, <3>1
  <2> QED BY <1>9, <2>1, <2>2, <2>3, <2>4
<1>12. \A i \in 1..e + 1 : i \in 1..e \/ i = e + 1  BY <1>1
<1>13. \A b \in 1..e : bp[b] <= k + 1
  <2> SUFFICES ASSUME NEW b \in 1..e PROVE bp[b] <= k + 1  OBVIOUS
  <2>1. e \in 1..e  BY <1>1, <1>8
  <2>2. CASE b = e  BY <1>1, <1>8, <2>2
  <2>3. CASE b # e
    <3>1. b < e  BY <1>1, <2>3
    <3> QED BY <1>1, <1>8, <2>1, <3>1
  <2> QED BY <2>2, <2>3
<1>14. ASSUME NEW b \in 1..e + 1, NEW f \in 1..e + 1, b < f PROVE b2[b] < b2[f]
  <2>1. b \in 1..e /\ b2[b] = bp[b]  BY <1>1, <1>5, <1>14
  <2>2. CASE f \in 1..e  BY <1>5, <1>8, <1>14, <2>1, <2>2
  <2>3. CASE f = e + 1  BY <1>1, <1>2, <1>5, <1>8, <1>13, <2>1, <2>3
  <2> QED BY <1>12, <2>2, <2>3
<1>15. ASSUME NEW b \in 1..e + 1 PROVE Sealed(n, p, m, {c2[i] : i \in 1..b2[b] - 1})
  <2>1. CASE b \in 1..e
    <3>1. Sealed(n, p, m, {cp[i] : i \in 1..bp[b] - 1})  BY <1>1, <2>1 DEF Emitted
    <3>2. \A i \in 1..bp[b] - 1 : c2[i] = cp[i]
      <4>1. \A i \in 1..bp[b] - 1 : i \in 1..k  BY <1>1, <1>8, <1>13, <2>1
      <4> QED BY <1>9, <4>1
    <3>3. {c2[i] : i \in 1..b2[b] - 1} = {cp[i] : i \in 1..bp[b] - 1}
      <4>1. b2[b] = bp[b]  BY <1>5, <2>1
      <4> QED BY <3>2, <4>1
    <3> QED BY <3>1, <3>3
  <2>2. CASE b = e + 1
    <3>1. b2[b] - 1 = k + l  BY <1>1, <1>2, <1>5, <2>2
    <3>2. {c2[i] : i \in 1..b2[b] - 1} = Range(cp) \cup Range(t)  BY <1>7, <1>10, <3>1
    <3> QED BY <3>2
  <2> QED BY <1>12, <2>1, <2>2
<1>16. ASSUME NEW b \in 1..e + 1, NEW f \in 1..e + 1, f = b + 1, NEW i \in b2[b]..b2[f] - 1, NEW j \in b2[b]..b2[f] - 1
       PROVE  Reaches(n, p, m, c2[i], c2[j])
  <2>1. b \in 1..e /\ b2[b] = bp[b]  BY <1>1, <1>5, <1>16
  <2>2. CASE f \in 1..e
    <3>1. b2[f] = bp[f]  BY <1>5, <2>2
    <3>2. Reaches(n, p, m, cp[i], cp[j])  BY <1>1, <1>16, <2>1, <2>2, <3>1 DEF Emitted
    <3>3. i \in 1..k /\ j \in 1..k
      <4>1. bp[b] >= 1
        <5>1. CASE b = 1  BY <1>8, <5>1
        <5>2. CASE b # 1
          <6>1. 1 < b /\ 1 \in 1..e  BY <1>1, <2>1, <5>2
          <6>2. bp[1] < bp[b]  BY <1>8, <2>1, <6>1
          <6> QED BY <1>8, <2>1, <6>2
        <5> QED BY <5>1, <5>2
      <4>2. bp[f] <= k + 1 /\ bp[f] \in Nat /\ bp[b] \in Nat  BY <1>8, <1>13, <2>1, <2>2
      <4>3. i \in bp[b]..bp[f] - 1 /\ j \in bp[b]..bp[f] - 1  BY <2>1, <3>1
      <4>4. k \in Nat  BY <1>1
      <4> QED BY ONLY <4>1, <4>2, <4>3, <4>4
    <3> QED BY <1>9, <3>2, <3>3
  <2>3. CASE f = e + 1
    <3>1. b = e /\ b2[b] = k + 1 /\ b2[f] - 1 = k + l  BY <1>1, <1>2, <1>5, <1>8, <1>16, <2>1, <2>3
    <3>2. i \in 1..k + l /\ j \in 1..k + l /\ i \notin 1..k /\ j \notin 1..k  BY <1>1, <1>2, <3>1
    <3>3. c2[i] \in Range(t) /\ c2[j] \in Range(t)  BY <1>7, <1>9, <3>2
    <3> QED BY <3>3 DEF Joined
  <2> QED BY <1>12, <2>2, <2>3
<1>17. b2[1] = 1 /\ b2[Len(b2)] = Len(c2) + 1
  <2>1. 1 \in 1..e  BY <1>1, <1>8
  <2> QED BY <1>1, <1>2, <1>3, <1>5, <1>8, <2>1
<1>18. Emitted(n, p, m, c2, b2)
  BY <1>3, <1>4, <1>5, <1>6, <1>11, <1>14, <1>15, <1>16, <1>17 DEF Emitted
<1> QED BY <1>10, <1>18 DEF c2, b2

-----------------------------------------------------------------------------
(***************************************************************************)
(* The pass over the matched graph, step by step.                          *)
(***************************************************************************)
LEMMA ColOfEveryRow ==
  ASSUME MatchInv, stage = "walk", NEW r \in Slot
  PROVE  ColOfRow(r) \in Slot /\ rowMatch[ColOfRow(r)] = r
<1> DEFINE n == Len(pattern)
<1>1. Matched /\ Slot = 1..n /\ n \in Nat /\ Matching(n, pattern, rowMatch) /\ Free(n, rowMatch) = {}
  BY MatchInvMatched DEF MatchInv
<1>2. rowMatch \in [Slot -> Slot]
  <2>1. \A c \in 1..n : rowMatch[c] # 0 /\ rowMatch[c] \in 0..n  BY <1>1 DEF Free, Matching
  <2>2. \A c \in 1..n : rowMatch[c] \in 1..n  BY <1>1, <2>1
  <2> QED BY <1>1, <2>2 DEF Matching
<1>3. \A x, y \in Slot : rowMatch[x] = rowMatch[y] => x = y
  <2>1. \A x \in Slot : rowMatch[x] # 0  BY <1>1, <1>2
  <2> QED BY <1>1, <2>1 DEF Matching
<1>4. IsFiniteSet(Slot)  BY <1>1, FS_Interval
<1>5. \E c \in Slot : rowMatch[c] = r  BY <1>2, <1>3, <1>4, Injects
<1> QED BY <1>1, <1>5, Operators

LEMMA WalkStarts ==
  ASSUME BtfInv, StartWalk
  PROVE  WalkInv'
<1> DEFINE n == Len(pattern)
<1>1. Slot = 1..n /\ n \in Nat  BY MatchInvMatched DEF BtfInv
<1>2. /\ index' = [c \in 1..n |-> -1] /\ low' = [c \in 1..n |-> -1] /\ stack' = <<>> /\ frames' = <<>>
      /\ colPerm' = <<>> /\ blockPtr' = <<1>> /\ pattern' = pattern /\ rowMatch' = rowMatch
  BY <1>1 DEF BtfInv, StartWalk, matchVars, walkVars, UNSET
<1>3. Range(<<>>) = {}  BY DEF Range
<1> DEFINE ix == [c \in 1..n |-> -1]
<1>4. Seen(n, ix) = {}  BY DEF Seen
<1>5. Numbered(n, ix, {}, {})
  <2>1. ix \in [1..n -> -1..n]  BY <1>1
  <2>2. Cardinality(Seen(n, ix)) = 0
    <3> HIDE DEF ix
    <3> QED BY <1>4, FS_EmptySet
  <2>3. \A c \in 1..n : ix[c] = -1  OBVIOUS
  <2> HIDE DEF ix
  <2> QED BY <1>4, <2>1, <2>2, <2>3 DEF Numbered
<1>6. Framed(n, pattern, rowMatch, ix, {}, <<>>) /\ Linked(n, pattern, rowMatch, ix, {}, <<>>)
  BY DEF Framed, Linked
<1>7. Explored(n, pattern, rowMatch, ix, <<>>, {}) /\ Sealed(n, pattern, rowMatch, {})  BY <1>4 DEF Explored, Sealed
<1>8. Lows(n, pattern, rowMatch, ix, ix, {}, <<>>)  BY <1>1 DEF Lows
<1>9. Walks(n, pattern, rowMatch, ix, ix, {}, {}, <<>>, {})  BY <1>5, <1>6, <1>7, <1>8 DEF Walks
<1>10. Discovered(n, ix, <<>>)  BY DEF Discovered
<1>11. Emitted(n, pattern, rowMatch, <<>>, <<1>>)
  <2>1. <<1>> \in Seq(Nat) /\ <<1>> # <<>> /\ <<1>>[1] = 1 /\ Len(<<1>>) = 1 /\ DOMAIN <<1>> = 1..1 /\ Len(<<>>) = 0
    OBVIOUS
  <2>2. <<>> \in Seq(1..n) /\ DOMAIN <<>> = {}  OBVIOUS
  <2>3. \A b \in 1..1 : {<<>>[i] : i \in 1..<<1>>[b] - 1} = {}  OBVIOUS
  <2>4. \A b \in 1..1 : Sealed(n, pattern, rowMatch, {<<>>[i] : i \in 1..<<1>>[b] - 1})  BY <1>7, <2>3
  <2>5. \A b, e \in 1..1 : ~(b < e) /\ e # b + 1  OBVIOUS
  <2>6. Len(<<>>) + 1 = 1 /\ <<1>>[Len(<<1>>)] = 1  OBVIOUS
  <2> QED BY <2>1, <2>2, <2>4, <2>5, <2>6 DEF Emitted
<1> QED BY <1>2, <1>3, <1>9, <1>10, <1>11 DEF WalkInv

LEMMA Discovers ==
  ASSUME MatchInv, stage = "walk", NEW w \in Slot, index[w] = UNSET, NEW fr,
         Walks(Len(pattern), pattern, rowMatch, index, low, Range(stack), Range(colPerm), fr, {w}),
         Discovered(Len(pattern), index, stack), Emitted(Len(pattern), pattern, rowMatch, colPerm, blockPtr),
         Len(fr) > 0 => Arc(pattern, rowMatch, fr[Len(fr)][1], w),
         Discover(w), frames' = Append(fr, <<w, pattern[w]>>),
         UNCHANGED <<pattern, rowMatch, colPerm, blockPtr>>
  PROVE  WalkInv'
<1> DEFINE n == Len(pattern)
           k == Cardinality(Seen(n, index))
<1>1. Slot = 1..n /\ n \in Nat /\ Square(n, pattern)  BY MatchInvMatched
<1>2. index \in [1..n -> -1..n] /\ \A c \in 1..n : index[c] < k  BY DEF Walks, Numbered
<1>3. {d \in Slot : index[d] # UNSET} = Seen(n, index)  BY <1>1 DEF Seen, UNSET
<1>4. k \in 0..n
  <2>1. Frames(n, index, low, Range(stack), Range(colPerm), fr, Len(fr))  BY <1>1, WalkFacts
  <2> QED BY <2>1 DEF Frames
<1>5. index' = [index EXCEPT ![w] = k] /\ stack' = Append(stack, w)  BY <1>3 DEF Discover
<1>6. low' = [low EXCEPT ![w] = k]
  <2>1. low' = [low EXCEPT ![w] = index'[w]]  BY DEF Discover
  <2>2. index'[w] = k
    <3> HIDE DEF k
    <3> QED BY <1>1, <1>2, <1>5
  <2> QED BY <2>1, <2>2
<1>7. w \in 1..n /\ index[w] = -1 /\ w \notin Range(stack)
  <2>1. w \in 1..n /\ index[w] = -1  BY <1>1 DEF UNSET
  <2> QED BY <2>1 DEF Walks, Numbered, Seen
<1>8. Walks(n, pattern, rowMatch, index', low', Range(stack) \cup {w}, Range(colPerm), frames', {})
  BY <1>1, <1>5, <1>6, <1>7, Entered
<1>9. Discovered(n, index', stack') /\ Range(stack') = Range(stack) \cup {w}
  <2> HIDE DEF k
  <2>1. Under(n, index, k)  BY <1>2 DEF Under
  <2>2. Grown(n, index', stack, w, Append(stack, w))
    BY <1>1, <1>2, <1>4, <1>5, <1>7, <2>1, StackGrows
  <2> QED BY <1>5, <2>2 DEF Grown
<1> QED BY <1>8, <1>9 DEF WalkInv

LEMMA RootWalks ==
  ASSUME MatchInv, WalkInv, Root
  PROVE  WalkInv'
<1> DEFINE n == Len(pattern)
           fresh == {c \in Slot : index[c] = UNSET}
           w == Min(fresh)
<1>1. Slot = 1..n /\ n \in Nat /\ Square(n, pattern)  BY MatchInvMatched
<1>2. stage = "walk" /\ frames = <<>> /\ fresh # {} /\ Discover(w) /\ frames' = <<<<w, pattern[w]>>>>
      /\ UNCHANGED <<pattern, rowMatch, colPerm, blockPtr>>
  BY DEF Root, matchVars
<1>3. w \in fresh
  <2>1. fresh \in SUBSET Nat  BY <1>1
  <2> HIDE DEF fresh
  <2> QED BY <1>2, <2>1, LeastNumber
<1>4. w \in Slot /\ index[w] = UNSET  BY <1>3
<1> HIDE DEF w
<1>5. Walks(n, pattern, rowMatch, index, low, Range(stack), Range(colPerm), frames, {w})
  <2>1. Walks(n, pattern, rowMatch, index, low, Range(stack), Range(colPerm), frames, {})  BY DEF WalkInv
  <2>2. Explored(n, pattern, rowMatch, index, frames, {w})  BY <2>1 DEF Walks, Explored
  <2> QED BY <2>1, <2>2 DEF Walks
<1>6. frames' = Append(frames, <<w, pattern[w]>>)
  <2>1. Append(<<>>, <<w, pattern[w]>>) = <<<<w, pattern[w]>>>>  OBVIOUS
  <2> QED BY <1>2, <2>1
<1>7. ~(Len(frames) > 0)  BY <1>2
<1> QED BY <1>2, <1>4, <1>5, <1>6, <1>7, Discovers DEF WalkInv

LEMMA FrontOf ==
  ASSUME NEW n \in Nat, NEW fr \in Seq((1..n) \X SUBSET (1..n)), fr # <<>>
  PROVE  Dropped(n, fr, Front(fr)) /\ Len(fr) > 0 /\ Len(fr) \in 1..Len(fr)
<1>1. Len(fr) \in Nat /\ Len(fr) # 0  BY LenProperties, EmptySeq
<1>2. Len(fr) \in 1..Len(fr)  BY <1>1
<1>3. /\ SubSeq(fr, 1, Len(fr) - 1) \in Seq((1..n) \X SUBSET (1..n)) /\ Len(SubSeq(fr, 1, Len(fr) - 1)) = Len(fr) - 1
      /\ \A i \in 1..Len(fr) - 1 : SubSeq(fr, 1, Len(fr) - 1)[i] = fr[i]
  BY <1>2, CutAt
<1> QED BY <1>1, <1>2, <1>3 DEF Dropped, Front

LEMMA LookWalks ==
  ASSUME MatchInv, WalkInv, Look
  PROVE  WalkInv'
<1> DEFINE n == Len(pattern)
           l == Len(frames)
           v == Last(frames)[1]
           rows == Last(frames)[2]
           r == Min(rows)
           w == ColOfRow(r)
           here == Append(Front(frames), <<v, rows \ {r}>>)
           S == Range(stack)
           D == Range(colPerm)
<1>1. Slot = 1..n /\ n \in Nat /\ Square(n, pattern) /\ Matching(n, pattern, rowMatch)
  BY MatchInvMatched DEF MatchInv
<1>2. stage = "walk" /\ frames # <<>> /\ rows # {} /\ UNCHANGED <<pattern, rowMatch, colPerm, blockPtr>>
  BY DEF Look, matchVars
<1>3. Walks(n, pattern, rowMatch, index, low, S, D, frames, {}) /\ Discovered(n, index, stack)
      /\ Emitted(n, pattern, rowMatch, colPerm, blockPtr)
  BY DEF WalkInv
<1>4. frames \in Seq((1..n) \X SUBSET (1..n))  BY <1>3 DEF Walks, Framed
<1>5. Dropped(n, frames, Front(frames)) /\ l > 0 /\ l \in 1..l  BY <1>1, <1>2, <1>4, FrontOf
<1>6. v = frames[l][1] /\ rows = frames[l][2]  BY DEF Last
<1>7. Frames(n, index, low, S, D, frames, l)  BY <1>1, <1>3, WalkFacts
<1>8. v \in S /\ v \in 1..n /\ rows \subseteq pattern[v] /\ rows \subseteq 1..n
  <2>1. v \in S /\ v \in 1..n  BY <1>5, <1>6, <1>7 DEF Frames
  <2>2. rows \subseteq pattern[v]
    <3>1. l \in DOMAIN frames  BY <1>5, <1>7 DEF Frames
    <3> QED BY <1>3, <1>6, <3>1 DEF Walks, Framed
  <2> QED BY <1>1, <2>1, <2>2 DEF Square
<1>9. r \in rows
  <2>1. rows \in SUBSET Nat  BY <1>8
  <2> HIDE DEF rows
  <2> QED BY <1>2, <2>1, LeastNumber
<1>10. w \in 1..n /\ rowMatch[w] = r /\ r # 0 /\ Arc(pattern, rowMatch, v, w)
  <2>1. r \in Slot  BY <1>1, <1>8, <1>9
  <2>2. w \in Slot /\ rowMatch[w] = r  BY <1>2, <2>1, ColOfEveryRow
  <2> QED BY <1>1, <1>8, <1>9, <2>1, <2>2 DEF Arc
<1>11. Trimmed(n, frames, rowMatch[w], here) /\ Len(here) = l /\ here[l][1] = v
  <2>1. /\ Front(frames) \in Seq((1..n) \X SUBSET (1..n)) /\ Len(Front(frames)) = l - 1
        /\ \A i \in 1..l - 1 : Front(frames)[i] = frames[i]
    BY <1>5 DEF Dropped
  <2>2. <<v, rows \ {r}>> \in (1..n) \X SUBSET (1..n)  BY <1>8
  <2> DEFINE e == <<v, rows \ {r}>>
  <2>3. here \in Seq((1..n) \X SUBSET (1..n)) /\ Len(here) = l - 1 + 1
        /\ (\A i \in 1..l - 1 : here[i] = Front(frames)[i]) /\ here[l - 1 + 1] = e
    <3>1. /\ Append(Front(frames), e) \in Seq((1..n) \X SUBSET (1..n))
          /\ Len(Append(Front(frames), e)) = Len(Front(frames)) + 1
          /\ \A i \in 1..Len(Front(frames)) : Append(Front(frames), e)[i] = Front(frames)[i]
          /\ Append(Front(frames), e)[Len(Front(frames)) + 1] = e
      <4> HIDE DEF e
      <4> QED BY <2>1, <2>2, AppendProperties DEF e
    <3> HIDE DEF e
    <3> QED BY <2>1, <3>1 DEF e
  <2>4. l - 1 + 1 = l /\ \A i \in 1..l : i \in 1..l - 1 \/ i = l
    <3>1. l \in Nat  BY <1>7 DEF Frames
    <3> QED BY <3>1
  <2>5. e[1] = v /\ e[2] = rows \ {r}  OBVIOUS
  <2> HIDE DEF here, e, v, rows, r
  <2>6. ASSUME NEW i \in 1..l
        PROVE  here[i][1] = frames[i][1]
               /\ here[i][2] = IF i = l THEN frames[i][2] \ {r} ELSE frames[i][2]
    <3>1. CASE i = l  BY <1>6, <2>3, <2>4, <2>5, <3>1
    <3>2. CASE i # l
      <4>1. i \in 1..l - 1  BY <2>4, <3>2
      <4>2. here[i] = frames[i]  BY <2>1, <2>3, <4>1
      <4> QED BY <3>2, <4>2
    <3> QED BY <3>1, <3>2
  <2>7. rowMatch[w] = r  BY <1>10
  <2>8. here[l][1] = v  BY <2>3, <2>4, <2>5
  <2> HIDE DEF w
  <2> QED BY <2>3, <2>4, <2>6, <2>7, <2>8 DEF Trimmed
<1>12. low \in [1..n -> -1..n]  BY <1>3 DEF Walks, Lows
<1>13. /\ index[w] = UNSET => Discover(w) /\ frames' = Append(here, <<w, pattern[w]>>)
       /\ index[w] # UNSET =>
            /\ low' = IF OnStack(w) /\ index[w] < low[v] THEN [low EXCEPT ![v] = index[w]] ELSE low
            /\ frames' = here /\ UNCHANGED <<index, stack>>
  BY DEF Look
<1>14. rowMatch[w] \in frames[l][2] /\ rowMatch[w] # 0  BY <1>6, <1>9, <1>10
<1> HIDE DEF n, l, v, rows, r, w, here, S, D
<1>15. CASE index[w] = UNSET
  <2>1. w \notin S  BY <1>3, <1>15 DEF Walks, Numbered, Seen, UNSET
  <2>2. Walks(n, pattern, rowMatch, index, low, S, D, here, {w})
    BY <1>1, <1>3, <1>5, <1>6, <1>10, <1>11, <1>12, <1>14, <2>1, LookedAt DEF l
  <2>3. Len(here) > 0 => Arc(pattern, rowMatch, here[Len(here)][1], w)  BY <1>10, <1>11
  <2> QED BY <1>1, <1>2, <1>3, <1>10, <1>13, <1>15, <2>2, <2>3, Discovers DEF n, S, D
<1>16. CASE index[w] # UNSET
  <2>1. low' \in [1..n -> -1..n] /\ (\A c \in 1..n : c # v => low'[c] = low[c])
        /\ low'[v] = IF w \in S /\ index[w] < low[v] THEN index[w] ELSE low[v]
    <3>1. low' = IF w \in S /\ index[w] < low[v] THEN [low EXCEPT ![v] = index[w]] ELSE low
      BY <1>13, <1>16 DEF OnStack, S
    <3>2. index[w] \in -1..n  BY <1>3, <1>10 DEF Walks, Numbered
    <3> QED BY <1>8, <1>12, <3>1, <3>2
  <2>2. Walks(n, pattern, rowMatch, index, low', S, D, here, {w})
    BY <1>1, <1>3, <1>5, <1>6, <1>10, <1>11, <1>14, <2>1, LookedAt DEF l
  <2>3. Walks(n, pattern, rowMatch, index, low', S, D, here, {})
    BY <1>10, <1>16, <2>2, LookedAtSeen DEF UNSET
  <2>4. frames' = here /\ index' = index /\ stack' = stack  BY <1>13, <1>16
  <2> QED BY <1>2, <1>3, <2>3, <2>4 DEF WalkInv, n, S, D
<1> QED BY <1>15, <1>16

LEMMA FinishWalks ==
  ASSUME MatchInv, WalkInv, Finish
  PROVE  WalkInv'
<1> DEFINE n == Len(pattern)
           l == Len(frames)
           v == Last(frames)[1]
           root == CHOOSE k \in DOMAIN stack : stack[k] = v
           S == Range(stack)
           D == Range(colPerm)
           C == Above(S, index, v)
           fr == Front(frames)
           t == SubSeq(stack, root, Len(stack))
<1>1. Slot = 1..n /\ n \in Nat /\ Square(n, pattern)  BY MatchInvMatched
<1>2. stage = "walk" /\ frames # <<>> /\ Last(frames)[2] = {} /\ pattern' = pattern /\ rowMatch' = rowMatch
      /\ index' = index /\ frames' = fr /\ low' = HandedDown
  BY DEF Finish, matchVars
<1>3. Walks(n, pattern, rowMatch, index, low, S, D, frames, {}) /\ Discovered(n, index, stack)
      /\ Emitted(n, pattern, rowMatch, colPerm, blockPtr)
  BY DEF WalkInv
<1>4. frames \in Seq((1..n) \X SUBSET (1..n)) /\ low \in [1..n -> -1..n] /\ index \in [1..n -> -1..n]
  BY <1>3 DEF Walks, Framed, Lows, Numbered
<1>5. Dropped(n, frames, fr) /\ l > 0 /\ l \in 1..l  BY <1>1, <1>2, <1>4, FrontOf
<1>6. v = frames[l][1] /\ frames[l][2] = {}  BY <1>2 DEF Last
<1>7. Frames(n, index, low, S, D, frames, l)  BY <1>1, <1>3, WalkFacts
<1>8. v \in S /\ v \in 1..n /\ l \in Nat  BY <1>5, <1>6, <1>7 DEF Frames
\* What the column below takes over.
<1>9. /\ Handed(n, frames, l, low, low[v], low')
      /\ (\A i \in 1..l - 1 : low[frames[i][1]] < low[v]) => low' = low
  <2>1. CASE l = 1
    <3>1. low' = low  BY <1>2, <2>1 DEF HandedDown
    <3>2. \A i \in 1..l - 1 : FALSE  BY <2>1
    <3> QED BY <1>4, <3>1, <3>2 DEF Handed
  <2>2. CASE l # 1
    <3> DEFINE u == frames[l - 1][1]
    <3>1. l - 1 \in 1..l /\ l - 1 \in 1..l - 1
      <4>1. l \in Nat /\ l > 0  BY <1>5, <1>8
      <4> HIDE DEF l
      <4> QED BY <2>2, <4>1
    <3>2. u \in 1..n /\ low[u] \in Int /\ low[v] \in -1..n
      <4>1. u \in S /\ low[u] \in Int  BY <1>7, <3>1 DEF Frames
      <4>2. S \in SUBSET (1..n)  BY <1>7 DEF Frames
      <4> QED BY <1>4, <1>8, <4>1, <4>2
    <3>3. low' = IF low[v] < low[u] THEN [low EXCEPT ![u] = low[v]] ELSE low
      BY <1>2, <2>2 DEF HandedDown
    <3>4. \A i \in 1..l - 1 : frames[i][1] \in 1..n /\ (frames[i][1] = u <=> i = l - 1)
      <4> SUFFICES ASSUME NEW i \in 1..l - 1 PROVE frames[i][1] \in 1..n /\ (frames[i][1] = u <=> i = l - 1)
        OBVIOUS
      <4>1. i \in 1..l  BY <1>8
      <4> QED BY <1>7, <3>1, <4>1 DEF Frames
    <3> HIDE DEF u, v, l
    <3>5. \A c \in 1..n : low'[c] = IF c = u /\ low[v] < low[u] THEN low[v] ELSE low[c]  BY <1>4, <3>2, <3>3
    <3>6. low' \in [1..n -> -1..n]  BY <1>4, <3>2, <3>3
    <3>7. ASSUME NEW i \in 1..l - 1
          PROVE  low'[frames[i][1]] =
                   IF i = l - 1 /\ low[v] < low[frames[i][1]] THEN low[v] ELSE low[frames[i][1]]
      BY <3>4, <3>5
    <3>8. ASSUME \A i \in 1..l - 1 : low[frames[i][1]] < low[v] PROVE low' = low
      <4>1. low[u] < low[v]  BY <3>1, <3>8 DEF u
      <4>2. low[v] \in Int  BY <3>2
      <4> QED BY <3>2, <3>3, <4>1, <4>2
    <3> QED BY <3>6, <3>7, <3>8 DEF Handed
  <2> QED BY <2>1, <2>2
<1>10. CASE low[v] # index[v]
  <2>1. colPerm' = colPerm /\ blockPtr' = blockPtr /\ stack' = stack  BY <1>10 DEF Finish
  <2> HIDE DEF n, l, v, S, D, fr
  <2>2. Walks(n, pattern, rowMatch, index, low', S, D, fr, {})
    BY <1>1, <1>3, <1>5, <1>6, <1>9, <1>10, HandsDown DEF l
  <2> QED BY <1>2, <1>3, <2>1, <2>2 DEF WalkInv, n, S, D
<1>11. CASE low[v] = index[v]
  <2>1. /\ colPerm' = colPerm \o t /\ blockPtr' = Append(blockPtr, Len(colPerm \o t) + 1)
        /\ stack' = SubSeq(stack, 1, root - 1)
    BY <1>11 DEF Finish
  <2>2. root \in 1..Len(stack) /\ stack[root] = v
    <3>1. DOMAIN stack = 1..Len(stack)  BY <1>3, LenProperties DEF Discovered
    <3>2. \E k \in DOMAIN stack : stack[k] = v  BY <1>8 DEF Range
    <3> QED BY <3>1, <3>2
  <2>3. C = Above(Range(stack), index, stack[root])  BY <2>2
  <2> HIDE DEF n, l, v, S, D, fr, root, C
  <2>10. Split(n, index, stack, C, SubSeq(stack, 1, root - 1), SubSeq(stack, root, Len(stack)))
    BY <1>1, <1>3, <1>4, <2>2, <2>3, StackSplits
  <2>11. Split(n, index, stack, C, stack', t)  BY <2>1, <2>10
  <2> HIDE DEF t
  <2>4. /\ Discovered(n, index, stack') /\ Range(stack') = S \ C
        /\ t \in Seq(1..n) /\ Len(t) \in Nat \ {0} /\ Range(t) = C
        /\ Distinct(t)
    BY <2>11 DEF Split, S
  <2>5. C = Above(S, index, v)  BY DEF C
  <2>6. /\ Walks(n, pattern, rowMatch, index, low, S \ C, D \cup C, fr, {})
        /\ Joined(n, pattern, rowMatch, C)
        /\ \A i \in 1..l - 1 : low[frames[i][1]] < low[v]
    <3>1. Completed(n, pattern, rowMatch, index, low, S, D, frames, fr, l, v, Above(S, index, v))
      BY <1>1, <1>3, <1>5, <1>6, <1>11, Completes DEF l
    <3> QED BY <2>5, <3>1 DEF Completed
  <2>7. low' = low  BY <1>9, <2>6
  <2>8. D \cap C = {} /\ Sealed(n, pattern, rowMatch, D \cup C)
    <3>1. S \cap D = {}  BY <1>3 DEF Walks, Numbered
    <3> QED BY <2>5, <2>6, <3>1 DEF Walks, Above
  <2>9. Emitted(n, pattern, rowMatch, colPerm', blockPtr') /\ Range(colPerm') = D \cup C
    <3>1. /\ Emitted(n, pattern, rowMatch, colPerm \o t, Append(blockPtr, Len(colPerm \o t) + 1))
          /\ Range(colPerm \o t) = Range(colPerm) \cup Range(t)
      BY <1>1, <1>3, <2>4, <2>6, <2>8, Emits DEF D
    <3> QED BY <2>1, <2>4, <3>1 DEF D
  <2> QED BY <1>2, <2>4, <2>6, <2>7, <2>9 DEF WalkInv, n
<1> QED BY <1>10, <1>11

-----------------------------------------------------------------------------
(***************************************************************************)
(* What the walk has emitted when every column is.                         *)
(***************************************************************************)
Within(bp, b, k) == b \in 1..Len(bp) - 1 /\ bp[b] <= k /\ k < bp[b + 1]

LEMMA Fills ==
  ASSUME NEW T, IsFiniteSet(T), NEW f \in [T -> T], \A x, y \in T : f[x] = f[y] => x = y
  PROVE  \A t \in T : \E s \in T : f[s] = t
BY Injects

Divided(n, cp, bp, L) ==
  /\ cp \in [1..n -> 1..n] /\ \A i, j \in 1..n : cp[i] = cp[j] => i = j
  /\ \A c \in 1..n : \E i \in 1..n : cp[i] = c
  /\ L \in Nat \ {0} /\ DOMAIN bp = 1..L /\ bp[1] = 1 /\ bp[L] = n + 1
  /\ \A b \in 1..L : bp[b] \in Nat /\ bp[b] >= 1 /\ bp[b] <= n + 1

LEMMA EmittedBlocks ==
  ASSUME NEW n \in Nat, NEW p, NEW m, NEW cp, NEW bp, Emitted(n, p, m, cp, bp), Len(cp) = n
  PROVE  Divided(n, cp, bp, Len(bp))
<1>1. cp \in [1..n -> 1..n] /\ DOMAIN cp = 1..n  BY LenProperties DEF Emitted
<1>2. \A i, j \in 1..n : cp[i] = cp[j] => i = j  BY <1>1 DEF Emitted
<1>3. \A c \in 1..n : \E i \in 1..n : cp[i] = c
  <2>1. IsFiniteSet(1..n)  BY FS_Interval
  <2>2. cp \in [1..n -> 1..n]  BY <1>1
  <2> DEFINE T == 1..n
  <2>3. IsFiniteSet(T) /\ cp \in [T -> T] /\ \A i, j \in T : cp[i] = cp[j] => i = j  BY <1>2, <2>1, <2>2
  <2>4. \A c \in T : \E i \in T : cp[i] = c
    <3> HIDE DEF T
    <3> QED BY <2>3, Fills
  <2> QED BY <2>4
<1>4. bp \in Seq(Nat) /\ bp # <<>> /\ bp[1] = 1 /\ bp[Len(bp)] = n + 1  BY DEF Emitted
<1>5. Len(bp) \in Nat /\ DOMAIN bp = 1..Len(bp) /\ bp \in [1..Len(bp) -> Nat]  BY <1>4, LenProperties
<1>6. Len(bp) # 0  BY <1>4, EmptySeq
<1>7. \A b, e \in 1..Len(bp) : b < e => bp[b] < bp[e]  BY <1>5 DEF Emitted
<1>8. 1 \in 1..Len(bp) /\ Len(bp) \in 1..Len(bp)  BY <1>5, <1>6
<1>9. ASSUME NEW b \in 1..Len(bp) PROVE bp[b] \in Nat /\ bp[b] >= 1 /\ bp[b] <= n + 1
  <2>1. bp[b] \in Nat  BY <1>5
  <2>2. bp[b] >= 1
    <3>1. CASE b = 1  BY <1>4, <3>1
    <3>2. CASE b # 1
      <4>1. 1 < b  BY <3>2
      <4>2. bp[1] < bp[b]  BY <1>7, <1>8, <4>1
      <4> QED BY <1>4, <2>1, <4>2
    <3> QED BY <3>1, <3>2
  <2>3. bp[b] <= n + 1
    <3>1. CASE b = Len(bp)  BY <1>4, <3>1
    <3>2. CASE b # Len(bp)
      <4>0. Len(bp) \in Nat  BY <1>5
      <4>1. b < Len(bp)  BY ONLY b \in 1..Len(bp), <4>0, <3>2
      <4>2. bp[b] < bp[Len(bp)]  BY <1>7, <1>8, <4>1
      <4> QED BY <1>4, <2>1, <4>2
    <3> QED BY <3>1, <3>2
  <2> QED BY <2>1, <2>2, <2>3
<1> QED BY <1>1, <1>2, <1>3, <1>4, <1>5, <1>6, <1>9 DEF Divided

LEMMA WithinABlock ==
  ASSUME NEW n \in Nat, NEW p, NEW m, NEW cp, NEW bp, Emitted(n, p, m, cp, bp), Len(cp) = n, NEW k \in 1..n
  PROVE  \E b : Within(bp, b, k)
<1> DEFINE L == Len(bp)
           B == {b \in 1..L : bp[b] <= k}
<1>1. L \in Nat \ {0} /\ bp[1] = 1 /\ bp[L] = n + 1 /\ \A b \in 1..L : bp[b] \in Nat
  BY EmittedBlocks DEF Divided
<1> HIDE DEF L
<1>2. 1 \in B  BY <1>1
<1>3. PICK b \in B : \A c \in B : c <= b
  <2>2. B \in SUBSET (1..L) /\ B # {} /\ L \in Nat  BY <1>1, <1>2
  <2> HIDE DEF B
  <2> QED BY ONLY <2>2, GreatestNumber
<1>4. b # L  BY <1>1, <1>3
<1>5. b + 1 \in 1..L /\ b + 1 \notin B /\ b \in 1..L - 1  BY <1>1, <1>3, <1>4
<1>6. k < bp[b + 1]  BY <1>1, <1>5
<1> QED BY <1>3, <1>5, <1>6 DEF Within, L

LEMMA BlocksInOrder ==
  ASSUME NEW n \in Nat, NEW p, NEW m, NEW cp, NEW bp, Emitted(n, p, m, cp, bp), Len(cp) = n,
         NEW k \in 1..n, NEW l \in 1..n, NEW b, NEW e, Within(bp, b, k), Within(bp, e, l)
  PROVE  /\ Reaches(n, p, m, cp[k], cp[l]) => e <= b
         /\ b = e => Reaches(n, p, m, cp[k], cp[l])
<1> DEFINE L == Len(bp)
<1>0. Divided(n, cp, bp, L)  BY EmittedBlocks
<1>9. b \in 1..L - 1 /\ bp[b] <= k /\ k < bp[b + 1] /\ e \in 1..L - 1 /\ bp[e] <= l /\ l < bp[e + 1]
  BY DEF Within
<1> HIDE DEF L
<1>1. /\ cp \in [1..n -> 1..n] /\ \A i, j \in 1..n : cp[i] = cp[j] => i = j
      /\ L \in Nat \ {0} /\ DOMAIN bp = 1..L
      /\ \A c \in 1..L : bp[c] \in Nat /\ bp[c] >= 1 /\ bp[c] <= n + 1
  BY <1>0 DEF Divided
<1>2. b \in 1..L /\ b + 1 \in 1..L /\ bp[b] <= k /\ k < bp[b + 1]  BY <1>1, <1>9
<1>3. e \in 1..L /\ e + 1 \in 1..L /\ bp[e] <= l /\ l < bp[e + 1]  BY <1>1, <1>9
<1>10. bp[b] \in Nat /\ bp[b + 1] \in Nat /\ bp[e] \in Nat /\ bp[e + 1] \in Nat /\ bp[b + 1] <= n + 1
  <2>1. bp[b + 1] \in Nat /\ bp[b + 1] <= n + 1  BY <1>1, <1>2
  <2>2. bp[b] \in Nat  BY <1>1, <1>2
  <2>3. bp[e] \in Nat  BY <1>1, <1>3
  <2>4. bp[e + 1] \in Nat  BY <1>1, <1>3
  <2> QED BY <2>1, <2>2, <2>3, <2>4
<1>4. ASSUME Reaches(n, p, m, cp[k], cp[l]) PROVE e <= b
  <2> SUFFICES ASSUME b < e PROVE FALSE  BY <1>2, <1>3
  <2>1. bp[b + 1] <= bp[e]
    <3>1. CASE b + 1 = e  BY <1>10, <3>1
    <3>2. CASE b + 1 # e
      <4>1. b + 1 < e  BY <1>2, <1>3, <3>2
      <4>2. bp[b + 1] < bp[e]  BY <1>1, <1>2, <1>3, <4>1 DEF Emitted
      <4> QED BY <1>10, <4>2
    <3> QED BY <3>1, <3>2
  <2> DEFINE D == {cp[i] : i \in 1..bp[b + 1] - 1}
  <2>2. bp[b + 1] \in Nat /\ bp[b + 1] <= n + 1 /\ bp[b + 1] <= l  BY <1>3, <1>10, <2>1
  <2>3. D \in SUBSET (1..n)
    <3>1. \A i \in 1..bp[b + 1] - 1 : i \in 1..n  BY <2>2
    <3>2. \A i \in 1..bp[b + 1] - 1 : cp[i] \in 1..n  BY <1>1, <3>1
    <3> QED BY <3>2
  <2>4. Sealed(n, p, m, D)  BY <1>1, <1>2 DEF Emitted
  <2>5. cp[k] \in D
    <3>1. k \in 1..bp[b + 1] - 1  BY <1>2, <2>2
    <3> QED BY <3>1
  <2>6. cp[l] \in D
    <3> HIDE DEF D
    <3> QED BY <1>4, <2>3, <2>4, <2>5, SealedReaches
  <2>7. PICK i \in 1..bp[b + 1] - 1 : cp[i] = cp[l]  BY <2>6
  <2>8. i \in 1..n /\ i < l  BY <2>2, <2>7
  <2> QED BY <1>1, <2>7, <2>8
<1>5. ASSUME b = e PROVE Reaches(n, p, m, cp[k], cp[l])
  <2>1. k \in bp[b]..bp[b + 1] - 1 /\ l \in bp[b]..bp[b + 1] - 1  BY <1>2, <1>3, <1>5, <1>10
  <2>2. \A c, d \in DOMAIN bp : d = c + 1 => \A i, j \in bp[c]..bp[d] - 1 : Reaches(n, p, m, cp[i], cp[j])
    BY DEF Emitted
  <2>3. b \in DOMAIN bp /\ b + 1 \in DOMAIN bp  BY <1>1, <1>2
  <2> QED BY <2>1, <2>2, <2>3
<1> QED BY <1>4, <1>5

LEMMA BlockOfWithin ==
  ASSUME NEW k, \E b : Within(blockPtr, b, k)
  PROVE  Within(blockPtr, BlockOf(k), k)
BY DEF Within, BlockOf

LEMMA ReachIs ==
  ASSUME Slot = 1..Len(pattern), NEW c, NEW d \in Slot
  PROVE  /\ d \in Reach(c) <=> Reaches(Len(pattern), pattern, rowMatch, c, d)
         /\ Leads(c, d) <=> Arc(pattern, rowMatch, c, d)
BY DEF Reach, Reaches, Leads, Arc

LEMMA ComponentsHold ==
  ASSUME MatchInv, stage = "walk" => WalkInv
  PROVE  BlocksAreTheComponents
<1> SUFFICES ASSUME stage = "walk", Len(colPerm) = Len(pattern) PROVE BlocksAreTheComponents
  BY DEF BlocksAreTheComponents
<1> DEFINE n == Len(pattern)
<1>1. Slot = 1..n /\ n \in Nat /\ Matching(n, pattern, rowMatch) /\ Free(n, rowMatch) = {}
  BY MatchInvMatched DEF MatchInv
<1>2. Emitted(n, pattern, rowMatch, colPerm, blockPtr) /\ Len(colPerm) = n  BY DEF WalkInv
<1> HIDE DEF n
<1>3. colPerm \in [1..n -> 1..n] /\ \A c \in 1..n : \E i \in 1..n : colPerm[i] = c
  BY <1>1, <1>2, EmittedBlocks DEF Divided
<1>4. Range(colPerm) = Slot  BY <1>1, <1>3 DEF Range
<1>5. \A k \in Slot : colPerm[k] \in Slot  BY <1>1, <1>3
<1>6. \A c \in Slot : rowMatch[c] \in pattern[c]  BY <1>1 DEF Matching, Free
<1>7. ASSUME NEW k \in Slot PROVE Within(blockPtr, BlockOf(k), k)
  <2>1. \E b : Within(blockPtr, b, k)  BY <1>1, <1>2, WithinABlock
  <2> QED BY <2>1, BlockOfWithin
<1>8. ASSUME NEW k \in Slot, NEW l \in Slot
      PROVE  /\ Leads(colPerm[k], colPerm[l]) => BlockOf(l) <= BlockOf(k)
             /\ BlockOf(k) = BlockOf(l) <=> (colPerm[l] \in Reach(colPerm[k]) /\ colPerm[k] \in Reach(colPerm[l]))
  <2> DEFINE from == colPerm[k]
             to == colPerm[l]
             b == BlockOf(k)
             e == BlockOf(l)
  <2>1. from \in Slot /\ to \in Slot  BY <1>5
  <2>2. Within(blockPtr, b, k) /\ Within(blockPtr, e, l)  BY <1>7
  <2>3. /\ to \in Reach(from) <=> Reaches(n, pattern, rowMatch, from, to)
        /\ from \in Reach(to) <=> Reaches(n, pattern, rowMatch, to, from)
        /\ Leads(from, to) <=> Arc(pattern, rowMatch, from, to)
    BY <1>1, <2>1, ReachIs DEF n
  <2>4. Leads(from, to) => Reaches(n, pattern, rowMatch, from, to)  BY <1>1, <2>1, <2>3, ArcReaches
  <2> HIDE DEF b, e
  <2>5. /\ Reaches(n, pattern, rowMatch, from, to) => e <= b
        /\ b = e => Reaches(n, pattern, rowMatch, from, to)
    BY <1>1, <1>2, <2>2, BlocksInOrder
  <2>6. /\ Reaches(n, pattern, rowMatch, to, from) => b <= e
        /\ e = b => Reaches(n, pattern, rowMatch, to, from)
    BY <1>1, <1>2, <2>2, BlocksInOrder
  <2>7. b \in Int /\ e \in Int  BY <2>2 DEF Within
  <2>8. Leads(from, to) => e <= b  BY <2>4, <2>5
  <2>9. b = e <=> (to \in Reach(from) /\ from \in Reach(to))
    <3>1. ASSUME b = e PROVE to \in Reach(from) /\ from \in Reach(to)  BY <2>3, <2>5, <2>6, <3>1
    <3>2. ASSUME to \in Reach(from), from \in Reach(to) PROVE b = e
      <4>1. e <= b /\ b <= e  BY <2>3, <2>5, <2>6, <3>2
      <4> QED BY <2>7, <4>1
    <3> QED BY <3>1, <3>2
  <2> QED BY <2>8, <2>9 DEF b, e
<1> QED BY <1>4, <1>5, <1>6, <1>8 DEF BlocksAreTheComponents

-----------------------------------------------------------------------------
(***************************************************************************)
(* The theorem.                                                            *)
(***************************************************************************)
NotWalking ==
  /\ index = [c \in Slot |-> UNSET] /\ low = index
  /\ stack = <<>> /\ frames = <<>> /\ colPerm = <<>> /\ blockPtr = <<1>>

LEMMA BtfStart ==
  ASSUME BtfInit
  PROVE  BtfInv
<1>1. pattern \in Patterns /\ rule \in {"diagonal", "free", "mc21"} /\ stage = "seed" /\ open = {}
      /\ rowMatch = [c \in Slot |-> UNMATCHED]
  BY DEF BtfInit
<1>2. Square(Len(pattern), pattern) /\ Slot = 1..Len(pattern)  BY <1>1, PatternIsSquare
<1>3. Matching(Len(pattern), pattern, rowMatch)
  <2>1. Len(pattern) \in Nat  BY <1>2 DEF Square
  <2>2. rowMatch = [c \in 1..Len(pattern) |-> 0]  BY <1>1, <1>2 DEF UNMATCHED
  <2> QED BY <2>1, <2>2 DEF Matching
<1>4. MatchInv  BY <1>1, <1>3 DEF MatchInv
<1>5. NotWalking  BY DEF BtfInit, NotWalking
<1> QED BY <1>1, <1>4, <1>5 DEF BtfInv, NotWalking

LEMMA StillNotWalking ==
  ASSUME BtfInv, stage # "walk", UNCHANGED <<pattern, walkVars>>
  PROVE  NotWalking'
<1>1. NotWalking  BY DEF BtfInv, NotWalking
<1>2. Slot' = Slot  BY DEF Slot
<1> QED BY <1>1, <1>2 DEF NotWalking, walkVars

LEMMA BtfStep ==
  ASSUME BtfInv, [BtfNext]_btfVars
  PROVE  BtfInv'
<1>1. MatchInv'  BY MatchStep DEF BtfInv
<1>2. CASE Seed \/ Layers \/ Augment \/ DropCandidate
  <2>1. stage # "walk" /\ UNCHANGED <<pattern, walkVars>>  BY <1>2 DEF Seed, Layers, Augment, DropCandidate
  <2>2. stage' # "walk"
    <3>1. CASE Seed  BY <3>1 DEF Seed
    <3>2. CASE Layers  BY <3>2 DEF Layers
    <3>3. CASE Augment  BY <3>3 DEF Augment, AfterSearch
    <3>4. CASE DropCandidate  BY <3>4 DEF DropCandidate
    <3> QED BY <1>2, <3>1, <3>2, <3>3, <3>4
  <2>3. NotWalking'  BY <2>1, StillNotWalking
  <2> QED BY <1>1, <2>2, <2>3 DEF BtfInv, NotWalking
<1>3. CASE StartWalk
  <2>1. stage' = "walk"  BY <1>3 DEF StartWalk
  <2>2. WalkInv'  BY <1>3, WalkStarts
  <2> QED BY <1>1, <2>1, <2>2 DEF BtfInv
<1>4. CASE Root \/ Look \/ Finish
  <2>1. stage = "walk" /\ stage' = stage  BY <1>4 DEF Root, Look, Finish
  <2>2. MatchInv /\ WalkInv  BY <2>1 DEF BtfInv
  <2>3. WalkInv'  BY <1>4, <2>2, RootWalks, LookWalks, FinishWalks
  <2> QED BY <1>1, <2>1, <2>3 DEF BtfInv
<1>5. CASE UNCHANGED btfVars
  <2>1. stage' = stage /\ UNCHANGED <<pattern, rowMatch, walkVars>>  BY <1>5 DEF btfVars, matchVars
  <2>2. CASE stage = "walk"
    <3>1. WalkInv  BY <2>2 DEF BtfInv
    <3>2. WalkInv'  BY <2>1, <3>1 DEF WalkInv, walkVars
    <3> QED BY <1>1, <2>1, <2>2, <3>2 DEF BtfInv
  <2>3. CASE stage # "walk"
    <3>1. NotWalking'  BY <2>1, <2>3, StillNotWalking
    <3> QED BY <1>1, <2>1, <2>3, <3>1 DEF BtfInv, NotWalking
  <2> QED BY <2>2, <2>3
<1> QED BY <1>2, <1>3, <1>4, <1>5 DEF BtfNext

\* Whatever search ran and in whatever order the paths were found, the
\* transversal that hk_transversal or mc21_transversal reports is maximum,
\* and the blocks btf_from_matching emits are the strongly connected
\* components of the matched graph, in an order that leaves nothing below
\* the diagonal blocks.
THEOREM BlockFormHolds == BtfSpec => []BlockFormIsSound
<1>1. BtfInit => BtfInv  BY BtfStart
<1>2. BtfInv /\ [BtfNext]_btfVars => BtfInv'  BY BtfStep
<1>3. BtfInv => BlockFormIsSound
  BY MatchIsMaximum, ComponentsHold DEF BtfInv, BlockFormIsSound
<1> QED BY <1>1, <1>2, <1>3, PTL DEF BtfSpec
=============================================================================

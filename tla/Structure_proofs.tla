--------------------------- MODULE Structure_proofs ---------------------------
(***************************************************************************)
(* What rests on the rows of a factor alone: the supernodes an analysis    *)
(* makes of its columns, and the sweeps of a solve over supernodes.        *)
(*                                                                         *)
(* SymbolicAnalysis: the amalgamation, from the tree and the counts of the *)
(* factor on.                                                              *)
(* The elimination game gives a column the rows of every column below it   *)
(* in the tree (FactorShape), so in a run of columns that each have the    *)
(* next for parent, the rows are those of the last column and the run      *)
(* itself (Chain).  The invariant keeps just that for every group while    *)
(* groups merge (Merged): a group ends where its own fundamental supernode *)
(* ends, its columns are those whose supernodes the union-find leads to    *)
(* it, and their rows are its columns and its last column's rows.  The     *)
(* parent of a group's last column then lies in the group of its parent    *)
(* (ParentGroup), which is all a merge needs.  An argument called parent_, *)
(* counts_ or settings_ stands for any value of the variable of that name. *)
(*                                                                         *)
(* SolveWalk: the tasks of a solve share the right-hand side without a     *)
(* race, read what is final and leave no node out (WalkInv), and every row *)
(* takes the terms that one thread would, in its order (TermsInv): a slot  *)
(* holds, ascending, those of its source's nodes that have handed over,    *)
(* and a row the terms of the nodes it has taken, in the order of the      *)
(* sweep.  Which nodes those are is a function of the phase, the level and *)
(* the statuses (Taken), never of how they came about.                     *)
(***************************************************************************)
EXTENDS SymbolicAnalysis, SolveWalk, Sums_proofs, SequenceTheorems

-----------------------------------------------------------------------------
\* A set without gaps is a run from its least element on.
LEMMA NoGaps ==
  ASSUME NEW n \in Nat, NEW S \in SUBSET (1..n), NEW a \in S, \A x \in S : a <= x,
         \A x, w \in S : \A z \in 1..n : x <= z /\ z <= w => z \in S
  PROVE  S = a..a + Cardinality(S) - 1
<1>1. PICK b \in S : \A x \in S : x <= b  BY GreatestNumber
<1>2. S = a..b
  <2>0. \A x \in S : x \in Int /\ 1 <= x /\ x <= n  BY FiniteNumbers
  <2>1. \A x \in S : x \in a..b  BY <1>1, <2>0
  <2>2. ASSUME NEW z \in a..b PROVE z \in S
    <3>1. a \in Int /\ b \in Int /\ 1 <= a /\ b <= n  BY <2>0
    <3>2. z \in 1..n /\ a <= z /\ z <= b  BY <3>1
    <3> QED BY <3>2
  <2> QED BY <2>1, <2>2
<1>3. a \in Int /\ b \in Int /\ a <= b  BY <1>1
<1>4. Cardinality(a..b) = b - a + 1  BY <1>3, FS_Interval
<1>5. Cardinality(S) = b - a + 1  BY <1>2, <1>4
<1>6. a + (b - a + 1) - 1 = b  BY <1>3
<1> QED BY <1>2, <1>5, <1>6

-----------------------------------------------------------------------------
(***************************************************************************)
(* The elimination game: the rows of the factor, whatever the pattern.     *)
(***************************************************************************)
PatternOn(n, cols) ==
  /\ Len(cols) = n /\ DOMAIN cols = 1..n
  /\ \A j \in 1..n : ToSet(cols[j]) \subseteq 1..n

Bare(cols) == [j \in DOMAIN cols |-> ToSet(cols[j]) \ {j}]
Plays(cols, k, g) ==
  g = [i \in 0..k |-> IF i = 0 THEN Bare(cols) ELSE Eliminated(g[i - 1], i)]

LEMMA GameExists ==
  ASSUME NEW cols, NEW n \in Nat
  PROVE  \E g : Plays(cols, n, g)
<1> DEFINE Lacking == {k \in Nat : ~ \E g : Plays(cols, k, g)}
<1> SUFFICES ASSUME Lacking # {} PROVE FALSE
  OBVIOUS
<1>1. PICK m \in Lacking : \A k \in Lacking : m <= k
  <2>1. Lacking \in SUBSET Nat  OBVIOUS
  <2> HIDE DEF Lacking
  <2> QED BY <2>1, LeastNumber
<1>2. m \in Nat /\ ~ \E g : Plays(cols, m, g)  OBVIOUS
<1>3. CASE m = 0
  <2> DEFINE g == [i \in 0..0 |-> Bare(cols)]
  <2>1. g = [i \in 0..0 |-> IF i = 0 THEN Bare(cols) ELSE Eliminated(g[i - 1], i)]  BY \A i \in 0..0 : i = 0
  <2> QED BY <1>2, <1>3, <2>1 DEF Plays
<1>4. CASE m # 0
  <2>1. m - 1 \in Nat /\ m - 1 \notin Lacking  BY <1>1, <1>2, <1>4
  <2>2. PICK g : Plays(cols, m - 1, g)  BY <2>1
  <2> DEFINE f == [i \in 0..m |-> IF i = m THEN Eliminated(g[m - 1], m) ELSE g[i]]
  <2>3. ASSUME NEW i \in 0..m PROVE f[i] = IF i = 0 THEN Bare(cols) ELSE Eliminated(f[i - 1], i)
    <3>1. CASE i = m
      <4>1. f[i - 1] = g[i - 1]  BY <1>2, <1>4, <3>1
      <4> QED BY <1>4, <3>1, <4>1
    <3>2. CASE i # m
      <4>1. i \in 0..m - 1 /\ f[i] = g[i]  BY <1>2, <3>2
      <4>2. g[i] = IF i = 0 THEN Bare(cols) ELSE Eliminated(g[i - 1], i)  BY <2>2, <4>1 DEF Plays
      <4>3. i # 0 => f[i - 1] = g[i - 1]  BY <1>2, <4>1
      <4> QED BY <4>1, <4>2, <4>3
    <3> QED BY <3>1, <3>2
  <2>4. Plays(cols, m, f)
    <3>1. f = [i \in 0..m |-> f[i]]  OBVIOUS
    <3> HIDE DEF f
    <3> QED BY <2>3, <3>1 DEF Plays
  <2> QED BY <1>2, <2>4
<1> QED BY <1>3, <1>4

LEMMA GamePlays ==
  ASSUME NEW cols, Len(cols) \in Nat
  PROVE  Plays(cols, Len(cols), Game(cols))
<1>1. Game(cols) = CHOOSE g : Plays(cols, Len(cols), g)  BY DEF Game, Plays, Bare
<1> QED BY <1>1, GameExists

\* After k turns: every vertex has other vertices for neighbours and has lost
\* none of them, and those whose turn has passed are as they were by then.
Played(n, g, k) ==
  /\ DOMAIN g[k] = 1..n
  /\ \A v \in 1..n : g[k][v] \subseteq 1..n /\ v \notin g[k][v]
  /\ \A l \in 0..k : \A v \in 1..n : g[l][v] \subseteq g[k][v]
  /\ \A l \in 1..k : g[k][l] = g[l - 1][l]

Later(g, j) == {u \in g[j - 1][j] : u > j}

LEMMA Turned ==
  ASSUME NEW cols, NEW n \in Nat, PatternOn(n, cols), NEW g, Plays(cols, n, g), NEW k \in 1..n,
         Played(n, g, k - 1)
  PROVE  /\ Played(n, g, k)
         /\ \A v \in Later(g, k) : g[k][v] = (g[k - 1][v] \cup Later(g, k)) \ {v}
<1>1. g[k] = Eliminated(g[k - 1], k)  BY DEF Plays
<1>2. DOMAIN g[k] = 1..n /\ \A v \in 1..n :
        g[k][v] = IF v \in Later(g, k) THEN (g[k - 1][v] \cup Later(g, k)) \ {v} ELSE g[k - 1][v]
  BY <1>1 DEF Eliminated, Played, Later
<1>3. Later(g, k) \subseteq 1..n /\ \A u \in Later(g, k) : u \in Int /\ u > k  BY DEF Later, Played
<1>4. \A v \in 1..n : g[k][v] \subseteq 1..n /\ v \notin g[k][v] /\ g[k - 1][v] \subseteq g[k][v]
  <2>1. \A v \in 1..n : g[k - 1][v] \subseteq 1..n /\ v \notin g[k - 1][v]  BY DEF Played
  <2> QED BY <1>2, <1>3, <2>1
<1>5. ASSUME NEW l \in 0..k, NEW v \in 1..n PROVE g[l][v] \subseteq g[k][v]
  <2>1. CASE l = k  BY <2>1
  <2>2. CASE l # k
    <3>1. l \in 0..k - 1  BY <2>2
    <3> QED BY <1>4, <3>1 DEF Played
  <2> QED BY <2>1, <2>2
<1>6. ASSUME NEW l \in 1..k PROVE g[k][l] = g[l - 1][l]
  <2>1. l \notin Later(g, k) /\ l \in 1..n  BY <1>3
  <2>2. g[k][l] = g[k - 1][l]  BY <1>2, <2>1
  <2>3. l # k => l \in 1..k - 1  OBVIOUS
  <2> QED BY <2>2, <2>3 DEF Played
<1> QED BY <1>2, <1>3, <1>4, <1>5, <1>6 DEF Played

LEMMA AllPlayed ==
  ASSUME NEW cols, NEW n \in Nat, PatternOn(n, cols), NEW g, Plays(cols, n, g)
  PROVE  \A k \in 0..n : Played(n, g, k)
<1> DEFINE Bad == {k \in 0..n : ~Played(n, g, k)}
<1> SUFFICES ASSUME Bad # {} PROVE FALSE
  OBVIOUS
<1>1. PICK m \in Bad : \A k \in Bad : m <= k
  <2>1. Bad \in SUBSET Nat  OBVIOUS
  <2> HIDE DEF Bad
  <2> QED BY <2>1, LeastNumber
<1>2. m \in 0..n /\ ~Played(n, g, m)  OBVIOUS
<1>3. CASE m = 0
  <2>1. g[0] = Bare(cols)  BY DEF Plays
  <2>2. DOMAIN g[0] = 1..n /\ \A v \in 1..n : g[0][v] = ToSet(cols[v]) \ {v}  BY <2>1 DEF Bare, PatternOn
  <2>3. \A l \in 0..0 : l = 0  OBVIOUS
  <2>4. \A l \in 1..0 : FALSE  OBVIOUS
  <2>5. \A v \in 1..n : g[0][v] \subseteq 1..n /\ v \notin g[0][v]  BY <2>2 DEF PatternOn
  <2> QED BY <1>2, <1>3, <2>2, <2>3, <2>4, <2>5 DEF Played
<1>4. CASE m # 0
  <2>1. m \in 1..n /\ m - 1 \in 0..n /\ m - 1 \notin Bad  BY <1>1, <1>2, <1>4
  <2> QED BY <1>2, <2>1, Turned
<1> QED BY <1>3, <1>4

-----------------------------------------------------------------------------
(***************************************************************************)
(* A tree and counts that are those of some rows: a column's parent is its *)
(* first row, and the parent has its other rows.                           *)
(***************************************************************************)
Shaped(n, R, parent_, counts_) ==
  /\ R \in [1..n -> SUBSET (1..n)] /\ \A j \in 1..n : \A i \in R[j] : j < i
  /\ parent_ \in [1..n -> 0..n] /\ counts_ \in [1..n -> Nat]
  /\ \A j \in 1..n : R[j] = {} => parent_[j] = 0
  /\ \A j \in 1..n : R[j] # {} => parent_[j] \in R[j] /\ R[j] \subseteq {parent_[j]} \cup R[parent_[j]]
  /\ \A j \in 1..n : counts_[j] = 1 + Cardinality(R[j])

LEMMA FactorShape ==
  ASSUME NEW n \in Nat, NEW cols, PatternOn(n, cols)
  PROVE  Shaped(n, FactorRows(cols), FactorTree(cols), FactorCounts(cols))
<1> DEFINE g == Game(cols)
           R == FactorRows(cols)
<1>1. Plays(cols, n, g)  BY GamePlays DEF PatternOn
<1>2. \A k \in 0..n : Played(n, g, k)  BY <1>1, AllPlayed
<1>3. R = [j \in 1..n |-> {i \in g[n][j] : i > j}]  BY DEF FactorRows, PatternOn
<1>4. ASSUME NEW j \in 1..n PROVE R[j] = Later(g, j)
  <2>1. Played(n, g, n)  BY <1>2
  <2>2. g[n][j] = g[j - 1][j]  BY <2>1 DEF Played
  <2> QED BY <1>3, <2>2 DEF Later
<1>5. \A j \in 1..n : R[j] \subseteq 1..n /\ \A i \in R[j] : j < i /\ i \in Int
  <2>1. Played(n, g, n)  BY <1>2
  <2>2. \A j \in 1..n : R[j] \subseteq g[n][j] /\ \A i \in R[j] : i > j  BY <1>3
  <2>3. \A j \in 1..n : R[j] \subseteq 1..n  BY <2>1, <2>2 DEF Played
  <2> QED BY <2>2, <2>3
<1>6. ASSUME NEW j \in 1..n, NEW i \in R[j], NEW k \in R[j], i < k PROVE k \in R[i]
  <2>1. Played(n, g, j - 1) /\ Played(n, g, n) /\ j \in 0..n  BY <1>2
  <2>2. i \in Later(g, j) /\ k \in Later(g, j) /\ i \in 1..n /\ i # k  BY <1>4, <1>5, <1>6
  <2>3. k \in g[j][i]  BY <1>1, <2>1, <2>2, Turned
  <2>4. k \in g[n][i]  BY <2>1, <2>2, <2>3 DEF Played
  <2> QED BY <1>3, <1>6, <2>2, <2>4
<1>7. FactorTree(cols) = [j \in 1..n |-> IF R[j] = {} THEN 0 ELSE Min(R[j])]
  BY DEF FactorTree, PatternOn
<1>8. FactorCounts(cols) = [j \in 1..n |-> 1 + Cardinality(R[j])]
  BY DEF FactorCounts, PatternOn
<1> HIDE DEF R, g
<1>9. ASSUME NEW j \in 1..n, R[j] # {}
      PROVE  Min(R[j]) \in R[j] /\ R[j] \subseteq {Min(R[j])} \cup R[Min(R[j])]
  <2>1. R[j] \in SUBSET Nat  BY <1>5
  <2>2. Min(R[j]) \in R[j] /\ \A t \in R[j] : Min(R[j]) <= t  BY <1>9, <2>1, LeastNumber
  <2>3. ASSUME NEW t \in R[j], t # Min(R[j]) PROVE t \in R[Min(R[j])]
    <3>1. Min(R[j]) < t  BY <1>5, <2>2, <2>3
    <3> QED BY <1>6, <2>2, <3>1
  <2> QED BY <2>2, <2>3
<1>10. \A j \in 1..n : Cardinality(R[j]) \in Nat  BY <1>5, FiniteNumbers
<1>11. FactorTree(cols) \in [1..n -> 0..n]
  <2>1. \A j \in 1..n : R[j] # {} => Min(R[j]) \in 1..n  BY <1>5, <1>9
  <2> QED BY <1>7, <2>1
<1>12. FactorCounts(cols) \in [1..n -> Nat]  BY <1>8, <1>10
<1>13. R \in [1..n -> SUBSET (1..n)]  BY <1>3, <1>5
<1>14. Shaped(n, R, FactorTree(cols), FactorCounts(cols))
  BY <1>5, <1>7, <1>8, <1>9, <1>11, <1>12, <1>13 DEF Shaped
<1> QED BY <1>14 DEF R
-----------------------------------------------------------------------------
(***************************************************************************)
(* The fundamental supernodes: runs of columns, each the parent of the one *)
(* before it, that cover all the columns.                                  *)
(***************************************************************************)
Starts(parent_, counts_) == {j \in DOMAIN parent_ : j = 1 \/ ~Extends(parent_, counts_, j)}
UpTo(S, j) == Cardinality({i \in S : i <= j})
Ident(parent_, counts_) ==
  [j \in DOMAIN parent_ |-> UpTo(Starts(parent_, counts_), j)]

Founded(n, parent_, counts_, id, f) ==
  /\ id \in [1..n -> DOMAIN f.start]
  /\ f.start \in [DOMAIN f.start -> 1..n] /\ f.ncol \in [DOMAIN f.start -> Nat]
  /\ f.parent \in [DOMAIN f.start -> {0} \cup DOMAIN f.start]
  /\ \E k \in Nat : DOMAIN f.start = 1..k
  /\ \A s \in DOMAIN f.start : f.ncol[s] >= 1 /\ f.start[s] + f.ncol[s] - 1 \in 1..n
  /\ \A s \in DOMAIN f.start : \A j \in 1..n :
       id[j] = s <=> j \in f.start[s]..f.start[s] + f.ncol[s] - 1
  /\ \A s \in DOMAIN f.start : \A j \in f.start[s] + 1..f.start[s] + f.ncol[s] - 1 :
       parent_[j - 1] = j /\ counts_[j] + 1 = counts_[j - 1]
  /\ \A s \in DOMAIN f.start :
       IF parent_[f.start[s] + f.ncol[s] - 1] = 0 THEN f.parent[s] = 0
       ELSE f.parent[s] = id[parent_[f.start[s] + f.ncol[s] - 1]] /\ s < f.parent[s]

LEMMA Numbered ==
  ASSUME NEW n \in Nat, NEW S \in SUBSET (1..n), n > 0 => 1 \in S
  PROVE  /\ \A j \in 1..n : UpTo(S, j) \in 1..Cardinality(S)
         /\ \A x, w \in 1..n : x <= w => UpTo(S, x) <= UpTo(S, w)
         /\ \A x \in S : UpTo(S, x) = Rank(S, x) + 1
         /\ \A x \in S : \A j \in 1..n : UpTo(S, j) = UpTo(S, x) => x <= j
<1>1. IsFiniteSet(S) /\ Cardinality(S) \in Nat /\ \A x \in S : x \in Int /\ 1 <= x /\ x <= n  BY FiniteNumbers
<1> DEFINE Upto(j) == {i \in S : i <= j}
<1>2. \A j \in 1..n : UpTo(S, j) = Cardinality(Upto(j))  BY DEF UpTo
<1>3. ASSUME NEW j \in 1..n PROVE UpTo(S, j) \in 1..Cardinality(S)
  <2>1. IsFiniteSet(Upto(j)) /\ Cardinality(Upto(j)) <= Cardinality(S)  BY <1>1, FS_Subset
  <2>2. 1 \in Upto(j)  OBVIOUS
  <2>3. Cardinality(Upto(j)) \in Nat /\ Cardinality(Upto(j)) # 0
    <3>1. Upto(j) # {}  BY <2>2
    <3> HIDE DEF Upto
    <3> QED BY <2>1, <3>1, FS_CardinalityType, FS_EmptySet
  <2> QED BY <1>1, <1>2, <2>1, <2>3
<1>4. ASSUME NEW x \in 1..n, NEW w \in 1..n, x <= w PROVE UpTo(S, x) <= UpTo(S, w)
  <2>1. \A i \in S : i <= x => i <= w  BY <1>1, <1>4
  <2>2. Upto(x) \in SUBSET Upto(w)  BY <2>1
  <2>3. IsFiniteSet(Upto(w))  BY <1>1, FS_Subset
  <2>4. Cardinality(Upto(x)) <= Cardinality(Upto(w))
    <3> HIDE DEF Upto
    <3> QED BY <2>2, <2>3, FS_Subset
  <2> QED BY <1>2, <2>4
<1>5. ASSUME NEW x \in S PROVE UpTo(S, x) = Rank(S, x) + 1
  <2> DEFINE T == {w \in S : w < x}
  <2>1. x \in Int /\ \A w \in S : w \in Int  BY <1>1
  <2>2. IsFiniteSet(T)  BY <1>1, FS_Subset
  <2>3. x \notin T  BY <2>1
  <2>4. Upto(x) = T \cup {x}
    <3>1. \A w \in S : w <= x <=> w < x \/ w = x  BY <2>1
    <3> QED BY <3>1
  <2>5. Cardinality(Upto(x)) = Cardinality(T) + 1
    <3> HIDE DEF T
    <3> QED BY <2>2, <2>3, <2>4, FS_AddElement
  <2> QED BY <1>2, <2>5 DEF Rank
<1>6. ASSUME NEW x \in S, NEW j \in 1..n, UpTo(S, j) = UpTo(S, x), ~(x <= j) PROVE FALSE
  <2> DEFINE T == {w \in S : w < x}
  <2>1. x \in Int /\ j < x /\ \A w \in S : w \in Int  BY <1>1, <1>6
  <2>2. Upto(j) \in SUBSET T
    <3>1. \A w \in S : w <= j => w < x  BY <2>1
    <3> QED BY <3>1
  <2>3. IsFiniteSet(T)  BY <1>1, FS_Subset
  <2>4. Cardinality(Upto(j)) <= Cardinality(T) /\ Cardinality(T) \in Nat
    <3> HIDE DEF T, Upto
    <3> QED BY <2>2, <2>3, FS_Subset, FS_CardinalityType
  <2>5. UpTo(S, x) = Cardinality(T) + 1  BY <1>5 DEF Rank
  <2>6. UpTo(S, j) \in Int /\ UpTo(S, j) <= Cardinality(T)  BY <1>2, <1>3, <2>4
  <2> QED BY <1>6, <2>4, <2>5, <2>6
<1> QED BY <1>3, <1>4, <1>5, <1>6

LEMMA FundamentalRuns ==
  ASSUME NEW n \in Nat, NEW R, NEW parent_, NEW counts_, Shaped(n, R, parent_, counts_)
  PROVE  Founded(n, parent_, counts_, Ident(parent_, counts_), Fundamental(parent_, counts_))
<1> DEFINE S == Starts(parent_, counts_)
           id == Ident(parent_, counts_)
           f == Fundamental(parent_, counts_)
           m == Cardinality(S)
           Block(s) == {j \in 1..n : id[j] = s}
<1>1. DOMAIN parent_ = 1..n  BY DEF Shaped
<1>2. S \in SUBSET (1..n) /\ (n > 0 => 1 \in S)  BY <1>1 DEF Starts
<1>3. id = [j \in 1..n |-> UpTo(S, j)]  BY <1>1 DEF Ident
<1>4. /\ f.start = Ascending(S)
      /\ f.ncol = [s \in DOMAIN Ascending(S) |-> Cardinality(Block(s))]
      /\ f.parent = [s \in DOMAIN Ascending(S) |->
           IF parent_[Ascending(S)[s] + Cardinality(Block(s)) - 1] = NONE THEN NONE
           ELSE id[parent_[Ascending(S)[s] + Cardinality(Block(s)) - 1]]]
  <2> DEFINE Within(s) == {j \in DOMAIN parent_ : id[j] = s}
  <2>1. f = [start |-> Ascending(S), ncol |-> [s \in DOMAIN Ascending(S) |-> Cardinality(Within(s))],
             parent |-> [s \in DOMAIN Ascending(S) |->
               IF parent_[Ascending(S)[s] + [t \in DOMAIN Ascending(S) |-> Cardinality(Within(t))][s] - 1] = NONE THEN NONE
               ELSE id[parent_[Ascending(S)[s] + [t \in DOMAIN Ascending(S) |-> Cardinality(Within(t))][s] - 1]]]]
    BY Zenon DEF Fundamental, Ident, Starts, UpTo
  <2>2. \A s : Within(s) = Block(s)  BY <1>1
  <2> HIDE DEF S, id, f, Within, Block
  <2> QED BY <2>1, <2>2
<1> HIDE DEF S, id, f
<1>5. /\ id \in [1..n -> 1..m]
      /\ \A x, w \in 1..n : x <= w => id[x] <= id[w]
      /\ \A x \in S : id[x] = Rank(S, x) + 1
      /\ \A x \in S : \A j \in 1..n : id[j] = id[x] => x <= j
  <2>1. \A j \in 1..n : UpTo(S, j) \in 1..m  BY <1>2, Numbered
  <2>2. \A x, w \in 1..n : x <= w => UpTo(S, x) <= UpTo(S, w)  BY <1>2, Numbered
  <2>3. \A x \in S : UpTo(S, x) = Rank(S, x) + 1  BY <1>2, Numbered
  <2>4. \A x \in S : \A j \in 1..n : UpTo(S, j) = UpTo(S, x) => x <= j  BY <1>2, Numbered
  <2>5. \A j \in 1..n : id[j] = UpTo(S, j)  BY <1>3
  <2>6. id \in [1..n -> 1..m]  BY <1>3, <2>1
  <2> QED BY <1>2, <2>2, <2>3, <2>4, <2>5, <2>6
<1>6. /\ DOMAIN f.start = 1..m /\ m \in Nat /\ DOMAIN f.ncol = 1..m /\ DOMAIN f.parent = 1..m
      /\ \A s \in 1..m : f.ncol[s] = Cardinality(Block(s))
      /\ \A s \in 1..m : f.start[s] \in S /\ Rank(S, f.start[s]) = s - 1
      /\ ToSet(f.start) = S
  <2>1. /\ DOMAIN Ascending(S) = 1..m /\ m \in Nat
        /\ \A k \in 1..m : Ascending(S)[k] \in S /\ Rank(S, Ascending(S)[k]) = k - 1
        /\ ToSet(Ascending(S)) = S
    BY <1>2, AscendingList
  <2> QED BY <1>4, <2>1
<1>7. ASSUME NEW s \in 1..m PROVE id[f.start[s]] = s /\ f.start[s] \in Block(s)
  <2>1. f.start[s] \in S /\ f.start[s] \in 1..n /\ Rank(S, f.start[s]) = s - 1  BY <1>2, <1>6
  <2>2. id[f.start[s]] = s - 1 + 1 /\ s \in Int  BY <1>5, <2>1
  <2> QED BY <2>1, <2>2
<1>8. ASSUME NEW s \in 1..m
      PROVE  Block(s) = f.start[s]..f.start[s] + f.ncol[s] - 1
  <2>1. Block(s) \in SUBSET (1..n)  OBVIOUS
  <2>2. \A x \in Block(s) : f.start[s] <= x  BY <1>5, <1>6, <1>7
  <2>3. ASSUME NEW x \in Block(s), NEW w \in Block(s), NEW z \in 1..n, x <= z, z <= w PROVE z \in Block(s)
    <3>1. s <= id[z] /\ id[z] <= s /\ id[z] \in Int /\ s \in Int  BY <1>5, <2>3
    <3> QED BY <3>1
  <2>4. Block(s) = f.start[s]..f.start[s] + Cardinality(Block(s)) - 1
    <3> HIDE DEF Block
    <3> QED BY <1>7, <2>1, <2>2, <2>3, NoGaps
  <2> QED BY <1>6, <2>4
<1>9. ASSUME NEW s \in 1..m
      PROVE  f.ncol[s] \in Nat /\ f.ncol[s] >= 1 /\ f.start[s] + f.ncol[s] - 1 \in Block(s)
  <2>1. Block(s) \in SUBSET (1..n)  OBVIOUS
  <2>2. IsFiniteSet(Block(s)) /\ Cardinality(Block(s)) \in Nat  BY <2>1, FiniteNumbers
  <2>3. Block(s) # {}  BY <1>7
  <2>4. Cardinality(Block(s)) # 0
    <3> HIDE DEF Block
    <3> QED BY <2>2, <2>3, FS_EmptySet
  <2>5. f.ncol[s] \in Nat /\ f.ncol[s] >= 1  BY <1>6, <2>2, <2>4
  <2>6. f.start[s] \in S /\ f.start[s] \in 1..n  BY <1>2, <1>6
  <2> QED BY <1>8, <2>5, <2>6
<1>10. ASSUME NEW s \in 1..m, NEW j \in f.start[s] + 1..f.start[s] + f.ncol[s] - 1
       PROVE  parent_[j - 1] = j /\ counts_[j] + 1 = counts_[j - 1]
  <2>1. f.start[s] \in 1..n /\ f.ncol[s] \in Nat  BY <1>2, <1>6, <1>9
  <2>2. j \in Block(s) /\ f.start[s] < j  BY <1>8, <2>1
  <2>3. j \notin S
    <3>1. SUFFICES ASSUME j \in S PROVE FALSE  OBVIOUS
    <3>2. id[f.start[s]] = id[j] /\ f.start[s] \in 1..n  BY <1>7, <2>1, <2>2
    <3>3. j <= f.start[s]  BY <1>5, <3>1, <3>2
    <3> QED BY <2>1, <2>2, <3>3
  <2>4. Extends(parent_, counts_, j)  BY <1>1, <2>2, <2>3 DEF Starts, S
  <2> QED BY <2>4 DEF Extends
<1>11. ASSUME NEW s \in 1..m
       PROVE  LET up == parent_[f.start[s] + f.ncol[s] - 1] IN
              IF up = 0 THEN f.parent[s] = 0
              ELSE f.parent[s] = id[up] /\ s < id[up] /\ id[up] \in 1..m
  <2> DEFINE last == f.start[s] + f.ncol[s] - 1
             up == parent_[last]
  <2>1. last \in 1..n /\ id[last] = s  BY <1>9
  <2>2. f.parent[s] = IF up = 0 THEN 0 ELSE id[up]  BY <1>4, <1>6 DEF NONE
  <2>3. ASSUME up # 0 PROVE s < id[up] /\ id[up] \in 1..m
    <3>1. up \in 1..n /\ last < up  BY <2>1, <2>3 DEF Shaped
    <3>2. id[up] \in 1..m /\ s <= id[up]  BY <1>5, <2>1, <3>1
    <3>3. id[up] # s
      <4>1. SUFFICES ASSUME up \in Block(s) PROVE FALSE  BY <3>1
      <4>2. up <= last  BY <1>8, <4>1
      <4> QED BY <2>1, <3>1, <4>2
    <3> QED BY <3>2, <3>3
  <2> QED BY <2>2, <2>3
<1>12. f.start \in [1..m -> 1..n] /\ f.ncol \in [1..m -> Nat] /\ f.parent \in [1..m -> {0} \cup 1..m]
  <2>0. DOMAIN Ascending(S) = 1..m  BY <1>2, AscendingList
  <2>1. f.start = [s \in 1..m |-> f.start[s]] /\ f.ncol = [s \in 1..m |-> f.ncol[s]] /\ f.parent = [s \in 1..m |-> f.parent[s]]
    <3>1. Ascending(S) \in [1..m -> S]  BY <1>2, AscendingList
    <3> QED BY <1>4, <2>0, <3>1
  <2>2. \A s \in 1..m : f.start[s] \in 1..n /\ f.ncol[s] \in Nat /\ f.parent[s] \in {0} \cup 1..m
    BY <1>2, <1>6, <1>9, <1>11
  <2> QED BY <2>1, <2>2
<1>13. Founded(n, parent_, counts_, id, f)
  <2>1. \A s \in 1..m : f.ncol[s] >= 1 /\ f.start[s] + f.ncol[s] - 1 \in 1..n  BY <1>9
  <2>2. \A s \in 1..m : \A j \in 1..n : id[j] = s <=> j \in f.start[s]..f.start[s] + f.ncol[s] - 1  BY <1>8
  <2> QED BY <1>5, <1>6, <1>10, <1>11, <1>12, <2>1, <2>2 DEF Founded
<1> QED BY <1>13 DEF id, f
-----------------------------------------------------------------------------
(***************************************************************************)
(* The groups while they are merged.  A group is what its supernodes were  *)
(* merged into; it ends where its last fundamental supernode ends, and the *)
(* rows its columns have are its columns and the last one's rows.          *)
(***************************************************************************)
Linked(S, into) ==
  /\ into \in [S -> {0} \cup S] /\ \A s \in S : into[s] # 0 => s < into[s]

Run(m, g) == m.first[g]..m.first[g] + m.ncol[g] - 1
LastOf(m, g) == m.first[g] + m.ncol[g] - 1

Located(n, id, f, m) ==
  /\ Linked(DOMAIN f.start, m.into)
  /\ m.first \in [DOMAIN f.start -> 1..n] /\ m.ncol \in [DOMAIN f.start -> Nat]
  /\ m.nrow \in [DOMAIN f.start -> Nat]
  /\ \A g \in DOMAIN f.start : m.into[g] = 0 =>
       /\ m.ncol[g] >= 1 /\ m.first[g] + m.ncol[g] = f.start[g] + f.ncol[g]
       /\ \A c \in Run(m, g) : c \in 1..n
       /\ \A c \in 1..n : c \in Run(m, g) <=> FindRoot(m.into, id[c]) = g

Tall(R, counts_, f, m) ==
  \A g \in DOMAIN f.start : m.into[g] = 0 =>
    /\ \A c \in Run(m, g) : R[c] \subseteq Run(m, g) \cup R[LastOf(m, g)]
    /\ m.nrow[g] = m.ncol[g] + counts_[LastOf(m, g)] - 1

Capped(settings_, f, m) ==
  settings_.rootCap # NONE =>
    \A g \in DOMAIN f.start : m.into[g] = 0 /\ f.parent[g] = NONE /\ m.ncol[g] > settings_.rootCap =>
      m.ncol[g] = f.ncol[g]

Tight(settings_, counts_, f, m) ==
  settings_.nemin = 1 /\ settings_.relaxWidth = NONE =>
    \A g \in DOMAIN f.start : m.into[g] = 0 =>
      \A c \in Run(m, g) : counts_[c] = m.nrow[g] - (c - m.first[g])

Merged(n, R, counts_, settings_, id, f, m) ==
  /\ Located(n, id, f, m) /\ Tall(R, counts_, f, m)
  /\ Capped(settings_, f, m) /\ Tight(settings_, counts_, f, m)

IsRoots(into, root) ==
  root = [t \in DOMAIN into |-> IF into[t] = NONE THEN t ELSE root[into[t]]]

LEMMA RootsExist ==
  ASSUME NEW k \in Nat, NEW into, Linked(1..k, into)
  PROVE  \E root : IsRoots(into, root)
<1> DEFINE Top(d) == {t \in 1..k : t > k - d}
           Rooted(d, root) == root = [t \in Top(d) |-> IF into[t] = NONE THEN t ELSE root[into[t]]]
           Lacking == {d \in 0..k : ~ \E root : Rooted(d, root)}
<1>1. DOMAIN into = 1..k /\ \A t \in 1..k : into[t] = 0 \/ (into[t] \in 1..k /\ t < into[t])  BY DEF Linked
<1>2. Lacking = {}
  <2> SUFFICES ASSUME Lacking # {} PROVE FALSE  OBVIOUS
  <2>1. PICK d \in Lacking : \A e \in Lacking : d <= e
    <3>1. Lacking \in SUBSET Nat  OBVIOUS
    <3> HIDE DEF Lacking
    <3> QED BY <3>1, LeastNumber
  <2>2. d \in 0..k /\ ~ \E root : Rooted(d, root)  OBVIOUS
  <2>3. CASE d = 0
    <3> DEFINE root == [t \in Top(0) |-> t]
    <3>1. Top(0) = {}  OBVIOUS
    <3>2. Rooted(0, root)  BY <3>1
    <3> QED BY <2>2, <2>3, <3>2
  <2>4. CASE d # 0
    <3>0. d - 1 \in 0..k /\ ~(d <= d - 1)  BY <2>2, <2>4
    <3>1. d - 1 \in 0..k /\ d - 1 \notin Lacking
      <4> HIDE DEF Lacking
      <4> QED BY <2>1, <3>0
    <3>2. PICK g : Rooted(d - 1, g)  BY <3>1
    <3> DEFINE root == [t \in Top(d) |-> IF into[t] = NONE THEN t ELSE g[into[t]]]
    <3>3. ASSUME NEW t \in Top(d), into[t] # NONE PROVE g[into[t]] = root[into[t]]
      <4>1. into[t] \in Top(d - 1) /\ into[t] \in Top(d)  BY <1>1, <2>2, <3>3 DEF NONE
      <4>2. g[into[t]] = IF into[into[t]] = NONE THEN into[t] ELSE g[into[into[t]]]  BY <3>2, <4>1
      <4> QED BY <4>1, <4>2
    <3>4. Rooted(d, root)
      <4>1. \A t \in Top(d) : root[t] = IF into[t] = NONE THEN t ELSE root[into[t]]  BY <3>3
      <4>2. root = [t \in Top(d) |-> root[t]]  OBVIOUS
      <4> HIDE DEF root, Top
      <4> QED BY <4>1, <4>2
    <3> QED BY <2>2, <3>4
  <2> QED BY <2>3, <2>4
<1>3. k \in 0..k /\ k \notin Lacking
  <2>1. k \in 0..k  OBVIOUS
  <2> HIDE DEF Lacking
  <2> QED BY <1>2, <2>1
<1>4. PICK root : Rooted(k, root)
  <2> HIDE DEF Rooted
  <2> QED BY <1>3
<1>5. Top(k) = DOMAIN into  BY <1>1
<1> QED BY <1>4, <1>5 DEF IsRoots

LEMMA RootStep ==
  ASSUME NEW k \in Nat, NEW into, Linked(1..k, into), NEW t \in 1..k
  PROVE  FindRoot(into, t) = IF into[t] = 0 THEN t ELSE FindRoot(into, into[t])
<1> DEFINE root == CHOOSE g : IsRoots(into, g)
<1>1. \A s : FindRoot(into, s) = root[s]  BY DEF FindRoot, IsRoots
<1>2. IsRoots(into, root)  BY RootsExist
<1>3. DOMAIN into = 1..k  BY DEF Linked
<1> HIDE DEF root
<1>4. root[t] = IF into[t] = 0 THEN t ELSE root[into[t]]  BY <1>2, <1>3 DEF IsRoots, NONE
<1> QED BY <1>1, <1>4

LEMMA Roots ==
  ASSUME NEW k \in Nat, NEW into, Linked(1..k, into)
  PROVE  \A t \in 1..k : FindRoot(into, t) \in 1..k /\ into[FindRoot(into, t)] = 0 /\ t <= FindRoot(into, t)
<1> DEFINE Ok(t) == FindRoot(into, t) \in 1..k /\ into[FindRoot(into, t)] = 0 /\ t <= FindRoot(into, t)
           Bad == {t \in 1..k : ~Ok(t)}
<1> SUFFICES ASSUME Bad # {} PROVE FALSE  OBVIOUS
<1>1. PICK t \in Bad : \A u \in Bad : u <= t
  <2>1. Bad \in SUBSET (1..k)  OBVIOUS
  <2> HIDE DEF Bad
  <2> QED BY <2>1, GreatestNumber
<1>2. t \in 1..k /\ ~Ok(t)  OBVIOUS
<1>3. FindRoot(into, t) = IF into[t] = 0 THEN t ELSE FindRoot(into, into[t])  BY <1>2, RootStep
<1>4. into[t] = 0 \/ (into[t] \in 1..k /\ t < into[t])  BY <1>2 DEF Linked
<1>5. CASE into[t] = 0  BY <1>2, <1>3, <1>5
<1>6. CASE into[t] # 0
  <2>1. into[t] \in 1..k /\ t < into[t] /\ into[t] \notin Bad  BY <1>1, <1>4, <1>6
  <2>2. Ok(into[t])  BY <2>1
  <2> QED BY <1>2, <1>3, <1>6, <2>1, <2>2
<1> QED BY <1>5, <1>6

\* Where t ends up once root s hangs below p.
Moved(into, s, p, t) == IF FindRoot(into, t) = s THEN p ELSE FindRoot(into, t)

LEMMA RootAfter ==
  ASSUME NEW k \in Nat, NEW into, Linked(1..k, into), NEW s \in 1..k, NEW p \in 1..k, s < p,
         into[s] = 0, into[p] = 0, NEW after, Linked(1..k, after),
         \A t \in 1..k : after[t] = IF t = s THEN p ELSE into[t]
  PROVE  \A t \in 1..k : FindRoot(after, t) = Moved(into, s, p, t)
<1>1. Linked(1..k, after) /\ \A t \in 1..k : after[t] = IF t = s THEN p ELSE into[t]  OBVIOUS
<1> DEFINE Bad == {t \in 1..k : FindRoot(after, t) # Moved(into, s, p, t)}
<1>2. SUFFICES ASSUME Bad # {} PROVE FALSE  BY <1>1
<1>3. PICK t \in Bad : \A u \in Bad : u <= t
  <2>1. Bad \in SUBSET (1..k)  OBVIOUS
  <2> HIDE DEF Bad
  <2> QED BY <1>2, <2>1, GreatestNumber
<1>4. t \in 1..k /\ FindRoot(after, t) # Moved(into, s, p, t)  OBVIOUS
<1>5. FindRoot(into, t) = IF into[t] = 0 THEN t ELSE FindRoot(into, into[t])  BY <1>4, RootStep
<1>6. FindRoot(after, t) = IF after[t] = 0 THEN t ELSE FindRoot(after, after[t])  BY <1>1, <1>4, RootStep
<1>7. CASE t = s
  <2>1. FindRoot(after, p) = p
    <3>1. after[p] = 0  BY <1>1
    <3> QED BY <1>1, <3>1, RootStep
  <2>2. after[t] = p /\ p # 0  BY <1>1, <1>7
  <2> QED BY <1>4, <1>5, <1>6, <1>7, <2>1, <2>2 DEF Moved
<1>8. CASE t # s /\ into[t] = 0
  BY <1>1, <1>4, <1>5, <1>6, <1>8 DEF Moved
<1>9. CASE t # s /\ into[t] # 0
  <2>1. into[t] \in 1..k /\ t < into[t]  BY <1>4, <1>9 DEF Linked
  <2>2. into[t] \notin Bad
    <3>1. ~(into[t] <= t)  BY <1>4, <2>1
    <3> HIDE DEF Bad
    <3> QED BY <1>3, <3>1
  <2>3. FindRoot(after, into[t]) = Moved(into, s, p, into[t])  BY <2>1, <2>2
  <2> QED BY <1>1, <1>4, <1>5, <1>6, <1>9, <2>1, <2>3 DEF Moved
<1> QED BY <1>7, <1>8, <1>9

-----------------------------------------------------------------------------
(***************************************************************************)
(* Where merging starts: every fundamental supernode is a group.           *)
(***************************************************************************)
LEMMA MaxOfTwo ==
  ASSUME NEW a \in Int, NEW b \in Int, b <= a
  PROVE  Max({a, b}) = a
<1>1. \A w \in {a, b} : a >= w  OBVIOUS
<1>2. \A x \in {a, b} : (\A w \in {a, b} : x >= w) => x = a  OBVIOUS
<1> QED BY <1>1, <1>2 DEF Max

\* In a fundamental supernode the rows and the counts go down by one.
LEMMA Chain ==
  ASSUME NEW n \in Nat, NEW R, NEW parent_, NEW counts_, NEW id, NEW f, Shaped(n, R, parent_, counts_),
         Founded(n, parent_, counts_, id, f), NEW s \in DOMAIN f.start,
         NEW last, last = f.start[s] + f.ncol[s] - 1
  PROVE  \A c \in f.start[s]..last :
           R[c] \subseteq f.start[s]..last \cup R[last] /\ counts_[c] = counts_[last] + last - c
<1> DEFINE Ok(c) == R[c] \subseteq f.start[s]..last \cup R[last] /\ counts_[c] = counts_[last] + last - c
           Bad == {c \in f.start[s]..last : ~Ok(c)}
<1>1. f.start[s] \in 1..n /\ last \in 1..n /\ f.ncol[s] \in Nat  BY DEF Founded
<1>2. counts_ \in [1..n -> Nat]  BY DEF Shaped
<1> SUFFICES ASSUME Bad # {} PROVE FALSE  OBVIOUS
<1>3. PICK c \in Bad : \A d \in Bad : d <= c
  <2>1. Bad \in SUBSET (1..n)  BY <1>1
  <2> HIDE DEF Bad
  <2> QED BY <2>1, GreatestNumber
<1>4. c \in f.start[s]..last /\ c \in 1..n /\ ~Ok(c)  BY <1>1
<1>5. c # last
  <2>1. Ok(last)  BY <1>1, <1>2
  <2> QED BY <1>4, <2>1
<1>6. c + 1 \in f.start[s] + 1..last /\ c + 1 \in f.start[s]..last /\ c + 1 \in 1..n /\ ~(c + 1 <= c) /\ c + 1 - 1 = c
  BY <1>1, <1>4, <1>5
<1>7. Ok(c + 1)
  <2>1. c + 1 \notin Bad
    <3> HIDE DEF Bad
    <3> QED BY <1>3, <1>6
  <2> QED BY <1>6, <2>1
<1>8. parent_[c] = c + 1 /\ counts_[c + 1] + 1 = counts_[c]
  <2> DEFINE d == c + 1
  <2>0. d \in f.start[s] + 1..f.start[s] + f.ncol[s] - 1  BY <1>6
  <2> HIDE DEF d
  <2>1. parent_[d - 1] = d /\ counts_[d] + 1 = counts_[d - 1]  BY <2>0 DEF Founded
  <2> USE DEF d
  <2> QED BY <1>6, <2>1
<1>9. R[c] \subseteq {c + 1} \cup R[c + 1]  BY <1>4, <1>8 DEF Shaped
<1>10. R[c] \subseteq f.start[s]..last \cup R[last]  BY <1>6, <1>7, <1>9
<1>11. counts_[c] = counts_[last] + last - c
  <2>1. counts_[c + 1] = counts_[last] + last - (c + 1)  BY <1>7
  <2>2. counts_[last] \in Int /\ counts_[c] \in Int /\ counts_[c + 1] \in Int /\ last \in Int /\ c \in Int
    BY <1>1, <1>2, <1>4, <1>6
  <2> QED BY <1>8, <2>1, <2>2
<1> QED BY <1>4, <1>10, <1>11

LEMMA StartMerged ==
  ASSUME NEW n \in Nat, NEW R, NEW parent_, NEW counts_, NEW settings_, NEW id, NEW f,
         Shaped(n, R, parent_, counts_), Founded(n, parent_, counts_, id, f)
  PROVE  Merged(n, R, counts_, settings_, id, f, StartMerging(f, counts_))
<1> DEFINE m == StartMerging(f, counts_)
           S == DOMAIN f.start
<1>1. PICK k \in Nat : S = 1..k  BY DEF Founded
<1>2. /\ m.into = [s \in S |-> 0] /\ m.first = f.start /\ m.ncol = f.ncol
      /\ m.nrow = [s \in S |-> Max({counts_[f.start[s]], f.ncol[s]})]
  BY DEF StartMerging, NONE
<1> HIDE DEF m
<1>3. Linked(S, m.into)  BY <1>2 DEF Linked
<1>4. \A t \in S : FindRoot(m.into, t) = t
  <2> TAKE t \in S
  <2>1. m.into[t] = 0  BY <1>2
  <2> QED BY <1>1, <1>3, <2>1, RootStep
<1>5. ASSUME NEW s \in S
      PROVE  LET last == f.start[s] + f.ncol[s] - 1 IN
             /\ f.start[s] \in 1..n /\ f.ncol[s] \in Nat /\ f.ncol[s] >= 1 /\ last \in 1..n
             /\ counts_[last] \in Nat /\ counts_[last] >= 1 /\ counts_[f.start[s]] = counts_[last] + f.ncol[s] - 1
             /\ m.nrow[s] = counts_[f.start[s]]
  <2> DEFINE last == f.start[s] + f.ncol[s] - 1
  <2>1. f.start[s] \in 1..n /\ f.ncol[s] \in Nat /\ f.ncol[s] >= 1 /\ last \in 1..n  BY DEF Founded
  <2>2. counts_[last] \in Nat /\ counts_[f.start[s]] \in Nat  BY <2>1 DEF Shaped
  <2>3. counts_[last] >= 1
    <3>1. R[last] \in SUBSET (1..n) /\ counts_[last] = 1 + Cardinality(R[last])  BY <2>1 DEF Shaped
    <3>2. Cardinality(R[last]) \in Nat  BY <3>1, FiniteNumbers
    <3> QED BY <3>1, <3>2
  <2>4. f.start[s] \in f.start[s]..last  BY <2>1
  <2>5. counts_[f.start[s]] = counts_[last] + last - f.start[s]  BY <2>4, Chain
  <2>6. counts_[f.start[s]] = counts_[last] + f.ncol[s] - 1  BY <2>1, <2>2, <2>5
  <2>7. m.nrow[s] = counts_[f.start[s]]
    <3>1. f.ncol[s] <= counts_[f.start[s]]  BY <2>1, <2>2, <2>3, <2>6
    <3> QED BY <1>2, <2>1, <2>2, <3>1, MaxOfTwo
  <2> QED BY <2>1, <2>2, <2>3, <2>6, <2>7
<1>6. Located(n, id, f, m)
  <2>1. m.first \in [S -> 1..n] /\ m.ncol \in [S -> Nat]  BY <1>2 DEF Founded
  <2>2. m.nrow \in [S -> Nat]
    <3>1. ASSUME NEW t \in S PROVE m.nrow[t] \in Nat
      <4>1. m.nrow[t] = counts_[f.start[t]] /\ f.start[t] \in 1..n  BY <1>5
      <4> QED BY <4>1 DEF Shaped
    <3> QED BY <1>2, <3>1
  <2>3. ASSUME NEW g \in S
        PROVE  /\ m.ncol[g] >= 1 /\ m.first[g] + m.ncol[g] = f.start[g] + f.ncol[g]
               /\ \A c \in Run(m, g) : c \in 1..n
               /\ \A c \in 1..n : c \in Run(m, g) <=> FindRoot(m.into, id[c]) = g
    <3>1. m.first[g] = f.start[g] /\ m.ncol[g] = f.ncol[g]  BY <1>2
    <3>2. Run(m, g) = f.start[g]..f.start[g] + f.ncol[g] - 1  BY <3>1 DEF Run
    <3>3. \A c \in 1..n : id[c] \in S /\ (c \in Run(m, g) <=> id[c] = g)  BY <3>2 DEF Founded
    <3>4. \A c \in 1..n : c \in Run(m, g) <=> FindRoot(m.into, id[c]) = g  BY <1>4, <3>3
    <3>5. \A c \in Run(m, g) : c \in 1..n  BY <1>5, <3>2
    <3> QED BY <1>5, <3>1, <3>4, <3>5
  <2> QED BY <1>3, <2>1, <2>2, <2>3 DEF Located
<1>7. ASSUME NEW g \in S
      PROVE  /\ \A c \in Run(m, g) : R[c] \subseteq Run(m, g) \cup R[LastOf(m, g)]
             /\ m.nrow[g] = m.ncol[g] + counts_[LastOf(m, g)] - 1
             /\ \A c \in Run(m, g) : counts_[c] = m.nrow[g] - (c - m.first[g])
  <2> DEFINE last == f.start[g] + f.ncol[g] - 1
  <2>1. m.first[g] = f.start[g] /\ m.ncol[g] = f.ncol[g]  BY <1>2
  <2>2. Run(m, g) = f.start[g]..last /\ LastOf(m, g) = last  BY <2>1 DEF Run, LastOf
  <2>3. /\ f.start[g] \in 1..n /\ f.ncol[g] \in Nat /\ last \in 1..n /\ counts_[last] \in Nat
        /\ m.nrow[g] = counts_[last] + f.ncol[g] - 1
    BY <1>5
  <2>4. \A c \in f.start[g]..last :
          R[c] \subseteq f.start[g]..last \cup R[last] /\ counts_[c] = counts_[last] + last - c
    <3> HIDE DEF last
    <3> QED BY Chain DEF last
  <2>5. m.nrow[g] = m.ncol[g] + counts_[LastOf(m, g)] - 1  BY <2>1, <2>2, <2>3
  <2>6. ASSUME NEW c \in Run(m, g) PROVE counts_[c] = m.nrow[g] - (c - m.first[g])
    <3>1. counts_[c] = counts_[last] + last - c /\ c \in Int  BY <2>2, <2>4, <2>6
    <3> QED BY <2>1, <2>3, <3>1
  <2> QED BY <2>2, <2>4, <2>5, <2>6
<1>8. Tall(R, counts_, f, m) /\ Tight(settings_, counts_, f, m)  BY <1>7 DEF Tall, Tight
<1>9. Capped(settings_, f, m)  BY <1>2 DEF Capped
<1>10. Merged(n, R, counts_, settings_, id, f, m)  BY <1>6, <1>8, <1>9 DEF Merged
<1> QED BY <1>10 DEF m
-----------------------------------------------------------------------------
(***************************************************************************)
(* One merge: the group s joins the group p that follows it.               *)
(***************************************************************************)
MergeContext(n, R, parent_, counts_, settings_, id, f, m) ==
  /\ n \in Nat /\ Shaped(n, R, parent_, counts_) /\ Founded(n, parent_, counts_, id, f)
  /\ Merged(n, R, counts_, settings_, id, f, m)

\* What a group is, with its types.
LEMMA GroupFacts ==
  ASSUME NEW n, NEW R, NEW parent_, NEW counts_, NEW settings_, NEW id, NEW f, NEW m,
         MergeContext(n, R, parent_, counts_, settings_, id, f, m),
         NEW g \in DOMAIN f.start, m.into[g] = 0
  PROVE  /\ m.first[g] \in 1..n /\ m.ncol[g] \in Nat /\ m.ncol[g] >= 1 /\ m.nrow[g] \in Nat
         /\ LastOf(m, g) \in 1..n /\ LastOf(m, g) \in Run(m, g) /\ LastOf(m, g) = f.start[g] + f.ncol[g] - 1
         /\ counts_[LastOf(m, g)] \in Nat /\ n \in Nat
<1>1. m.first[g] \in 1..n /\ m.ncol[g] \in Nat /\ m.ncol[g] >= 1 /\ m.nrow[g] \in Nat /\ n \in Nat
  BY DEF MergeContext, Merged, Located
<1>2. LastOf(m, g) \in Run(m, g)  BY <1>1 DEF LastOf, Run
<1>3. LastOf(m, g) \in 1..n  BY <1>2 DEF MergeContext, Merged, Located
<1>4. f.start[g] \in 1..n /\ f.ncol[g] \in Nat /\ m.first[g] + m.ncol[g] = f.start[g] + f.ncol[g]
  BY DEF MergeContext, Merged, Located, Founded
<1>5. LastOf(m, g) = f.start[g] + f.ncol[g] - 1  BY <1>1, <1>4 DEF LastOf
<1>6. counts_[LastOf(m, g)] \in Nat  BY <1>3 DEF MergeContext, Shaped
<1> QED BY <1>1, <1>2, <1>3, <1>5, <1>6

\* The parent of a group's last column is in the group of its parent.
LEMMA ParentGroup ==
  ASSUME NEW n, NEW R, NEW parent_, NEW counts_, NEW settings_, NEW id, NEW f, NEW m,
         MergeContext(n, R, parent_, counts_, settings_, id, f, m),
         NEW g \in DOMAIN f.start, m.into[g] = 0
  PROVE  /\ f.parent[g] = 0 <=> R[LastOf(m, g)] = {}
         /\ f.parent[g] # 0 =>
              /\ FindRoot(m.into, f.parent[g]) \in DOMAIN f.start
              /\ m.into[FindRoot(m.into, f.parent[g])] = 0 /\ g < FindRoot(m.into, f.parent[g])
              /\ R[LastOf(m, g)] \subseteq Run(m, FindRoot(m.into, f.parent[g]))
                                             \cup R[LastOf(m, FindRoot(m.into, f.parent[g]))]
<1> DEFINE last == LastOf(m, g)
           p == FindRoot(m.into, f.parent[g])
<1>1. last \in 1..n /\ last = f.start[g] + f.ncol[g] - 1  BY GroupFacts
<1>2. IF parent_[last] = 0 THEN f.parent[g] = 0
      ELSE f.parent[g] = id[parent_[last]] /\ g < f.parent[g]
  <2>1. IF parent_[f.start[g] + f.ncol[g] - 1] = 0 THEN f.parent[g] = 0
        ELSE f.parent[g] = id[parent_[f.start[g] + f.ncol[g] - 1]] /\ g < f.parent[g]
    BY DEF MergeContext, Founded
  <2> HIDE DEF last
  <2> QED BY <1>1, <2>1
<1>3. f.parent[g] \in {0} \cup DOMAIN f.start /\ \E k \in Nat : DOMAIN f.start = 1..k
  BY DEF MergeContext, Founded
<1>4. /\ parent_[last] \in 0..n /\ (R[last] = {} => parent_[last] = 0)
      /\ R[last] # {} => parent_[last] \in R[last] /\ R[last] \subseteq {parent_[last]} \cup R[parent_[last]]
      /\ \A i \in R[last] : last < i
  BY <1>1 DEF MergeContext, Shaped
<1>5. R[last] # {} => parent_[last] # 0  BY <1>1, <1>4
<1>6. f.parent[g] = 0 <=> R[last] = {}  BY <1>1, <1>2, <1>3, <1>4, <1>5
<1>7. ASSUME f.parent[g] # 0
      PROVE  p \in DOMAIN f.start /\ m.into[p] = 0 /\ g < p /\ R[last] \subseteq Run(m, p) \cup R[LastOf(m, p)]
  <2>1. R[last] # {} /\ parent_[last] \in 1..n /\ parent_[last] # 0  BY <1>4, <1>5, <1>6, <1>7
  <2>2. f.parent[g] = id[parent_[last]] /\ g < f.parent[g]  BY <1>2, <2>1
  <2>3. PICK k \in Nat : DOMAIN f.start = 1..k  BY <1>3
  <2>4. f.parent[g] \in 1..k /\ Linked(1..k, m.into)
    BY <1>3, <1>7, <2>3 DEF MergeContext, Merged, Located
  <2>5. p \in 1..k /\ m.into[p] = 0 /\ f.parent[g] <= p  BY <2>4, Roots
  <2>6. g < p  BY <2>2, <2>3, <2>4, <2>5
  <2>7. parent_[last] \in Run(m, p)  BY <2>1, <2>2, <2>3, <2>5 DEF MergeContext, Merged, Located
  <2>8. R[parent_[last]] \subseteq Run(m, p) \cup R[LastOf(m, p)]
    BY <2>3, <2>5, <2>7 DEF MergeContext, Merged, Tall
  <2> QED BY <1>4, <2>1, <2>3, <2>5, <2>6, <2>7, <2>8
<1> QED BY <1>6, <1>7
\* What the group of s and p is once they are one.
LEMMA Joined ==
  ASSUME NEW n, NEW R, NEW parent_, NEW counts_, NEW settings_, NEW id, NEW f, NEW m,
         MergeContext(n, R, parent_, counts_, settings_, id, f, m),
         NEW s \in DOMAIN f.start, Joins(f, counts_, settings_, m, s),
         NEW p, p = FindRoot(m.into, f.parent[s]), NEW mm, mm = Absorb(m, s, p)
  PROVE  /\ m.into[s] = 0 /\ p \in DOMAIN f.start /\ m.into[p] = 0 /\ s < p /\ s # p
         /\ m.first[s] + m.ncol[s] = m.first[p]
         /\ Rules(counts_, settings_, m, s, p) # {} /\ ~CapExceeded(f, settings_, m, s, p)
         /\ R[LastOf(m, s)] \subseteq Run(m, p) \cup R[LastOf(m, p)]
         /\ Linked(DOMAIN f.start, mm.into)
         /\ \A t \in DOMAIN f.start : FindRoot(mm.into, t) = Moved(m.into, s, p, t)
         /\ \A g \in DOMAIN f.start : mm.into[g] = 0 => m.into[g] = 0 /\ g # s
         /\ \A g \in DOMAIN f.start : g # p =>
              mm.first[g] = m.first[g] /\ mm.ncol[g] = m.ncol[g] /\ mm.nrow[g] = m.nrow[g]
         /\ mm.first[p] = m.first[s] /\ mm.ncol[p] = m.ncol[p] + m.ncol[s] /\ mm.nrow[p] = m.nrow[p] + m.ncol[s]
         /\ DOMAIN mm.first = DOMAIN f.start /\ DOMAIN mm.ncol = DOMAIN f.start /\ DOMAIN mm.nrow = DOMAIN f.start
<1>1. /\ f.parent[s] # 0 /\ m.into[s] = 0 /\ m.first[s] + m.ncol[s] = m.first[p]
      /\ Rules(counts_, settings_, m, s, p) # {} /\ ~CapExceeded(f, settings_, m, s, p)
  BY DEF Joins, Adjacent, NONE
<1>2. p \in DOMAIN f.start /\ m.into[p] = 0 /\ s < p /\ R[LastOf(m, s)] \subseteq Run(m, p) \cup R[LastOf(m, p)]
  BY <1>1, ParentGroup
<1>3. PICK k \in Nat : DOMAIN f.start = 1..k  BY DEF MergeContext, Founded
<1>4. s \in 1..k /\ p \in 1..k /\ s # p  BY <1>2, <1>3
<1>5. Linked(1..k, m.into) /\ m.first \in [1..k -> 1..n] /\ m.ncol \in [1..k -> Nat] /\ m.nrow \in [1..k -> Nat]
  BY <1>3 DEF MergeContext, Merged, Located
<1>6. /\ mm.into = [m.into EXCEPT ![s] = p] /\ mm.first = [m.first EXCEPT ![p] = m.first[s]]
      /\ mm.ncol = [m.ncol EXCEPT ![p] = m.ncol[p] + m.ncol[s]]
      /\ mm.nrow = [m.nrow EXCEPT ![p] = m.nrow[p] + m.ncol[s]]
  BY DEF Absorb, AddsOwnColumns
<1>7. Linked(1..k, mm.into) /\ \A t \in 1..k : mm.into[t] = IF t = s THEN p ELSE m.into[t]
  <2>1. m.into \in [1..k -> {0} \cup 1..k] /\ \A t \in 1..k : m.into[t] # 0 => t < m.into[t]
    BY <1>5 DEF Linked
  <2>2. mm.into \in [1..k -> {0} \cup 1..k]  BY <1>4, <1>6, <2>1
  <2>3. \A t \in 1..k : mm.into[t] = IF t = s THEN p ELSE m.into[t]  BY <1>4, <1>6, <2>1
  <2>4. \A t \in 1..k : mm.into[t] # 0 => t < mm.into[t]  BY <1>2, <2>1, <2>3
  <2> QED BY <2>2, <2>3, <2>4 DEF Linked
<1>8. \A t \in 1..k : FindRoot(mm.into, t) = Moved(m.into, s, p, t)
  <2>1. /\ k \in Nat /\ Linked(1..k, m.into) /\ s \in 1..k /\ p \in 1..k /\ s < p
        /\ m.into[s] = 0 /\ m.into[p] = 0 /\ Linked(1..k, mm.into)
        /\ \A t \in 1..k : mm.into[t] = IF t = s THEN p ELSE m.into[t]
    BY <1>1, <1>2, <1>4, <1>5, <1>7
  <2> QED BY ONLY <2>1, RootAfter
<1>9. \A g \in 1..k : mm.into[g] = 0 => m.into[g] = 0 /\ g # s
  BY <1>4, <1>5, <1>6 DEF Linked
<1>10. \A g \in 1..k : g # p => mm.first[g] = m.first[g] /\ mm.ncol[g] = m.ncol[g] /\ mm.nrow[g] = m.nrow[g]
  BY <1>5, <1>6
<1>11. mm.first[p] = m.first[s] /\ mm.ncol[p] = m.ncol[p] + m.ncol[s] /\ mm.nrow[p] = m.nrow[p] + m.ncol[s]
  BY <1>4, <1>5, <1>6
<1>12. DOMAIN mm.first = 1..k /\ DOMAIN mm.ncol = 1..k /\ DOMAIN mm.nrow = 1..k
  BY <1>5, <1>6
<1> QED BY <1>1, <1>2, <1>3, <1>4, <1>7, <1>8, <1>9, <1>10, <1>11, <1>12

\* The columns of the joined group are those of both, and it ends where p did.
LEMMA JoinedRun ==
  ASSUME NEW n, NEW R, NEW parent_, NEW counts_, NEW settings_, NEW id, NEW f, NEW m,
         MergeContext(n, R, parent_, counts_, settings_, id, f, m),
         NEW s \in DOMAIN f.start, Joins(f, counts_, settings_, m, s),
         NEW p, p = FindRoot(m.into, f.parent[s]), NEW mm, mm = Absorb(m, s, p)
  PROVE  /\ Run(mm, p) = Run(m, s) \cup Run(m, p) /\ LastOf(mm, p) = LastOf(m, p)
         /\ LastOf(m, s) = m.first[p] - 1
         /\ \A g \in DOMAIN f.start : g # p => Run(mm, g) = Run(m, g) /\ LastOf(mm, g) = LastOf(m, g)
<1>1. /\ m.into[s] = 0 /\ p \in DOMAIN f.start /\ m.into[p] = 0 /\ m.first[s] + m.ncol[s] = m.first[p]
      /\ mm.first[p] = m.first[s] /\ mm.ncol[p] = m.ncol[p] + m.ncol[s]
  BY Joined
<1>2. m.first[s] \in 1..n /\ m.first[p] \in 1..n /\ m.ncol[s] \in Nat /\ m.ncol[p] \in Nat /\ n \in Nat
  BY <1>1, GroupFacts
<1>3. Run(mm, p) = Run(m, s) \cup Run(m, p)  BY <1>1, <1>2 DEF Run
<1>4. LastOf(mm, p) = LastOf(m, p) /\ LastOf(m, s) = m.first[p] - 1  BY <1>1, <1>2 DEF LastOf
<1>5. \A g \in DOMAIN f.start : g # p => mm.first[g] = m.first[g] /\ mm.ncol[g] = m.ncol[g]  BY Joined
<1>6. \A g \in DOMAIN f.start : g # p => Run(mm, g) = Run(m, g) /\ LastOf(mm, g) = LastOf(m, g)
  BY <1>5 DEF Run, LastOf
<1> QED BY <1>3, <1>4, <1>6

LEMMA JoinedLocated ==
  ASSUME NEW n, NEW R, NEW parent_, NEW counts_, NEW settings_, NEW id, NEW f, NEW m,
         MergeContext(n, R, parent_, counts_, settings_, id, f, m),
         NEW s \in DOMAIN f.start, Joins(f, counts_, settings_, m, s),
         NEW p, p = FindRoot(m.into, f.parent[s]), NEW mm, mm = Absorb(m, s, p)
  PROVE  Located(n, id, f, mm)
<1> DEFINE S == DOMAIN f.start
<1>1. /\ m.into[s] = 0 /\ p \in S /\ m.into[p] = 0 /\ s # p /\ Linked(S, mm.into)
      /\ m.first[s] + m.ncol[s] = m.first[p]
      /\ \A g \in S : mm.into[g] = 0 => m.into[g] = 0 /\ g # s
      /\ \A g \in S : g # p => mm.first[g] = m.first[g] /\ mm.ncol[g] = m.ncol[g] /\ mm.nrow[g] = m.nrow[g]
      /\ mm.first[p] = m.first[s] /\ mm.ncol[p] = m.ncol[p] + m.ncol[s] /\ mm.nrow[p] = m.nrow[p] + m.ncol[s]
  BY Joined
<1>2. Located(n, id, f, m)  BY DEF MergeContext, Merged
<1>3. /\ m.first[s] \in 1..n /\ m.ncol[s] \in Nat /\ m.ncol[s] >= 1
      /\ m.first[p] \in 1..n /\ m.ncol[p] \in Nat /\ m.ncol[p] >= 1 /\ m.nrow[p] \in Nat
  BY <1>1, GroupFacts
<1>4. mm.first \in [S -> 1..n] /\ mm.ncol \in [S -> Nat] /\ mm.nrow \in [S -> Nat]
  <2>1. DOMAIN mm.first = S /\ DOMAIN mm.ncol = S /\ DOMAIN mm.nrow = S  BY Joined
  <2>2. mm.first = [g \in S |-> mm.first[g]] /\ mm.ncol = [g \in S |-> mm.ncol[g]] /\ mm.nrow = [g \in S |-> mm.nrow[g]]
    BY <1>2, <2>1 DEF Absorb, Located
  <2>3. \A g \in S : mm.first[g] \in 1..n /\ mm.ncol[g] \in Nat /\ mm.nrow[g] \in Nat
    BY <1>1, <1>2, <1>3 DEF Located
  <2> HIDE DEF S
  <2> QED BY <2>2, <2>3
<1>5. ASSUME NEW g \in S, mm.into[g] = 0
      PROVE  /\ mm.ncol[g] >= 1 /\ mm.first[g] + mm.ncol[g] = f.start[g] + f.ncol[g]
             /\ \A c \in Run(mm, g) : c \in 1..n
             /\ \A c \in 1..n : c \in Run(mm, g) <=> FindRoot(mm.into, id[c]) = g
  <2>1. m.into[g] = 0 /\ g # s  BY <1>1, <1>5
  <2>2. /\ \A c \in 1..n : c \in Run(m, g) <=> FindRoot(m.into, id[c]) = g
        /\ \A c \in Run(m, g) : c \in 1..n
        /\ m.ncol[g] >= 1 /\ m.first[g] + m.ncol[g] = f.start[g] + f.ncol[g]
    BY <1>2, <2>1 DEF Located
  <2>3. ASSUME NEW c \in 1..n
        PROVE  FindRoot(mm.into, id[c]) = IF FindRoot(m.into, id[c]) = s THEN p ELSE FindRoot(m.into, id[c])
    <3>1. id[c] \in S  BY DEF MergeContext, Founded
    <3> QED BY <3>1, Joined DEF Moved
  <2>4. CASE g # p
    <3>1. Run(mm, g) = Run(m, g)  BY <2>4, JoinedRun
    <3> QED BY <1>1, <2>1, <2>2, <2>3, <2>4, <3>1
  <2>5. CASE g = p
    <3>1. Run(mm, g) = Run(m, s) \cup Run(m, g)  BY <2>5, JoinedRun
    <3>2. /\ \A c \in 1..n : c \in Run(m, s) <=> FindRoot(m.into, id[c]) = s
          /\ \A c \in Run(m, s) : c \in 1..n
      BY <1>1, <1>2 DEF Located
    <3>3. \A c \in 1..n : c \in Run(mm, g) <=> FindRoot(mm.into, id[c]) = g
      BY <1>1, <2>2, <2>3, <2>5, <3>1, <3>2
    <3>4. mm.ncol[g] >= 1  BY <1>1, <1>3, <2>5
    <3>5. mm.first[g] + mm.ncol[g] = f.start[g] + f.ncol[g]
      <4>1. m.first[s] + (m.ncol[p] + m.ncol[s]) = m.first[p] + m.ncol[p]  BY <1>1, <1>3
      <4> QED BY <1>1, <2>2, <2>5, <4>1
    <3> QED BY <2>2, <3>1, <3>2, <3>3, <3>4, <3>5
  <2> QED BY <2>4, <2>5
<1> QED BY <1>1, <1>4, <1>5 DEF Located
LEMMA JoinedTall ==
  ASSUME NEW n, NEW R, NEW parent_, NEW counts_, NEW settings_, NEW id, NEW f, NEW m,
         MergeContext(n, R, parent_, counts_, settings_, id, f, m),
         NEW s \in DOMAIN f.start, Joins(f, counts_, settings_, m, s),
         NEW p, p = FindRoot(m.into, f.parent[s]), NEW mm, mm = Absorb(m, s, p)
  PROVE  Tall(R, counts_, f, mm)
<1>1. /\ m.into[s] = 0 /\ p \in DOMAIN f.start /\ m.into[p] = 0
      /\ \A g \in DOMAIN f.start : mm.into[g] = 0 => m.into[g] = 0 /\ g # s
      /\ \A g \in DOMAIN f.start : g # p => mm.ncol[g] = m.ncol[g] /\ mm.nrow[g] = m.nrow[g]
      /\ mm.ncol[p] = m.ncol[p] + m.ncol[s] /\ mm.nrow[p] = m.nrow[p] + m.ncol[s]
      /\ R[LastOf(m, s)] \subseteq Run(m, p) \cup R[LastOf(m, p)]
  BY Joined
<1>2. /\ Run(mm, p) = Run(m, s) \cup Run(m, p) /\ LastOf(mm, p) = LastOf(m, p)
      /\ \A g \in DOMAIN f.start : g # p => Run(mm, g) = Run(m, g) /\ LastOf(mm, g) = LastOf(m, g)
  BY JoinedRun
<1>3. \A g \in DOMAIN f.start : m.into[g] = 0 =>
        /\ \A c \in Run(m, g) : R[c] \subseteq Run(m, g) \cup R[LastOf(m, g)]
        /\ m.nrow[g] = m.ncol[g] + counts_[LastOf(m, g)] - 1
  BY DEF MergeContext, Merged, Tall
<1>4. ASSUME NEW c \in Run(mm, p) PROVE R[c] \subseteq Run(mm, p) \cup R[LastOf(mm, p)]
  <2>1. CASE c \in Run(m, s)
    <3>1. R[c] \subseteq Run(m, s) \cup R[LastOf(m, s)]  BY <1>1, <1>3, <2>1
    <3> QED BY <1>1, <1>2, <3>1
  <2>2. CASE c \in Run(m, p)
    <3>1. R[c] \subseteq Run(m, p) \cup R[LastOf(m, p)]  BY <1>1, <1>3, <2>2
    <3> QED BY <1>2, <3>1
  <2> QED BY <1>2, <2>1, <2>2
<1>5. mm.nrow[p] = mm.ncol[p] + counts_[LastOf(mm, p)] - 1
  <2>1. m.ncol[p] \in Nat /\ m.ncol[s] \in Nat /\ counts_[LastOf(m, p)] \in Nat  BY <1>1, GroupFacts
  <2>2. m.nrow[p] = m.ncol[p] + counts_[LastOf(m, p)] - 1  BY <1>1, <1>3
  <2> QED BY <1>1, <1>2, <2>1, <2>2
<1>6. ASSUME NEW g \in DOMAIN f.start, mm.into[g] = 0
      PROVE  /\ \A c \in Run(mm, g) : R[c] \subseteq Run(mm, g) \cup R[LastOf(mm, g)]
             /\ mm.nrow[g] = mm.ncol[g] + counts_[LastOf(mm, g)] - 1
  <2>1. CASE g = p  BY <1>4, <1>5, <2>1
  <2>2. CASE g # p
    <3>1. m.into[g] = 0 /\ Run(mm, g) = Run(m, g) /\ LastOf(mm, g) = LastOf(m, g)
          /\ mm.ncol[g] = m.ncol[g] /\ mm.nrow[g] = m.nrow[g]
      BY <1>1, <1>2, <1>6, <2>2
    <3> QED BY <1>3, <3>1
  <2> QED BY <2>1, <2>2
<1> QED BY <1>6 DEF Tall

\* Only the cap's own check lets a root grow.
LEMMA JoinedCapped ==
  ASSUME NEW n, NEW R, NEW parent_, NEW counts_, NEW settings_, NEW id, NEW f, NEW m,
         MergeContext(n, R, parent_, counts_, settings_, id, f, m),
         NEW s \in DOMAIN f.start, Joins(f, counts_, settings_, m, s),
         NEW p, p = FindRoot(m.into, f.parent[s]), NEW mm, mm = Absorb(m, s, p)
  PROVE  Capped(settings_, f, mm)
<1>1. /\ m.into[s] = 0 /\ p \in DOMAIN f.start /\ m.into[p] = 0 /\ ~CapExceeded(f, settings_, m, s, p)
      /\ \A g \in DOMAIN f.start : mm.into[g] = 0 => m.into[g] = 0 /\ g # s
      /\ \A g \in DOMAIN f.start : g # p => mm.ncol[g] = m.ncol[g]
      /\ mm.ncol[p] = m.ncol[p] + m.ncol[s]
  BY Joined
<1>2. Capped(settings_, f, m)  BY DEF MergeContext, Merged
<1>3. SUFFICES ASSUME settings_.rootCap # NONE, NEW g \in DOMAIN f.start, mm.into[g] = 0,
                      f.parent[g] = NONE, mm.ncol[g] > settings_.rootCap
               PROVE  mm.ncol[g] = f.ncol[g]
  BY DEF Capped
<1>4. CASE g = p
  <2>1. m.ncol[p] \in Nat /\ m.ncol[s] \in Nat  BY <1>1, GroupFacts
  <2>2. mm.ncol[g] = m.ncol[s] + m.ncol[p]  BY <1>1, <1>4, <2>1
  <2>3. CapExceeded(f, settings_, m, s, p)  BY <1>3, <1>4, <2>2 DEF CapExceeded
  <2> QED BY <1>1, <2>3
<1>5. CASE g # p
  BY <1>1, <1>2, <1>3, <1>5 DEF Capped
<1> QED BY <1>4, <1>5

\* Without the size-based and the relaxed rule, a merge is the continuation
\* of a chain by a single column.
LEMMA JoinedTight ==
  ASSUME NEW n, NEW R, NEW parent_, NEW counts_, NEW settings_, NEW id, NEW f, NEW m,
         MergeContext(n, R, parent_, counts_, settings_, id, f, m),
         NEW s \in DOMAIN f.start, Joins(f, counts_, settings_, m, s),
         NEW p, p = FindRoot(m.into, f.parent[s]), NEW mm, mm = Absorb(m, s, p)
  PROVE  Tight(settings_, counts_, f, mm)
<1>1. /\ m.into[s] = 0 /\ p \in DOMAIN f.start /\ m.into[p] = 0 /\ m.first[s] + m.ncol[s] = m.first[p]
      /\ Rules(counts_, settings_, m, s, p) # {}
      /\ \A g \in DOMAIN f.start : mm.into[g] = 0 => m.into[g] = 0 /\ g # s
      /\ \A g \in DOMAIN f.start : g # p =>
           mm.first[g] = m.first[g] /\ mm.ncol[g] = m.ncol[g] /\ mm.nrow[g] = m.nrow[g]
      /\ mm.first[p] = m.first[s] /\ mm.nrow[p] = m.nrow[p] + m.ncol[s]
  BY Joined
<1>2. Tight(settings_, counts_, f, m) /\ Tall(R, counts_, f, m)  BY DEF MergeContext, Merged
<1>3. SUFFICES ASSUME settings_.nemin = 1, settings_.relaxWidth = NONE
               PROVE  \A g \in DOMAIN f.start : mm.into[g] = 0 =>
                        \A c \in Run(mm, g) : counts_[c] = mm.nrow[g] - (c - mm.first[g])
  BY DEF Tight
<1>4. /\ m.first[s] \in 1..n /\ m.ncol[s] \in Nat /\ m.ncol[s] >= 1 /\ m.nrow[s] \in Nat
      /\ counts_[LastOf(m, s)] \in Nat
      /\ m.first[p] \in 1..n /\ m.ncol[p] \in Nat /\ m.nrow[p] \in Nat /\ counts_[LastOf(m, p)] \in Nat
      /\ LastOf(m, s) = m.first[s] + m.ncol[s] - 1 /\ LastOf(m, p) = m.first[p] + m.ncol[p] - 1
  BY <1>1, GroupFacts DEF LastOf
<1>5. m.ncol[p] = 1 /\ counts_[m.first[p]] + 1 = counts_[LastOf(m, s)]
  <2>1. ~SizeBased(settings_, m.ncol[s], m.ncol[p])  BY <1>3, <1>4 DEF SizeBased
  <2>2. ~Relaxed(settings_, counts_, m.ncol[s], m.ncol[p], LastOf(m, s), m.first[p])  BY <1>3 DEF Relaxed
  <2>3. TrivialChain(counts_, m.ncol[p], LastOf(m, s), m.first[p])
    BY <1>1, <2>1, <2>2 DEF Rules, LastOf
  <2> QED BY <2>3 DEF TrivialChain
<1>6. LastOf(m, p) = m.first[p]  BY <1>4, <1>5
<1>7. /\ m.nrow[s] = m.ncol[s] + counts_[LastOf(m, s)] - 1 /\ m.nrow[p] = m.ncol[p] + counts_[LastOf(m, p)] - 1
      /\ \A c \in Run(m, s) : counts_[c] = m.nrow[s] - (c - m.first[s])
  BY <1>1, <1>2, <1>3 DEF Tall, Tight
<1>8. mm.nrow[p] = m.nrow[s] /\ m.nrow[p] = counts_[m.first[p]]  BY <1>1, <1>4, <1>5, <1>6, <1>7, SMTT(30)
<1>9. ASSUME NEW c \in Run(mm, p) PROVE counts_[c] = mm.nrow[p] - (c - mm.first[p])
  <2>1. Run(mm, p) = Run(m, s) \cup Run(m, p)  BY JoinedRun
  <2>2. CASE c \in Run(m, s)  BY <1>1, <1>7, <1>8, <2>2
  <2>3. CASE c \in Run(m, p)
    <3>1. c = m.first[p]  BY <1>4, <1>5, <2>3 DEF Run
    <3>2. mm.nrow[p] - (c - mm.first[p]) = m.nrow[p]  BY <1>1, <1>4, <3>1
    <3> QED BY <1>8, <3>1, <3>2
  <2> QED BY <1>9, <2>1, <2>2, <2>3
<1>10. ASSUME NEW g \in DOMAIN f.start, mm.into[g] = 0, g # p
       PROVE  \A c \in Run(mm, g) : counts_[c] = mm.nrow[g] - (c - mm.first[g])
  <2>1. m.into[g] = 0 /\ mm.nrow[g] = m.nrow[g] /\ mm.first[g] = m.first[g]  BY <1>1, <1>10
  <2>2. Run(mm, g) = Run(m, g)  BY <1>10, JoinedRun
  <2> QED BY <1>2, <1>3, <2>1, <2>2 DEF Tight
<1> QED BY <1>9, <1>10

LEMMA VisitMerged ==
  ASSUME NEW n, NEW R, NEW parent_, NEW counts_, NEW settings_, NEW id, NEW f, NEW m,
         MergeContext(n, R, parent_, counts_, settings_, id, f, m), NEW s \in DOMAIN f.start
  PROVE  Merged(n, R, counts_, settings_, id, f, Visit(f, counts_, settings_, m, s))
<1> DEFINE p == FindRoot(m.into, f.parent[s])
           mm == Absorb(m, s, p)
<1>1. CASE Joins(f, counts_, settings_, m, s)
  <2> HIDE DEF p, mm
  <2>0. p = FindRoot(m.into, f.parent[s]) /\ mm = Absorb(m, s, p)  BY DEF p, mm
  <2>1. Located(n, id, f, mm)  BY <1>1, <2>0, JoinedLocated
  <2>2. Tall(R, counts_, f, mm)  BY <1>1, <2>0, JoinedTall
  <2>3. Capped(settings_, f, mm)  BY <1>1, <2>0, JoinedCapped
  <2>4. Tight(settings_, counts_, f, mm)  BY <1>1, <2>0, JoinedTight
  <2>5. Visit(f, counts_, settings_, m, s) = mm  BY <1>1 DEF Visit, p, mm
  <2> QED BY <2>1, <2>2, <2>3, <2>4, <2>5 DEF Merged
<1>2. CASE ~Joins(f, counts_, settings_, m, s)
  BY <1>2 DEF Visit, MergeContext
<1> QED BY <1>1, <1>2
-----------------------------------------------------------------------------
(***************************************************************************)
(* What merged groups are, at any time and at the end.                     *)
(***************************************************************************)
Held(R, cs) == cs \cup UNION {R[c] : c \in cs}

LEMMA GroupRows ==
  ASSUME NEW n, NEW R, NEW parent_, NEW counts_, NEW settings_, NEW id, NEW f, NEW m,
         MergeContext(n, R, parent_, counts_, settings_, id, f, m),
         NEW g \in DOMAIN f.start, m.into[g] = 0
  PROVE  /\ Held(R, Run(m, g)) = Run(m, g) \cup R[LastOf(m, g)] /\ Run(m, g) \cap R[LastOf(m, g)] = {}
         /\ Cardinality(Held(R, Run(m, g))) = m.nrow[g]
<1> DEFINE last == LastOf(m, g)
           run == Run(m, g)
<1>1. /\ m.first[g] \in 1..n /\ m.ncol[g] \in Nat /\ m.ncol[g] >= 1 /\ last \in 1..n /\ last \in run
      /\ counts_[last] \in Nat /\ n \in Nat
  BY GroupFacts
<1>2. run = m.first[g]..last /\ last = m.first[g] + m.ncol[g] - 1  BY DEF Run, LastOf
<1>3. (\A c \in run : R[c] \subseteq run \cup R[last]) /\ m.nrow[g] = m.ncol[g] + counts_[last] - 1
  BY DEF MergeContext, Merged, Tall
<1>4. R[last] \in SUBSET (1..n) /\ (\A i \in R[last] : last < i) /\ counts_[last] = 1 + Cardinality(R[last])
  BY <1>1 DEF MergeContext, Shaped
<1> HIDE DEF last, run
<1>5. Held(R, run) = run \cup R[last]  BY <1>1, <1>3 DEF Held
<1>6. run \cap R[last] = {}
  <2>1. \A c \in run : c \in Int /\ c <= last  BY <1>2
  <2>2. last \in Int /\ \A i \in R[last] : last < i  BY <1>1, <1>4
  <2> QED BY <2>1, <2>2
<1>7. IsFiniteSet(run) /\ Cardinality(run) = m.ncol[g]
  <2>1. m.first[g] \in Int /\ last \in Int /\ m.first[g] <= last  BY <1>1, <1>2
  <2>2. IsFiniteSet(m.first[g]..last) /\ Cardinality(m.first[g]..last) = last - m.first[g] + 1  BY <2>1, FS_Interval
  <2> QED BY <1>1, <1>2, <2>2
<1>8. IsFiniteSet(R[last]) /\ Cardinality(R[last]) \in Nat  BY <1>1, <1>4, FiniteNumbers
<1>9. Cardinality(run \cup R[last]) = Cardinality(run) + Cardinality(R[last])
  <2>1. Cardinality(run \cup R[last]) = Cardinality(run) + Cardinality(R[last]) - Cardinality(run \cap R[last])
    BY <1>7, <1>8, FS_Union
  <2>2. Cardinality(run \cap R[last]) = 0  BY <1>6, FS_EmptySet
  <2> QED BY <1>1, <1>7, <1>8, <2>1, <2>2
<1>10. Cardinality(Held(R, run)) = m.nrow[g]  BY <1>1, <1>3, <1>4, <1>5, <1>7, <1>8, <1>9
<1> QED BY <1>5, <1>6, <1>10 DEF last, run

LEMMA GroupsCover ==
  ASSUME NEW n, NEW R, NEW parent_, NEW counts_, NEW settings_, NEW id, NEW f, NEW m,
         MergeContext(n, R, parent_, counts_, settings_, id, f, m),
         NEW c \in 1..n
  PROVE  Cardinality({g \in {s \in DOMAIN m.into : m.into[s] = NONE} : c \in Run(m, g)}) = 1
<1> DEFINE r == FindRoot(m.into, id[c])
<1>1. PICK k \in Nat : DOMAIN f.start = 1..k  BY DEF MergeContext, Founded
<1>2. Linked(1..k, m.into) /\ id[c] \in 1..k /\ DOMAIN m.into = 1..k
  BY <1>1 DEF MergeContext, Merged, Located, Founded, Linked
<1>3. r \in 1..k /\ m.into[r] = 0  BY <1>2, Roots
<1>4. \A g \in 1..k : m.into[g] = 0 => (c \in Run(m, g) <=> r = g)
  BY <1>1 DEF MergeContext, Merged, Located
<1> HIDE DEF r
<1>5. {g \in {s \in DOMAIN m.into : m.into[s] = NONE} : c \in Run(m, g)} = {r}
  BY <1>2, <1>3, <1>4 DEF NONE
<1> QED BY <1>5, FS_Singleton

\* The supernodes are the groups left, in order, each listed with its
\* parent's group.
Collected(f, m, sn, kept, q) ==
  /\ DOMAIN sn = 1..q /\ DOMAIN kept = 1..q /\ q \in Nat
  /\ \A t \in 1..q : kept[t] \in DOMAIN f.start /\ m.into[kept[t]] = 0
  /\ \A g \in DOMAIN f.start : m.into[g] = 0 => \E t \in 1..q : kept[t] = g
  /\ \A t, u \in 1..q : t < u <=> kept[t] < kept[u]
  /\ \A t \in 1..q : sn[t].first = m.first[kept[t]] /\ sn[t].ncol = m.ncol[kept[t]] /\ sn[t].nrow = m.nrow[kept[t]]
  /\ \A t, i \in 1..q : i \in ToSet(sn[t].children) <=>
       f.parent[kept[i]] # 0 /\ FindRoot(m.into, f.parent[kept[i]]) = kept[t]

LEMMA CollectedIs ==
  ASSUME NEW n, NEW R, NEW parent_, NEW counts_, NEW settings_, NEW id, NEW f, NEW m,
         MergeContext(n, R, parent_, counts_, settings_, id, f, m)
  PROVE  \E kept, q : Collected(f, m, Collect(f, m), kept, q)
<1> DEFINE G == {s \in DOMAIN m.into : m.into[s] = NONE}
           kept == Ascending(G)
           q == Cardinality(G)
           Kids(t) == {i \in DOMAIN kept : f.parent[kept[i]] # NONE /\ ChildOfGroup(f, m, kept[i]) = kept[t]}
           sn == Collect(f, m)
<1>1. PICK k \in Nat : DOMAIN f.start = 1..k  BY DEF MergeContext, Founded
<1>2. DOMAIN m.into = 1..k  BY <1>1 DEF MergeContext, Merged, Located, Linked
<1>3. G \in SUBSET (1..k)  BY <1>2
<1>4. sn = [t \in DOMAIN kept |->
              [first |-> m.first[kept[t]], ncol |-> m.ncol[kept[t]],
               nrow |-> Max({m.nrow[kept[t]], m.ncol[kept[t]]}), children |-> Ascending(Kids(t))]]
  BY Zenon DEF Collect
<1> HIDE DEF G, sn
<1>5. /\ DOMAIN kept = 1..q /\ q \in Nat
      /\ \A t \in 1..q : kept[t] \in G
      /\ ToSet(kept) = G
      /\ \A t, u \in 1..q : t < u <=> kept[t] < kept[u]
  BY <1>3, AscendingList
<1> HIDE DEF kept, q
<1>6. \A t \in 1..q : kept[t] \in DOMAIN f.start /\ m.into[kept[t]] = 0  BY <1>1, <1>3, <1>5 DEF G, NONE
<1>7. ASSUME NEW g \in DOMAIN f.start, m.into[g] = 0 PROVE \E t \in 1..q : kept[t] = g
  <2>1. g \in G  BY <1>1, <1>2, <1>7 DEF G, NONE
  <2> QED BY <1>5, <2>1 DEF ToSet
<1>8. ASSUME NEW t \in 1..q
      PROVE  sn[t].first = m.first[kept[t]] /\ sn[t].ncol = m.ncol[kept[t]] /\ sn[t].nrow = m.nrow[kept[t]]
  <2> DEFINE g == kept[t]
  <2>1. g \in DOMAIN f.start /\ m.into[g] = 0  BY <1>6
  <2>2. m.ncol[g] \in Nat /\ m.nrow[g] \in Nat  BY <2>1, GroupFacts
  <2>3. m.ncol[g] <= m.nrow[g]
    <3>1. LastOf(m, g) \in 1..n /\ n \in Nat  BY <2>1, GroupFacts
    <3>2. R[LastOf(m, g)] \in SUBSET (1..n) /\ counts_[LastOf(m, g)] = 1 + Cardinality(R[LastOf(m, g)])
      BY <3>1 DEF MergeContext, Shaped
    <3>3. Cardinality(R[LastOf(m, g)]) \in Nat  BY <3>1, <3>2, FiniteNumbers
    <3>4. m.nrow[g] = m.ncol[g] + counts_[LastOf(m, g)] - 1  BY <2>1 DEF MergeContext, Merged, Tall
    <3> QED BY <2>2, <3>2, <3>3, <3>4
  <2>4. Max({m.nrow[g], m.ncol[g]}) = m.nrow[g]  BY <2>2, <2>3, MaxOfTwo
  <2> QED BY <1>4, <1>5, <2>4
<1>9. ASSUME NEW t \in 1..q, NEW i \in 1..q
      PROVE  i \in ToSet(sn[t].children) <=> f.parent[kept[i]] # 0 /\ FindRoot(m.into, f.parent[kept[i]]) = kept[t]
  <2>1. Kids(t) \in SUBSET (1..q)  BY <1>5
  <2>2. ToSet(Ascending(Kids(t))) = Kids(t)
    <3> HIDE DEF Kids
    <3> QED BY <1>5, <2>1, AscendingList
  <2>3. sn[t].children = Ascending(Kids(t))
    <3> HIDE DEF Kids
    <3> QED BY <1>4, <1>5
  <2>4. i \in ToSet(sn[t].children) <=> i \in Kids(t)  BY <2>2, <2>3
  <2> QED BY <1>5, <2>4 DEF ChildOfGroup, NONE
<1>10. DOMAIN sn = 1..q  BY <1>4, <1>5
<1>11. Collected(f, m, sn, kept, q)
  BY <1>5, <1>6, <1>7, <1>8, <1>9, <1>10 DEF Collected
<1> QED BY <1>11 DEF sn
Cols(sn, t) == sn[t].first..(sn[t].first + sn[t].ncol - 1)
ParentsOf(sn, t) == {u \in DOMAIN sn : t \in ToSet(sn[u].children)}

LEMMA CollectedForest ==
  ASSUME NEW n, NEW R, NEW parent_, NEW counts_, NEW settings_, NEW id, NEW f, NEW m,
         MergeContext(n, R, parent_, counts_, settings_, id, f, m),
         NEW sn, NEW kept, NEW q, Collected(f, m, sn, kept, q), NEW t \in DOMAIN sn
  PROVE  /\ sn[t].nrow = Cardinality(Held(R, Cols(sn, t)))
         /\ \A u \in ParentsOf(sn, t) : t < u /\ Held(R, Cols(sn, t)) \ Cols(sn, t) \subseteq Held(R, Cols(sn, u))
         /\ Cardinality(ParentsOf(sn, t)) = IF Held(R, Cols(sn, t)) \ Cols(sn, t) = {} THEN 0 ELSE 1
<1> DEFINE g == kept[t]
           r == FindRoot(m.into, f.parent[g])
           left == Held(R, Cols(sn, t)) \ Cols(sn, t)
<1>1. /\ DOMAIN sn = 1..q /\ q \in Nat /\ t \in 1..q /\ g \in DOMAIN f.start /\ m.into[g] = 0
      /\ \A u, w \in 1..q : u < w <=> kept[u] < kept[w]
  BY DEF Collected
<1>2. \A u \in 1..q : Cols(sn, u) = Run(m, kept[u])  BY DEF Collected, Cols, Run
<1>3. /\ Held(R, Run(m, g)) = Run(m, g) \cup R[LastOf(m, g)] /\ Run(m, g) \cap R[LastOf(m, g)] = {}
      /\ Cardinality(Held(R, Run(m, g))) = m.nrow[g]
  BY <1>1, GroupRows
<1>4. left = R[LastOf(m, g)]  BY <1>1, <1>2, <1>3
<1>5. sn[t].nrow = Cardinality(Held(R, Cols(sn, t)))  BY <1>1, <1>2, <1>3 DEF Collected
<1>6. \A u \in 1..q : u \in ParentsOf(sn, t) <=> f.parent[g] # 0 /\ r = kept[u]
  BY <1>1 DEF Collected, ParentsOf
<1>7. ParentsOf(sn, t) \subseteq 1..q  BY <1>1 DEF ParentsOf
<1>8. /\ f.parent[g] = 0 <=> R[LastOf(m, g)] = {}
      /\ f.parent[g] # 0 => r \in DOMAIN f.start /\ m.into[r] = 0 /\ g < r
                            /\ R[LastOf(m, g)] \subseteq Run(m, r) \cup R[LastOf(m, r)]
  BY <1>1, ParentGroup
<1> HIDE DEF g, r, left
<1>9. CASE f.parent[g] = 0
  <2>1. ParentsOf(sn, t) = {}  BY <1>6, <1>7, <1>9
  <2>2. left = {}  BY <1>4, <1>8, <1>9
  <2> QED BY <1>5, <2>1, <2>2, FS_EmptySet DEF left
<1>10. CASE f.parent[g] # 0
  <2>1. r \in DOMAIN f.start /\ m.into[r] = 0 /\ g < r /\ R[LastOf(m, g)] \subseteq Run(m, r) \cup R[LastOf(m, r)]
    BY <1>8, <1>10
  <2>2. PICK u \in 1..q : kept[u] = r  BY <2>1 DEF Collected
  <2>3. t < u  BY <1>1, <2>1, <2>2 DEF g
  <2>4. ParentsOf(sn, t) = {u}
    <3>1. ASSUME NEW w \in 1..q, kept[w] = r PROVE w = u
      <4>1. ~(w < u) /\ ~(u < w)
        <5>1. r \in Int /\ ~(r < r)
          <6>1. \E k \in Nat : DOMAIN f.start = 1..k  BY DEF MergeContext, Founded
          <6> QED BY <2>1, <6>1
        <5> QED BY <1>1, <2>2, <3>1, <5>1
      <4> QED BY <4>1
    <3> QED BY <1>6, <1>7, <1>10, <2>2, <3>1
  <2>5. Held(R, Run(m, r)) = Run(m, r) \cup R[LastOf(m, r)]  BY <2>1, GroupRows
  <2>6. left \subseteq Held(R, Cols(sn, u))  BY <1>2, <1>4, <2>1, <2>2, <2>5
  <2>7. left # {}  BY <1>4, <1>8, <1>10
  <2>8. Cardinality(ParentsOf(sn, t)) = 1  BY <2>4, FS_Singleton
  <2> QED BY <1>5, <2>3, <2>4, <2>6, <2>7, <2>8 DEF left
<1> QED BY <1>9, <1>10

-----------------------------------------------------------------------------
(***************************************************************************)
(* The invariant of the analysis.                                          *)
(***************************************************************************)
Now == FactorRows(Permuted(pattern, perm))

IndInv ==
  /\ pattern \in Patterns
  /\ stage \in {"given", "ordered", "postordered", "numbered", "merging", "done"}
  /\ stage \in {"merging", "done"} =>
       /\ fund = Fundamental(parent, counts)
       /\ Merged(Len(pattern), Now, counts, settings, Ident(parent, counts), fund, merge)
       /\ todo \in Seq(DOMAIN fund.start)
  /\ stage = "done" => supernodes = Collect(fund, merge)

\* What the order leaves behind is a tree with its counts and its rows.
LEMMA Structured ==
  ASSUME pattern \in Patterns, stage # "given", StructureIsTheFactors
  PROVE  Len(pattern) \in Nat /\ Shaped(Len(pattern), Now, parent, counts)
<1> DEFINE n == Len(pattern)
           cols == Permuted(pattern, perm)
           inv == Positions(perm)
<1>1. /\ DOMAIN perm = DOMAIN pattern /\ ToSet(perm) = DOMAIN pattern
      /\ parent = FactorTree(cols) /\ counts = FactorCounts(cols)
  BY DEF StructureIsTheFactors
<1>2. pattern \in Seq(Seq(DOMAIN pattern))  BY PatternsAssumption
<1>3. n \in Nat /\ DOMAIN pattern = 1..n /\ \A v \in 1..n : pattern[v] \in Seq(DOMAIN pattern)
  BY <1>2
<1>4. \A v \in 1..n : inv[v] \in 1..n
  <2>1. \A v \in 1..n : \E k \in 1..n : perm[k] = v  BY <1>1, <1>3 DEF ToSet
  <2>2. inv = [v \in 1..n |-> CHOOSE k \in 1..n : perm[k] = v]  BY <1>1, <1>3 DEF Positions
  <2> QED BY <2>1, <2>2
<1>5. cols = [k \in 1..n |-> [i \in DOMAIN pattern[perm[k]] |-> inv[pattern[perm[k]][i]]]]
  BY <1>1, <1>3 DEF Permuted
<1>6. ASSUME NEW k \in 1..n PROVE ToSet(cols[k]) \subseteq 1..n
  <2> DEFINE rows == pattern[perm[k]]
  <2>1. perm[k] \in 1..n  BY <1>1, <1>3 DEF ToSet
  <2>2. rows \in Seq(1..n)  BY <1>3, <2>1
  <2>3. \A i \in DOMAIN rows : rows[i] \in 1..n  BY <2>2
  <2>4. cols[k] = [i \in DOMAIN rows |-> inv[rows[i]]]  BY <1>5
  <2> HIDE DEF rows, inv, cols
  <2>5. \A i \in DOMAIN cols[k] : cols[k][i] \in 1..n  BY <1>4, <2>3, <2>4
  <2> QED BY <2>5 DEF ToSet
<1>7. Len(cols) = n /\ DOMAIN cols = 1..n
  <2> HIDE DEF cols, inv
  <2> QED BY <1>3, <1>5
<1>8. PatternOn(n, cols)  BY <1>6, <1>7 DEF PatternOn
<1>9. Shaped(n, FactorRows(cols), FactorTree(cols), FactorCounts(cols))
  <2> HIDE DEF cols, n
  <2> QED BY <1>3, <1>8, FactorShape DEF n
<1> QED BY <1>1, <1>3, <1>9 DEF Now

LEMMA InContext ==
  ASSUME IndInv, StructureIsTheFactors, stage \in {"merging", "done"}
  PROVE  MergeContext(Len(pattern), Now, parent, counts, settings, Ident(parent, counts), fund, merge)
<1>1. Len(pattern) \in Nat /\ Shaped(Len(pattern), Now, parent, counts)
  BY Structured DEF IndInv
<1>2. Founded(Len(pattern), parent, counts, Ident(parent, counts), Fundamental(parent, counts))
  BY <1>1, FundamentalRuns
<1> QED BY <1>1, <1>2 DEF IndInv, MergeContext

LEMMA VisitsAll ==
  ASSUME NEW f, NEW k \in Nat, DOMAIN f.start = 1..k, NEW settings_
  PROVE  VisitOrder(f, settings_) \in Seq(1..k)
<1> DEFINE forward == [s \in DOMAIN f.start |-> s]
<1>1. forward \in Seq(1..k) /\ Len(forward) = k  OBVIOUS
<1>2. Reverse(forward) \in Seq(1..k)
  <2>1. Reverse(forward) = [i \in 1..k |-> forward[k - i + 1]]  BY <1>1 DEF Reverse
  <2>2. \A i \in 1..k : k - i + 1 \in 1..k  OBVIOUS
  <2>3. \A i \in 1..k : forward[k - i + 1] \in 1..k  BY <2>2
  <2> HIDE DEF forward
  <2> QED BY <2>1, <2>3
<1> QED BY <1>1, <1>2 DEF VisitOrder
LEMMA InitInv ==
  ASSUME Init
  PROVE  IndInv
BY DEF Init, IndInv

LEMMA StepFindFundamental ==
  ASSUME IndInv, StructureIsTheFactors, FindFundamental
  PROVE  IndInv'
<1> DEFINE n == Len(pattern)
           id == Ident(parent, counts)
           f == Fundamental(parent, counts)
<1>1. /\ stage = "numbered" /\ fund' = f /\ merge' = StartMerging(f, counts) /\ todo' = VisitOrder(f, settings)
      /\ stage' = "merging"
      /\ UNCHANGED <<pattern, perm, parent, counts, settings, supernodes>>
  BY DEF FindFundamental
<1>2. n \in Nat /\ Shaped(n, Now, parent, counts)
  BY <1>1, Structured DEF IndInv
<1>3. Founded(n, parent, counts, id, f)  BY <1>2, FundamentalRuns
<1>4. Merged(n, Now, counts, settings, id, f, StartMerging(f, counts))  BY <1>2, <1>3, StartMerged
<1>5. VisitOrder(f, settings) \in Seq(DOMAIN f.start)
  <2>1. PICK k \in Nat : DOMAIN f.start = 1..k  BY <1>3 DEF Founded
  <2> HIDE DEF f
  <2> QED BY <2>1, VisitsAll
<1>6. Now' = Now  BY <1>1 DEF Now
<1> QED BY <1>1, <1>4, <1>5, <1>6 DEF IndInv

LEMMA StepLook ==
  ASSUME IndInv, StructureIsTheFactors, Look
  PROVE  IndInv'
<1> DEFINE s == Head(todo)
<1>1. /\ stage = "merging" /\ todo # <<>> /\ merge' = Visit(fund, counts, settings, merge, s)
      /\ todo' = Tail(todo)
      /\ UNCHANGED <<stage, pattern, perm, parent, counts, settings, fund, supernodes>>
  BY DEF Look
<1>2. MergeContext(Len(pattern), Now, parent, counts, settings, Ident(parent, counts), fund, merge)
  BY <1>1, InContext
<1>3. fund = Fundamental(parent, counts) /\ todo \in Seq(DOMAIN fund.start)  BY <1>1 DEF IndInv
<1>4. s \in DOMAIN fund.start /\ Tail(todo) \in Seq(DOMAIN fund.start)  BY <1>1, <1>3
<1> HIDE DEF s
<1>5. Merged(Len(pattern), Now, counts, settings, Ident(parent, counts), fund, merge')
  BY <1>1, <1>2, <1>4, VisitMerged
<1>6. Now' = Now  BY <1>1 DEF Now
<1> QED BY <1>1, <1>3, <1>4, <1>5, <1>6 DEF IndInv

LEMMA StepInv ==
  ASSUME IndInv, StructureIsTheFactors, [Next]_vars
  PROVE  IndInv'
<1>1. CASE Order  BY <1>1 DEF Order, IndInv
<1>2. CASE PostorderTree  BY <1>2 DEF PostorderTree, IndInv
<1>3. CASE RenumberTree  BY <1>3 DEF RenumberTree, IndInv
<1>4. CASE FindFundamental  BY <1>4, StepFindFundamental
<1>5. CASE Look  BY <1>5, StepLook
<1>6. CASE CollectSupernodes
  <2>1. Now' = Now  BY <1>6 DEF CollectSupernodes, Now
  <2> QED BY <1>6, <2>1 DEF CollectSupernodes, IndInv
<1>7. CASE UNCHANGED vars
  <2>1. Now' = Now  BY <1>7 DEF vars, Now
  <2> QED BY <1>7, <2>1 DEF vars, IndInv
<1> QED BY <1>1, <1>2, <1>3, <1>4, <1>5, <1>6, <1>7 DEF Next

LEMMA ExactGroups ==
  ASSUME IndInv, StructureIsTheFactors
  PROVE  GroupsAreExact
<1> DEFINE n == Len(pattern)
           id == Ident(parent, counts)
<1>1. ASSUME stage \in {"merging", "done"} PROVE MergeContext(n, Now, parent, counts, settings, id, fund, merge)
  BY <1>1, InContext
<1>2. \A s : ColumnsOf(s) = Run(merge, s)  BY DEF ColumnsOf, Run
<1>3. GroupsCoverColumns
  <2> SUFFICES ASSUME stage \in {"merging", "done"}, NEW c \in DOMAIN parent
               PROVE  Cardinality({s \in Groups : c \in ColumnsOf(s)}) = 1
    BY DEF GroupsCoverColumns
  <2>1. MergeContext(n, Now, parent, counts, settings, id, fund, merge)  BY <1>1
  <2>2. c \in 1..n  BY <2>1 DEF MergeContext, Shaped
  <2>3. {s \in Groups : c \in ColumnsOf(s)}
          = {s \in {t \in DOMAIN merge.into : merge.into[t] = NONE} : c \in Run(merge, s)}
    BY DEF Groups, ColumnsOf, Run
  <2> HIDE DEF n, id
  <2> QED BY <2>1, <2>2, <2>3, GroupsCover
<1>4. HeightsAreExact
  <2> SUFFICES ASSUME stage = "merging", NEW s \in Groups
               PROVE  merge.nrow[s] = Cardinality(RowsOf(ColumnsOf(s)))
    BY DEF HeightsAreExact
  <2>1. MergeContext(n, Now, parent, counts, settings, id, fund, merge)  BY <1>1
  <2>2. s \in DOMAIN fund.start /\ merge.into[s] = 0
    BY <2>1 DEF Groups, NONE, MergeContext, Merged, Located, Linked
  <2>3. RowsOf(ColumnsOf(s)) = Held(Now, Run(merge, s))  BY <1>2 DEF RowsOf, Held, Now
  <2> HIDE DEF n, id
  <2> QED BY <2>1, <2>2, <2>3, GroupRows
<1>5. RootsWithinCap
  <2> SUFFICES ASSUME stage \in {"merging", "done"}, settings.rootCap # NONE, NEW s \in Groups,
                      fund.parent[s] = NONE, merge.ncol[s] > settings.rootCap
               PROVE  merge.ncol[s] = fund.ncol[s]
    BY DEF RootsWithinCap
  <2>1. MergeContext(n, Now, parent, counts, settings, id, fund, merge)  BY <1>1
  <2>2. s \in DOMAIN fund.start /\ merge.into[s] = 0
    BY <2>1 DEF Groups, NONE, MergeContext, Merged, Located, Linked
  <2> QED BY <2>1, <2>2 DEF MergeContext, Merged, Capped
<1> QED BY <1>3, <1>4, <1>5 DEF GroupsAreExact

LEMMA SoundSupernodes ==
  ASSUME IndInv, StructureIsTheFactors
  PROVE  SupernodesAreSound
<1> DEFINE n == Len(pattern)
           id == Ident(parent, counts)
<1>1. SUFFICES ASSUME stage = "done" PROVE SupernodesAreSound
  BY DEF SupernodesAreSound, SupernodesFormAForest, NoZerosUnlessAsked
<1>2. MergeContext(n, Now, parent, counts, settings, id, fund, merge) /\ supernodes = Collect(fund, merge)
  BY <1>1, InContext DEF IndInv
<1> HIDE DEF n, id
<1>3. PICK kept, q : Collected(fund, merge, supernodes, kept, q)  BY <1>2, CollectedIs
<1>4. \A c : RowsOf(c) = Held(Now, c)  BY DEF RowsOf, Held, Now
<1>5. ASSUME NEW t \in DOMAIN supernodes
      PROVE  /\ supernodes[t].nrow = Cardinality(RowsOf(Cols(supernodes, t)))
             /\ \A u \in ParentsOf(supernodes, t) :
                  t < u /\ RowsOf(Cols(supernodes, t)) \ Cols(supernodes, t) \subseteq RowsOf(Cols(supernodes, u))
             /\ Cardinality(ParentsOf(supernodes, t))
                  = IF RowsOf(Cols(supernodes, t)) \ Cols(supernodes, t) = {} THEN 0 ELSE 1
  BY <1>2, <1>3, <1>4, CollectedForest
<1>6. SupernodesFormAForest
  BY <1>5 DEF SupernodesFormAForest, Cols, ParentsOf
<1>7. NoZerosUnlessAsked
  <2> SUFFICES ASSUME settings.nemin = 1, settings.relaxWidth = NONE,
                      NEW t \in DOMAIN supernodes, NEW k \in 0..(supernodes[t].ncol - 1)
               PROVE  counts[supernodes[t].first + k] = supernodes[t].nrow - k
    BY DEF NoZerosUnlessAsked
  <2> DEFINE g == kept[t]
             c == merge.first[g] + k
  <2>1. /\ g \in DOMAIN fund.start /\ merge.into[g] = 0 /\ supernodes[t].first = merge.first[g]
        /\ supernodes[t].ncol = merge.ncol[g] /\ supernodes[t].nrow = merge.nrow[g]
    BY <1>3 DEF Collected
  <2>2. merge.first[g] \in 1..n /\ merge.ncol[g] \in Nat  BY <1>2, <2>1, GroupFacts
  <2>3. c \in Run(merge, g) /\ c - merge.first[g] = k  BY <2>1, <2>2 DEF Run
  <2>4. counts[c] = merge.nrow[g] - (c - merge.first[g])
    <3> HIDE DEF c
    <3> QED BY <1>2, <2>1, <2>3 DEF MergeContext, Merged, Tight
  <2> QED BY <2>1, <2>3, <2>4
<1> QED BY <1>6, <1>7 DEF SupernodesAreSound

(***************************************************************************)
(* As long as the tree and the counts in use are those of the factor -     *)
(* which the code asserts and the runs check - the amalgamation, whatever  *)
(* the pattern, the order and the settings, keeps groups that are          *)
(* consecutive, cover every column once, have the height of their rows,    *)
(* and widen no root beyond its cap (supernode.rs, amalgamate_supernodes). *)
(***************************************************************************)
THEOREM GroupsHold == Spec /\ []StructureIsTheFactors => []GroupsAreExact
<1>1. Init => IndInv  BY InitInv
<1>2. IndInv /\ StructureIsTheFactors /\ [Next]_vars => IndInv'  BY StepInv
<1>3. IndInv /\ StructureIsTheFactors => GroupsAreExact  BY ExactGroups
<1> QED BY <1>1, <1>2, <1>3, PTL DEF Spec

(***************************************************************************)
(* And what it collects is a forest: a supernode's rows below it are its   *)
(* parent's, which comes after it and lists it once; without the size and  *)
(* the relaxed rules no zero is stored (supernode.rs, find_supernodes).    *)
(***************************************************************************)
THEOREM SupernodesHold == Spec /\ []StructureIsTheFactors => []SupernodesAreSound
<1>1. Init => IndInv  BY InitInv
<1>2. IndInv /\ StructureIsTheFactors /\ [Next]_vars => IndInv'  BY StepInv
<1>3. IndInv /\ StructureIsTheFactors => SupernodesAreSound  BY SoundSupernodes
<1> QED BY <1>1, <1>2, <1>3, PTL DEF Spec

-----------------------------------------------------------------------------
(***************************************************************************)
(* SolveWalk: who runs when.                                               *)
(***************************************************************************)
TreeNodes == [t \in Trees |-> plan.subtrees[t].nodes]
WalkPhases ==
  {"forward", "fwd-subtrees", "fwd-flow", "fwd-levels", "diagonal", "backward", "failed",
   "bwd-flow", "bwd-levels", "bwd-subtrees", "done"}

WalkTypes ==
  /\ IsPlan(F, plan)
  /\ phase \in WalkPhases
  /\ status \in [Nodes -> {"idle", "ready", "running", "ran", "done"}]
  /\ parallel \in BOOLEAN
  /\ level \in 0..Len(plan.levels) + 1

\* Nothing of a list has begun before all ahead of it is done.
InOrder(list, st) == \A i, j \in DOMAIN list : i < j /\ st[list[j]] # "idle" => st[list[i]] = "done"
InTurn(list) == InOrder(list, status)

AllAre(S, states) == \A s \in S : status[s] \in states
TreesAre(state) == AllAre(Nodes \ Tops, {state})
LevelNodes(l) == ToSet(plan.levels[l])
Undone(p) == {k \in TopKids(p) : status[k] # "done"}

InSubtrees ==
  /\ AllAre(Nodes \ Tops, {"idle", "running", "done"})
  /\ \A t \in Trees : InTurn(SubtreeOrder(t))
ForwardFlow ==
  /\ ~plan.chain
  /\ pending \in [Nodes -> Int]
  /\ \A p \in Tops : pending[p] = Cardinality(Undone(p)) /\ (status[p] = "idle" <=> Undone(p) # {})
ForwardLevels ==
  /\ level \in 0..Len(plan.levels)
  /\ AllAre(Tops, {"idle", "done"})
  /\ \A l \in DOMAIN plan.levels : (l > level => AllAre(LevelNodes(l), {"done"})) /\ (l < level => AllAre(LevelNodes(l), {"idle"}))
BackwardFlow ==
  /\ ~plan.chain
  /\ AllAre(Tops, {"idle", "ready", "running", "done"})
  /\ \A s \in Tops : status[s] = "idle" <=> plan.parent[s] # NOSN /\ status[plan.parent[s]] # "done"
BackwardLevels ==
  /\ level \in 1..Len(plan.levels) + 1
  /\ AllAre(Tops, {"idle", "running", "done"})
  /\ \A l \in DOMAIN plan.levels : (l < level => AllAre(LevelNodes(l), {"done"})) /\ (l > level => AllAre(LevelNodes(l), {"idle"}))
  /\ level <= Len(plan.levels) => InTurn(plan.levels[level])

WalkInv ==
  /\ WalkTypes
  /\ phase = "forward" => AllAre(Nodes, {"idle"})
  /\ phase = "fwd-subtrees" => AllAre(Tops, {"idle"}) /\ InSubtrees
  /\ phase = "fwd-flow" => TreesAre("done") /\ ForwardFlow
  /\ phase = "fwd-levels" => TreesAre("done") /\ ForwardLevels
  /\ phase \in {"diagonal", "backward", "failed", "done"} => AllAre(Nodes, {"done"})
  /\ phase = "bwd-flow" => TreesAre("idle") /\ BackwardFlow
  /\ phase = "bwd-levels" => TreesAre("idle") /\ BackwardLevels
  /\ phase = "bwd-subtrees" => AllAre(Tops, {"done"}) /\ InSubtrees

-----------------------------------------------------------------------------
NodeStates == [Nodes -> {"idle", "ready", "running", "ran", "done"}]

LEMMA ListItems ==
  ASSUME NEW S, NEW q \in Seq(S)
  PROVE  Len(q) \in Nat /\ DOMAIN q = 1..Len(q) /\ (\A i \in DOMAIN q : q[i] \in S /\ i \in Nat)
OBVIOUS

LEMMA PlanTypes ==
  ASSUME IsPlan(F, plan)
  PROVE  /\ F.ns \in Nat /\ F.rows \in [Nodes -> SUBSET DOMAIN plan.sn] /\ plan.sn \in [DOMAIN plan.sn -> Nodes]
         /\ plan.parent \in [Nodes -> Nodes \cup {NOSN}]
         /\ \A s \in Nodes : plan.parent[s] # NOSN => s < plan.parent[s]
         /\ Tops \subseteq Nodes /\ \A s \in Tops : plan.parent[s] # NOSN => plan.parent[s] \in Tops
BY DEF IsPlan, Tops, Nodes, Supers

LEMMA PlanTrees ==
  ASSUME IsPlan(F, plan)
  PROVE  /\ \A t \in Trees : TreeNodes[t] \in Seq(Nodes) /\ IsAscending(TreeNodes[t])
         /\ \A t, u \in Trees : t # u => ToSet(TreeNodes[t]) \cap ToSet(TreeNodes[u]) = {}
         /\ UNION {ToSet(TreeNodes[t]) : t \in Trees} = Nodes \ Tops
<1> DEFINE lists == [t \in DOMAIN plan.subtrees |-> plan.subtrees[t].nodes]
<1>1. TreeNodes = lists
  BY DEF TreeNodes, Trees
<1>2. lists \in Seq(Seq(Nodes)) /\ AreApart(lists) /\ (\A t \in DOMAIN lists : IsAscending(lists[t]))
  BY DEF IsPlan, Nodes, Supers
<1>3. UNION {ToSet(lists[t]) : t \in DOMAIN lists} = Nodes \ Tops
  BY DEF IsPlan, Tops, Nodes, Supers
<1>4. DOMAIN lists = Trees
  BY DEF Trees
<1> HIDE DEF lists
<1>5. \A t \in Trees : lists[t] \in Seq(Nodes)
  BY <1>2, <1>4
<1>6. \A t, u \in Trees : t # u => ToSet(lists[t]) \cap ToSet(lists[u]) = {}
  BY <1>2, <1>4 DEF AreApart
<1> QED
  BY <1>1, <1>2, <1>3, <1>4, <1>5, <1>6

LEMMA Ascends ==
  ASSUME F.ns \in Nat, NEW list \in Seq(Nodes), IsAscending(list)
  PROVE  IsInjective(list)
<1> SUFFICES ASSUME NEW a \in DOMAIN list, NEW b \in DOMAIN list, list[a] = list[b] PROVE a = b
  BY DEF IsInjective
<1>1. a \in Nat /\ b \in Nat /\ list[a] \in Int /\ list[b] \in Int
  <2>1. list[a] \in Nodes /\ list[b] \in Nodes /\ a \in Nat /\ b \in Nat
    BY ListItems
  <2>2. F.ns \in Int => Nodes \subseteq Int
    BY DEF Nodes, Supers
  <2> QED BY <2>1, <2>2
<1>2. ~(a < b) /\ ~(b < a)
  BY <1>1 DEF IsAscending
<1> QED BY <1>1, <1>2

LEMMA PlanLevels ==
  ASSUME IsPlan(F, plan)
  PROVE  /\ plan.levels \in Seq(Seq(Nodes))
         /\ \A l \in DOMAIN plan.levels : plan.levels[l] \in Seq(Nodes) /\ IsAscending(plan.levels[l]) /\ IsInjective(plan.levels[l])
         /\ \A l, m \in DOMAIN plan.levels : l # m => LevelNodes(l) \cap LevelNodes(m) = {}
         /\ UNION {LevelNodes(l) : l \in DOMAIN plan.levels} = Tops
         /\ \A l \in DOMAIN plan.levels : \A s \in LevelNodes(l) : \A r \in F.rows[s] :
              \E m \in 1..l - 1 : plan.sn[r] \in LevelNodes(m)
<1>1. plan.levels \in Seq(Seq(Nodes)) /\ \A l \in DOMAIN plan.levels : IsAscending(plan.levels[l])
  BY DEF IsPlan, Nodes, Supers
<1>2. \A l \in DOMAIN plan.levels : plan.levels[l] \in Seq(Nodes) /\ IsInjective(plan.levels[l])
  BY <1>1, PlanTypes, Ascends
<1>3. AreApart(plan.levels) /\ UNION {LevelNodes(l) : l \in DOMAIN plan.levels} = Tops
  BY DEF IsPlan, Tops, LevelNodes, Nodes, Supers
<1>4. \A l \in DOMAIN plan.levels : \A s \in LevelNodes(l) : \A r \in F.rows[s] :
         \E m \in 1..l - 1 : plan.sn[r] \in LevelNodes(m)
  BY DEF IsPlan, LevelNodes, Nodes, Supers
<1> QED
  BY <1>1, <1>2, <1>3, <1>4 DEF AreApart, LevelNodes

LEMMA PlanRows ==
  ASSUME IsPlan(F, plan)
  PROVE  /\ \A t \in Trees : \A s \in ToSet(TreeNodes[t]) : \A r \in F.rows[s] :
              IF plan.slot[s][r] = NOSN THEN plan.sn[r] \in ToSet(TreeNodes[t]) /\ s < plan.sn[r] ELSE plan.sn[r] \in Tops
         /\ \A s \in Tops : \A r \in F.rows[s] : plan.sn[r] \in Tops
         /\ ~plan.chain => \A s \in Tops : \A r \in F.rows[s] : plan.slot[s][r] # NOSN /\ Above(plan.parent, s, plan.sn[r])
<1> DEFINE lists == [t \in DOMAIN plan.subtrees |-> plan.subtrees[t].nodes]
<1>1. TreeNodes = lists
  BY DEF TreeNodes, Trees
<1>2. \A t \in DOMAIN lists : \A s \in ToSet(lists[t]) : \A r \in F.rows[s] :
       IF plan.slot[s][r] = NOSN THEN plan.sn[r] \in ToSet(lists[t]) /\ s < plan.sn[r] ELSE plan.sn[r] \in Tops
  BY DEF IsPlan, Tops, Nodes, Supers
<1>3. DOMAIN lists = Trees
  BY DEF Trees
<1>4. \A s \in Tops : \A r \in F.rows[s] :
       /\ plan.sn[r] \in Tops
       /\ plan.chain \/ (plan.slot[s][r] # NOSN /\ Above(plan.parent, s, plan.sn[r]))
  BY DEF IsPlan, Tops, Nodes, Supers
<1> HIDE DEF lists
<1> QED
  BY <1>1, <1>2, <1>3, <1>4

\* The next of a list is the first that is not done.
LEMMA NextIsFirst ==
  ASSUME NEW list \in Seq(Nodes), ~AllDone(list)
  PROVE  \E i \in DOMAIN list :
           /\ NextOf(list) = list[i] /\ status[list[i]] # "done"
           /\ \A k \in DOMAIN list : k < i => status[list[k]] = "done"
<1> DEFINE open == {i \in DOMAIN list : status[list[i]] # "done"}
<1>1. open \in SUBSET Nat /\ open # {}
  BY ListItems DEF AllDone, ToSet
<1>2. Min(open) \in open /\ \A e \in open : Min(open) <= e
  <2> HIDE DEF open
  <2> QED BY <1>1, MinIsLeast
<1>3. NextOf(list) = list[Min(open)]
  BY DEF NextOf
<1>4. \A k \in DOMAIN list : k < Min(open) => status[list[k]] = "done"
  <2>1. \A k \in DOMAIN list : k \in Nat
    BY ListItems
  <2>2. \A k \in DOMAIN list : k < Min(open) => k \notin open
    <3> HIDE DEF open
    <3>1. Min(open) \in Nat
      BY <1>1, <1>2
    <3> QED BY <1>2, <2>1, <3>1
  <2> QED BY <2>2
<1> QED
  BY <1>2, <1>3, <1>4

LEMMA TurnGoesOn ==
  ASSUME NEW list \in Seq(Nodes), IsInjective(list), NEW st \in NodeStates, InOrder(list, st),
         NEW i \in DOMAIN list, st[list[i]] # "done", \A k \in DOMAIN list : k < i => st[list[k]] = "done", NEW v
  PROVE  InOrder(list, [st EXCEPT ![list[i]] = v])
<1> DEFINE after == [st EXCEPT ![list[i]] = v]
<1> SUFFICES ASSUME NEW a \in DOMAIN list, NEW b \in DOMAIN list, a < b, after[list[b]] # "idle"
             PROVE  after[list[a]] = "done"
  BY DEF InOrder
<1>1. list[a] \in Nodes /\ list[b] \in Nodes /\ list[i] \in Nodes
  BY ListItems
<1>2. a # b /\ list[a] # list[b] /\ (a # i => list[a] # list[i]) /\ (b # i => list[b] # list[i])
  BY DEF IsInjective
<1>3. CASE b = i
  BY <1>1, <1>2, <1>3 DEF NodeStates
<1>4. CASE b # i
  <2>1. st[list[b]] # "idle"
    BY <1>1, <1>2, <1>4 DEF NodeStates
  <2>2. st[list[a]] = "done"
    BY <2>1 DEF InOrder
  <2> QED BY <1>1, <1>2, <2>2 DEF NodeStates
<1> QED BY <1>3, <1>4

LEMMA TurnElsewhere ==
  ASSUME NEW list \in Seq(Nodes), NEW st \in NodeStates, InOrder(list, st), NEW s, s \notin ToSet(list), NEW v
  PROVE  InOrder(list, [st EXCEPT ![s] = v])
<1>1. \A k \in DOMAIN list : list[k] # s /\ list[k] \in Nodes
  BY ListItems DEF ToSet
<1>2. \A k \in DOMAIN list : [st EXCEPT ![s] = v][list[k]] = st[list[k]]
  BY <1>1 DEF NodeStates
<1> QED BY <1>2 DEF InOrder

LEMMA TurnOfIdle ==
  ASSUME NEW list \in Seq(Nodes), NEW st, \A s \in ToSet(list) : st[s] = "idle"
  PROVE  InOrder(list, st)
BY DEF InOrder, ToSet

LEMMA Reversed ==
  ASSUME NEW list \in Seq(Nodes), IsInjective(list)
  PROVE  Reverse(list) \in Seq(Nodes) /\ IsInjective(Reverse(list)) /\ ToSet(Reverse(list)) = ToSet(list)
<1> DEFINE n == Len(list)
           rev == [i \in 1..n |-> list[n - i + 1]]
<1>1. n \in Nat /\ DOMAIN list = 1..n /\ Reverse(list) = rev
  BY ListItems DEF Reverse
<1>2. \A i \in 1..n : (n - i) + 1 \in 1..n
  BY <1>1
<1>3. \A i \in 1..n : rev[i] = list[(n - i) + 1] /\ rev[i] \in Nodes
  BY <1>1, <1>2, ListItems
<1>4. rev \in Seq(Nodes) /\ DOMAIN rev = 1..n
  BY <1>1, <1>3
<1>5. IsInjective(rev)
  <2> SUFFICES ASSUME NEW a \in 1..n, NEW b \in 1..n, rev[a] = rev[b] PROVE a = b
    BY <1>4 DEF IsInjective
  <2>1. (n - a) + 1 = (n - b) + 1
    BY <1>1, <1>2, <1>3 DEF IsInjective
  <2> QED BY <1>1, <2>1
<1>6. ToSet(rev) = ToSet(list)
  <2>1. \A i \in 1..n : (n - ((n - i) + 1)) + 1 = i
    BY <1>1
  <2>2. \A i \in 1..n : rev[(n - i) + 1] = list[i]
    BY <1>2, <1>3, <2>1
  <2> HIDE DEF rev, n
  <2>3. \A node \in ToSet(rev) : node \in ToSet(list)
    BY <1>1, <1>2, <1>3, <1>4 DEF ToSet
  <2>4. \A node \in ToSet(list) : node \in ToSet(rev)
    BY <1>1, <1>2, <1>4, <2>2 DEF ToSet
  <2> QED BY <2>3, <2>4
<1> QED BY <1>1, <1>4, <1>5, <1>6

-----------------------------------------------------------------------------
LEMMA SamePlan ==
  ASSUME UNCHANGED fixed
  PROVE  /\ Nodes' = Nodes /\ Tops' = Tops /\ Trees' = Trees /\ TreeNodes' = TreeNodes
         /\ (IsPlan(F, plan))' = IsPlan(F, plan) /\ (\A s : TopKids(s)' = TopKids(s)) /\ (\A l : LevelNodes(l)' = LevelNodes(l))
         /\ F' = F /\ plan' = plan
BY DEF fixed, Nodes, Supers, Tops, Trees, TreeNodes, TopKids, LevelNodes, IsPlan

TreePhases == {"fwd-subtrees", "bwd-subtrees"}

LEMMA OrderOfTree ==
  ASSUME IsPlan(F, plan), NEW t \in Trees
  PROVE  /\ SubtreeOrder(t) \in Seq(Nodes) /\ IsInjective(SubtreeOrder(t))
         /\ ToSet(SubtreeOrder(t)) = ToSet(TreeNodes[t]) /\ ToSet(TreeNodes[t]) \subseteq Nodes \ Tops
         /\ TreeNodes[t] = plan.subtrees[t].nodes
<1>1. TreeNodes[t] \in Seq(Nodes) /\ IsAscending(TreeNodes[t]) /\ ToSet(TreeNodes[t]) \subseteq Nodes \ Tops
  BY PlanTrees
<1>2. IsInjective(TreeNodes[t])
  BY <1>1, Ascends, PlanTypes
<1>3. TreeNodes[t] = plan.subtrees[t].nodes
  BY DEF TreeNodes
<1>4. Reverse(TreeNodes[t]) \in Seq(Nodes) /\ IsInjective(Reverse(TreeNodes[t]))
      /\ ToSet(Reverse(TreeNodes[t])) = ToSet(TreeNodes[t])
  BY <1>1, <1>2, Reversed
<1> QED
  BY <1>1, <1>2, <1>3, <1>4 DEF SubtreeOrder

LEMMA TreesHold ==
  ASSUME IsPlan(F, plan), NEW s \in Nodes, s \notin Tops
  PROVE  \E t \in Trees : s \in ToSet(TreeNodes[t])
BY PlanTrees

LEMMA TreeStep ==
  ASSUME WalkInv, phase \in TreePhases, NEW t \in Trees, NEW i \in DOMAIN SubtreeOrder(t),
         status[SubtreeOrder(t)[i]] # "done", \A k \in DOMAIN SubtreeOrder(t) : k < i => status[SubtreeOrder(t)[k]] = "done",
         NEW v \in {"running", "done"}, status' = [status EXCEPT ![SubtreeOrder(t)[i]] = v],
         UNCHANGED <<fixed, parallel, phase, level>>
  PROVE  WalkInv'
<1> DEFINE order == SubtreeOrder(t)
           node == order[i]
<1>0. IsPlan(F, plan) /\ status \in NodeStates
  BY DEF WalkInv, WalkTypes, NodeStates
<1>1. order \in Seq(Nodes) /\ IsInjective(order) /\ ToSet(order) = ToSet(TreeNodes[t])
      /\ ToSet(TreeNodes[t]) \subseteq Nodes \ Tops
  BY <1>0, OrderOfTree
<1>2. node \in Nodes /\ node \notin Tops /\ node \in ToSet(TreeNodes[t])
  BY <1>1 DEF ToSet
<1>3. Nodes' = Nodes /\ Tops' = Tops /\ Trees' = Trees /\ (IsPlan(F, plan))' = IsPlan(F, plan) /\ plan' = plan
  BY SamePlan
<1>4. status' \in NodeStates /\ \A s \in Nodes : s # node => status'[s] = status[s]
  BY <1>0, <1>2 DEF NodeStates
<1>5. status'[node] = v
  BY <1>0, <1>2 DEF NodeStates
<1>6. WalkTypes'
  BY <1>3, <1>4 DEF WalkInv, WalkTypes, NodeStates
<1>7. InSubtrees
  BY DEF WalkInv, TreePhases
<1>8. \A u \in Trees : SubtreeOrder(u)' = SubtreeOrder(u)
  BY <1>3 DEF SubtreeOrder
<1>9. ASSUME NEW u \in Trees PROVE InOrder(SubtreeOrder(u), status')
  <2>1. InOrder(SubtreeOrder(u), status)
    BY <1>7 DEF InSubtrees, InTurn
  <2>2. CASE u = t
    BY <1>0, <1>1, <2>1, <2>2, TurnGoesOn
  <2>3. CASE u # t
    <3>1. SubtreeOrder(u) \in Seq(Nodes) /\ ToSet(SubtreeOrder(u)) = ToSet(TreeNodes[u])
      BY <1>0, OrderOfTree
    <3>2. node \notin ToSet(SubtreeOrder(u))
      BY <1>0, <1>2, <2>3, <3>1, PlanTrees
    <3> HIDE DEF node
    <3>3. status' = [status EXCEPT ![node] = v]
      BY DEF node
    <3>4. InOrder(SubtreeOrder(u), [status EXCEPT ![node] = v])
      BY <1>0, <2>1, <3>1, <3>2, TurnElsewhere
    <3> QED BY <3>3, <3>4
  <2> QED BY <2>2, <2>3
<1>10. InSubtrees'
  <2>1. AllAre(Nodes \ Tops, {"idle", "running", "done"})'
    BY <1>3, <1>4, <1>5, <1>7 DEF InSubtrees, AllAre
  <2>2. \A u \in Trees' : InTurn(SubtreeOrder(u))'
    BY <1>3, <1>8, <1>9 DEF InTurn
  <2> QED BY <2>1, <2>2 DEF InSubtrees
<1>11. \A s \in Tops : status'[s] = status[s]
  BY <1>0, <1>2, <1>4, PlanTypes
<1> QED
  BY <1>3, <1>6, <1>10, <1>11 DEF WalkInv, TreePhases, AllAre

LEMMA StartsInTree ==
  ASSUME WalkInv, NEW t \in Trees, StartInTree(t)
  PROVE  WalkInv'
<1>0. IsPlan(F, plan) /\ phase \in TreePhases
  BY DEF WalkInv, WalkTypes, StartInTree, TreePhases
<1>1. SubtreeOrder(t) \in Seq(Nodes) /\ ToSet(SubtreeOrder(t)) = ToSet(plan.subtrees[t].nodes)
  BY <1>0, OrderOfTree
<1>2. ~AllDone(SubtreeOrder(t))
  BY <1>1 DEF StartInTree, Swept, AllDone
<1>3. PICK i \in DOMAIN SubtreeOrder(t) :
         /\ NextInTree(t) = SubtreeOrder(t)[i] /\ status[SubtreeOrder(t)[i]] # "done"
         /\ \A k \in DOMAIN SubtreeOrder(t) : k < i => status[SubtreeOrder(t)[k]] = "done"
  BY <1>1, <1>2, NextIsFirst DEF NextInTree
<1>4. status' = [status EXCEPT ![SubtreeOrder(t)[i]] = "running"] /\ UNCHANGED <<fixed, parallel, phase, level>>
  BY <1>3 DEF StartInTree
<1> QED
  BY <1>0, <1>3, <1>4, TreeStep

LEMMA FinishesInTree ==
  ASSUME WalkInv, NEW s \in Nodes, FinishInTree(s)
  PROVE  WalkInv'
<1>0. IsPlan(F, plan) /\ phase \in TreePhases /\ s \notin Tops /\ status[s] = "running"
  BY DEF WalkInv, WalkTypes, FinishInTree, TreePhases
<1>1. PICK t \in Trees : s \in ToSet(TreeNodes[t])
  BY <1>0, TreesHold
<1>2. PICK i \in DOMAIN SubtreeOrder(t) : SubtreeOrder(t)[i] = s
  <2>1. s \in ToSet(SubtreeOrder(t))
    BY <1>0, <1>1, OrderOfTree
  <2> QED BY <2>1 DEF ToSet
<1>3. InTurn(SubtreeOrder(t))
  BY <1>0 DEF WalkInv, InSubtrees, TreePhases
<1>4. \A k \in DOMAIN SubtreeOrder(t) : k < i => status[SubtreeOrder(t)[k]] = "done"
  BY <1>0, <1>2, <1>3 DEF InTurn, InOrder
<1>5. status' = [status EXCEPT ![SubtreeOrder(t)[i]] = "done"] /\ UNCHANGED <<fixed, parallel, phase, level>>
  BY <1>2 DEF FinishInTree
<1> QED
  BY <1>0, <1>2, <1>4, <1>5, TreeStep

LEMMA Begins == WalkInv /\ BeginForward => WalkInv'
<1> SUFFICES ASSUME WalkInv, BeginForward PROVE WalkInv'
  OBVIOUS
<1>0. IsPlan(F, plan) /\ phase = "forward" /\ AllAre(Nodes, {"idle"}) /\ status' = status
  BY DEF WalkInv, WalkTypes, BeginForward
<1>1. Nodes' = Nodes /\ Tops' = Tops /\ Trees' = Trees /\ (IsPlan(F, plan))' = IsPlan(F, plan) /\ plan' = plan
  BY SamePlan DEF BeginForward
<1>2. WalkTypes'
  BY <1>1 DEF WalkInv, WalkTypes, BeginForward, WalkPhases
<1>3. ASSUME NEW t \in Trees PROVE InTurn(SubtreeOrder(t))'
  <2>1. SubtreeOrder(t)' = TreeNodes[t]
    BY <1>1 DEF SubtreeOrder, BeginForward, TreeNodes
  <2>2. TreeNodes[t] \in Seq(Nodes) /\ ToSet(TreeNodes[t]) \subseteq Nodes
    BY <1>0, PlanTrees
  <2>3. InOrder(TreeNodes[t], status)
    BY <1>0, <2>2, TurnOfIdle DEF AllAre
  <2> QED BY <1>0, <2>1, <2>3 DEF InTurn
<1>4. InSubtrees' /\ AllAre(Tops, {"idle"})'
  BY <1>0, <1>1, <1>3, PlanTypes DEF InSubtrees, AllAre
<1> QED
  BY <1>2, <1>4 DEF WalkInv, BeginForward

\* All subtrees swept: every node off the ancestors is done.
LEMMA SweptAll ==
  ASSUME IsPlan(F, plan), \A t \in Trees : Swept(t)
  PROVE  TreesAre("done")
<1> SUFFICES ASSUME NEW s \in Nodes \ Tops PROVE status[s] = "done"
  BY DEF TreesAre, AllAre
<1>1. PICK t \in Trees : s \in ToSet(TreeNodes[t])
  BY TreesHold
<1> QED
  BY <1>1 DEF Swept, AllDone, TreeNodes

LEMMA LevelsAreTops ==
  ASSUME IsPlan(F, plan)
  PROVE  /\ Len(plan.levels) \in Nat /\ DOMAIN plan.levels = 1..Len(plan.levels)
         /\ \A l \in DOMAIN plan.levels : LevelNodes(l) \subseteq Tops
BY PlanLevels, ListItems

LEMMA KidsAreFinite ==
  ASSUME IsPlan(F, plan), NEW p
  PROVE  IsFiniteSet(TopKids(p)) /\ IsFiniteSet(Undone(p))
<1>1. F.ns \in Nat /\ Tops \subseteq Nodes
  BY PlanTypes
<1>2. Nodes = 1..F.ns
  BY DEF Nodes, Supers
<1>3. IsFiniteSet(Nodes)
  BY <1>1, <1>2, FS_Interval
<1>4. TopKids(p) \subseteq Nodes /\ Undone(p) \subseteq Nodes
  BY <1>1 DEF TopKids, Undone
<1> QED
  BY <1>3, <1>4, FS_Subset

LEMMA GoesToAncestors == WalkInv /\ SubtreesForward => WalkInv'
<1> SUFFICES ASSUME WalkInv, SubtreesForward PROVE WalkInv'
  OBVIOUS
<1>0. IsPlan(F, plan) /\ phase = "fwd-subtrees" /\ AllAre(Tops, {"idle"}) /\ status \in NodeStates
  BY DEF WalkInv, WalkTypes, SubtreesForward, NodeStates
<1>1. /\ Nodes' = Nodes /\ Tops' = Tops /\ Trees' = Trees /\ (IsPlan(F, plan))' = IsPlan(F, plan) /\ plan' = plan
      /\ \A s : TopKids(s)' = TopKids(s)
      /\ \A l : LevelNodes(l)' = LevelNodes(l)
  BY SamePlan DEF SubtreesForward
<1>2. TreesAre("done")
  BY <1>0, SweptAll DEF SubtreesForward
<1>3. Tops \subseteq Nodes
  BY <1>0, PlanTypes
<1>4. CASE Flows(parallel)
  <2>1. /\ phase' = "fwd-flow" /\ level' = level /\ parallel' = parallel
        /\ pending' = [s \in Nodes |-> Cardinality(TopKids(s))]
        /\ status' = [s \in Nodes |-> IF s \in Tops /\ TopKids(s) = {} THEN "ready" ELSE status[s]]
    BY <1>4 DEF SubtreesForward, ResetPending
  <2>2. ~plan.chain /\ ~plan.chain'
    BY <1>1, <1>4 DEF Flows
  <2>3. \A s \in Tops : status'[s] = IF TopKids(s) = {} THEN "ready" ELSE "idle"
    BY <1>0, <1>3, <2>1 DEF AllAre
  <2>4. \A s \in Nodes \ Tops : status'[s] = "done"
    BY <1>2, <2>1 DEF TreesAre, AllAre
  <2>5. \A p : Undone(p)' = TopKids(p)
    BY <1>1, <2>3 DEF Undone, TopKids
  <2>6. \A p \in Nodes : Cardinality(TopKids(p)) \in Int
    BY <1>0, KidsAreFinite, FS_CardinalityType
  <2>7. ForwardFlow'
    BY <1>1, <1>3, <2>1, <2>2, <2>3, <2>5, <2>6 DEF ForwardFlow
  <2>8. WalkTypes'
    BY <1>0, <1>1, <2>1 DEF WalkInv, WalkTypes, WalkPhases, NodeStates
  <2>9. TreesAre("done")'
    BY <1>1, <2>4 DEF TreesAre, AllAre
  <2> QED BY <2>1, <2>7, <2>8, <2>9 DEF WalkInv
<1>5. CASE ~Flows(parallel)
  <2>1. phase' = "fwd-levels" /\ level' = Len(plan.levels) /\ status' = status /\ parallel' = parallel
    BY <1>5 DEF SubtreesForward
  <2>2. Len(plan.levels) \in Nat /\ DOMAIN plan.levels = 1..Len(plan.levels)
        /\ \A l \in DOMAIN plan.levels : LevelNodes(l) \subseteq Tops
    BY <1>0, LevelsAreTops
  <2>3. WalkTypes'
    BY <1>1, <2>1, <2>2 DEF WalkInv, WalkTypes, WalkPhases
  <2>4. ForwardLevels'
    <3>1. level' \in 0..Len(plan.levels)' /\ AllAre(Tops, {"idle", "done"})'
      BY <1>0, <1>1, <2>1, <2>2 DEF AllAre
    <3>2. ASSUME NEW l \in DOMAIN plan.levels PROVE ~(l > level') /\ AllAre(LevelNodes(l), {"idle"})'
      BY <1>0, <1>1, <2>1, <2>2 DEF AllAre
    <3> QED BY <1>1, <3>1, <3>2 DEF ForwardLevels
  <2>5. TreesAre("done")'
    BY <1>1, <1>2, <2>1 DEF TreesAre, AllAre
  <2> QED BY <2>1, <2>3, <2>4, <2>5 DEF WalkInv
<1> QED BY <1>4, <1>5

-----------------------------------------------------------------------------
\* A step of the forward flow that changes one ancestor's state.
LEMMA StateOnly ==
  ASSUME WalkInv, phase = "fwd-flow", NEW s \in Nodes, s \in Tops,
         NEW v \in {"running", "ran"}, status[s] \notin {"idle", "done"},
         status' = [status EXCEPT ![s] = v], UNCHANGED <<fixed, parallel, phase, pending, level>>
  PROVE  WalkInv'
<1>0. IsPlan(F, plan) /\ status \in NodeStates /\ TreesAre("done") /\ ForwardFlow
  BY DEF WalkInv, WalkTypes, NodeStates
<1>1. /\ Nodes' = Nodes /\ Tops' = Tops /\ Trees' = Trees /\ (IsPlan(F, plan))' = IsPlan(F, plan) /\ plan' = plan
      /\ \A p : TopKids(p)' = TopKids(p)
  BY SamePlan
<1>2. \A u \in Nodes : (status'[u] = "done" <=> status[u] = "done") /\ (status'[u] = "idle" <=> status[u] = "idle")
  <2>1. \A u \in Nodes : u # s => status'[u] = status[u]
    BY <1>0 DEF NodeStates
  <2>2. status'[s] = v
    BY <1>0 DEF NodeStates
  <2>3. v # "idle" /\ v # "done"
    OBVIOUS
  <2> QED BY <2>1, <2>2, <2>3
<1>3. Tops \subseteq Nodes
  BY <1>0, PlanTypes
<1>4. \A p : Undone(p)' = Undone(p)
  BY <1>1, <1>2, <1>3 DEF Undone, TopKids
<1>5. WalkTypes'
  BY <1>0, <1>1 DEF WalkInv, WalkTypes, NodeStates
<1>6. ForwardFlow'
  BY <1>0, <1>1, <1>2, <1>3, <1>4 DEF ForwardFlow
<1>7. TreesAre("done")'
  BY <1>0, <1>1, <1>2 DEF TreesAre, AllAre
<1> QED
  BY <1>5, <1>6, <1>7 DEF WalkInv

LEMMA CountsDown ==
  ASSUME WalkInv, NEW s \in Nodes, CountDownParent(s)
  PROVE  WalkInv'
<1> DEFINE p == plan.parent[s]
<1>0. /\ IsPlan(F, plan) /\ status \in NodeStates /\ TreesAre("done") /\ ForwardFlow /\ phase = "fwd-flow"
      /\ status[s] = "ran" /\ UNCHANGED <<fixed, parallel, phase, level>>
  BY DEF WalkInv, WalkTypes, NodeStates, CountDownParent
<1>1. /\ Nodes' = Nodes /\ Tops' = Tops /\ Trees' = Trees /\ (IsPlan(F, plan))' = IsPlan(F, plan) /\ plan' = plan
      /\ \A q : TopKids(q)' = TopKids(q)
  BY <1>0, SamePlan
<1>2. Tops \subseteq Nodes /\ F.ns \in Nat /\ Nodes = 1..F.ns
  BY <1>0, PlanTypes DEF Nodes, Supers
<1>3. s \in Tops
  BY <1>0 DEF TreesAre, AllAre
<1>4. s \notin TopKids(s) /\ \A q : s \in TopKids(q) <=> q = p
  BY <1>0, <1>2, <1>3, PlanTypes DEF TopKids, NOSN
<1>5. CASE p = NOSN
  <2>1. status' = [status EXCEPT ![s] = "done"] /\ pending' = pending
    BY <1>5 DEF CountDownParent
  <2>2. \A u \in Nodes : u # s => status'[u] = status[u]
    BY <1>0, <2>1 DEF NodeStates
  <2>3. status'[s] = "done" /\ status' \in NodeStates
    BY <1>0, <2>1 DEF NodeStates
  <2>4. \A q \in Tops : s \notin TopKids(q)
    BY <1>2, <1>4, <1>5 DEF NOSN
  <2>5. \A q \in Tops : Undone(q)' = Undone(q)
    BY <1>1, <1>2, <2>2, <2>4 DEF Undone, TopKids
  <2>6. ForwardFlow'
    BY <1>0, <1>1, <1>2, <2>1, <2>2, <2>3, <2>5 DEF ForwardFlow
  <2>7. TreesAre("done")'
    BY <1>0, <1>1, <2>2, <2>3 DEF TreesAre, AllAre
  <2>8. WalkTypes'
    BY <1>0, <1>1, <2>3 DEF WalkInv, WalkTypes, NodeStates
  <2> QED BY <1>0, <2>6, <2>7, <2>8 DEF WalkInv
<1>6. CASE p # NOSN
  <2>1. /\ pending' = [pending EXCEPT ![p] = @ - 1]
        /\ status' = [status EXCEPT ![s] = "done", ![p] = IF pending[p] = 1 THEN "ready" ELSE @]
    BY <1>6 DEF CountDownParent
  <2>2. p \in Tops /\ p \in Nodes /\ p # s
    BY <1>0, <1>2, <1>3, <1>6, PlanTypes
  <2>3. s \in Undone(p) /\ s \in TopKids(p)
    BY <1>0, <1>4 DEF Undone
  <2>4. status[p] = "idle" /\ pending[p] = Cardinality(Undone(p))
    BY <1>0, <2>2, <2>3 DEF ForwardFlow
  <2>5. status'[s] = "done" /\ status'[p] = (IF pending[p] = 1 THEN "ready" ELSE "idle")
    BY <1>0, <2>1, <2>2, <2>4 DEF NodeStates
  <2>6. \A u \in Nodes : u # s /\ u # p => status'[u] = status[u]
    BY <1>0, <2>1, <2>2 DEF NodeStates
  <2>7. status' \in NodeStates
    BY <1>0, <2>1, <2>2, <2>4 DEF NodeStates
  <2>8. Undone(p)' = Undone(p) \ {s}
    <3>1. ASSUME NEW k \in TopKids(p) PROVE k \in Nodes /\ k # p
      <4>1. k \in Nodes /\ plan.parent[k] = p /\ p # NOSN
        BY <1>2, <1>6 DEF TopKids
      <4>2. k < p /\ F.ns \in Nat
        BY <1>0, <4>1, PlanTypes
      <4>3. k \in Int
        BY <4>1, <4>2 DEF Nodes, Supers
      <4> QED BY ONLY <4>1, <4>2, <4>3
    <3>2. \A k \in TopKids(p) : k # s => status'[k] = status[k]
      BY <2>6, <3>1
    <3>3. TopKids(p)' = TopKids(p)
      BY <1>1
    <3> HIDE DEF p
    <3> QED BY <2>5, <3>2, <3>3 DEF Undone
  <2>9. \A q \in Tops : q # p => Undone(q)' = Undone(q)
    BY <1>0, <1>1, <1>2, <1>4, <2>4, <2>5, <2>6 DEF Undone, TopKids
  <2>10. /\ Cardinality(Undone(p) \ {s}) = Cardinality(Undone(p)) - 1
         /\ Cardinality(Undone(p)) \in Nat /\ (Undone(p) \ {s} = {} <=> Cardinality(Undone(p)) = 1)
    <3>1. IsFiniteSet(Undone(p)) /\ IsFiniteSet(Undone(p) \ {s})
      BY <1>0, KidsAreFinite, FS_Subset
    <3>2. Cardinality(Undone(p) \ {s}) = Cardinality(Undone(p)) - 1
      BY <2>3, <3>1, FS_RemoveElement
    <3>3. Cardinality(Undone(p)) \in Nat
      BY <3>1, FS_CardinalityType
    <3>4. Undone(p) \ {s} = {} <=> Cardinality(Undone(p) \ {s}) = 0
      BY <3>1, FS_EmptySet
    <3> HIDE DEF p
    <3> QED BY <3>2, <3>3, <3>4
  <2>11. pending' \in [Nodes -> Int] /\ pending'[p] = pending[p] - 1 /\ \A q \in Nodes : q # p => pending'[q] = pending[q]
    BY <1>0, <2>1, <2>2 DEF ForwardFlow
  <2>12. \A q \in Tops : pending'[q] = Cardinality(Undone(q)') /\ (status'[q] = "idle" <=> Undone(q)' # {})
    <3> SUFFICES ASSUME NEW q \in Tops
                 PROVE  pending'[q] = Cardinality(Undone(q)') /\ (status'[q] = "idle" <=> Undone(q)' # {})
      OBVIOUS
    <3>1. CASE q = p
      <4>1. pending'[p] = Cardinality(Undone(p)')
        <5> HIDE DEF p
        <5> QED BY <2>4, <2>8, <2>10, <2>11
      <4>2. status'[p] = "idle" <=> Undone(p)' # {}
        <5> HIDE DEF p
        <5> QED BY <2>4, <2>5, <2>8, <2>10
      <4>3. q = p'
        BY <1>1, <3>1
      <4>4. Undone(q)' = Undone(p)'
        BY <4>3
      <4> QED BY <4>1, <4>2, <4>4, <3>1
    <3>2. CASE q = s
      BY <1>0, <1>2, <2>2, <2>5, <2>9, <2>11, <3>2 DEF ForwardFlow
    <3>3. CASE q # p /\ q # s
      BY <1>0, <1>2, <2>6, <2>9, <2>11, <3>3 DEF ForwardFlow
    <3> QED BY <3>1, <3>2, <3>3
  <2>13. ForwardFlow'
    BY <1>0, <1>1, <2>11, <2>12 DEF ForwardFlow
  <2>14. TreesAre("done")'
    BY <1>0, <1>1, <2>2, <2>5, <2>6, <1>3 DEF TreesAre, AllAre
  <2>15. WalkTypes'
    BY <1>0, <1>1, <2>7 DEF WalkInv, WalkTypes, NodeStates
  <2> QED BY <1>0, <2>13, <2>14, <2>15 DEF WalkInv
<1> QED BY <1>5, <1>6

LEMMA StartsForward ==
  ASSUME WalkInv, NEW s \in Nodes, StartForward(s) \/ FinishForward(s)
  PROVE  WalkInv'
<1>1. phase = "fwd-flow" /\ status[s] \in {"ready", "running"} /\ TreesAre("done")
  BY DEF WalkInv, StartForward, FinishForward
<1>2. s \in Tops
  BY <1>1 DEF TreesAre, AllAre
<1>3. CASE StartForward(s)
  BY <1>1, <1>2, <1>3, StateOnly DEF StartForward
<1>4. CASE FinishForward(s)
  BY <1>1, <1>2, <1>4, StateOnly DEF FinishForward
<1> QED BY <1>3, <1>4

\* What a level sweep does to the node it is at.
LEMMA NextOfLevel ==
  ASSUME WalkInv, NEW l \in DOMAIN plan.levels, ~AllDone(plan.levels[l])
  PROVE  \E i \in DOMAIN plan.levels[l] :
           /\ NextOf(plan.levels[l]) = plan.levels[l][i] /\ status[plan.levels[l][i]] # "done"
           /\ \A k \in DOMAIN plan.levels[l] : k < i => status[plan.levels[l][k]] = "done"
           /\ plan.levels[l][i] \in LevelNodes(l) /\ plan.levels[l][i] \in Nodes /\ plan.levels[l][i] \in Tops
           /\ \A m \in DOMAIN plan.levels : m # l => plan.levels[l][i] \notin LevelNodes(m)
<1>1. IsPlan(F, plan)
  BY DEF WalkInv, WalkTypes
<1>2. plan.levels[l] \in Seq(Nodes)
  BY <1>1, PlanLevels
<1>3. PICK i \in DOMAIN plan.levels[l] :
           /\ NextOf(plan.levels[l]) = plan.levels[l][i] /\ status[plan.levels[l][i]] # "done"
           /\ \A k \in DOMAIN plan.levels[l] : k < i => status[plan.levels[l][k]] = "done"
  BY <1>2, NextIsFirst
<1>4. plan.levels[l][i] \in LevelNodes(l)
  BY DEF LevelNodes, ToSet
<1>5. plan.levels[l][i] \in Tops /\ Tops \subseteq Nodes
  BY <1>1, <1>4, LevelsAreTops, PlanTypes
<1>6. \A m \in DOMAIN plan.levels : m # l => plan.levels[l][i] \notin LevelNodes(m)
  BY <1>1, <1>4, PlanLevels
<1> QED
  BY <1>3, <1>4, <1>5, <1>6

LEMMA SweepsLevel == WalkInv /\ LevelForward => WalkInv'
<1> SUFFICES ASSUME WalkInv, LevelForward PROVE WalkInv'
  OBVIOUS
<1>0. /\ IsPlan(F, plan) /\ status \in NodeStates /\ phase = "fwd-levels" /\ TreesAre("done") /\ ForwardLevels
      /\ UNCHANGED <<fixed, parallel, phase>>
  BY DEF WalkInv, WalkTypes, NodeStates, LevelForward
<1>1. /\ Nodes' = Nodes /\ Tops' = Tops /\ Trees' = Trees /\ (IsPlan(F, plan))' = IsPlan(F, plan) /\ plan' = plan
      /\ \A l : LevelNodes(l)' = LevelNodes(l)
  BY <1>0, SamePlan
<1>2. Len(plan.levels) \in Nat /\ DOMAIN plan.levels = 1..Len(plan.levels)
      /\ \A l \in DOMAIN plan.levels : LevelNodes(l) \subseteq Tops
  BY <1>0, LevelsAreTops
<1>3. level \in 1..Len(plan.levels)
  BY <1>0, <1>2 DEF ForwardLevels, LevelForward
<1>4. CASE AllDone(plan.levels[level])
  <2>1. level' = level - 1 /\ status' = status
    BY <1>4 DEF LevelForward
  <2>2. AllAre(LevelNodes(level), {"done"})
    BY <1>4 DEF AllDone, AllAre, LevelNodes
  <2>3. level' \in 0..Len(plan.levels)
    BY <1>2, <1>3, <2>1
  <2>4. ASSUME NEW l \in DOMAIN plan.levels
        PROVE  (l > level' => AllAre(LevelNodes(l), {"done"})) /\ (l < level' => AllAre(LevelNodes(l), {"idle"}))
    <3>1. l > level' => l = level \/ l > level
      BY <1>2, <1>3, <2>1
    <3>2. l < level' => l < level
      BY <1>2, <1>3, <2>1
    <3> QED BY <1>0, <2>2, <3>1, <3>2 DEF ForwardLevels
  <2>5. ForwardLevels'
    BY <1>0, <1>1, <2>1, <2>3, <2>4 DEF ForwardLevels, AllAre
  <2>6. WalkTypes'
    BY <1>0, <1>1, <1>2, <2>1, <2>3 DEF WalkInv, WalkTypes
  <2>7. TreesAre("done")'
    BY <1>0, <1>1, <2>1 DEF TreesAre, AllAre
  <2> QED BY <1>0, <2>5, <2>6, <2>7 DEF WalkInv
<1>5. CASE ~AllDone(plan.levels[level])
  <2>1. PICK i \in DOMAIN plan.levels[level] :
           /\ NextOf(plan.levels[level]) = plan.levels[level][i]
           /\ plan.levels[level][i] \in LevelNodes(level) /\ plan.levels[level][i] \in Nodes /\ plan.levels[level][i] \in Tops
           /\ \A m \in DOMAIN plan.levels : m # level => plan.levels[level][i] \notin LevelNodes(m)
    BY <1>2, <1>3, <1>5, NextOfLevel
  <2> DEFINE node == plan.levels[level][i]
  <2>2. status' = [status EXCEPT ![node] = "done"] /\ level' = level
    BY <1>5, <2>1 DEF LevelForward
  <2>3. status'[node] = "done" /\ status' \in NodeStates /\ \A u \in Nodes : u # node => status'[u] = status[u]
    BY <1>0, <2>1, <2>2 DEF NodeStates
  <2>4. Tops \subseteq Nodes
    BY <1>0, PlanTypes
  <2>5. \A m \in DOMAIN plan.levels : m # level => \A u \in LevelNodes(m) : status'[u] = status[u]
    BY <1>2, <2>1, <2>3, <2>4
  <2>6. AllAre(Tops, {"idle", "done"})'
    BY <1>0, <1>1, <2>3, <2>4 DEF ForwardLevels, AllAre
  <2>7. \A l \in DOMAIN plan.levels :
          (l > level => AllAre(LevelNodes(l), {"done"})') /\ (l < level => AllAre(LevelNodes(l), {"idle"})')
    <3> SUFFICES ASSUME NEW l \in DOMAIN plan.levels
                 PROVE  (l > level => AllAre(LevelNodes(l), {"done"})') /\ (l < level => AllAre(LevelNodes(l), {"idle"})')
      OBVIOUS
    <3>1. l > level \/ l < level => l # level
      BY <1>2, <1>3
    <3>2. LevelNodes(l)' = LevelNodes(l)
      BY <1>1
    <3> QED BY <1>0, <2>5, <3>1, <3>2 DEF ForwardLevels, AllAre
  <2>8. ForwardLevels'
    BY <1>0, <1>1, <2>2, <2>6, <2>7 DEF ForwardLevels
  <2>9. WalkTypes'
    BY <1>0, <1>1, <2>2, <2>3 DEF WalkInv, WalkTypes, NodeStates
  <2>10. TreesAre("done")'
    BY <1>0, <1>1, <2>1, <2>3 DEF TreesAre, AllAre
  <2> QED BY <1>0, <2>8, <2>9, <2>10 DEF WalkInv
<1> QED BY <1>4, <1>5

-----------------------------------------------------------------------------
\* The walks of a forward flow end with every ancestor done: the least idle one
\* would have a child that is not done, and that one would be idle and less.
LEMMA FlowReachesAll ==
  ASSUME IsPlan(F, plan), ForwardFlow, WalksEnded
  PROVE  AllAre(Tops, {"done"})
<1> DEFINE open == {s \in Tops : status[s] = "idle"}
<1>1. Tops \subseteq Nodes /\ F.ns \in Nat /\ Nodes = 1..F.ns
  BY PlanTypes DEF Nodes, Supers
<1>2. SUFFICES ASSUME open # {} PROVE FALSE
  BY <1>2 DEF WalksEnded, AllAre
<1>3. open \in SUBSET Nat
  <2>1. Nodes \subseteq Nat
    BY <1>1
  <2> QED BY <1>1, <2>1
<1>4. PICK m \in open : \A e \in open : m <= e
  <2> HIDE DEF open
  <2> QED BY <1>2, <1>3, MinIsLeast
<1>5. PICK k \in Undone(m) : TRUE
  BY <1>4 DEF ForwardFlow
<1>6. k \in open /\ plan.parent[k] = m /\ k \in Nodes /\ m \in Nodes
  BY <1>1, <1>4, <1>5 DEF Undone, TopKids, WalksEnded
<1>7. k < m
  BY <1>1, <1>6, PlanTypes DEF NOSN
<1>8. m <= k
  BY <1>4, <1>6
<1> QED BY <1>1, <1>6, <1>7, <1>8

\* Downwards: the greatest idle one would have a parent that is not done.
LEMMA FlowComesBack ==
  ASSUME IsPlan(F, plan), BackwardFlow, WalksEnded
  PROVE  AllAre(Tops, {"done"})
<1> DEFINE open == {s \in Tops : status[s] = "idle"}
           below == {F.ns - s : s \in open}
<1>1. Tops \subseteq Nodes /\ F.ns \in Nat /\ Nodes = 1..F.ns
  BY PlanTypes DEF Nodes, Supers
<1>2. SUFFICES ASSUME open # {} PROVE FALSE
  BY <1>2 DEF WalksEnded, AllAre
<1>3. below \in SUBSET Nat /\ below # {}
  <2>1. \A s \in Nodes : F.ns - s \in Nat
    BY ONLY <1>1
  <2>2. \A s \in open : s \in Nodes
    BY <1>1
  <2> QED BY <1>2, <2>1, <2>2
<1>4. PICK d \in below : \A e \in below : d <= e
  <2> HIDE DEF below
  <2> QED BY <1>3, MinIsLeast
<1>5. PICK m \in open : d = F.ns - m
  BY <1>4
<1>6. plan.parent[m] # NOSN /\ status[plan.parent[m]] # "done" /\ m \in Tops /\ m \in Nodes
  BY <1>1, <1>5 DEF BackwardFlow
<1>7. plan.parent[m] \in open /\ m < plan.parent[m] /\ plan.parent[m] \in Nodes
  <2>1. plan.parent[m] \in Tops /\ m < plan.parent[m]
    BY <1>6, PlanTypes
  <2> QED BY <1>1, <1>6, <2>1 DEF WalksEnded
<1>8. F.ns - m <= F.ns - plan.parent[m]
  BY <1>4, <1>5, <1>7
<1> QED BY <1>1, <1>6, <1>7, <1>8

LEMMA LevelsAll ==
  ASSUME IsPlan(F, plan), NEW S, \A l \in DOMAIN plan.levels : AllAre(LevelNodes(l), S)
  PROVE  AllAre(Tops, S)
BY PlanLevels DEF AllAre

LEMMA AllTogether ==
  ASSUME IsPlan(F, plan), TreesAre("done"), AllAre(Tops, {"done"})
  PROVE  AllAre(Nodes, {"done"})
BY PlanTypes DEF TreesAre, AllAre

LEMMA EndsForward == WalkInv /\ EndForward => WalkInv'
<1> SUFFICES ASSUME WalkInv, EndForward PROVE WalkInv'
  OBVIOUS
<1>0. IsPlan(F, plan) /\ TreesAre("done") /\ UNCHANGED <<fixed, parallel, status, level>>
      /\ phase' \in {"diagonal", "backward"}
  BY DEF WalkInv, WalkTypes, EndForward
<1>1. /\ Nodes' = Nodes /\ Tops' = Tops /\ Trees' = Trees /\ (IsPlan(F, plan))' = IsPlan(F, plan) /\ plan' = plan
  BY <1>0, SamePlan
<1>2. AllAre(Tops, {"done"})
  <2>1. CASE phase = "fwd-flow" /\ WalksEnded
    BY <1>0, <2>1, FlowReachesAll DEF WalkInv
  <2>2. CASE phase = "fwd-levels" /\ level = 0
    <3>1. Len(plan.levels) \in Nat /\ DOMAIN plan.levels = 1..Len(plan.levels)
      BY <1>0, LevelsAreTops
    <3>2. \A l \in DOMAIN plan.levels : AllAre(LevelNodes(l), {"done"})
      BY <2>2, <3>1 DEF WalkInv, ForwardLevels
    <3> QED BY <1>0, <3>2, LevelsAll
  <2> QED BY <2>1, <2>2 DEF EndForward
<1>3. AllAre(Nodes, {"done"})
  BY <1>0, <1>2, AllTogether
<1>4. WalkTypes'
  BY <1>0, <1>1 DEF WalkInv, WalkTypes, WalkPhases
<1>5. AllAre(Nodes, {"done"})'
  BY <1>0, <1>1, <1>3 DEF AllAre
<1> QED BY <1>0, <1>4, <1>5 DEF WalkInv

LEMMA TurnsBack ==
  ASSUME WalkInv, IsPlan(F, plan), UNCHANGED fixed, NEW par \in BOOLEAN, ToBackward(par), parallel' = par
  PROVE  WalkInv'
<1>1. /\ Nodes' = Nodes /\ Tops' = Tops /\ Trees' = Trees /\ (IsPlan(F, plan))' = IsPlan(F, plan) /\ plan' = plan
      /\ \A l : LevelNodes(l)' = LevelNodes(l)
  BY SamePlan
<1>2. Len(plan.levels) \in Nat /\ DOMAIN plan.levels = 1..Len(plan.levels)
      /\ \A l \in DOMAIN plan.levels : LevelNodes(l) \subseteq Tops
  BY LevelsAreTops
<1>3. /\ phase' = (IF Flows(par) THEN "bwd-flow" ELSE "bwd-levels") /\ level' = 1
      /\ status' = [s \in Nodes |-> IF Flows(par) /\ FirstBack(s) THEN "ready" ELSE "idle"]
  BY DEF ToBackward
<1>4. Tops \subseteq Nodes
  BY PlanTypes
<1>5. status' \in NodeStates /\ \A s \in Nodes \ Tops : status'[s] = "idle"
  BY <1>3 DEF NodeStates, FirstBack
<1>6. level' \in 1..Len(plan.levels) + 1 /\ level' \in 0..Len(plan.levels) + 1
  BY <1>2, <1>3
<1>7. WalkTypes'
  BY <1>1, <1>3, <1>5, <1>6 DEF WalkInv, WalkTypes, WalkPhases, NodeStates
<1>8. TreesAre("idle")'
  BY <1>1, <1>5 DEF TreesAre, AllAre
<1>9. CASE Flows(par)
  <2>1. \A s \in Tops : status'[s] = IF plan.parent[s] = NOSN THEN "ready" ELSE "idle"
    BY <1>3, <1>4, <1>9 DEF FirstBack
  <2>2. \A s \in Tops : plan.parent[s] # NOSN => plan.parent[s] \in Tops
    BY PlanTypes
  <2>3. ~plan.chain
    BY <1>9 DEF Flows
  <2>4. BackwardFlow'
    BY <1>1, <2>1, <2>2, <2>3 DEF BackwardFlow, AllAre
  <2> QED BY <1>3, <1>7, <1>8, <1>9, <2>4 DEF WalkInv
<1>10. CASE ~Flows(par)
  <2>1. \A s \in Nodes : status'[s] = "idle"
    BY <1>3, <1>10
  <2>2. AllAre(Tops, {"idle", "running", "done"})' /\ \A l \in DOMAIN plan.levels : AllAre(LevelNodes(l), {"idle"})'
    BY <1>1, <1>2, <1>4, <2>1 DEF AllAre
  <2>3. \A l \in DOMAIN plan.levels : ~(l < level')
    BY <1>2, <1>3
  <2>4. level' <= Len(plan.levels) => InOrder(plan.levels[level'], status')
    <3> SUFFICES ASSUME level' <= Len(plan.levels) PROVE InOrder(plan.levels[level'], status')
      OBVIOUS
    <3>1. level' \in DOMAIN plan.levels
      BY <1>2, <1>3
    <3>2. plan.levels[level'] \in Seq(Nodes)
      BY <3>1, PlanLevels
    <3>3. \A s \in ToSet(plan.levels[level']) : status'[s] = "idle"
      BY <1>2, <1>4, <2>1, <3>1 DEF LevelNodes
    <3> QED BY <3>2, <3>3, TurnOfIdle
  <2>5. BackwardLevels'
    BY <1>1, <1>6, <2>2, <2>3, <2>4 DEF BackwardLevels, InTurn
  <2> QED BY <1>3, <1>7, <1>8, <1>10, <2>5 DEF WalkInv
<1> QED BY <1>9, <1>10

LEMMA GoesBackward == WalkInv /\ (SolveDiagonal \/ BeginBackward) => WalkInv'
<1> SUFFICES ASSUME WalkInv, SolveDiagonal \/ BeginBackward PROVE WalkInv'
  OBVIOUS
<1>0. IsPlan(F, plan) /\ parallel \in BOOLEAN /\ UNCHANGED fixed
  BY DEF WalkInv, WalkTypes, SolveDiagonal, BeginBackward
<1>1. CASE SolveDiagonal /\ phase' = "failed" /\ UNCHANGED <<status, level>>
  <2>1. /\ Nodes' = Nodes /\ Tops' = Tops /\ (IsPlan(F, plan))' = IsPlan(F, plan) /\ plan' = plan
    BY <1>0, SamePlan
  <2>2. AllAre(Nodes, {"done"}) /\ status' = status /\ level' = level /\ parallel' = parallel
    BY <1>1 DEF WalkInv, SolveDiagonal
  <2>3. WalkTypes' /\ AllAre(Nodes, {"done"})'
    BY <1>1, <2>1, <2>2 DEF WalkInv, WalkTypes, WalkPhases, AllAre
  <2> QED BY <1>1, <2>3 DEF WalkInv
<1>2. CASE SolveDiagonal /\ ToBackward(parallel)
  BY <1>0, <1>2, TurnsBack DEF SolveDiagonal
<1>3. CASE BeginBackward
  BY <1>0, <1>3, TurnsBack DEF BeginBackward
<1> QED BY <1>1, <1>2, <1>3 DEF SolveDiagonal

LEMMA StartsBackward ==
  ASSUME WalkInv, NEW s \in Nodes, StartBackward(s)
  PROVE  WalkInv'
<1>0. /\ IsPlan(F, plan) /\ status \in NodeStates /\ phase = "bwd-flow" /\ TreesAre("idle") /\ BackwardFlow
      /\ UNCHANGED <<fixed, parallel, phase, level>> /\ status[s] = "ready"
      /\ status' = [status EXCEPT ![s] = "running"]
  BY DEF WalkInv, WalkTypes, NodeStates, StartBackward
<1>1. /\ Nodes' = Nodes /\ Tops' = Tops /\ (IsPlan(F, plan))' = IsPlan(F, plan) /\ plan' = plan
  BY <1>0, SamePlan
<1>2. s \in Tops
  BY <1>0 DEF TreesAre, AllAre
<1>3. status'[s] = "running" /\ status' \in NodeStates /\ \A u \in Nodes : u # s => status'[u] = status[u]
  BY <1>0 DEF NodeStates
<1>4. Tops \subseteq Nodes /\ \A u \in Tops : plan.parent[u] # NOSN => plan.parent[u] \in Tops
  BY <1>0, PlanTypes
<1>5. \A u \in Nodes : (status'[u] = "done" <=> status[u] = "done") /\ (status'[u] = "idle" <=> status[u] = "idle")
  BY <1>0, <1>3
<1>6. AllAre(Tops, {"idle", "ready", "running", "done"})'
  BY <1>0, <1>1, <1>3, <1>4 DEF BackwardFlow, AllAre
<1>7. \A u \in Tops : status'[u] = "idle" <=> plan.parent[u] # NOSN /\ status'[plan.parent[u]] # "done"
  BY <1>0, <1>4, <1>5 DEF BackwardFlow
<1>8. BackwardFlow'
  BY <1>0, <1>1, <1>6, <1>7 DEF BackwardFlow
<1>9. WalkTypes' /\ TreesAre("idle")'
  BY <1>0, <1>1, <1>2, <1>3 DEF WalkInv, WalkTypes, NodeStates, TreesAre, AllAre
<1> QED BY <1>0, <1>8, <1>9 DEF WalkInv

LEMMA FinishesBackward ==
  ASSUME WalkInv, NEW s \in Nodes, FinishBackward(s)
  PROVE  WalkInv'
<1>0. /\ IsPlan(F, plan) /\ status \in NodeStates /\ phase = "bwd-flow" /\ TreesAre("idle") /\ BackwardFlow
      /\ UNCHANGED <<fixed, parallel, phase, level>> /\ status[s] = "running"
      /\ status' = [u \in Nodes |-> IF u = s THEN "done" ELSE IF u \in TopKids(s) THEN "ready" ELSE status[u]]
  BY DEF WalkInv, WalkTypes, NodeStates, FinishBackward, ReleasedBy
<1>1. /\ Nodes' = Nodes /\ Tops' = Tops /\ (IsPlan(F, plan))' = IsPlan(F, plan) /\ plan' = plan
  BY <1>0, SamePlan
<1>2. s \in Tops
  BY <1>0 DEF TreesAre, AllAre
<1>3. /\ Tops \subseteq Nodes /\ F.ns \in Nat /\ Nodes = 1..F.ns
      /\ \A u \in Tops : plan.parent[u] # NOSN => plan.parent[u] \in Tops /\ u < plan.parent[u]
  BY <1>0, PlanTypes DEF Nodes, Supers
<1>4. status' \in NodeStates
  BY <1>0 DEF NodeStates
<1>5. \A u \in Tops : status'[u] = "idle" <=> plan.parent[u] # NOSN /\ status'[plan.parent[u]] # "done"
  <2> SUFFICES ASSUME NEW u \in Tops
               PROVE  status'[u] = "idle" <=> plan.parent[u] # NOSN /\ status'[plan.parent[u]] # "done"
    OBVIOUS
  <2> DEFINE q == plan.parent[u]
  <2>1. status[u] = "idle" <=> q # NOSN /\ status[q] # "done"
    BY <1>0 DEF BackwardFlow
  <2>2. q # NOSN => q \in Tops /\ q \in Nodes /\ u < q
    BY <1>3
  <2>3. q # NOSN /\ q \in TopKids(s) => status[q] = "idle"
    <3> SUFFICES ASSUME q \in TopKids(s) PROVE status[q] = "idle"
      OBVIOUS
    <3>1. q \in Tops /\ plan.parent[q] = s
      BY DEF TopKids
    <3>2. s # NOSN
      BY <1>2, <1>3 DEF NOSN
    <3> QED BY <1>0, <3>1, <3>2 DEF BackwardFlow
  <2>4. CASE u = s
    <3>1. q # NOSN => q \notin TopKids(s) /\ q # s
      BY <1>0, <1>3, <2>1, <2>2, <2>3, <2>4
    <3>2. q # NOSN => status[q] = "done" /\ status'[q] = status[q]
      BY <1>0, <2>1, <2>2, <2>4, <3>1
    <3> QED BY <1>0, <2>4, <3>2
  <2>5. CASE u # s /\ u \in TopKids(s)
    <3>1. q = s /\ status'[q] = "done" /\ status'[u] = "ready"
      BY <1>0, <1>3, <2>5 DEF TopKids
    <3> QED BY <3>1
  <2>6. CASE u # s /\ u \notin TopKids(s)
    <3>1. q # s
      BY <2>6 DEF TopKids
    <3>2. status'[u] = status[u]
      BY <1>0, <1>3, <2>6
    <3>3. q # NOSN => (status'[q] = "done" <=> status[q] = "done")
      BY <1>0, <2>2, <2>3, <3>1
    <3> QED BY <2>1, <3>2, <3>3
  <2> QED BY <2>4, <2>5, <2>6
<1>6. AllAre(Tops, {"idle", "ready", "running", "done"})'
  BY <1>0, <1>1, <1>3 DEF BackwardFlow, AllAre
<1>7. BackwardFlow'
  BY <1>0, <1>1, <1>5, <1>6 DEF BackwardFlow
<1>8. WalkTypes'
  BY <1>0, <1>1, <1>4 DEF WalkInv, WalkTypes, NodeStates
<1>9. TreesAre("idle")'
  <2>1. \A u \in Nodes \ Tops : u # s /\ u \notin TopKids(s)
    BY <1>2 DEF TopKids
  <2> QED BY <1>0, <1>1, <2>1 DEF TreesAre, AllAre
<1> QED BY <1>0, <1>7, <1>8, <1>9 DEF WalkInv

LEMMA SweepsLevelBack == WalkInv /\ LevelBackward => WalkInv'
<1> SUFFICES ASSUME WalkInv, LevelBackward PROVE WalkInv'
  OBVIOUS
<1>0. /\ IsPlan(F, plan) /\ status \in NodeStates /\ phase = "bwd-levels" /\ TreesAre("idle") /\ BackwardLevels
      /\ UNCHANGED <<fixed, parallel, phase>>
  BY DEF WalkInv, WalkTypes, NodeStates, LevelBackward
<1>1. /\ Nodes' = Nodes /\ Tops' = Tops /\ Trees' = Trees /\ (IsPlan(F, plan))' = IsPlan(F, plan) /\ plan' = plan
      /\ \A l : LevelNodes(l)' = LevelNodes(l)
  BY <1>0, SamePlan
<1>2. Len(plan.levels) \in Nat /\ DOMAIN plan.levels = 1..Len(plan.levels)
      /\ \A l \in DOMAIN plan.levels : LevelNodes(l) \subseteq Tops
  BY <1>0, LevelsAreTops
<1>3. level \in 1..Len(plan.levels)
  BY <1>0, <1>2 DEF BackwardLevels, LevelBackward
<1>4. CASE AllDone(plan.levels[level])
  <2>1. level' = level + 1 /\ status' = status
    BY <1>4 DEF LevelBackward
  <2>2. AllAre(LevelNodes(level), {"done"})
    BY <1>4 DEF AllDone, AllAre, LevelNodes
  <2>3. level' \in 1..Len(plan.levels) + 1 /\ level' \in 0..Len(plan.levels) + 1
    BY <1>2, <1>3, <2>1
  <2>4. \A l \in DOMAIN plan.levels :
          (l < level' => AllAre(LevelNodes(l), {"done"})) /\ (l > level' => AllAre(LevelNodes(l), {"idle"}))
    <3> SUFFICES ASSUME NEW l \in DOMAIN plan.levels
                 PROVE  (l < level' => AllAre(LevelNodes(l), {"done"})) /\ (l > level' => AllAre(LevelNodes(l), {"idle"}))
      OBVIOUS
    <3>1. l < level' => l = level \/ l < level
      BY <1>2, <1>3, <2>1
    <3>2. l > level' => l > level
      BY <1>2, <1>3, <2>1
    <3> QED BY <1>0, <2>2, <3>1, <3>2 DEF BackwardLevels
  <2>5. level' <= Len(plan.levels) => InOrder(plan.levels[level'], status)
    <3> SUFFICES ASSUME level' <= Len(plan.levels) PROVE InOrder(plan.levels[level'], status)
      OBVIOUS
    <3>1. level' \in DOMAIN plan.levels /\ level' > level
      BY <1>2, <1>3, <2>1
    <3>2. plan.levels[level'] \in Seq(Nodes)
      BY <1>0, <3>1, PlanLevels
    <3>3. AllAre(LevelNodes(level'), {"idle"})
      BY <1>0, <3>1 DEF BackwardLevels
    <3> QED BY <3>2, <3>3, TurnOfIdle DEF AllAre, LevelNodes
  <2>6. BackwardLevels'
    BY <1>0, <1>1, <2>1, <2>3, <2>4, <2>5 DEF BackwardLevels, AllAre, InTurn
  <2>7. WalkTypes' /\ TreesAre("idle")'
    BY <1>0, <1>1, <2>1, <2>3 DEF WalkInv, WalkTypes, TreesAre, AllAre
  <2> QED BY <1>0, <2>6, <2>7 DEF WalkInv
<1>5. CASE ~AllDone(plan.levels[level])
  <2> DEFINE list == plan.levels[level]
  <2>1. PICK i \in DOMAIN list :
           /\ NextOf(list) = list[i] /\ status[list[i]] # "done"
           /\ \A k \in DOMAIN list : k < i => status[list[k]] = "done"
           /\ list[i] \in LevelNodes(level) /\ list[i] \in Nodes /\ list[i] \in Tops
           /\ \A m \in DOMAIN plan.levels : m # level => list[i] \notin LevelNodes(m)
    BY <1>2, <1>3, <1>5, NextOfLevel
  <2> DEFINE node == list[i]
             v == IF status[node] = "idle" THEN "running" ELSE "done"
  <2>2. status' = [status EXCEPT ![node] = v] /\ level' = level
    BY <1>5, <2>1 DEF LevelBackward
  <2>3. status'[node] = v /\ v \in {"running", "done"} /\ status' \in NodeStates
        /\ \A u \in Nodes : u # node => status'[u] = status[u]
    BY <1>0, <2>1, <2>2 DEF NodeStates
  <2>4. Tops \subseteq Nodes
    BY <1>0, PlanTypes
  <2>5. \A m \in DOMAIN plan.levels : m # level => \A u \in LevelNodes(m) : status'[u] = status[u]
    BY <1>2, <2>1, <2>3, <2>4
  <2>6. AllAre(Tops, {"idle", "running", "done"})'
    BY <1>0, <1>1, <2>3, <2>4 DEF BackwardLevels, AllAre
  <2>7. \A l \in DOMAIN plan.levels :
          (l < level => AllAre(LevelNodes(l), {"done"})') /\ (l > level => AllAre(LevelNodes(l), {"idle"})')
    <3> SUFFICES ASSUME NEW l \in DOMAIN plan.levels
                 PROVE  (l < level => AllAre(LevelNodes(l), {"done"})') /\ (l > level => AllAre(LevelNodes(l), {"idle"})')
      OBVIOUS
    <3>1. l > level \/ l < level => l # level
      BY <1>2, <1>3
    <3>2. LevelNodes(l)' = LevelNodes(l)
      BY <1>1
    <3> QED BY <1>0, <2>5, <3>1, <3>2 DEF BackwardLevels, AllAre
  <2>8. InOrder(list, status')
    <3>1. list \in Seq(Nodes) /\ IsInjective(list)
      BY <1>0, <1>2, <1>3, PlanLevels
    <3>2. InOrder(list, status)
      BY <1>0, <1>3 DEF BackwardLevels, InTurn
    <3> HIDE DEF list
    <3>3. InOrder(list, [status EXCEPT ![list[i]] = v])
      BY <1>0, <2>1, <3>1, <3>2, TurnGoesOn
    <3> QED BY <2>2, <3>3
  <2>9. BackwardLevels'
    BY <1>0, <1>1, <2>2, <2>6, <2>7, <2>8 DEF BackwardLevels, InTurn
  <2>10. WalkTypes'
    BY <1>0, <1>1, <2>2, <2>3 DEF WalkInv, WalkTypes, NodeStates
  <2>11. TreesAre("idle")'
    BY <1>0, <1>1, <2>1, <2>3 DEF TreesAre, AllAre
  <2> QED BY <1>0, <2>9, <2>10, <2>11 DEF WalkInv
<1> QED BY <1>4, <1>5

LEMMA AncestorsAreBack == WalkInv /\ AncestorsBackward => WalkInv'
<1> SUFFICES ASSUME WalkInv, AncestorsBackward PROVE WalkInv'
  OBVIOUS
<1>0. IsPlan(F, plan) /\ TreesAre("idle") /\ UNCHANGED <<fixed, parallel, status, level>> /\ phase' = "bwd-subtrees"
  BY DEF WalkInv, WalkTypes, AncestorsBackward
<1>1. /\ Nodes' = Nodes /\ Tops' = Tops /\ Trees' = Trees /\ (IsPlan(F, plan))' = IsPlan(F, plan) /\ plan' = plan
      /\ TreeNodes' = TreeNodes
  BY <1>0, SamePlan
<1>2. AllAre(Tops, {"done"})
  <2>1. CASE phase = "bwd-flow" /\ WalksEnded
    BY <1>0, <2>1, FlowComesBack DEF WalkInv
  <2>2. CASE phase = "bwd-levels" /\ level > Len(plan.levels)
    <3>1. Len(plan.levels) \in Nat /\ DOMAIN plan.levels = 1..Len(plan.levels)
      BY <1>0, LevelsAreTops
    <3>2. \A l \in DOMAIN plan.levels : AllAre(LevelNodes(l), {"done"})
      BY <2>2, <3>1 DEF WalkInv, BackwardLevels
    <3> QED BY <1>0, <3>2, LevelsAll
  <2> QED BY <2>1, <2>2 DEF AncestorsBackward
<1>3. ASSUME NEW t \in Trees PROVE InTurn(SubtreeOrder(t))'
  <2>1. SubtreeOrder(t)' = Reverse(TreeNodes[t])
    BY <1>0, <1>1 DEF SubtreeOrder, TreeNodes
  <2>2. TreeNodes[t] \in Seq(Nodes) /\ IsInjective(TreeNodes[t]) /\ ToSet(TreeNodes[t]) \subseteq Nodes \ Tops
    BY <1>0, PlanTrees, PlanTypes, Ascends
  <2>3. Reverse(TreeNodes[t]) \in Seq(Nodes) /\ ToSet(Reverse(TreeNodes[t])) = ToSet(TreeNodes[t])
    BY <2>2, Reversed
  <2>4. InOrder(Reverse(TreeNodes[t]), status)
    BY <1>0, <2>2, <2>3, TurnOfIdle DEF TreesAre, AllAre
  <2> QED BY <1>0, <2>1, <2>4 DEF InTurn
<1>4. InSubtrees'
  BY <1>0, <1>1, <1>3 DEF InSubtrees, TreesAre, AllAre
<1>5. WalkTypes' /\ AllAre(Tops, {"done"})'
  BY <1>0, <1>1, <1>2 DEF WalkInv, WalkTypes, WalkPhases, AllAre
<1> QED BY <1>0, <1>4, <1>5 DEF WalkInv

LEMMA EndsBackward == WalkInv /\ EndBackward => WalkInv'
<1> SUFFICES ASSUME WalkInv, EndBackward PROVE WalkInv'
  OBVIOUS
<1>0. /\ IsPlan(F, plan) /\ AllAre(Tops, {"done"}) /\ (\A t \in Trees : Swept(t))
      /\ UNCHANGED <<fixed, parallel, status, level>> /\ phase' = "done"
  BY DEF WalkInv, WalkTypes, EndBackward
<1>1. /\ Nodes' = Nodes /\ Tops' = Tops /\ (IsPlan(F, plan))' = IsPlan(F, plan) /\ plan' = plan
  BY <1>0, SamePlan
<1>2. AllAre(Nodes, {"done"})
  BY <1>0, SweptAll, AllTogether
<1>3. WalkTypes' /\ AllAre(Nodes, {"done"})'
  BY <1>0, <1>1, <1>2 DEF WalkInv, WalkTypes, WalkPhases, AllAre
<1> QED BY <1>0, <1>3 DEF WalkInv

LEMMA WalkStutters == WalkInv /\ UNCHANGED walkVars => WalkInv'
<1> SUFFICES ASSUME WalkInv, UNCHANGED walkVars PROVE WalkInv'
  OBVIOUS
<1>1. UNCHANGED <<fixed, parallel, phase, status, pending, level>>
  BY DEF walkVars, fixed
<1>2. /\ Nodes' = Nodes /\ Tops' = Tops /\ Trees' = Trees /\ (IsPlan(F, plan))' = IsPlan(F, plan) /\ plan' = plan
      /\ (\A p : TopKids(p)' = TopKids(p)) /\ (\A l : LevelNodes(l)' = LevelNodes(l))
  BY <1>1, SamePlan
<1>3. \A S, X : AllAre(S, X)' = AllAre(S, X)
  BY <1>1 DEF AllAre
<1>4. \A t : InTurn(SubtreeOrder(t))' = InTurn(SubtreeOrder(t))
  BY <1>1, <1>2 DEF InTurn, SubtreeOrder
<1>5. \A p : Undone(p)' = Undone(p)
  BY <1>1, <1>2 DEF Undone
<1>6. (InSubtrees <=> InSubtrees') /\ (ForwardFlow <=> ForwardFlow')
  BY <1>1, <1>2, <1>3, <1>4, <1>5 DEF InSubtrees, ForwardFlow
<1>7. (ForwardLevels <=> ForwardLevels') /\ (BackwardFlow <=> BackwardFlow') /\ (BackwardLevels <=> BackwardLevels')
  BY <1>1, <1>2, <1>3 DEF ForwardLevels, BackwardFlow, BackwardLevels, InTurn, AllAre
<1>8. WalkTypes'
  BY <1>1, <1>2 DEF WalkInv, WalkTypes
<1> QED
  BY <1>1, <1>2, <1>3, <1>6, <1>7, <1>8 DEF WalkInv, TreesAre, AllAre

LEMMA WalkStep == WalkInv /\ [WalkNext]_walkVars => WalkInv'
<1> SUFFICES ASSUME WalkInv, [WalkNext]_walkVars PROVE WalkInv'
  OBVIOUS
<1>1. CASE BeginForward \/ SubtreesForward \/ LevelForward \/ EndForward
  BY <1>1, Begins, GoesToAncestors, SweepsLevel, EndsForward
<1>2. CASE SolveDiagonal \/ BeginBackward \/ LevelBackward \/ AncestorsBackward \/ EndBackward
  BY <1>2, GoesBackward, SweepsLevelBack, AncestorsAreBack, EndsBackward
<1>3. ASSUME NEW t \in Trees, StartInTree(t) PROVE WalkInv'
  BY <1>3, StartsInTree
<1>4. ASSUME NEW s \in Nodes, NodeStep(s) PROVE WalkInv'
  <2>1. CASE FinishInTree(s)
    BY <2>1, FinishesInTree
  <2>2. CASE StartForward(s) \/ FinishForward(s)
    BY <2>2, StartsForward
  <2>3. CASE CountDownParent(s)
    BY <2>3, CountsDown
  <2>4. CASE StartBackward(s)
    BY <2>4, StartsBackward
  <2>5. CASE FinishBackward(s)
    BY <2>5, FinishesBackward
  <2> QED BY <1>4, <2>1, <2>2, <2>3, <2>4, <2>5 DEF NodeStep
<1>5. CASE UNCHANGED walkVars
  BY <1>5, WalkStutters
<1> QED BY <1>1, <1>2, <1>3, <1>4, <1>5 DEF WalkNext

LEMMA WalkStarts == WalkInit => WalkInv
<1> SUFFICES ASSUME WalkInit PROVE WalkInv
  OBVIOUS
<1>1. IsPlan(F, plan)
  BY PlansAssumption DEF WalkInit
<1>2. phase = "forward" /\ parallel \in BOOLEAN /\ level = 0 /\ status = [s \in Nodes |-> "idle"]
  BY DEF WalkInit, AllIdle
<1>3. Len(plan.levels) \in Nat
  BY <1>1, LevelsAreTops
<1>4. WalkTypes
  BY <1>1, <1>2, <1>3 DEF WalkTypes, WalkPhases
<1> QED BY <1>2, <1>4 DEF WalkInv, AllAre

-----------------------------------------------------------------------------
LEMMA EarlierInTree ==
  ASSUME F.ns \in Nat, NEW list \in Seq(Nodes), IsAscending(list), NEW s \in ToSet(list), NEW u \in ToSet(list), s < u
  PROVE  /\ \E i, j \in DOMAIN list : i < j /\ list[i] = s /\ list[j] = u
         /\ \E i, j \in DOMAIN Reverse(list) : i < j /\ Reverse(list)[i] = u /\ Reverse(list)[j] = s
<1>1. PICK i \in DOMAIN list, j \in DOMAIN list : list[i] = s /\ list[j] = u
  BY DEF ToSet
<1>2. Len(list) \in Nat /\ DOMAIN list = 1..Len(list) /\ i \in Nat /\ j \in Nat /\ list[i] \in Nodes /\ list[j] \in Nodes
  BY ListItems
<1>3. s \in Int /\ u \in Int
  BY <1>1, <1>2 DEF Nodes, Supers
<1>4. i < j
  <2>1. i # j
    BY <1>1, <1>3
  <2>2. ~(j < i)
    BY <1>1, <1>3 DEF IsAscending
  <2> QED BY <1>2, <2>1, <2>2
<1>5. Reverse(list) = [k \in 1..Len(list) |-> list[(Len(list) - k) + 1]]
  BY DEF Reverse
<1> DEFINE a == (Len(list) - j) + 1
           b == (Len(list) - i) + 1
<1>6. a \in 1..Len(list) /\ b \in 1..Len(list) /\ a < b /\ (Len(list) - a) + 1 = j /\ (Len(list) - b) + 1 = i
  BY <1>2, <1>4
<1>7. Reverse(list)[a] = u /\ Reverse(list)[b] = s /\ DOMAIN Reverse(list) = 1..Len(list)
  <2> HIDE DEF a, b
  <2> QED BY <1>1, <1>5, <1>6
<1> QED BY <1>1, <1>4, <1>6, <1>7

LEMMA TreeReads ==
  ASSUME WalkInv, NEW t \in Trees, NEW s \in ToSet(TreeNodes[t]), NEW u \in ToSet(TreeNodes[t]), s < u
  PROVE  /\ phase = "fwd-subtrees" /\ status[u] # "idle" => status[s] = "done"
         /\ phase = "bwd-subtrees" /\ status[s] # "idle" => status[u] = "done"
<1>1. IsPlan(F, plan) /\ F.ns \in Nat
  BY PlanTypes DEF WalkInv, WalkTypes
<1>2. TreeNodes[t] \in Seq(Nodes) /\ IsAscending(TreeNodes[t]) /\ TreeNodes[t] = plan.subtrees[t].nodes
  BY <1>1, PlanTrees DEF TreeNodes
<1>3. /\ \E i, j \in DOMAIN TreeNodes[t] : i < j /\ TreeNodes[t][i] = s /\ TreeNodes[t][j] = u
      /\ \E i, j \in DOMAIN Reverse(TreeNodes[t]) : i < j /\ Reverse(TreeNodes[t])[i] = u /\ Reverse(TreeNodes[t])[j] = s
  BY <1>1, <1>2, EarlierInTree
<1>4. phase = "fwd-subtrees" => InOrder(TreeNodes[t], status)
  BY <1>2 DEF WalkInv, InSubtrees, InTurn, SubtreeOrder
<1>5. phase = "bwd-subtrees" => InOrder(Reverse(TreeNodes[t]), status)
  BY <1>2 DEF WalkInv, InSubtrees, InTurn, SubtreeOrder
<1> QED
  BY <1>3, <1>4, <1>5 DEF InOrder

LEMMA BackwardReads == WalkInv => BackwardReadsFinal
<1> SUFFICES ASSUME WalkInv, Backward, NEW s \in Nodes, status[s] \in {"running", "done"}, NEW r \in F.rows[s]
             PROVE  status[plan.sn[r]] = "done"
  BY DEF BackwardReadsFinal
<1> DEFINE u == plan.sn[r]
<1>1. IsPlan(F, plan)
  BY DEF WalkInv, WalkTypes
<1>2. Tops \subseteq Nodes /\ \A node \in Tops : plan.parent[node] # NOSN => plan.parent[node] \in Tops
  BY <1>1, PlanTypes
<1>3. CASE phase = "bwd-flow"
  <2>1. s \in Tops /\ ~plan.chain /\ BackwardFlow
    BY <1>3 DEF WalkInv, TreesAre, AllAre, BackwardFlow
  <2> DEFINE X == {node \in Tops : status[node] = "done"}
  <2>2. Above(plan.parent, s, u)
    BY <1>1, <2>1, PlanRows
  <2>3. X \in SUBSET DOMAIN plan.parent
    BY <1>1, <1>2, PlanTypes
  <2>4. \A node \in X \cup {s} : plan.parent[node] # NOSN => plan.parent[node] \in X
    BY <1>2, <2>1 DEF BackwardFlow
  <2>5. u \in X
    <3> HIDE DEF X, u
    <3> QED BY <2>2, <2>3, <2>4 DEF Above
  <2> QED BY <2>5
<1>4. CASE phase = "bwd-levels"
  <2>1. s \in Tops /\ BackwardLevels
    BY <1>4 DEF WalkInv, TreesAre, AllAre
  <2>2. PICK l \in DOMAIN plan.levels : s \in LevelNodes(l)
    BY <1>1, <2>1, PlanLevels
  <2>3. DOMAIN plan.levels = 1..Len(plan.levels) /\ Len(plan.levels) \in Nat
    BY <1>1, LevelsAreTops
  <2>4. PICK m \in 1..l - 1 : u \in LevelNodes(m)
    BY <1>1, <2>2, PlanLevels
  <2>5. ~(l > level)
    BY <2>1, <2>2 DEF BackwardLevels, AllAre
  <2>6. m \in DOMAIN plan.levels /\ m < level
    BY <2>1, <2>3, <2>4, <2>5 DEF BackwardLevels
  <2> QED BY <2>1, <2>4, <2>6 DEF BackwardLevels, AllAre
<1>5. CASE phase = "bwd-subtrees"
  <2>1. \A node \in Tops : status[node] = "done"
    BY <1>5 DEF WalkInv, AllAre
  <2>2. CASE u \in Tops
    BY <2>1, <2>2
  <2>3. CASE u \notin Tops
    <3>1. s \notin Tops
      BY <1>1, <2>3, PlanRows
    <3>2. PICK t \in Trees : s \in ToSet(TreeNodes[t])
      BY <1>1, <3>1, TreesHold
    <3>3. u \in ToSet(TreeNodes[t]) /\ s < u
      BY <1>1, <2>3, <3>2, PlanRows
    <3> QED BY <1>5, <3>2, <3>3, TreeReads
  <2> QED BY <2>2, <2>3
<1> QED BY <1>3, <1>4, <1>5 DEF Backward

\* In a flow a node that has been released finds all that update it done.
LEMMA FlowReads ==
  ASSUME WalkInv, phase = "fwd-flow", NEW s \in Nodes, status[s] # "idle", NEW u \in Nodes, NEW r \in F.rows[u], plan.sn[r] = s
  PROVE  status[u] = "done"
<1>1. IsPlan(F, plan)
  BY DEF WalkInv, WalkTypes
<1>2. Tops \subseteq Nodes /\ \A node \in Tops : plan.parent[node] # NOSN => plan.parent[node] \in Tops
  BY <1>1, PlanTypes
<1>3. ~plan.chain /\ ForwardFlow /\ TreesAre("done")
  BY DEF WalkInv, ForwardFlow
<1>4. CASE u \notin Tops
  BY <1>3, <1>4 DEF TreesAre, AllAre
<1>5. CASE u \in Tops
  <2> SUFFICES ASSUME status[u] # "done" PROVE FALSE
    OBVIOUS
  <2> DEFINE X == {node \in Tops : status[node] = "idle"}
  <2>1. Above(plan.parent, u, s)
    BY <1>1, <1>3, <1>5, PlanRows
  <2>2. X \in SUBSET DOMAIN plan.parent
    BY <1>1, <1>2, PlanTypes
  <2>3. \A node \in Tops : status[node] # "done" /\ plan.parent[node] # NOSN => plan.parent[node] \in X
    <3> SUFFICES ASSUME NEW node \in Tops, status[node] # "done", plan.parent[node] # NOSN PROVE plan.parent[node] \in X
      OBVIOUS
    <3>1. node \in Undone(plan.parent[node]) /\ plan.parent[node] \in Tops
      BY <1>2 DEF Undone, TopKids
    <3> QED BY <1>3, <3>1 DEF ForwardFlow
  <2>4. \A node \in X \cup {u} : plan.parent[node] # NOSN => plan.parent[node] \in X
    BY <1>5, <2>3
  <2>5. s \in X
    <3> HIDE DEF X
    <3> QED BY <2>1, <2>2, <2>4 DEF Above
  <2> QED BY <2>5
<1> QED BY <1>4, <1>5

LEMMA ForwardReads == WalkInv => ForwardReadsFinal
<1> SUFFICES ASSUME WalkInv, InForward, NEW s \in Nodes, NEW u \in Nodes, status[s] \in {"running", "ran", "done"},
                    F.rows[u] \cap Columns(s) # {}
             PROVE  status[u] = "done"
  BY DEF ForwardReadsFinal
<1>1. IsPlan(F, plan)
  BY DEF WalkInv, WalkTypes
<1>2. PICK r \in F.rows[u] : plan.sn[r] = s
  BY DEF Columns
<1>3. Tops \subseteq Nodes /\ \A node \in Tops : plan.parent[node] # NOSN => plan.parent[node] \in Tops
  BY <1>1, PlanTypes
<1>4. u \in Tops => s \in Tops
  BY <1>1, <1>2, PlanRows
<1>5. CASE phase = "fwd-subtrees"
  <2>1. s \notin Tops /\ u \notin Tops
    BY <1>4, <1>5 DEF WalkInv, AllAre
  <2>2. PICK t \in Trees : u \in ToSet(TreeNodes[t])
    BY <1>1, <2>1, TreesHold
  <2>3. s \in ToSet(TreeNodes[t]) /\ u < s
    BY <1>1, <1>2, <2>1, <2>2, PlanRows
  <2> QED BY <1>5, <2>2, <2>3, TreeReads
<1>6. CASE phase = "fwd-flow"
  BY <1>2, <1>6, FlowReads
<1>7. CASE phase = "fwd-levels"
  <2>1. ForwardLevels /\ TreesAre("done")
    BY <1>7 DEF WalkInv
  <2>2. CASE u \notin Tops
    BY <2>1, <2>2 DEF TreesAre, AllAre
  <2>3. CASE u \in Tops
    <3>1. PICK l \in DOMAIN plan.levels : u \in LevelNodes(l)
      BY <1>1, <2>3, PlanLevels
    <3>2. DOMAIN plan.levels = 1..Len(plan.levels) /\ Len(plan.levels) \in Nat
      BY <1>1, LevelsAreTops
    <3>3. PICK m \in 1..l - 1 : s \in LevelNodes(m)
      BY <1>1, <1>2, <3>1, PlanLevels
    <3>4. m \in DOMAIN plan.levels
      BY <3>2, <3>3
    <3>5. ~(m < level)
      BY <2>1, <3>3, <3>4 DEF ForwardLevels, AllAre
    <3>6. l > level
      BY <2>1, <3>2, <3>3, <3>5 DEF ForwardLevels
    <3> QED BY <2>1, <3>1, <3>6 DEF ForwardLevels, AllAre
  <2> QED BY <2>2, <2>3
<1> QED BY <1>5, <1>6, <1>7 DEF InForward

LEMMA OneInATree ==
  ASSUME WalkInv, phase = "fwd-subtrees", NEW t \in Trees, NEW s \in ToSet(TreeNodes[t]), NEW u \in ToSet(TreeNodes[t]),
         status[s] = "running", status[u] = "running"
  PROVE  s = u
<1>1. ~(s < u) /\ ~(u < s)
  BY TreeReads
<1>2. IsPlan(F, plan) /\ F.ns \in Nat
  BY PlanTypes DEF WalkInv, WalkTypes
<1>3. s \in Nodes /\ u \in Nodes
  BY <1>2, PlanTrees
<1> QED BY <1>1, <1>2, <1>3 DEF Nodes, Supers

LEMMA RowsApart == WalkInv => SharedRowsAreDisjoint
<1> SUFFICES ASSUME WalkInv, NEW s \in Nodes, NEW u \in Nodes, s # u, status[s] = "running", status[u] = "running",
                    NEW c \in Writes(s), c \in Reads(u) \cup Writes(u)
             PROVE  FALSE
  BY DEF SharedRowsAreDisjoint
<1>1. IsPlan(F, plan)
  BY DEF WalkInv, WalkTypes
<1>2. phase \in {"fwd-subtrees", "fwd-flow", "bwd-flow", "bwd-levels", "bwd-subtrees"}
  <2>1. phase = "fwd-levels" => status[s] # "running"
    BY DEF WalkInv, ForwardLevels, TreesAre, AllAre
  <2> QED BY <2>1 DEF WalkInv, WalkTypes, WalkPhases, AllAre
<1>3. CASE phase = "fwd-subtrees"
  <2>1. s \notin Tops /\ u \notin Tops
    BY <1>3 DEF WalkInv, AllAre
  <2>2. PICK t \in Trees : s \in ToSet(TreeNodes[t])
    BY <1>1, <2>1, TreesHold
  <2>3. PICK v \in Trees : u \in ToSet(TreeNodes[v])
    BY <1>1, <2>1, TreesHold
  <2>4. \A r \in F.rows[s] \ Slotted(s) : plan.sn[r] \in ToSet(TreeNodes[t])
    BY <1>1, <2>2, PlanRows DEF Slotted
  <2>5. \A r \in F.rows[u] \ Slotted(u) : plan.sn[r] \in ToSet(TreeNodes[v])
    BY <1>1, <2>3, PlanRows DEF Slotted
  <2>6. plan.sn[c] \in ToSet(TreeNodes[t]) /\ plan.sn[c] \in ToSet(TreeNodes[v])
    BY <1>3, <2>2, <2>3, <2>4, <2>5 DEF Writes, Reads, Columns, Backward
  <2>7. t = v
    BY <1>1, <2>6, PlanTrees
  <2> QED BY <1>3, <2>2, <2>3, <2>7, OneInATree
<1>4. CASE phase = "fwd-flow"
  <2>1. s \in Tops /\ u \in Tops /\ ~plan.chain
    BY <1>4 DEF WalkInv, TreesAre, AllAre, ForwardFlow
  <2>2. F.rows[s] \ Slotted(s) = {} /\ F.rows[u] \ Slotted(u) = {}
    BY <1>1, <2>1, PlanRows DEF Slotted
  <2>3. c \in Columns(s) /\ c \in Columns(u)
    BY <1>4, <2>2 DEF Writes, Reads, Backward
  <2> QED BY <2>3 DEF Columns
<1>5. CASE phase \in {"bwd-flow", "bwd-levels", "bwd-subtrees"}
  <2>1. c \in Columns(s) /\ c \in Columns(u) \cup F.rows[u]
    BY <1>5 DEF Writes, Reads, Backward
  <2>2. c \in F.rows[u] => status[plan.sn[c]] = "done"
    BY <1>5, BackwardReads DEF BackwardReadsFinal, Backward
  <2> QED BY <2>1, <2>2 DEF Columns
<1> QED BY <1>2, <1>3, <1>4, <1>5

(***************************************************************************)
(* The unchecked view of the right-hand side is used as its contract says, *)
(* under every schedule of the tasks of a solve.                           *)
(***************************************************************************)
THEOREM SharedViewSound == WalkSpec => []SharedViewIsSound
<1>1. WalkInv => SharedViewIsSound
  <2>1. WalkInv => NobodyLeftOut
    BY DEF WalkInv, AllAre, NobodyLeftOut
  <2> QED BY <2>1, RowsApart, ForwardReads, BackwardReads DEF SharedViewIsSound
<1> QED BY <1>1, WalkStarts, WalkStep, PTL DEF WalkSpec

-----------------------------------------------------------------------------
(***************************************************************************)
(* SolveWalk: the order of the terms.  H: the nodes that have handed over  *)
(* their products; W: those whose term row c has taken.                    *)
(***************************************************************************)
Sources == SourcesIn(plan)
NodesOf(src) == NodesAt(plan, src)
SlottedAt(src, c) == {u \in NodesOf(src) : c \in Slotted(u)}
Handed(st) == {s \in Nodes : st[s] \in {"ran", "done"}}

LEMMA PlanSources ==
  ASSUME IsPlan(F, plan)
  PROVE  /\ Len(plan.subtrees) \in Nat /\ Trees = 1..Len(plan.subtrees)
         /\ Len(plan.top) \in Nat /\ plan.top \in Seq(Nodes) /\ IsInjective(plan.top) /\ DOMAIN plan.top = 1..Len(plan.top)
         /\ Sources = 1..Len(plan.subtrees) + Len(plan.top)
         /\ SlotsAreRows(F, plan) /\ (~plan.chain => \A s \in Tops : PullsInOrder(F, plan, s))
         /\ plan.chain =>
              /\ Trees = {} /\ \A s \in Nodes : \A r \in F.rows[s] : plan.slot[s][r] = NOSN
              /\ \A l \in DOMAIN plan.levels : Len(plan.levels[l]) = 1
<1>1. /\ plan.subtrees \in Seq([nodes : Seq(Nodes), ext : Seq(DOMAIN plan.sn)])
      /\ plan.top \in Seq(Nodes) /\ IsInjective(plan.top)
      /\ SlotsAreRows(F, plan) /\ (~plan.chain => \A s \in Tops : PullsInOrder(F, plan, s))
      /\ plan.chain =>
           /\ plan.subtrees = <<>> /\ \A s \in Nodes : \A r \in F.rows[s] : plan.slot[s][r] = NOSN
           /\ \A l \in DOMAIN plan.levels : Len(plan.levels[l]) = 1
  BY DEF IsPlan, Tops, Nodes, Supers
<1>2. Len(plan.subtrees) \in Nat /\ DOMAIN plan.subtrees = 1..Len(plan.subtrees) /\ Len(plan.top) \in Nat
      /\ DOMAIN plan.top = 1..Len(plan.top)
  BY <1>1
<1>3. plan.chain => Trees = {}
  BY <1>1 DEF Trees
<1> QED
  BY <1>1, <1>2, <1>3 DEF Trees, Sources, SourcesIn

\* The subtrees come first among the sources, each with its nodes, then the ancestors.
LEMMA NodesAtSource ==
  ASSUME IsPlan(F, plan)
  PROVE  /\ \A t \in Trees : t \in Sources /\ NodesOf(t) = ToSet(TreeNodes[t])
         /\ \A k \in 1..Len(plan.top) :
              /\ Len(plan.subtrees) + k \in Sources \ Trees
              /\ NodesOf(Len(plan.subtrees) + k) = {plan.top[k]} /\ plan.top[k] \in Tops
         /\ \A src \in Sources \ Trees : \E k \in 1..Len(plan.top) : src = Len(plan.subtrees) + k
         /\ \A src \in Sources : NodesOf(src) \subseteq Nodes
<1> DEFINE a == Len(plan.subtrees)
           b == Len(plan.top)
<1>1. a \in Nat /\ b \in Nat /\ Trees = 1..a /\ Sources = 1..a + b /\ plan.top \in Seq(Nodes) /\ DOMAIN plan.top = 1..b
  BY PlanSources
<1>2. \A t \in Trees : NodesOf(t) = ToSet(TreeNodes[t])
  BY DEF NodesOf, NodesAt, Trees, TreeNodes
<1>3. \A src : src \notin Trees => NodesOf(src) = {plan.top[src - a]}
  BY DEF NodesOf, NodesAt, Trees
<1> HIDE DEF a, b
<1>4. \A t \in Trees : t \in Sources
  BY <1>1
<1>5. \A k \in 1..b : a + k \in Sources \ Trees /\ (a + k) - a = k
  BY <1>1
<1>6. \A src \in Sources \ Trees : src - a \in 1..b /\ src = a + (src - a)
  BY <1>1
<1>7. \A k \in 1..b : plan.top[k] \in Tops /\ plan.top[k] \in Nodes
  BY <1>1 DEF Tops, ToSet
<1>8. \A k \in 1..b : NodesOf(a + k) = {plan.top[k]}
  BY <1>3, <1>5
<1>9. \A src \in Sources : NodesOf(src) \subseteq Nodes
  <2>1. \A t \in Trees : ToSet(TreeNodes[t]) \subseteq Nodes
    BY PlanTrees
  <2> QED BY <1>2, <1>3, <1>6, <1>7, <2>1
<1> QED BY <1>2, <1>4, <1>5, <1>6, <1>7, <1>8, <1>9 DEF a, b

\* A node hands its products to one source.
LEMMA OneSource ==
  ASSUME IsPlan(F, plan), NEW s \in Nodes
  PROVE  SourceOf(s) \in Sources /\ s \in NodesOf(SourceOf(s)) /\ \A src \in Sources : s \in NodesOf(src) => src = SourceOf(s)
<1> DEFINE a == Len(plan.subtrees)
           b == Len(plan.top)
<1>1. a \in Nat /\ b \in Nat /\ plan.top \in Seq(Nodes) /\ DOMAIN plan.top = 1..b /\ IsInjective(plan.top)
  BY PlanSources
<1>2. CASE s \in Tops
  <2>1. \E i \in DOMAIN plan.top : plan.top[i] = s
    BY <1>2 DEF Tops, ToSet
  <2>2. PositionIn(plan.top, s) \in DOMAIN plan.top /\ plan.top[PositionIn(plan.top, s)] = s
    BY <2>1 DEF PositionIn
  <2>3. SourceOf(s) = a + PositionIn(plan.top, s)
    BY <1>2 DEF SourceOf
  <2>4. SourceOf(s) \in Sources /\ s \in NodesOf(SourceOf(s))
    BY <1>1, <2>2, <2>3, NodesAtSource
  <2>5. ASSUME NEW src \in Sources, s \in NodesOf(src) PROVE src = SourceOf(s)
    <3>1. src \notin Trees
      BY <1>2, <2>5, NodesAtSource, PlanTrees
    <3>2. PICK k \in 1..b : src = a + k
      BY <3>1, NodesAtSource
    <3>3. plan.top[k] = s
      BY <2>5, <3>2, NodesAtSource
    <3>4. k = PositionIn(plan.top, s)
      BY <1>1, <2>2, <3>3 DEF IsInjective
    <3> QED BY <2>3, <3>2, <3>4
  <2> QED BY <2>4, <2>5
<1>3. CASE s \notin Tops
  <2>1. \E t \in Trees : s \in ToSet(plan.subtrees[t].nodes)
    BY <1>3, TreesHold DEF TreeNodes
  <2>2. TreeOf(s) \in Trees /\ s \in ToSet(TreeNodes[TreeOf(s)])
    BY <2>1 DEF TreeOf, TreeNodes
  <2>3. SourceOf(s) = TreeOf(s)
    BY <1>3 DEF SourceOf
  <2>4. SourceOf(s) \in Sources /\ s \in NodesOf(SourceOf(s))
    BY <2>2, <2>3, NodesAtSource
  <2>5. ASSUME NEW src \in Sources, s \in NodesOf(src) PROVE src = SourceOf(s)
    <3>1. src \in Trees
      BY <1>3, <2>5, NodesAtSource
    <3>2. s \in ToSet(TreeNodes[src])
      BY <2>5, <3>1, NodesAtSource
    <3> QED BY <2>2, <2>3, <3>1, <3>2, PlanTrees
  <2> QED BY <2>4, <2>5
<1> QED BY <1>2, <1>3

\* A slot of a source is a row, and all of the source's nodes write it there.
LEMMA OneSlot ==
  ASSUME IsPlan(F, plan)
  PROVE  /\ \A src \in Sources : RowList(src) \in Seq(DOMAIN plan.sn) /\ IsInjective(RowList(src))
         /\ \A s \in Nodes : \A c \in Slotted(s) : c \in F.rows[s] /\ c \in DOMAIN plan.sn
              /\ plan.slot[s][c] \in DOMAIN RowList(SourceOf(s)) /\ RowList(SourceOf(s))[plan.slot[s][c]] = c
         /\ \A src \in Sources : \A s \in NodesOf(src) : \A c \in Slotted(s) :
              plan.slot[s][c] \in DOMAIN RowList(src) /\ RowList(src)[plan.slot[s][c]] = c
<1>1. SlotsAreRows(F, plan) /\ Sources = SourcesIn(plan) /\ F.rows \in [Nodes -> SUBSET DOMAIN plan.sn]
  BY PlanSources, PlanTypes DEF Sources
<1>2. \A src \in Sources : RowList(src) \in Seq(DOMAIN plan.sn) /\ IsInjective(RowList(src))
  BY <1>1 DEF SlotsAreRows, RowList
<1>3. ASSUME NEW src \in Sources, NEW s \in NodesOf(src), NEW c \in Slotted(s)
      PROVE  plan.slot[s][c] \in DOMAIN RowList(src) /\ RowList(src)[plan.slot[s][c]] = c
  <2>1. c \in F.rows[s] /\ plan.slot[s][c] # NOSN
    BY DEF Slotted
  <2> QED BY <1>1, <2>1 DEF SlotsAreRows, RowList, NodesOf
<1>4. ASSUME NEW s \in Nodes, NEW c \in Slotted(s)
      PROVE  c \in F.rows[s] /\ c \in DOMAIN plan.sn
  BY <1>1 DEF Slotted
<1>5. \A s \in Nodes : SourceOf(s) \in Sources /\ s \in NodesOf(SourceOf(s))
  BY OneSource
<1> QED BY <1>2, <1>3, <1>4, <1>5

-----------------------------------------------------------------------------
\* The turns of the sequential sweep: the subtrees, then the levels from the deepest.
LEMMA TurnsOf ==
  ASSUME IsPlan(F, plan)
  PROVE  /\ \A t \in Trees : t \in DOMAIN Turns(plan) /\ Turns(plan)[t] = ToSet(TreeNodes[t])
         /\ \A l \in DOMAIN plan.levels : \E k \in DOMAIN Turns(plan) :
              /\ k = Len(plan.subtrees) + Len(plan.levels) + 1 - l /\ Turns(plan)[k] = LevelNodes(l)
<1> DEFINE a == Len(plan.subtrees)
           b == Len(plan.levels)
           turn(k) == ToSet(IF k <= a THEN plan.subtrees[k].nodes ELSE plan.levels[a + b + 1 - k])
<1>1. a \in Nat /\ Trees = 1..a /\ b \in Nat /\ DOMAIN plan.levels = 1..b
  BY PlanSources, LevelsAreTops
<1>2. Turns(plan) = [k \in 1..a + b |-> turn(k)]
  BY DEF Turns
<1> HIDE DEF a, b
<1>3. ASSUME NEW t \in Trees PROVE t \in 1..a + b /\ turn(t) = ToSet(TreeNodes[t])
  <2>1. t \in 1..a + b /\ t <= a
    BY <1>1
  <2>2. TreeNodes[t] = plan.subtrees[t].nodes
    BY DEF TreeNodes
  <2> QED BY <2>1, <2>2
<1>4. ASSUME NEW l \in DOMAIN plan.levels
      PROVE  a + b + 1 - l \in 1..a + b /\ turn(a + b + 1 - l) = LevelNodes(l)
  <2> DEFINE k == a + b + 1 - l
  <2>0. l \in 1..b
    BY <1>1
  <2>1. k \in 1..a + b /\ ~(k <= a) /\ a + b + 1 - k = l
    BY <1>1, <2>0
  <2> HIDE DEF k
  <2>2. turn(k) = ToSet(plan.levels[l])
    BY <2>1
  <2> QED BY <2>1, <2>2 DEF k, LevelNodes
<1> HIDE DEF turn
<1>5. DOMAIN Turns(plan) = 1..a + b /\ \A k \in 1..a + b : Turns(plan)[k] = turn(k)
  BY <1>2
<1> QED BY <1>3, <1>4, <1>5 DEF a, b

\* What comes earlier: in a subtree, on a deeper level, below all ancestors.
LEMMA EarlierTrees ==
  ASSUME IsPlan(F, plan), NEW t \in Trees, NEW v \in Trees, NEW u \in ToSet(TreeNodes[t]), NEW s \in ToSet(TreeNodes[v]),
         t < v \/ (t = v /\ u < s)
  PROVE  Earlier(plan, u, s)
BY TurnsOf DEF Earlier

LEMMA EarlierLevels ==
  ASSUME IsPlan(F, plan), NEW l \in DOMAIN plan.levels, NEW m \in DOMAIN plan.levels,
         NEW u \in LevelNodes(l), NEW s \in LevelNodes(m), m < l \/ (l = m /\ u < s)
  PROVE  Earlier(plan, u, s)
<1> DEFINE a == Len(plan.subtrees)
           b == Len(plan.levels)
           at(k) == a + b + 1 - k
<1>1. a \in Nat /\ b \in Nat /\ DOMAIN plan.levels = 1..b
  BY PlanSources, LevelsAreTops
<1> HIDE DEF a, b
<1>2. at(l) < at(m) \/ (at(l) = at(m) /\ u < s)
  <2>1. l \in 1..b /\ m \in 1..b
    BY <1>1
  <2>2. l = m => at(l) = at(m)
    OBVIOUS
  <2>3. m < l => at(l) < at(m)
    BY <1>1, <2>1
  <2> QED BY <2>2, <2>3
<1>3. /\ at(l) \in DOMAIN Turns(plan) /\ Turns(plan)[at(l)] = LevelNodes(l)
      /\ at(m) \in DOMAIN Turns(plan) /\ Turns(plan)[at(m)] = LevelNodes(m)
  BY TurnsOf DEF a, b
<1> HIDE DEF at
<1> QED BY <1>2, <1>3 DEF Earlier

LEMMA EarlierBelow ==
  ASSUME IsPlan(F, plan), NEW u \in Nodes, u \notin Tops, NEW s \in Tops
  PROVE  Earlier(plan, u, s)
<1> DEFINE a == Len(plan.subtrees)
           b == Len(plan.levels)
<1>1. a \in Nat /\ b \in Nat /\ DOMAIN plan.levels = 1..b /\ Trees = 1..a
  BY PlanSources, LevelsAreTops
<1>2. PICK t \in Trees : u \in ToSet(TreeNodes[t])
  BY TreesHold
<1>3. PICK l \in DOMAIN plan.levels : s \in LevelNodes(l)
  BY PlanLevels
<1> HIDE DEF a, b
<1>4. t < a + b + 1 - l
  <2>1. l \in 1..b /\ t \in 1..a
    BY <1>1
  <2> QED BY <1>1, <2>1
<1>5. t \in DOMAIN Turns(plan) /\ Turns(plan)[t] = ToSet(TreeNodes[t])
      /\ a + b + 1 - l \in DOMAIN Turns(plan) /\ Turns(plan)[a + b + 1 - l] = LevelNodes(l)
  BY TurnsOf DEF a, b
<1> QED BY <1>2, <1>3, <1>4, <1>5 DEF Earlier

\* A term handed over at once is its node's alone; one through a slot has every node of the
\* source that writes the row, and is the same whichever of them is asked.
LEMMA TermsAre ==
  ASSUME IsPlan(F, plan), NEW s \in Nodes, NEW c \in F.rows[s]
  PROVE  /\ plan.slot[s][c] = NOSN => TermWith(s, c) = {s}
         /\ plan.slot[s][c] # NOSN => TermWith(s, c) = SlottedAt(SourceOf(s), c) /\ s \in TermWith(s, c)
         /\ \A u \in SlottedAt(SourceOf(s), c) : u \in Nodes /\ c \in F.rows[u] /\ plan.slot[u][c] # NOSN /\ SourceOf(u) = SourceOf(s)
<1>1. SourceOf(s) \in Sources /\ s \in NodesOf(SourceOf(s)) /\ \A src \in Sources : s \in NodesOf(src) => src = SourceOf(s)
  BY OneSource
<1>2. NodesOf(SourceOf(s)) \subseteq Nodes
  BY <1>1, NodesAtSource
<1>3. \A u \in Nodes : (\E src \in SourcesIn(plan) : {s, u} \subseteq NodesAt(plan, src)) <=> u \in NodesOf(SourceOf(s))
  BY <1>1 DEF Sources, NodesOf
<1>4. plan.slot[s][c] # NOSN => TermWith(s, c) = SlottedAt(SourceOf(s), c)
  BY <1>2, <1>3 DEF TermWith, SlottedAt
<1>5. plan.slot[s][c] # NOSN => s \in SlottedAt(SourceOf(s), c)
  BY <1>1 DEF SlottedAt, Slotted
<1>6. ASSUME NEW u \in SlottedAt(SourceOf(s), c)
      PROVE  u \in Nodes /\ c \in F.rows[u] /\ plan.slot[u][c] # NOSN /\ SourceOf(u) = SourceOf(s)
  <2>1. u \in NodesOf(SourceOf(s)) /\ c \in Slotted(u) /\ u \in Nodes
    BY <1>2 DEF SlottedAt
  <2>2. SourceOf(u) = SourceOf(s)
    BY <1>1, <2>1, OneSource
  <2> QED BY <2>1, <2>2 DEF Slotted
<1>7. plan.slot[s][c] = NOSN => TermWith(s, c) = {s}
  BY DEF TermWith
<1> QED BY <1>4, <1>5, <1>6, <1>7

-----------------------------------------------------------------------------
\* A sum in elimination order that takes a later node stays one.
LEMMA SumsOneMore ==
  ASSUME NEW q \in Seq(Nodes), IsAscending(q), NEW s \in Nodes, \A u \in ToSet(q) : u < s
  PROVE  Append(q, s) \in Seq(Nodes) /\ IsAscending(Append(q, s)) /\ ToSet(Append(q, s)) = ToSet(q) \cup {s}
<1> DEFINE n == Len(q)
           p == Append(q, s)
<1>1. n \in Nat /\ DOMAIN q = 1..n /\ p \in Seq(Nodes) /\ DOMAIN p = 1..n + 1 /\ p[n + 1] = s /\ \A k \in 1..n : p[k] = q[k]
  OBVIOUS
<1> HIDE DEF n, p
<1>2. ASSUME NEW i \in DOMAIN p, NEW j \in DOMAIN p, i < j PROVE p[i] < p[j]
  <2>1. i \in 1..n
    BY <1>1, <1>2
  <2>2. CASE j = n + 1
    BY <1>1, <2>1, <2>2 DEF ToSet
  <2>3. CASE j # n + 1
    <3>1. j \in 1..n
      BY <1>1, <2>3
    <3> QED BY <1>1, <1>2, <2>1, <3>1 DEF IsAscending
  <2> QED BY <2>2, <2>3
<1>3. \A e : e \in ToSet(p) <=> e \in ToSet(q) \/ e = s
  <2>1. \A k : k \in 1..n + 1 <=> k \in 1..n \/ k = n + 1
    BY <1>1
  <2> QED BY <1>1, <2>1 DEF ToSet
<1> QED BY <1>1, <1>2, <1>3 DEF IsAscending, p

\* A term of the rows A and one of B: of A first.
Precedes(A, B) == \A e \in A, f \in B : \A u \in e, s \in f : Earlier(plan, u, s)

\* Terms in the order of the sweep, followed by later ones.
LEMMA TermsFollow ==
  ASSUME NEW q \in Seq(Seq(Nodes)), NEW r \in Seq(Seq(Nodes)), NEW A, NEW B, InSweepOrder(q, A), InSweepOrder(r, B), Precedes(A, B)
  PROVE  (q \o r) \in Seq(Seq(Nodes)) /\ InSweepOrder(q \o r, A \cup B)
<1> DEFINE n == Len(q)
           m == Len(r)
           p == q \o r
<1>1. /\ n \in Nat /\ m \in Nat /\ DOMAIN q = 1..n /\ DOMAIN r = 1..m /\ p \in Seq(Seq(Nodes)) /\ DOMAIN p = 1..n + m
      /\ (\A k \in 1..n : p[k] = q[k]) /\ (\A k \in 1..m : p[n + k] = r[k])
  OBVIOUS
<1> HIDE DEF n, m, p
<1>2. \A k \in 1..n + m : k \in 1..n \/ \E j \in 1..m : k = n + j
  <2>1. \A k \in 1..n + m : ~(k \in 1..n) => k - n \in 1..m /\ k = n + (k - n)
    BY <1>1
  <2> QED BY <2>1
<1>3. A = {ToSet(q[k]) : k \in 1..n} /\ B = {ToSet(r[k]) : k \in 1..m}
  <2>1. DOMAIN q = 1..n /\ DOMAIN r = 1..m
    BY <1>1
  <2>2. A = {ToSet(q[k]) : k \in DOMAIN q} /\ B = {ToSet(r[k]) : k \in DOMAIN r}
    BY ONLY InSweepOrder(q, A), InSweepOrder(r, B) DEF InSweepOrder
  <2> QED BY ONLY <2>1, <2>2
<1>4. \A k \in 1..n : k \in 1..n + m
  BY <1>1
<1>5. \A k \in 1..m : n + k \in 1..n + m
  BY <1>1
<1>6. {ToSet(p[k]) : k \in DOMAIN p} = A \cup B
  <2>1. \A e : (\E k \in 1..n + m : e = ToSet(p[k])) <=> (\E k \in 1..n : e = ToSet(q[k])) \/ (\E k \in 1..m : e = ToSet(r[k]))
    <3>1. ASSUME NEW e, NEW k \in 1..n + m, e = ToSet(p[k])
          PROVE  (\E j \in 1..n : e = ToSet(q[j])) \/ (\E j \in 1..m : e = ToSet(r[j]))
      <4>1. CASE k \in 1..n
        BY ONLY <1>1, <3>1, <4>1
      <4>2. CASE \E j \in 1..m : k = n + j
        BY ONLY <1>1, <3>1, <4>2
      <4> QED BY <1>2, <4>1, <4>2
    <3>2. ASSUME NEW e, NEW k \in 1..n, e = ToSet(q[k])
          PROVE  \E j \in 1..n + m : e = ToSet(p[j])
      BY ONLY <1>1, <1>4, <3>2
    <3>3. ASSUME NEW e, NEW k \in 1..m, e = ToSet(r[k])
          PROVE  \E j \in 1..n + m : e = ToSet(p[j])
      BY ONLY <1>1, <1>5, <3>3
    <3> QED BY ONLY <3>1, <3>2, <3>3
  <2> QED BY <1>1, <1>3, <2>1
<1>7. ASSUME NEW k \in DOMAIN p PROVE IsAscending(p[k])
  <2>1. (\A j \in DOMAIN q : IsAscending(q[j])) /\ (\A j \in DOMAIN r : IsAscending(r[j]))
    BY DEF InSweepOrder
  <2>2. CASE k \in 1..n
    BY <1>1, <2>1, <2>2
  <2>3. CASE k \notin 1..n
    <3>1. PICK j \in 1..m : k = n + j
      BY <1>1, <1>2, <2>3
    <3>2. p[k] = r[j] /\ j \in DOMAIN r
      BY <1>1, <3>1
    <3> QED BY <2>1, <3>2
  <2> QED BY <2>2, <2>3
<1>8. ASSUME NEW j \in DOMAIN p, NEW k \in DOMAIN p, j < k, NEW u \in ToSet(p[j]), NEW s \in ToSet(p[k])
      PROVE  Earlier(plan, u, s)
  <2>1. CASE k \in 1..n
    <3>1. j \in 1..n
      BY <1>1, <1>8, <2>1
    <3> QED BY <1>1, <1>8, <2>1, <3>1 DEF InSweepOrder
  <2>2. CASE j \in 1..n /\ k \notin 1..n
    <3>1. PICK l \in 1..m : k = n + l
      BY <1>1, <1>2, <2>2
    <3>2. p[j] = q[j] /\ p[k] = r[l]
      BY <1>1, <2>2, <3>1
    <3>3. ToSet(q[j]) \in A /\ ToSet(r[l]) \in B
      BY <1>3, <2>2
    <3> QED BY <3>2, <3>3 DEF Precedes
  <2>3. CASE j \notin 1..n /\ k \notin 1..n
    <3>1. PICK i \in 1..m : j = n + i
      BY <1>1, <1>2, <2>3
    <3>2. PICK l \in 1..m : k = n + l
      BY <1>1, <1>2, <2>3
    <3>3. i < l
      BY <1>1, <1>8, <3>1, <3>2
    <3>4. p[j] = r[i] /\ p[k] = r[l]
      BY <1>1, <3>1, <3>2
    <3> QED BY <1>1, <3>3, <3>4 DEF InSweepOrder
  <2> QED BY <2>1, <2>2, <2>3
<1> QED BY <1>1, <1>6, <1>7, <1>8 DEF InSweepOrder, p

LEMMA TermFollows ==
  ASSUME NEW q \in Seq(Seq(Nodes)), NEW e \in Seq(Nodes), IsAscending(e), NEW A, InSweepOrder(q, A), Precedes(A, {ToSet(e)})
  PROVE  Append(q, e) \in Seq(Seq(Nodes)) /\ InSweepOrder(Append(q, e), A \cup {ToSet(e)})
<1> DEFINE one == <<e>>
<1>1. one \in Seq(Seq(Nodes)) /\ DOMAIN one = {1} /\ one[1] = e
  OBVIOUS
<1>2. InSweepOrder(one, {ToSet(e)})
  <2> HIDE DEF one
  <2>1. ~(1 < 1)
    OBVIOUS
  <2>2. \A j, k \in DOMAIN one : ~(j < k)
    BY <1>1, <2>1
  <2>3. {ToSet(one[k]) : k \in DOMAIN one} = {ToSet(e)}
    BY <1>1
  <2> QED BY <1>1, <2>2, <2>3 DEF InSweepOrder
<1>3. Append(q, e) = q \o one
  OBVIOUS
<1>4. (q \o one) \in Seq(Seq(Nodes)) /\ InSweepOrder(q \o one, A \cup {ToSet(e)})
  <2> HIDE DEF one
  <2> QED BY <1>1, <1>2, TermsFollow
<1> QED BY <1>3, <1>4

-----------------------------------------------------------------------------
\* The slots sum what those nodes of a source wrote that are among H; and row c
\* has taken the terms of the nodes W.
AccumulatorsHold(a, H) ==
  /\ DOMAIN a = Sources
  /\ \A src \in Sources : DOMAIN a[src] = DOMAIN RowList(src)
  /\ \A src \in Sources : \A i \in DOMAIN RowList(src) :
       a[src][i] \in Seq(Nodes) /\ IsAscending(a[src][i]) /\ ToSet(a[src][i]) = SlottedAt(src, RowList(src)[i]) \cap H
RowHolds(q, c, W) == q \in Seq(Seq(Nodes)) /\ InSweepOrder(q, {TermWith(s, c) : s \in W})
AllPrecede(W, c, X) == \A w \in W : \A u \in TermWith(w, c) : \A s \in X : Earlier(plan, u, s)

\* A pull brings a row the whole sum of its source, and nothing only where the source has none.
LEMMA Brought ==
  ASSUME IsPlan(F, plan), NEW H, AccumulatorsHold(acc, H), NEW p, p[1] \in Sources, p[2]..p[3] \subseteq DOMAIN RowList(p[1]),
         NodesOf(p[1]) \subseteq H, NEW c
  PROVE  /\ Brings(p, c) # {} =>
              /\ TermFrom(p, c) \in Seq(Nodes) /\ IsAscending(TermFrom(p, c)) /\ ToSet(TermFrom(p, c)) = SlottedAt(p[1], c)
              /\ \E s \in SlottedAt(p[1], c) : plan.slot[s][c] \in p[2]..p[3]
         /\ \A s \in SlottedAt(p[1], c) : plan.slot[s][c] \in p[2]..p[3] => Brings(p, c) # {}
<1>1. ASSUME Brings(p, c) # {}
      PROVE  /\ TermFrom(p, c) \in Seq(Nodes) /\ IsAscending(TermFrom(p, c)) /\ ToSet(TermFrom(p, c)) = SlottedAt(p[1], c)
             /\ \E s \in SlottedAt(p[1], c) : plan.slot[s][c] \in p[2]..p[3]
  <2> DEFINE i == CHOOSE j \in Brings(p, c) : TRUE
  <2>1. i \in p[2]..p[3] /\ RowList(p[1])[i] = c /\ acc[p[1]][i] # <<>> /\ TermFrom(p, c) = acc[p[1]][i]
    <3>1. i \in Brings(p, c) /\ TermFrom(p, c) = acc[p[1]][i]
      BY <1>1 DEF TermFrom
    <3> HIDE DEF i
    <3> QED BY <3>1 DEF Brings
  <2> HIDE DEF i
  <2>2. i \in DOMAIN RowList(p[1])
    BY <2>1
  <2> DEFINE e == acc[p[1]][i]
  <2>3. e \in Seq(Nodes) /\ IsAscending(e) /\ ToSet(e) = SlottedAt(p[1], c) \cap H
    BY <2>1, <2>2 DEF AccumulatorsHold
  <2>4. SlottedAt(p[1], c) \cap H = SlottedAt(p[1], c)
    BY DEF SlottedAt
  <2>5. \E s : s \in ToSet(e)
    <3>1. e # <<>>
      BY <2>1
    <3> HIDE DEF e
    <3>2. 1 \in DOMAIN e
      BY <2>3, <3>1
    <3> QED BY <3>2 DEF ToSet
  <2>6. PICK s \in SlottedAt(p[1], c) : TRUE
    BY <2>3, <2>4, <2>5
  <2>7. plan.slot[s][c] = i
    <3>1. s \in NodesOf(p[1]) /\ c \in Slotted(s)
      BY <2>6 DEF SlottedAt
    <3>2. plan.slot[s][c] \in DOMAIN RowList(p[1]) /\ RowList(p[1])[plan.slot[s][c]] = c /\ IsInjective(RowList(p[1]))
      BY <3>1, OneSlot
    <3> QED BY <2>1, <2>2, <3>2 DEF IsInjective
  <2> QED BY <2>1, <2>3, <2>4, <2>6, <2>7
<1>2. ASSUME NEW s \in SlottedAt(p[1], c), plan.slot[s][c] \in p[2]..p[3]
      PROVE  Brings(p, c) # {}
  <2> DEFINE i == plan.slot[s][c]
  <2>1. s \in NodesOf(p[1]) /\ c \in Slotted(s)
    BY DEF SlottedAt
  <2>2. i \in DOMAIN RowList(p[1]) /\ RowList(p[1])[i] = c
    BY <2>1, OneSlot
  <2>3. s \in ToSet(acc[p[1]][i])
    <3>1. ToSet(acc[p[1]][i]) = SlottedAt(p[1], RowList(p[1])[i]) \cap H
      BY <2>2 DEF AccumulatorsHold
    <3> QED BY <2>1, <2>2, <3>1
  <2>4. acc[p[1]][i] # <<>>
    <3>1. ToSet(<<>>) = {}
      BY DEF ToSet
    <3> QED BY <2>3, <3>1
  <2> QED BY <1>2, <2>2, <2>4 DEF Brings
<1> QED BY <1>1, <1>2

PulledBy(pulls, c) ==
  {s \in Writers(c) : plan.slot[s][c] # NOSN /\
     \E k \in DOMAIN pulls : pulls[k][1] = SourceOf(s) /\ plan.slot[s][c] \in pulls[k][2]..pulls[k][3]}
GoodPulls(pulls, H) ==
  /\ pulls \in Seq(Sources \X Nat \X Nat)
  /\ \A k \in DOMAIN pulls : pulls[k][2]..pulls[k][3] \subseteq DOMAIN RowList(pulls[k][1]) /\ NodesOf(pulls[k][1]) \subseteq H
  /\ \A j, k \in DOMAIN pulls : j < k => \A u \in NodesOf(pulls[j][1]), v \in NodesOf(pulls[k][1]) : Earlier(plan, u, v)

\* A row that takes a list of pulls in order has then the terms of whoever wrote those slots.
LEMMA Pulling ==
  ASSUME IsPlan(F, plan), NEW H, AccumulatorsHold(acc, H), NEW pulls, GoodPulls(pulls, H), NEW columns,
         NEW c \in DOMAIN y, c \in columns, NEW W, RowHolds(y[c], c, W), AllPrecede(W, c, PulledBy(pulls, c))
  PROVE  RowHolds(TakePulls(columns, pulls)[c], c, W \cup PulledBy(pulls, c))
<1> DEFINE n == Len(pulls)
           K == {k \in DOMAIN pulls : Brings(pulls[k], c) # {}}
           from == Ascending(K)
           term(k) == TermFrom(pulls[k], c)
           got == [j \in DOMAIN from |-> term(from[j])]
           B == {TermWith(s, c) : s \in PulledBy(pulls, c)}
<1>1. n \in Nat /\ DOMAIN pulls = 1..n /\ \A k \in 1..n : pulls[k][1] \in Sources
  BY DEF GoodPulls
<1>2. TakePulls(columns, pulls)[c] = y[c] \o got
  BY DEF TakePulls
<1>3. K \in SUBSET (1..n)
  BY <1>1
<1> DEFINE m == Cardinality(K)
<1>4. /\ DOMAIN from = 1..m /\ m \in Nat /\ (\A j \in 1..m : from[j] \in K) /\ ToSet(from) = K
      /\ \A j, k \in 1..m : j < k => from[j] < from[k]
  <2> HIDE DEF K
  <2> QED BY <1>1, <1>3, AscendingList
<1>5. ASSUME NEW k \in K
      PROVE  /\ term(k) \in Seq(Nodes) /\ IsAscending(term(k)) /\ ToSet(term(k)) = SlottedAt(pulls[k][1], c)
             /\ ToSet(term(k)) \in B
  <2>1. k \in DOMAIN pulls /\ Brings(pulls[k], c) # {} /\ pulls[k][1] \in Sources
    BY <1>1
  <2>2. /\ term(k) \in Seq(Nodes) /\ IsAscending(term(k)) /\ ToSet(term(k)) = SlottedAt(pulls[k][1], c)
        /\ \E s \in SlottedAt(pulls[k][1], c) : plan.slot[s][c] \in pulls[k][2]..pulls[k][3]
    BY <2>1, Brought DEF GoodPulls
  <2>3. PICK s \in SlottedAt(pulls[k][1], c) : plan.slot[s][c] \in pulls[k][2]..pulls[k][3]
    BY <2>2
  <2>4. s \in NodesOf(pulls[k][1]) /\ c \in Slotted(s) /\ s \in Nodes
    BY <2>1, <2>3, NodesAtSource DEF SlottedAt
  <2>5. SourceOf(s) = pulls[k][1] /\ c \in F.rows[s] /\ plan.slot[s][c] # NOSN
    BY <2>1, <2>4, OneSource DEF Slotted
  <2>6. s \in PulledBy(pulls, c) /\ TermWith(s, c) = SlottedAt(pulls[k][1], c)
    BY <2>1, <2>3, <2>4, <2>5, TermsAre DEF PulledBy, Writers
  <2> QED BY <2>2, <2>6
<1>6. ASSUME NEW s \in PulledBy(pulls, c)
      PROVE  \E j \in 1..m : ToSet(term(from[j])) = TermWith(s, c)
  <2>1. s \in Nodes /\ c \in F.rows[s] /\ plan.slot[s][c] # NOSN
    BY DEF PulledBy, Writers
  <2>2. PICK k \in DOMAIN pulls : pulls[k][1] = SourceOf(s) /\ plan.slot[s][c] \in pulls[k][2]..pulls[k][3]
    BY DEF PulledBy
  <2>3. TermWith(s, c) = SlottedAt(pulls[k][1], c) /\ s \in SlottedAt(pulls[k][1], c)
    BY <2>1, <2>2, TermsAre
  <2>4. Brings(pulls[k], c) # {}
    BY <1>1, <2>2, <2>3, Brought DEF GoodPulls
  <2>5. k \in K
    BY <2>4
  <2>6. \E j \in 1..m : from[j] = k
    <3> HIDE DEF K, from, m
    <3> QED BY <1>4, <2>5 DEF ToSet
  <2> HIDE DEF K, from, term, m
  <2> QED BY <1>5, <2>3, <2>5, <2>6
<1> HIDE DEF K, term, from, m, B
<1>7. got \in Seq(Seq(Nodes)) /\ DOMAIN got = 1..m /\ \A j \in 1..m : got[j] = term(from[j])
  BY <1>4, <1>5
<1> HIDE DEF got
<1>8. InSweepOrder(got, B)
  <2>1. \A e : (\E j \in 1..m : e = ToSet(got[j])) <=> e \in B
    <3>1. \A j \in 1..m : ToSet(got[j]) \in B
      BY <1>4, <1>5, <1>7
    <3>2. \A s \in PulledBy(pulls, c) : \E j \in 1..m : ToSet(got[j]) = TermWith(s, c)
      BY <1>6, <1>7
    <3> QED BY <3>1, <3>2 DEF B
  <2>2. {ToSet(got[j]) : j \in DOMAIN got} = B
    BY <1>7, <2>1
  <2>3. \A j \in DOMAIN got : IsAscending(got[j])
    BY <1>4, <1>5, <1>7
  <2>4. ASSUME NEW j \in DOMAIN got, NEW k \in DOMAIN got, j < k, NEW u \in ToSet(got[j]), NEW s \in ToSet(got[k])
        PROVE  Earlier(plan, u, s)
    <3>1. from[j] \in DOMAIN pulls /\ from[k] \in DOMAIN pulls /\ from[j] < from[k]
      BY <1>4, <1>7, <2>4 DEF K
    <3>2. u \in SlottedAt(pulls[from[j]][1], c) /\ s \in SlottedAt(pulls[from[k]][1], c)
      BY <1>4, <1>5, <1>7
    <3>3. u \in NodesOf(pulls[from[j]][1]) /\ s \in NodesOf(pulls[from[k]][1])
      BY <3>2 DEF SlottedAt
    <3> QED BY <3>1, <3>3 DEF GoodPulls
  <2> QED BY <2>2, <2>3, <2>4 DEF InSweepOrder
<1> DEFINE A == {TermWith(s, c) : s \in W}
<1>9. Precedes(A, B)
  <2> SUFFICES ASSUME NEW e \in A, NEW f \in B, NEW u \in e, NEW s \in f PROVE Earlier(plan, u, s)
    BY DEF Precedes
  <2>1. PICK w \in W : e = TermWith(w, c)
    OBVIOUS
  <2>2. PICK v \in PulledBy(pulls, c) : f = TermWith(v, c)
    BY DEF B
  <2>3. s \in PulledBy(pulls, c)
    <3>1. v \in Nodes /\ c \in F.rows[v] /\ plan.slot[v][c] # NOSN
      BY DEF PulledBy, Writers
    <3>2. s \in SlottedAt(SourceOf(v), c)
      BY <2>2, <3>1, TermsAre
    <3>3. s \in Nodes /\ c \in F.rows[s] /\ plan.slot[s][c] # NOSN /\ SourceOf(s) = SourceOf(v)
      BY <3>1, <3>2, TermsAre
    <3>4. c \in Slotted(s) /\ c \in Slotted(v)
      BY <3>1, <3>3 DEF Slotted
    <3>5. plan.slot[s][c] = plan.slot[v][c]
      <4>1. SourceOf(v) \in Sources
        BY <3>1, OneSource
      <4>2. IsInjective(RowList(SourceOf(v)))
        BY <4>1, OneSlot
      <4>3. /\ plan.slot[s][c] \in DOMAIN RowList(SourceOf(v)) /\ RowList(SourceOf(v))[plan.slot[s][c]] = c
            /\ plan.slot[v][c] \in DOMAIN RowList(SourceOf(v)) /\ RowList(SourceOf(v))[plan.slot[v][c]] = c
        BY <3>1, <3>3, <3>4, OneSlot
      <4> QED BY <4>2, <4>3 DEF IsInjective
    <3> QED BY <3>3, <3>5 DEF PulledBy, Writers
  <2> QED BY <2>1, <2>3 DEF AllPrecede
<1>10. y[c] \in Seq(Seq(Nodes)) /\ InSweepOrder(y[c], A)
  BY DEF RowHolds
<1>11. (y[c] \o got) \in Seq(Seq(Nodes)) /\ InSweepOrder(y[c] \o got, A \cup B)
  BY <1>7, <1>8, <1>9, <1>10, TermsFollow
<1>12. {TermWith(s, c) : s \in W \cup PulledBy(pulls, c)} = A \cup B
  BY DEF B
<1> HIDE DEF A
<1> QED BY <1>2, <1>11, <1>12 DEF RowHolds

\* A node that hands over adds itself to the sums of its source, and to the rows it has no slot for.
LEMMA Writing ==
  ASSUME IsPlan(F, plan), NEW H, AccumulatorsHold(acc, H), NEW s \in Nodes, s \notin H,
         \A u \in NodesOf(SourceOf(s)) : u \in H => u < s, WriteRows(s)
  PROVE  AccumulatorsHold(acc', H \cup {s})
<1> DEFINE src == SourceOf(s)
           list == RowList(src)
           H2 == H \cup {s}
           writes(i) == \E r \in Slotted(s) : plan.slot[s][r] = i
<1>1. src \in Sources /\ s \in NodesOf(src) /\ \A v \in Sources : s \in NodesOf(v) => v = src
  BY OneSource
<1>2. DOMAIN acc = Sources /\ \A v \in Sources : DOMAIN acc[v] = DOMAIN RowList(v)
  BY DEF AccumulatorsHold
<1>3. acc' = [acc EXCEPT ![src] = [i \in DOMAIN @ |-> IF writes(i) THEN Append(@[i], s) ELSE @[i]]]
  BY DEF WriteRows
<1> HIDE DEF writes
<1>4. /\ DOMAIN acc' = Sources
      /\ acc'[src] = [i \in DOMAIN list |-> IF writes(i) THEN Append(acc[src][i], s) ELSE acc[src][i]]
      /\ \A v \in Sources : v # src => acc'[v] = acc[v]
  BY <1>1, <1>2, <1>3
<1>5. \A i \in DOMAIN list : writes(i) <=> s \in SlottedAt(src, list[i])
  <2> SUFFICES ASSUME NEW i \in DOMAIN list PROVE writes(i) <=> list[i] \in Slotted(s)
    BY <1>1 DEF SlottedAt
  <2>1. IsInjective(list)
    BY <1>1, OneSlot
  <2>2. \A r \in Slotted(s) : plan.slot[s][r] \in DOMAIN list /\ list[plan.slot[s][r]] = r
    BY OneSlot
  <2> HIDE DEF list
  <2> QED BY <2>1, <2>2 DEF writes, IsInjective
<1>6. ASSUME NEW v \in Sources, NEW i \in DOMAIN RowList(v)
      PROVE  /\ acc'[v][i] \in Seq(Nodes) /\ IsAscending(acc'[v][i])
             /\ ToSet(acc'[v][i]) = SlottedAt(v, RowList(v)[i]) \cap H2
  <2> DEFINE q == acc[v][i]
             S == SlottedAt(v, RowList(v)[i])
  <2>1. q \in Seq(Nodes) /\ IsAscending(q) /\ ToSet(q) = S \cap H
    BY DEF AccumulatorsHold
  <2>2. S \subseteq NodesOf(v)
    BY DEF SlottedAt
  <2>3. CASE v # src
    <3>1. s \notin S
      BY <1>1, <2>2, <2>3
    <3>2. acc'[v][i] = q
      BY <1>4, <2>3
    <3> HIDE DEF S, q
    <3> QED BY <2>1, <3>1, <3>2 DEF S
  <2>4. CASE v = src /\ s \in S
    <3>1. acc'[v][i] = Append(q, s)
      BY <1>4, <1>5, <2>4
    <3>2. \A u \in ToSet(q) : u < s
      BY <2>1, <2>2, <2>4
    <3> HIDE DEF S, q
    <3>3. Append(q, s) \in Seq(Nodes) /\ IsAscending(Append(q, s)) /\ ToSet(Append(q, s)) = ToSet(q) \cup {s}
      BY <2>1, <3>2, SumsOneMore
    <3>4. ToSet(q) \cup {s} = S \cap H2
      BY <2>1, <2>4
    <3> HIDE DEF H2
    <3> QED BY <3>1, <3>3, <3>4 DEF S
  <2>5. CASE v = src /\ s \notin S
    <3>1. acc'[v][i] = q
      BY <1>4, <1>5, <2>5
    <3> HIDE DEF S, q
    <3> QED BY <2>1, <2>5, <3>1 DEF S
  <2> QED BY <2>3, <2>4, <2>5
<1>7. \A v \in Sources : DOMAIN acc'[v] = DOMAIN RowList(v)
  BY <1>2, <1>4
<1> HIDE DEF H2
<1> QED BY <1>4, <1>6, <1>7 DEF AccumulatorsHold, H2

LEMMA WritingRows ==
  ASSUME IsPlan(F, plan), NEW s \in Nodes, WriteRows(s), NEW c \in DOMAIN y, NEW W, RowHolds(y[c], c, W)
  PROVE  /\ c \notin F.rows[s] \ Slotted(s) => RowHolds(y'[c], c, W)
         /\ c \in F.rows[s] \ Slotted(s) /\ AllPrecede(W, c, {s}) => RowHolds(y'[c], c, W \cup {s})
<1>1. y' = [d \in DOMAIN y |-> IF d \in F.rows[s] \ Slotted(s) THEN Append(y[d], <<s>>) ELSE y[d]]
  BY DEF WriteRows
<1>2. CASE c \in F.rows[s] \ Slotted(s) /\ AllPrecede(W, c, {s})
  <2> DEFINE e == <<s>>
             A == {TermWith(w, c) : w \in W}
  <2>1. e \in Seq(Nodes) /\ ToSet(e) = {s} /\ IsAscending(e)
    <3>1. e \in Seq(Nodes) /\ DOMAIN e = {1} /\ e[1] = s
      OBVIOUS
    <3>2. ~(1 < 1)
      OBVIOUS
    <3> HIDE DEF e
    <3> QED BY <3>1, <3>2 DEF ToSet, IsAscending
  <2>2. y'[c] = Append(y[c], e)
    BY <1>1, <1>2
  <2>3. y[c] \in Seq(Seq(Nodes)) /\ InSweepOrder(y[c], A)
    BY DEF RowHolds
  <2>4. Precedes(A, {ToSet(e)})
    BY <1>2, <2>1 DEF Precedes, AllPrecede
  <2> HIDE DEF e
  <2>5. Append(y[c], e) \in Seq(Seq(Nodes)) /\ InSweepOrder(Append(y[c], e), A \cup {ToSet(e)})
    BY <2>1, <2>3, <2>4, TermFollows
  <2>6. TermWith(s, c) = {s}
    BY <1>2 DEF TermWith, Slotted
  <2>7. {TermWith(w, c) : w \in W \cup {s}} = A \cup {ToSet(e)}
    <3>1. {TermWith(w, c) : w \in W \cup {s}} = A \cup {TermWith(s, c)}
      OBVIOUS
    <3> QED BY <2>1, <2>6, <3>1
  <2> HIDE DEF A
  <2> QED BY <1>2, <2>2, <2>5, <2>7 DEF RowHolds
<1>3. CASE c \notin F.rows[s] \ Slotted(s)
  BY <1>1, <1>3
<1> QED BY <1>2, <1>3

-----------------------------------------------------------------------------
\* The slots that row c has taken in the phase ph of a sweep: at its owner's
\* start in a flow; of the subtrees and of the levels swept, level by level.
Summing(ph) == ph \in {"forward", "fwd-subtrees", "fwd-flow", "fwd-levels"}
Summed(ph) == ph \in {"diagonal", "backward"}
HasPulled(s, c, ph, st, lv) ==
  \/ ph = "fwd-flow" /\ st[plan.sn[c]] \in {"running", "ran", "done"}
  \/ ph = "fwd-levels" /\ (s \notin Tops \/ \E l \in DOMAIN plan.levels : l > lv /\ s \in LevelNodes(l))
  \/ Summed(ph)
Taken(c, ph, st, lv) ==
  {s \in Writers(c) : IF plan.slot[s][c] = NOSN THEN s \in Handed(st) ELSE HasPulled(s, c, ph, st, lv)}
RowsHold(yy, ph, st, lv) == DOMAIN yy = DOMAIN plan.sn /\ \A c \in DOMAIN plan.sn : RowHolds(yy[c], c, Taken(c, ph, st, lv))
TermsAt(yy, aa, ph, st, lv) ==
  /\ Summing(ph) => AccumulatorsHold(aa, Handed(st))
  /\ Summing(ph) \/ Summed(ph) => RowsHold(yy, ph, st, lv)
TermsInv == TermsAt(y, acc, phase, status, level)

\* The factor and its plan are fixed, and what is read off them.
LEMMA SameStatics ==
  ASSUME UNCHANGED fixed
  PROVE  /\ F' = F /\ plan' = plan /\ Nodes' = Nodes /\ Tops' = Tops /\ Sources' = Sources
         /\ \A src : RowList(src)' = RowList(src) /\ NodesOf(src)' = NodesOf(src)
         /\ \A s : Slotted(s)' = Slotted(s)
         /\ \A l : LevelNodes(l)' = LevelNodes(l)
         /\ \A c : Writers(c)' = Writers(c)
         /\ \A s, c : TermWith(s, c)' = TermWith(s, c)
<1>1. F' = F /\ plan' = plan
  BY DEF fixed
<1>2. Nodes' = Nodes /\ Tops' = Tops /\ Sources' = Sources
  BY <1>1 DEF Nodes, Supers, Tops, Sources
<1>3. \A src : RowList(src)' = RowList(src) /\ NodesOf(src)' = NodesOf(src)
  BY <1>1 DEF RowList, NodesOf
<1>4. \A s : Slotted(s)' = Slotted(s)
  BY <1>1 DEF Slotted
<1>5. \A c : Writers(c)' = Writers(c)
  BY <1>1 DEF Writers, Nodes, Supers
<1>6. \A s, c : TermWith(s, c)' = TermWith(s, c)
  BY <1>1 DEF TermWith, Nodes, Supers, Slotted
<1>7. \A l : LevelNodes(l)' = LevelNodes(l)
  BY <1>1 DEF LevelNodes
<1> QED BY <1>1, <1>2, <1>3, <1>4, <1>5, <1>6, <1>7

LEMMA SameTerms ==
  ASSUME UNCHANGED fixed, TermsAt(y', acc', phase', status', level')
  PROVE  TermsInv'
<1>1. /\ F' = F /\ plan' = plan /\ Nodes' = Nodes /\ Tops' = Tops /\ Sources' = Sources
      /\ \A src : RowList(src)' = RowList(src) /\ NodesOf(src)' = NodesOf(src)
      /\ \A s : Slotted(s)' = Slotted(s)
      /\ \A l : LevelNodes(l)' = LevelNodes(l)
      /\ \A c : Writers(c)' = Writers(c)
      /\ \A s, c : TermWith(s, c)' = TermWith(s, c)
  BY SameStatics
<1>2. Handed(status)' = Handed(status')
  BY <1>1 DEF Handed
<1>3. \A src, c : SlottedAt(src, c)' = SlottedAt(src, c)
  BY <1>1 DEF SlottedAt
<1>4. AccumulatorsHold(acc', Handed(status')) => AccumulatorsHold(acc, Handed(status))'
  BY <1>1, <1>2, <1>3 DEF AccumulatorsHold
<1>5. \A c : Taken(c, phase, status, level)' = Taken(c, phase', status', level')
  BY <1>1, <1>2 DEF Taken, HasPulled, Summed
<1>6. \A q, A : InSweepOrder(q, A)' <=> InSweepOrder(q, A)
  BY <1>1 DEF InSweepOrder
<1>7. RowsHold(y', phase', status', level') => RowsHold(y, phase, status, level)'
  BY <1>1, <1>5, <1>6 DEF RowsHold, RowHolds
<1> QED BY <1>4, <1>7 DEF TermsInv, TermsAt, Summing, Summed

\* A row's writers all have a slot for it or none of them has.
LEMMA NoMix ==
  ASSUME IsPlan(F, plan), NEW c, NEW s \in Writers(c), NEW u \in Writers(c), plan.slot[s][c] # NOSN
  PROVE  plan.slot[u][c] # NOSN /\ plan.sn[c] \in Tops /\ ~plan.chain
<1>1. s \in Nodes /\ c \in F.rows[s] /\ u \in Nodes /\ c \in F.rows[u]
  BY DEF Writers
<1>2. ~plan.chain
  BY <1>1, PlanSources
<1>3. plan.sn[c] \in Tops
  <2>1. CASE s \in Tops
    BY <1>1, <2>1, PlanRows
  <2>2. CASE s \notin Tops
    <3>1. PICK t \in Trees : s \in ToSet(TreeNodes[t])
      BY <1>1, <2>2, TreesHold
    <3> QED BY <1>1, <3>1, PlanRows
  <2> QED BY <2>1, <2>2
<1>4. plan.slot[u][c] # NOSN
  <2>1. CASE u \in Tops
    BY <1>1, <1>2, <2>1, PlanRows
  <2>2. CASE u \notin Tops
    <3>1. PICK t \in Trees : u \in ToSet(TreeNodes[t])
      BY <1>1, <2>2, TreesHold
    <3>2. plan.slot[u][c] = NOSN => plan.sn[c] \in ToSet(TreeNodes[t])
      BY <1>1, <3>1, PlanRows
    <3>3. plan.sn[c] \notin ToSet(TreeNodes[t])
      BY <1>3, <3>1, PlanTrees
    <3> QED BY <3>2, <3>3
  <2> QED BY <2>1, <2>2
<1> QED BY <1>2, <1>3, <1>4

\* A step that moves no term, hands over nothing and lets no row take anything new.
LEMMA TermsStay ==
  ASSUME UNCHANGED <<fixed, y, acc>>, TermsInv, Handed(status') = Handed(status),
         Summing(phase') => Summing(phase), Summed(phase') => Summing(phase) \/ Summed(phase),
         Summing(phase') \/ Summed(phase') =>
           \A c \in DOMAIN plan.sn : Taken(c, phase', status', level') = Taken(c, phase, status, level)
  PROVE  TermsInv'
<1>1. TermsAt(y', acc', phase', status', level')
  BY DEF TermsInv, TermsAt, RowsHold
<1> QED BY <1>1, SameTerms

\* Cleared slots and fresh rows have the terms of nobody.
LEMMA Untouched ==
  ASSUME IsPlan(F, plan)
  PROVE  AccumulatorsHold(Cleared, {}) /\ \A c : RowHolds(<<>>, c, {})
<1> DEFINE none == <<>>
<1>1. none \in Seq(Nodes) /\ none \in Seq(Seq(Nodes)) /\ DOMAIN none = {}
  OBVIOUS
<1>2. Cleared = [src \in Sources |-> [i \in DOMAIN RowList(src) |-> none]]
  BY DEF Cleared, Sources
<1> HIDE DEF none
<1>3. IsAscending(none) /\ ToSet(none) = {}
  BY <1>1 DEF IsAscending, ToSet
<1>4. AccumulatorsHold(Cleared, {})
  BY <1>1, <1>2, <1>3 DEF AccumulatorsHold
<1>5. \A c : RowHolds(none, c, {})
  BY <1>1 DEF RowHolds, InSweepOrder
<1> QED BY <1>4, <1>5 DEF none

LEMMA TermsBegin == WalkInit => TermsInv
<1> SUFFICES ASSUME WalkInit PROVE TermsInv
  OBVIOUS
<1>1. IsPlan(F, plan) /\ phase = "forward" /\ acc = Cleared /\ y = [c \in DOMAIN plan.sn |-> <<>>]
      /\ status = [s \in Nodes |-> "idle"]
  BY PlansAssumption DEF WalkInit, AllIdle
<1>2. Handed(status) = {}
  BY <1>1 DEF Handed
<1>3. \A c : Taken(c, phase, status, level) = {}
  BY <1>1, <1>2 DEF Taken, HasPulled, Summed
<1> QED BY <1>1, <1>2, <1>3, Untouched DEF TermsInv, TermsAt, RowsHold

LEMMA TermsAtBegin == WalkInv /\ TermsInv /\ BeginForward => TermsInv'
<1> SUFFICES ASSUME WalkInv, TermsInv, BeginForward PROVE TermsInv'
  OBVIOUS
<1>1. /\ IsPlan(F, plan) /\ phase = "forward" /\ phase' = "fwd-subtrees" /\ AllAre(Nodes, {"idle"})
      /\ acc' = Cleared /\ UNCHANGED <<fixed, status, y, level>>
  BY DEF WalkInv, WalkTypes, BeginForward
<1>2. Handed(status) = {} /\ status' = status
  BY <1>1 DEF Handed, AllAre
<1>3. Cleared' = Cleared
  <2>1. F' = F /\ plan' = plan /\ \A src : RowList(src)' = RowList(src)
    BY <1>1, SameStatics
  <2> QED BY <2>1 DEF Cleared
<1>4. \A c : Taken(c, phase, status, level) = Taken(c, phase', status', level')
  BY <1>1, <1>2 DEF Taken, HasPulled, Summed
<1>5. RowsHold(y', phase', status', level')
  BY <1>1, <1>4 DEF TermsInv, TermsAt, Summing, RowsHold
<1>6. AccumulatorsHold(acc', Handed(status'))
  BY <1>1, <1>2, Untouched
<1>7. TermsAt(y', acc', phase', status', level')
  BY <1>5, <1>6 DEF TermsAt
<1> QED BY <1>1, <1>7, SameTerms

LEMMA TermsStartInTree ==
  ASSUME WalkInv, TermsInv, NEW t \in Trees, StartInTree(t)
  PROVE  TermsInv'
<1> DEFINE s == NextInTree(t)
<1>1. /\ phase \in {"fwd-subtrees", "bwd-subtrees"} /\ phase' = phase /\ status[s] = "idle"
      /\ status' = [status EXCEPT ![s] = "running"] /\ UNCHANGED <<fixed, y, acc>> /\ status \in NodeStates
  BY DEF StartInTree, WalkInv, WalkTypes, NodeStates
<1> HIDE DEF s
<1>2. Handed(status') = Handed(status)
  <2>1. \A u \in Nodes : status'[u] = IF u = s THEN "running" ELSE status[u]
    BY <1>1 DEF NodeStates
  <2>2. \A u \in Nodes : status'[u] \in {"ran", "done"} <=> status[u] \in {"ran", "done"}
    BY <1>1, <2>1
  <2> QED BY <2>2 DEF Handed
<1>3. phase = "fwd-subtrees" => \A c : Taken(c, phase', status', level') = Taken(c, phase, status, level)
  BY <1>1, <1>2 DEF Taken, HasPulled, Summed
<1> QED BY <1>1, <1>2, <1>3, TermsStay DEF Summing, Summed

\* Of a subtree in its sweep, what is ahead of a node under way is handed over.
LEMMA AheadInTree ==
  ASSUME WalkInv, phase = "fwd-subtrees", NEW s \in Nodes, s \notin Tops, status[s] = "running"
  PROVE  /\ s \notin Handed(status)
         /\ \A u \in NodesOf(SourceOf(s)) : u \in Handed(status) => u < s /\ Earlier(plan, u, s)
<1>1. IsPlan(F, plan) /\ AllAre(Tops, {"idle"}) /\ F.ns \in Nat
  BY PlanTypes DEF WalkInv, WalkTypes
<1>2. PICK t \in Trees : s \in ToSet(TreeNodes[t])
  BY <1>1, TreesHold
<1>3. SourceOf(s) = t /\ NodesOf(SourceOf(s)) = ToSet(TreeNodes[t])
  BY <1>1, <1>2, NodesAtSource, OneSource
<1>4. ASSUME NEW u \in ToSet(TreeNodes[t]), u \in Handed(status) PROVE u < s /\ Earlier(plan, u, s)
  <2>1. u # s /\ ~(s < u)
    BY <1>2, <1>4, TreeReads DEF Handed
  <2>2. u \in Int /\ s \in Int
    BY <1>1, <1>4 DEF Handed, Nodes, Supers
  <2>3. u < s
    BY <2>1, <2>2
  <2> QED BY <1>1, <1>2, <2>3, EarlierTrees
<1> QED BY <1>3, <1>4 DEF Handed

LEMMA HandsOver ==
  ASSUME status \in NodeStates, NEW s \in Nodes, NEW v \in {"ran", "done"}, status' = [status EXCEPT ![s] = v]
  PROVE  Handed(status') = Handed(status) \cup {s}
<1>1. \A u \in Nodes : status'[u] = IF u = s THEN v ELSE status[u]
  BY DEF NodeStates
<1> QED BY <1>1 DEF Handed

LEMMA TermsFinishInTree ==
  ASSUME WalkInv, TermsInv, NEW s \in Nodes, FinishInTree(s)
  PROVE  TermsInv'
<1>1. /\ IsPlan(F, plan) /\ phase \in {"fwd-subtrees", "bwd-subtrees"} /\ phase' = phase /\ s \notin Tops /\ status[s] = "running"
      /\ status' = [status EXCEPT ![s] = "done"] /\ UNCHANGED <<fixed, level>> /\ status \in NodeStates
  BY DEF FinishInTree, WalkInv, WalkTypes, NodeStates
<1>2. Handed(status') = Handed(status) \cup {s}
  BY <1>1, HandsOver
<1>3. CASE phase = "bwd-subtrees"
  BY <1>1, <1>3, SameTerms DEF TermsAt, Summing, Summed
<1>4. CASE phase = "fwd-subtrees"
  <2> DEFINE took(c) == Taken(c, phase, status, level)
             takes(c) == Taken(c, phase', status', level')
  <2>1. WriteRows(s) /\ AllAre(Tops, {"idle"})
    BY <1>4 DEF FinishInTree, WalkInv
  <2>2. AccumulatorsHold(acc, Handed(status)) /\ RowsHold(y, phase, status, level)
    BY <1>4 DEF TermsInv, TermsAt, Summing
  <2>3. s \notin Handed(status) /\ \A u \in NodesOf(SourceOf(s)) : u \in Handed(status) => u < s /\ Earlier(plan, u, s)
    BY <1>1, <1>4, AheadInTree
  <2>4. AccumulatorsHold(acc', Handed(status'))
    BY <1>1, <1>2, <2>1, <2>2, <2>3, Writing
  <2>5. ASSUME NEW c \in DOMAIN plan.sn PROVE RowHolds(y'[c], c, takes(c))
    <3>1. c \in DOMAIN y /\ RowHolds(y[c], c, took(c))
      BY <2>2 DEF RowsHold
    <3>2. /\ took(c) = {u \in Writers(c) : plan.slot[u][c] = NOSN /\ u \in Handed(status)}
          /\ takes(c) = {u \in Writers(c) : plan.slot[u][c] = NOSN /\ u \in Handed(status')}
      BY <1>1, <1>4 DEF Taken, HasPulled, Summed
    <3>3. CASE c \notin F.rows[s] \ Slotted(s)
      <4>1. ~(s \in Writers(c) /\ plan.slot[s][c] = NOSN)
        BY <3>3 DEF Writers, Slotted
      <4>2. takes(c) = took(c)
        BY <1>2, <3>2, <4>1
      <4> HIDE DEF took, takes
      <4> QED BY <1>1, <2>1, <3>1, <3>3, <4>2, WritingRows
    <3>4. CASE c \in F.rows[s] \ Slotted(s)
      <4>1. s \in Writers(c) /\ plan.slot[s][c] = NOSN
        BY <3>4 DEF Writers, Slotted
      <4>2. takes(c) = took(c) \cup {s}
        BY <1>2, <3>2, <4>1
      <4>3. AllPrecede(took(c), c, {s})
        <5> SUFFICES ASSUME NEW w \in took(c) PROVE Earlier(plan, w, s)
          BY <3>2 DEF AllPrecede, TermWith
        <5>1. w \in Nodes /\ c \in F.rows[w] /\ plan.slot[w][c] = NOSN /\ w \in Handed(status)
          BY <3>2 DEF Writers
        <5>2. w \notin Tops
          BY <2>1, <5>1 DEF AllAre, Handed
        <5>3. PICK v \in Trees : w \in ToSet(TreeNodes[v])
          BY <1>1, <5>1, <5>2, TreesHold
        <5>4. PICK t \in Trees : s \in ToSet(TreeNodes[t])
          BY <1>1, TreesHold
        <5>5. plan.sn[c] \in ToSet(TreeNodes[v]) /\ plan.sn[c] \in ToSet(TreeNodes[t])
          BY <1>1, <3>4, <4>1, <5>1, <5>3, <5>4, PlanRows
        <5>6. v = t
          BY <1>1, <5>5, PlanTrees
        <5>7. w \in NodesOf(SourceOf(s))
          BY <1>1, <5>3, <5>4, <5>6, NodesAtSource, OneSource
        <5> QED BY <2>3, <5>1, <5>7
      <4> HIDE DEF took, takes
      <4> QED BY <1>1, <2>1, <3>1, <3>4, <4>2, <4>3, WritingRows
    <3> QED BY <3>3, <3>4
  <2>6. DOMAIN y' = DOMAIN plan.sn
    BY <2>1, <2>2 DEF WriteRows, RowsHold
  <2>7. TermsAt(y', acc', phase', status', level')
    BY <2>4, <2>5, <2>6 DEF TermsAt, RowsHold
  <2> QED BY <1>1, <2>7, SameTerms
<1> QED BY <1>1, <1>3, <1>4

-----------------------------------------------------------------------------
\* All the slots of some sources, taken in the order of the sweep.
EverySlot(list) == [k \in DOMAIN list |-> <<list[k], 1, Len(RowList(list[k]))>>]
SourcesInOrder(list, H) ==
  /\ list \in Seq(Sources) /\ \A k \in DOMAIN list : NodesOf(list[k]) \subseteq H
  /\ \A j, k \in DOMAIN list : j < k => \A u \in NodesOf(list[j]), v \in NodesOf(list[k]) : Earlier(plan, u, v)
SlottedBy(list, c) == {s \in Writers(c) : plan.slot[s][c] # NOSN /\ \E k \in DOMAIN list : list[k] = SourceOf(s)}

\* Every slot of some sources is a list of pulls in order.
LEMMA AllPulled ==
  ASSUME IsPlan(F, plan), NEW H, NEW list, SourcesInOrder(list, H)
  PROVE  GoodPulls(EverySlot(list), H) /\ \A c : PulledBy(EverySlot(list), c) = SlottedBy(list, c)
<1> DEFINE n == Len(list)
           pulls == EverySlot(list)
           size(src) == Len(RowList(src))
<1>1. n \in Nat /\ DOMAIN list = 1..n /\ \A k \in 1..n : list[k] \in Sources
  BY DEF SourcesInOrder
<1>2. \A src \in Sources : size(src) \in Nat /\ DOMAIN RowList(src) = 1..size(src)
  BY OneSlot
<1> HIDE DEF n
<1>3. pulls = [k \in 1..n |-> <<list[k], 1, size(list[k])>>]
  BY <1>1 DEF EverySlot
<1> HIDE DEF size, pulls
<1>4. \A k \in 1..n : pulls[k] \in Sources \X Nat \X Nat /\ pulls[k][1] = list[k] /\ pulls[k][2] = 1 /\ pulls[k][3] = size(list[k])
  BY <1>1, <1>2, <1>3
<1>5. pulls \in Seq(Sources \X Nat \X Nat) /\ DOMAIN pulls = 1..n
  BY <1>1, <1>3, <1>4
<1>6. GoodPulls(pulls, H)
  <2>1. \A k \in DOMAIN pulls : pulls[k][2]..pulls[k][3] \subseteq DOMAIN RowList(pulls[k][1]) /\ NodesOf(pulls[k][1]) \subseteq H
    BY <1>1, <1>2, <1>4, <1>5 DEF SourcesInOrder
  <2>2. \A j, k \in DOMAIN pulls : j < k => \A u \in NodesOf(pulls[j][1]), v \in NodesOf(pulls[k][1]) : Earlier(plan, u, v)
    BY <1>1, <1>4, <1>5 DEF SourcesInOrder
  <2> QED BY <1>5, <2>1, <2>2 DEF GoodPulls
<1>7. ASSUME NEW c, NEW s \in Writers(c), plan.slot[s][c] # NOSN
      PROVE  (\E k \in DOMAIN pulls : pulls[k][1] = SourceOf(s) /\ plan.slot[s][c] \in pulls[k][2]..pulls[k][3])
               <=> \E k \in DOMAIN list : list[k] = SourceOf(s)
  <2>1. s \in Nodes /\ c \in Slotted(s)
    BY <1>7 DEF Writers, Slotted
  <2>2. SourceOf(s) \in Sources /\ plan.slot[s][c] \in 1..size(SourceOf(s))
    BY <1>2, <2>1, OneSlot, OneSource
  <2>3. ASSUME NEW k \in 1..n, list[k] = SourceOf(s)
        PROVE  pulls[k][1] = SourceOf(s) /\ plan.slot[s][c] \in pulls[k][2]..pulls[k][3]
    BY <1>4, <2>2, <2>3
  <2>4. \A k \in 1..n : pulls[k][1] = list[k]
    BY <1>4
  <2> QED BY <1>1, <1>5, <2>3, <2>4
<1>8. \A c : PulledBy(pulls, c) = SlottedBy(list, c)
  BY <1>7 DEF PulledBy, SlottedBy
<1> QED BY <1>6, <1>8 DEF pulls

LEMMA RowsTaken ==
  ASSUME IsPlan(F, plan), NEW H, AccumulatorsHold(acc, H), NEW c \in DOMAIN y, NEW pulls, GoodPulls(pulls, H), NEW columns,
         c \in columns, NEW W, NEW W2, RowHolds(y[c], c, W), AllPrecede(W, c, PulledBy(pulls, c)), W2 = W \cup PulledBy(pulls, c)
  PROVE  RowHolds(TakePulls(columns, pulls)[c], c, W2)
BY Pulling

\* The source of an ancestor has that node alone, any other source none of the ancestors.
LEMMA TreeOrTop ==
  ASSUME IsPlan(F, plan), NEW s \in Nodes
  PROVE  /\ SourceOf(s) \in Trees <=> s \notin Tops
         /\ s \in Tops => NodesOf(SourceOf(s)) = {s}
         /\ s \notin Tops => \A u \in NodesOf(SourceOf(s)) : u \notin Tops
<1>1. SourceOf(s) \in Sources /\ s \in NodesOf(SourceOf(s))
  BY OneSource
<1>2. CASE SourceOf(s) \in Trees
  <2>1. NodesOf(SourceOf(s)) = ToSet(TreeNodes[SourceOf(s)])
    BY <1>2, NodesAtSource
  <2>2. \A u \in ToSet(TreeNodes[SourceOf(s)]) : u \notin Tops
    BY <1>2, PlanTrees
  <2> QED BY <1>1, <1>2, <2>1, <2>2
<1>3. CASE SourceOf(s) \notin Trees
  <2>1. PICK k \in 1..Len(plan.top) : SourceOf(s) = Len(plan.subtrees) + k
    BY <1>1, <1>3, NodesAtSource
  <2>2. NodesOf(SourceOf(s)) = {plan.top[k]} /\ plan.top[k] \in Tops
    BY <2>1, NodesAtSource
  <2> QED BY <1>1, <1>3, <2>2
<1> QED BY <1>2, <1>3

\* What a row has taken directly precedes whatever else it takes: it takes nothing else.
LEMMA DirectAlone ==
  ASSUME IsPlan(F, plan), NEW c, NEW W, \A w \in W : w \in Writers(c) /\ plan.slot[w][c] = NOSN, NEW P,
         \A s \in P : s \in Writers(c) /\ plan.slot[s][c] # NOSN
  PROVE  AllPrecede(W, c, P)
BY NoMix DEF AllPrecede

\* The ancestors begin: as tasks nothing is taken yet, by levels all that the subtrees summed.
LEMMA TermsAtAncestors == WalkInv /\ TermsInv /\ SubtreesForward => TermsInv'
<1> SUFFICES ASSUME WalkInv, TermsInv, SubtreesForward PROVE TermsInv'
  OBVIOUS
<1> DEFINE H == Handed(status)
<1>1. /\ IsPlan(F, plan) /\ phase = "fwd-subtrees" /\ AllAre(Tops, {"idle"}) /\ status \in NodeStates
      /\ UNCHANGED <<fixed, acc>> /\ Tops \subseteq Nodes
  BY PlanTypes DEF WalkInv, WalkTypes, SubtreesForward, NodeStates
<1>2. TreesAre("done")
  BY <1>1, SweptAll DEF SubtreesForward
<1>3. AccumulatorsHold(acc, H) /\ RowsHold(y, phase, status, level)
  BY <1>1 DEF TermsInv, TermsAt, Summing
<1>4. \A c : Taken(c, phase, status, level) = {s \in Writers(c) : plan.slot[s][c] = NOSN /\ s \in H}
  BY <1>1 DEF Taken, HasPulled, Summed
<1>5. CASE Flows(parallel)
  <2>1. phase' = "fwd-flow" /\ y' = y /\ level' = level
        /\ status' = [s \in Nodes |-> IF s \in Tops /\ TopKids(s) = {} THEN "ready" ELSE status[s]]
    BY <1>5 DEF SubtreesForward
  <2>2. \A s \in Tops : status[s] = "idle" /\ status'[s] \in {"idle", "ready"}
    BY <1>1, <2>1 DEF AllAre
  <2>3. \A s \in Nodes \ Tops : status'[s] = status[s]
    BY <2>1
  <2>4. Handed(status') = H
    BY <1>1, <2>2, <2>3 DEF Handed
  <2>5. ASSUME NEW c PROVE Taken(c, phase', status', level') = Taken(c, phase, status, level)
    <3>1. ASSUME NEW s \in Writers(c), plan.slot[s][c] # NOSN PROVE ~HasPulled(s, c, phase', status', level')
      BY <1>1, <2>1, <2>2, <3>1, NoMix DEF HasPulled, Summed
    <3> QED BY <1>4, <2>4, <3>1 DEF Taken
  <2> QED BY <1>1, <2>1, <2>4, <2>5, TermsStay DEF Summing, Summed
<1>6. CASE ~Flows(parallel)
  <2> DEFINE list == [t \in Trees |-> t]
             pulls == EverySlot(list)
  <2>1. phase' = "fwd-levels" /\ status' = status /\ level' = Len(plan.levels) /\ y' = TakePulls(DOMAIN y, pulls)
    BY <1>6 DEF SubtreesForward, TakeAll, EverySlot
  <2>2. list \in Seq(Sources) /\ DOMAIN list = Trees /\ \A t \in Trees : list[t] = t
    <3>1. PICK n \in Nat : Trees = 1..n
      BY <1>1, PlanSources
    <3>2. \A t \in 1..n : t \in Sources
      BY <1>1, <3>1, NodesAtSource
    <3>3. [t \in 1..n |-> t] \in Seq(Sources)
      BY <3>2
    <3> QED BY <3>1, <3>3
  <2>3. \A t \in Trees : NodesOf(t) \subseteq H
    <3>1. \A t \in Trees : NodesOf(t) = ToSet(TreeNodes[t]) /\ ToSet(TreeNodes[t]) \subseteq Nodes \ Tops
      BY <1>1, NodesAtSource, PlanTrees
    <3> QED BY <1>2, <3>1 DEF TreesAre, AllAre, Handed
  <2>4. \A j, k \in Trees : j < k => \A u \in NodesOf(j), v \in NodesOf(k) : Earlier(plan, u, v)
    BY <1>1, NodesAtSource, EarlierTrees
  <2> HIDE DEF list
  <2>5. GoodPulls(pulls, H) /\ \A c : PulledBy(pulls, c) = SlottedBy(list, c)
    <3>1. SourcesInOrder(list, H)
      BY <2>2, <2>3, <2>4 DEF SourcesInOrder
    <3> HIDE DEF H
    <3> QED BY <1>1, <3>1, AllPulled
  <2>6. Len(plan.levels) \in Nat /\ DOMAIN plan.levels = 1..Len(plan.levels)
    BY <1>1, LevelsAreTops
  <2> HIDE DEF pulls
  <2>7. ASSUME NEW c \in DOMAIN plan.sn PROVE RowHolds(y'[c], c, Taken(c, phase', status', level'))
    <3> DEFINE W == Taken(c, phase, status, level)
               W2 == Taken(c, phase', status', level')
    <3>1. c \in DOMAIN y /\ RowHolds(y[c], c, W)
      BY <1>3 DEF RowsHold
    <3>2. PulledBy(pulls, c) = {s \in Writers(c) : plan.slot[s][c] # NOSN /\ s \notin Tops}
      <4>1. ASSUME NEW s \in Writers(c) PROVE (\E k \in DOMAIN list : list[k] = SourceOf(s)) <=> s \notin Tops
        BY <1>1, <2>2, TreeOrTop DEF Writers
      <4> QED BY <2>5, <4>1 DEF SlottedBy
    <3>3. ASSUME NEW s \in Writers(c) PROVE HasPulled(s, c, phase', status', level') <=> s \notin Tops
      BY <2>1, <2>6 DEF HasPulled, Summed
    <3>4. W2 = W \cup PulledBy(pulls, c)
      BY <1>4, <2>1, <3>2, <3>3 DEF Taken
    <3>5. AllPrecede(W, c, PulledBy(pulls, c))
      BY <1>1, <1>4, <3>2, DirectAlone
    <3>6. y'[c] = TakePulls(DOMAIN y, pulls)[c]
      BY <2>1
    <3> HIDE DEF W, W2, H
    <3>7. RowHolds(TakePulls(DOMAIN y, pulls)[c], c, W2)
      BY <1>1, <1>3, <2>5, <3>1, <3>4, <3>5, RowsTaken
    <3> QED BY <3>6, <3>7 DEF W2
  <2>8. DOMAIN y' = DOMAIN plan.sn
    BY <1>3, <2>1 DEF TakePulls, RowsHold
  <2>9. TermsAt(y', acc', phase', status', level')
    BY <1>1, <1>3, <2>1, <2>7, <2>8 DEF TermsAt, RowsHold
  <2> QED BY <1>1, <2>9, SameTerms
<1> QED BY <1>5, <1>6

\* A released ancestor takes its pulls, all of whose sources are complete.
LEMMA TermsStartForward ==
  ASSUME WalkInv, TermsInv, NEW s \in Nodes, StartForward(s)
  PROVE  TermsInv'
<1> DEFINE H == Handed(status)
           pulls == plan.pull[s]
<1>1. /\ IsPlan(F, plan) /\ phase = "fwd-flow" /\ phase' = phase /\ status[s] = "ready" /\ status \in NodeStates
      /\ status' = [status EXCEPT ![s] = "running"] /\ UNCHANGED <<fixed, acc, level>>
      /\ y' = TakePulls(Columns(s), pulls)
  BY DEF WalkInv, WalkTypes, NodeStates, StartForward, PullAll
<1>2. ~plan.chain /\ TreesAre("done") /\ s \in Tops
  <2>1. ~plan.chain /\ TreesAre("done")
    BY <1>1 DEF WalkInv, ForwardFlow
  <2> QED BY <1>1, <2>1 DEF TreesAre, AllAre
<1>3. AccumulatorsHold(acc, H) /\ RowsHold(y, phase, status, level)
  BY <1>1 DEF TermsInv, TermsAt, Summing
<1>4. \A u \in Nodes : status'[u] = IF u = s THEN "running" ELSE status[u]
  BY <1>1 DEF NodeStates
<1>5. Handed(status') = H
  <2>1. \A u \in Nodes : status'[u] \in {"ran", "done"} <=> status[u] \in {"ran", "done"}
    BY <1>1, <1>4
  <2> QED BY <2>1 DEF Handed
<1>6. PullsInOrder(F, plan, s)
  BY <1>1, <1>2, PlanSources
<1>7. /\ pulls \in Seq(Sources \X Nat \X Nat) /\ DOMAIN pulls = 1..Len(pulls)
      /\ \A k \in DOMAIN pulls : pulls[k][1] \in Sources
  BY <1>6 DEF PullsInOrder, Sources
<1>8. ASSUME NEW k \in DOMAIN pulls PROVE NodesOf(pulls[k][1]) \subseteq H
  <2> DEFINE src == pulls[k][1]
  <2>1. src \in Sources
    BY <1>7
  <2>2. PICK u \in NodesOf(src) : \E r \in F.rows[u] : plan.sn[r] = s
    BY <1>6 DEF PullsInOrder, NodesOf
  <2>3. u \in Nodes /\ SourceOf(u) = src
    BY <1>1, <2>1, <2>2, NodesAtSource, OneSource
  <2>4. status[u] = "done"
    BY <1>1, <2>2, <2>3, FlowReads
  <2>5. CASE u \in Tops
    BY <1>1, <2>3, <2>4, <2>5, TreeOrTop DEF Handed
  <2>6. CASE u \notin Tops
    <3>1. \A v \in NodesOf(src) : v \in Nodes /\ v \notin Tops
      BY <1>1, <2>1, <2>3, <2>6, NodesAtSource, TreeOrTop
    <3> QED BY <1>2, <3>1 DEF TreesAre, AllAre, Handed
  <2> QED BY <2>5, <2>6
<1>9. GoodPulls(pulls, H)
  <2>1. \A k \in DOMAIN pulls : pulls[k][2]..pulls[k][3] \subseteq DOMAIN RowList(pulls[k][1])
    BY <1>6 DEF PullsInOrder, RowList
  <2>2. \A j, k \in DOMAIN pulls : j < k => \A u \in NodesOf(pulls[j][1]), v \in NodesOf(pulls[k][1]) : Earlier(plan, u, v)
    BY <1>6 DEF PullsInOrder, NodesOf
  <2> QED BY <1>7, <1>8, <2>1, <2>2 DEF GoodPulls
<1>10. ASSUME NEW c \in DOMAIN plan.sn PROVE RowHolds(y'[c], c, Taken(c, phase', status', level'))
  <2> DEFINE W == Taken(c, phase, status, level)
             W2 == Taken(c, phase', status', level')
  <2>1. c \in DOMAIN y /\ RowHolds(y[c], c, W) /\ plan.sn[c] \in Nodes
    BY <1>1, <1>3, PlanTypes DEF RowsHold
  <2>2. CASE plan.sn[c] # s
    <3>1. y'[c] = y[c]
      BY <1>1, <2>1, <2>2 DEF TakePulls, Columns
    <3>2. \A w : HasPulled(w, c, phase', status', level') <=> HasPulled(w, c, phase, status, level)
      BY <1>1, <1>4, <2>1, <2>2 DEF HasPulled, Summed
    <3>3. W2 = W
      BY <1>5, <3>2 DEF Taken
    <3> QED BY <2>1, <3>1, <3>3
  <2>3. CASE plan.sn[c] = s
    <3>1. c \in Columns(s)
      BY <2>3 DEF Columns
    <3>2. \A w : ~HasPulled(w, c, phase, status, level) /\ HasPulled(w, c, phase', status', level')
      BY <1>1, <1>4, <2>3 DEF HasPulled, Summed
    <3>3. ASSUME NEW w \in Writers(c), plan.slot[w][c] # NOSN PROVE w \in PulledBy(pulls, c)
      <4>1. w \in Nodes /\ c \in Slotted(w)
        BY <3>3 DEF Writers, Slotted
      <4>2. SourceOf(w) \in Sources /\ plan.slot[w][c] \in DOMAIN RowList(SourceOf(w)) /\ RowList(SourceOf(w))[plan.slot[w][c]] = c
        BY <1>1, <4>1, OneSlot, OneSource
      <4>3. \E k \in DOMAIN pulls : pulls[k][1] = SourceOf(w) /\ plan.slot[w][c] \in pulls[k][2]..pulls[k][3]
        BY <1>6, <2>3, <4>2 DEF PullsInOrder, RowList, Sources
      <4> QED BY <3>3, <4>3 DEF PulledBy
    <3>4. \A w \in PulledBy(pulls, c) : w \in Writers(c) /\ plan.slot[w][c] # NOSN
      BY DEF PulledBy
    <3>5. \A w \in W : w \in Writers(c) /\ plan.slot[w][c] = NOSN
      BY <3>2 DEF Taken
    <3>6. W2 = W \cup PulledBy(pulls, c)
      BY <1>5, <3>2, <3>3, <3>4 DEF Taken
    <3>7. AllPrecede(W, c, PulledBy(pulls, c))
      BY <1>1, <3>4, <3>5, DirectAlone
    <3> HIDE DEF W, W2, H, pulls
    <3>8. RowHolds(TakePulls(Columns(s), pulls)[c], c, W2)
      BY <1>1, <1>3, <1>9, <2>1, <3>1, <3>6, <3>7, RowsTaken
    <3> QED BY <1>1, <3>8 DEF W2
  <2> QED BY <2>2, <2>3
<1>11. DOMAIN y' = DOMAIN plan.sn
  BY <1>1, <1>3 DEF TakePulls, RowsHold
<1>12. TermsAt(y', acc', phase', status', level')
  BY <1>1, <1>3, <1>5, <1>10, <1>11 DEF TermsAt, RowsHold
<1> QED BY <1>1, <1>12, SameTerms

LEMMA TermsFinishForward ==
  ASSUME WalkInv, TermsInv, NEW s \in Nodes, FinishForward(s)
  PROVE  TermsInv'
<1> DEFINE H == Handed(status)
<1>1. /\ IsPlan(F, plan) /\ phase = "fwd-flow" /\ phase' = phase /\ status[s] = "running" /\ status \in NodeStates
      /\ status' = [status EXCEPT ![s] = "ran"] /\ UNCHANGED <<fixed, level>> /\ WriteRows(s)
  BY DEF WalkInv, WalkTypes, NodeStates, FinishForward
<1>2. ~plan.chain /\ TreesAre("done") /\ s \in Tops
  <2>1. ~plan.chain /\ TreesAre("done")
    BY <1>1 DEF WalkInv, ForwardFlow
  <2> QED BY <1>1, <2>1 DEF TreesAre, AllAre
<1>3. AccumulatorsHold(acc, H) /\ RowsHold(y, phase, status, level)
  BY <1>1 DEF TermsInv, TermsAt, Summing
<1>4. \A u \in Nodes : status'[u] = IF u = s THEN "ran" ELSE status[u]
  BY <1>1 DEF NodeStates
<1>5. Handed(status') = H \cup {s} /\ s \notin H
  BY <1>1, HandsOver DEF Handed
<1>6. AccumulatorsHold(acc', Handed(status'))
  <2>1. \A u \in NodesOf(SourceOf(s)) : u \in H => u < s
    BY <1>1, <1>2, <1>5, TreeOrTop
  <2> HIDE DEF H
  <2> QED BY <1>1, <1>3, <1>5, <2>1, Writing
<1>7. \A c \in F.rows[s] : plan.slot[s][c] # NOSN
  BY <1>1, <1>2, PlanRows
<1>8. ASSUME NEW c \in DOMAIN plan.sn PROVE RowHolds(y'[c], c, Taken(c, phase', status', level'))
  <2> DEFINE W == Taken(c, phase, status, level)
             W2 == Taken(c, phase', status', level')
  <2>1. c \in DOMAIN y /\ RowHolds(y[c], c, W) /\ plan.sn[c] \in Nodes
    BY <1>1, <1>3, PlanTypes DEF RowsHold
  <2>2. \A w : HasPulled(w, c, phase', status', level') <=> HasPulled(w, c, phase, status, level)
    BY <1>1, <1>4, <2>1 DEF HasPulled, Summed
  <2>3. W2 = W
    BY <1>5, <1>7, <2>2 DEF Taken, Writers
  <2>4. c \notin F.rows[s] \ Slotted(s)
    BY <1>7 DEF Slotted
  <2> HIDE DEF W, W2
  <2>5. RowHolds(y'[c], c, W)
    BY <1>1, <2>1, <2>4, WritingRows
  <2> QED BY <2>3, <2>5 DEF W2
<1>9. DOMAIN y' = DOMAIN plan.sn
  BY <1>1, <1>3 DEF WriteRows, RowsHold
<1>10. TermsAt(y', acc', phase', status', level')
  BY <1>6, <1>8, <1>9 DEF TermsAt, RowsHold
<1> QED BY <1>1, <1>10, SameTerms

LEMMA TermsCountDown ==
  ASSUME WalkInv, TermsInv, NEW s \in Nodes, CountDownParent(s)
  PROVE  TermsInv'
<1> DEFINE p == plan.parent[s]
<1>1. /\ IsPlan(F, plan) /\ phase = "fwd-flow" /\ phase' = phase /\ status[s] = "ran" /\ status \in NodeStates
      /\ UNCHANGED <<fixed, y, acc, level>>
  BY DEF WalkInv, WalkTypes, NodeStates, CountDownParent
<1>2. ForwardFlow /\ TreesAre("done") /\ s \in Tops
  <2>1. ForwardFlow /\ TreesAre("done")
    BY <1>1 DEF WalkInv
  <2> QED BY <1>1, <2>1 DEF TreesAre, AllAre
<1>3. \A u \in Nodes : \/ u = s /\ status'[u] = "done"
                       \/ u # s /\ status'[u] = status[u]
                       \/ u # s /\ status[u] = "idle" /\ status'[u] = "ready"
  <2>1. CASE p = NOSN
    <3>1. status' = [status EXCEPT ![s] = "done"]
      BY <2>1 DEF CountDownParent
    <3> QED BY <1>1, <3>1 DEF NodeStates
  <2>2. CASE p # NOSN
    <3>1. p \in Tops /\ p \in Nodes /\ s \in Int /\ s < p /\ p \in Int
      <4>1. p \in Tops /\ p \in Nodes /\ s < p /\ F.ns \in Nat
        BY <1>1, <1>2, <2>2, PlanTypes
      <4> QED BY <4>1 DEF Nodes, Supers
    <3>2. s \in Undone(p)
      BY <1>1, <1>2 DEF Undone, TopKids
    <3>3. status[p] = "idle" /\ p # s
      BY <1>2, <3>1, <3>2 DEF ForwardFlow
    <3>4. status' = [status EXCEPT ![s] = "done", ![p] = IF pending[p] = 1 THEN "ready" ELSE @]
      BY <2>2 DEF CountDownParent
    <3> HIDE DEF p
    <3> QED BY <1>1, <3>1, <3>3, <3>4 DEF NodeStates
  <2> QED BY <2>1, <2>2
<1>4. Handed(status') = Handed(status)
  BY <1>1, <1>3 DEF Handed
<1>5. \A u \in Nodes : status'[u] \in {"running", "ran", "done"} <=> status[u] \in {"running", "ran", "done"}
  BY <1>1, <1>3
<1>6. ASSUME NEW c \in DOMAIN plan.sn PROVE Taken(c, phase', status', level') = Taken(c, phase, status, level)
  <2>1. plan.sn[c] \in Nodes
    BY <1>1, PlanTypes
  <2>2. \A w : HasPulled(w, c, phase', status', level') <=> HasPulled(w, c, phase, status, level)
    BY <1>1, <1>5, <2>1 DEF HasPulled, Summed
  <2> QED BY <1>4, <2>2 DEF Taken
<1> QED BY <1>1, <1>4, <1>6, TermsStay DEF Summing, Summed

\* Beside an ancestor's slot, its own term; beside a subtree's, those of nodes below all ancestors.
LEMMA TermOfTop ==
  ASSUME IsPlan(F, plan), NEW c, NEW w \in Writers(c), plan.slot[w][c] # NOSN, NEW u \in TermWith(w, c)
  PROVE  u \in Nodes /\ (w \in Tops => u = w) /\ (w \notin Tops => u \notin Tops)
<1>1. w \in Nodes /\ c \in F.rows[w]
  BY DEF Writers
<1>2. u \in SlottedAt(SourceOf(w), c) /\ u \in Nodes
  BY <1>1, TermsAre
<1>3. u \in NodesOf(SourceOf(w))
  BY <1>2 DEF SlottedAt
<1> QED BY <1>1, <1>2, <1>3, TreeOrTop

\* After a level its slots are taken, on top of those of the deeper ones.
LEMMA TermsTakeLevel ==
  ASSUME WalkInv, TermsInv, LevelForward, AllDone(plan.levels[level])
  PROVE  TermsInv'
<1> DEFINE H == Handed(status)
           L == plan.levels[level]
           list == [i \in DOMAIN L |-> SourceOf(L[i])]
           pulls == EverySlot(list)
<1>1. /\ IsPlan(F, plan) /\ phase = "fwd-levels" /\ phase' = phase /\ TreesAre("done") /\ ForwardLevels /\ Tops \subseteq Nodes
      /\ UNCHANGED <<fixed, status, acc>> /\ level' = level - 1 /\ y' = TakePulls(DOMAIN y, pulls)
  BY PlanTypes DEF WalkInv, WalkTypes, LevelForward, TakeAll, EverySlot
<1>2. Len(plan.levels) \in Nat /\ DOMAIN plan.levels = 1..Len(plan.levels) /\ level \in 1..Len(plan.levels)
  <2>1. Len(plan.levels) \in Nat /\ DOMAIN plan.levels = 1..Len(plan.levels)
    BY <1>1, LevelsAreTops
  <2> QED BY <1>1, <2>1 DEF ForwardLevels, LevelForward
<1>3. AccumulatorsHold(acc, H) /\ RowsHold(y, phase, status, level)
  BY <1>1 DEF TermsInv, TermsAt, Summing
<1>4. /\ L \in Seq(Nodes) /\ (\A i, j \in DOMAIN L : i < j => L[i] < L[j]) /\ LevelNodes(level) = {L[i] : i \in DOMAIN L}
      /\ LevelNodes(level) \subseteq Tops /\ \A s \in LevelNodes(level) : status[s] = "done"
  BY <1>1, <1>2, PlanLevels, LevelsAreTops DEF IsAscending, LevelNodes, ToSet, AllDone
<1>5. \A i \in DOMAIN L : L[i] \in LevelNodes(level) /\ L[i] \in Nodes /\ NodesOf(SourceOf(L[i])) = {L[i]} /\ SourceOf(L[i]) \in Sources
  BY <1>1, <1>4, TreeOrTop, OneSource
<1>6. list \in Seq(Sources) /\ DOMAIN list = DOMAIN L /\ \A i \in DOMAIN L : list[i] = SourceOf(L[i])
  <2>1. PICK n \in Nat : DOMAIN L = 1..n
    BY <1>4
  <2>2. \A i \in 1..n : SourceOf(L[i]) \in Sources
    BY <1>5, <2>1
  <2> HIDE DEF L
  <2>3. list = [i \in 1..n |-> SourceOf(L[i])]
    BY <2>1
  <2> QED BY <2>1, <2>2, <2>3
<1> HIDE DEF list, L
<1>7. GoodPulls(pulls, H) /\ \A c : PulledBy(pulls, c) = SlottedBy(list, c)
  <2>1. \A k \in DOMAIN list : NodesOf(list[k]) \subseteq H
    BY <1>4, <1>5, <1>6 DEF Handed
  <2>2. \A j, k \in DOMAIN list : j < k => \A u \in NodesOf(list[j]), v \in NodesOf(list[k]) : Earlier(plan, u, v)
    <3> SUFFICES ASSUME NEW j \in DOMAIN L, NEW k \in DOMAIN L, j < k PROVE Earlier(plan, L[j], L[k])
      BY <1>5, <1>6
    <3>1. level \in DOMAIN plan.levels /\ L[j] \in LevelNodes(level) /\ L[k] \in LevelNodes(level) /\ L[j] < L[k]
      BY <1>2, <1>4, <1>5
    <3> QED BY ONLY <1>1, <3>1, EarlierLevels
  <2>3. SourcesInOrder(list, H)
    BY <1>6, <2>1, <2>2 DEF SourcesInOrder
  <2> HIDE DEF H
  <2> QED BY <1>1, <2>3, AllPulled
<1> HIDE DEF pulls
<1>8. ASSUME NEW c \in DOMAIN plan.sn PROVE RowHolds(y'[c], c, Taken(c, phase', status', level'))
  <2> DEFINE W == Taken(c, phase, status, level)
             W2 == Taken(c, phase', status', level')
  <2>1. c \in DOMAIN y /\ RowHolds(y[c], c, W)
    BY <1>3 DEF RowsHold
  <2>2. PulledBy(pulls, c) = {s \in Writers(c) : plan.slot[s][c] # NOSN /\ s \in LevelNodes(level)}
    <3>1. ASSUME NEW s \in Writers(c) PROVE (\E k \in DOMAIN list : list[k] = SourceOf(s)) <=> s \in LevelNodes(level)
      <4>1. s \in Nodes /\ s \in NodesOf(SourceOf(s))
        BY <1>1, OneSource DEF Writers
      <4> QED BY <1>4, <1>5, <1>6, <4>1
    <3> QED BY <1>7, <3>1 DEF SlottedBy
  <2>3. ASSUME NEW s \in Writers(c)
        PROVE  HasPulled(s, c, phase', status', level') <=> HasPulled(s, c, phase, status, level) \/ s \in LevelNodes(level)
    <3>1. \A l \in DOMAIN plan.levels : l > level - 1 <=> l > level \/ l = level
      BY <1>2
    <3>2. level \in DOMAIN plan.levels
      BY <1>2
    <3> QED BY <1>1, <3>1, <3>2 DEF HasPulled, Summed
  <2>4. W2 = W \cup PulledBy(pulls, c)
    BY <1>1, <2>2, <2>3 DEF Taken
  <2>5. AllPrecede(W, c, PulledBy(pulls, c))
    <3> SUFFICES ASSUME NEW w \in W, NEW u \in TermWith(w, c), NEW s \in PulledBy(pulls, c) PROVE Earlier(plan, u, s)
      BY DEF AllPrecede
    <3>1. s \in Writers(c) /\ plan.slot[s][c] # NOSN /\ s \in LevelNodes(level) /\ s \in Tops
      BY <1>4, <2>2
    <3>2. w \in Writers(c) /\ plan.slot[w][c] # NOSN
      BY <1>1, <3>1, NoMix DEF Taken
    <3>3. w \notin Tops \/ \E l \in DOMAIN plan.levels : l > level /\ w \in LevelNodes(l)
      BY <1>1, <3>2 DEF Taken, HasPulled, Summed
    <3>4. u \in Nodes /\ (w \in Tops => u = w) /\ (w \notin Tops => u \notin Tops)
      BY <1>1, <3>2, TermOfTop
    <3>5. CASE w \notin Tops
      BY <1>1, <3>1, <3>4, <3>5, EarlierBelow
    <3>6. CASE w \in Tops
      <4>1. PICK l \in DOMAIN plan.levels : l > level /\ w \in LevelNodes(l)
        BY <3>3, <3>6
      <4>2. level < l /\ level \in DOMAIN plan.levels /\ u = w
        BY <1>2, <3>4, <3>6, <4>1
      <4> QED BY <1>1, <3>1, <4>1, <4>2, EarlierLevels
    <3> QED BY <3>5, <3>6
  <2>6. y'[c] = TakePulls(DOMAIN y, pulls)[c]
    BY <1>1
  <2> HIDE DEF W, W2, H
  <2>7. RowHolds(TakePulls(DOMAIN y, pulls)[c], c, W2)
    BY <1>1, <1>3, <1>7, <2>1, <2>4, <2>5, RowsTaken
  <2> QED BY <2>6, <2>7 DEF W2
<1>9. DOMAIN y' = DOMAIN plan.sn
  BY <1>1, <1>3 DEF TakePulls, RowsHold
<1>10. TermsAt(y', acc', phase', status', level')
  BY <1>1, <1>3, <1>8, <1>9 DEF TermsAt, RowsHold
<1> QED BY <1>1, <1>10, SameTerms

\* A node of a level; without slots only in the chain, where the earlier ones are deeper.
LEMMA TermsOfNode ==
  ASSUME WalkInv, TermsInv, LevelForward, ~AllDone(plan.levels[level])
  PROVE  TermsInv'
<1> DEFINE H == Handed(status)
           L == plan.levels[level]
<1>1. /\ IsPlan(F, plan) /\ phase = "fwd-levels" /\ phase' = phase /\ TreesAre("done") /\ ForwardLevels /\ Tops \subseteq Nodes
      /\ UNCHANGED <<fixed, level>> /\ status \in NodeStates
  BY PlanTypes DEF WalkInv, WalkTypes, LevelForward, NodeStates
<1>2. Len(plan.levels) \in Nat /\ DOMAIN plan.levels = 1..Len(plan.levels) /\ level \in 1..Len(plan.levels) /\ level \in DOMAIN plan.levels
  <2>1. Len(plan.levels) \in Nat /\ DOMAIN plan.levels = 1..Len(plan.levels)
    BY <1>1, LevelsAreTops
  <2> QED BY <1>1, <2>1 DEF ForwardLevels, LevelForward
<1>3. PICK i \in DOMAIN L : /\ NextOf(L) = L[i] /\ status[L[i]] # "done" /\ L[i] \in LevelNodes(level) /\ L[i] \in Nodes /\ L[i] \in Tops
  BY <1>2, NextOfLevel
<1> DEFINE s == L[i]
<1>4. WriteRows(s) /\ status' = [status EXCEPT ![s] = "done"]
  BY <1>3 DEF LevelForward
<1> HIDE DEF L
<1>5. AccumulatorsHold(acc, H) /\ RowsHold(y, phase, status, level)
  BY <1>1 DEF TermsInv, TermsAt, Summing
<1>6. Handed(status') = H \cup {s} /\ s \notin H /\ status[s] = "idle"
  <2>1. status[s] = "idle"
    BY <1>1, <1>3 DEF ForwardLevels, AllAre
  <2> QED BY <1>1, <1>3, <1>4, <2>1, HandsOver DEF Handed
<1>7. AccumulatorsHold(acc', Handed(status'))
  <2>1. \A u \in NodesOf(SourceOf(s)) : u \in H => u < s
    BY <1>1, <1>3, <1>6, TreeOrTop
  <2> HIDE DEF H, s
  <2> QED BY <1>1, <1>3, <1>4, <1>5, <1>6, <2>1, Writing DEF s
<1>8. ASSUME NEW c \in DOMAIN plan.sn PROVE RowHolds(y'[c], c, Taken(c, phase', status', level'))
  <2> DEFINE W == Taken(c, phase, status, level)
             W2 == Taken(c, phase', status', level')
  <2>1. c \in DOMAIN y /\ RowHolds(y[c], c, W)
    BY <1>5 DEF RowsHold
  <2>2. \A w : HasPulled(w, c, phase', status', level') <=> HasPulled(w, c, phase, status, level)
    BY <1>1 DEF HasPulled, Summed
  <2>3. CASE c \notin F.rows[s] \ Slotted(s)
    <3>1. ~(s \in Writers(c) /\ plan.slot[s][c] = NOSN)
      BY <2>3 DEF Writers, Slotted
    <3>2. W2 = W
      BY <1>6, <2>2, <3>1 DEF Taken
    <3> HIDE DEF W, W2, s
    <3>3. RowHolds(y'[c], c, W)
      BY <1>1, <1>3, <1>4, <2>1, <2>3, WritingRows DEF s
    <3> QED BY <3>2, <3>3 DEF W2
  <2>4. CASE c \in F.rows[s] \ Slotted(s)
    <3>1. s \in Writers(c) /\ plan.slot[s][c] = NOSN /\ c \in F.rows[s]
      BY <1>3, <2>4 DEF Writers, Slotted
    <3>2. W2 = W \cup {s}
      BY <1>6, <2>2, <3>1 DEF Taken
    <3>3. plan.chain
      BY <1>1, <1>3, <3>1, PlanRows
    <3>4. AllPrecede(W, c, {s})
      <4> SUFFICES ASSUME NEW w \in W, NEW u \in TermWith(w, c) PROVE Earlier(plan, u, s)
        BY DEF AllPrecede
      <4>1. w \in Nodes /\ c \in F.rows[w]
        BY DEF Taken, Writers
      <4>2. plan.slot[w][c] = NOSN
        BY <1>1, <3>3, <4>1, PlanSources
      <4>3. u = w /\ w \in H
        BY <4>2 DEF Taken, TermWith
      <4>4. w \in Tops
        BY <1>1, <3>3, <4>1, PlanSources, TreesHold
      <4>5. PICK l \in DOMAIN plan.levels : w \in LevelNodes(l)
        BY <1>1, <4>4, PlanLevels
      <4>6. status[w] = "done"
        BY <1>1, <4>3, <4>4 DEF ForwardLevels, AllAre, Handed
      <4>7. ~(l < level)
        BY <1>1, <4>5, <4>6 DEF ForwardLevels, AllAre
      <4>8. l # level
        <5> SUFFICES ASSUME l = level PROVE FALSE
          OBVIOUS
        <5>1. L \in Seq(Nodes) /\ Len(L) = 1
          BY <1>1, <1>2, <3>3, PlanLevels, PlanSources DEF L
        <5>2. \A j \in DOMAIN L : j = i
          BY <5>1
        <5>3. w = s
          BY <4>5, <5>2 DEF LevelNodes, ToSet, L
        <5> QED BY <1>6, <4>3, <5>3
      <4>9. level < l
        BY <1>2, <4>7, <4>8
      <4> QED BY <1>1, <1>2, <1>3, <4>3, <4>5, <4>9, EarlierLevels
    <3> HIDE DEF W, W2, s
    <3>5. RowHolds(y'[c], c, W \cup {s})
      BY <1>1, <1>3, <1>4, <2>1, <2>4, <3>4, WritingRows DEF s
    <3> QED BY <3>2, <3>5 DEF W2
  <2> QED BY <2>3, <2>4
<1>9. DOMAIN y' = DOMAIN plan.sn
  BY <1>4, <1>5 DEF WriteRows, RowsHold
<1>10. TermsAt(y', acc', phase', status', level')
  BY <1>7, <1>8, <1>9 DEF TermsAt, RowsHold
<1> QED BY <1>1, <1>10, SameTerms

\* When the sweep is over, every row has taken the terms of all its writers.
LEMMA TermsEndForward == WalkInv /\ TermsInv /\ EndForward => TermsInv'
<1> SUFFICES ASSUME WalkInv, TermsInv, EndForward PROVE TermsInv'
  OBVIOUS
<1>1. /\ IsPlan(F, plan) /\ phase \in {"fwd-flow", "fwd-levels"} /\ phase' \in {"diagonal", "backward"}
      /\ UNCHANGED <<fixed, y, acc, status, level>>
  BY DEF WalkInv, WalkTypes, EndForward
<1>2. \A s \in Nodes : status[s] = "done"
  <2>1. WalkInv'
    BY EndsForward
  <2>2. Nodes' = Nodes /\ status' = status
    BY <1>1, SameStatics
  <2> QED BY <1>1, <2>1, <2>2 DEF WalkInv, AllAre
<1>3. phase = "fwd-levels" => level = 0
  BY <1>1 DEF EndForward
<1>4. ASSUME NEW c \in DOMAIN plan.sn PROVE Taken(c, phase', status', level') = Taken(c, phase, status, level)
  <2>1. plan.sn[c] \in Nodes
    BY <1>1, PlanTypes
  <2>2. ASSUME NEW s \in Writers(c) PROVE HasPulled(s, c, phase', status', level') /\ HasPulled(s, c, phase, status, level)
    <3>1. s \in Nodes
      BY DEF Writers
    <3>2. s \in Tops => \E l \in DOMAIN plan.levels : l > 0 /\ s \in LevelNodes(l)
      <4> SUFFICES ASSUME s \in Tops PROVE \E l \in DOMAIN plan.levels : l > 0 /\ s \in LevelNodes(l)
        OBVIOUS
      <4>1. PICK l \in DOMAIN plan.levels : s \in LevelNodes(l)
        BY <1>1, PlanLevels
      <4>2. l > 0
        BY <1>1, LevelsAreTops
      <4> QED BY <4>1, <4>2
    <3> QED BY <1>1, <1>2, <1>3, <2>1, <3>2 DEF HasPulled, Summed
  <2>3. Handed(status') = Handed(status)
    BY <1>1 DEF Handed
  <2> QED BY <2>2, <2>3 DEF Taken
<1>5. Handed(status') = Handed(status)
  BY <1>1 DEF Handed
<1> QED BY <1>1, <1>4, <1>5, TermsStay DEF Summing, Summed

\* Backward, what the rows took is history.
LEMMA TermsPast ==
  ASSUME UNCHANGED fixed, ~Summing(phase'), ~Summed(phase')
  PROVE  TermsInv'
BY SameTerms DEF TermsAt

LEMMA TermsStep == WalkInv /\ TermsInv /\ [WalkNext]_walkVars => TermsInv'
<1> SUFFICES ASSUME WalkInv, TermsInv, [WalkNext]_walkVars PROVE TermsInv'
  OBVIOUS
<1>1. CASE BeginForward \/ SubtreesForward \/ LevelForward \/ EndForward
  BY <1>1, TermsAtBegin, TermsAtAncestors, TermsTakeLevel, TermsOfNode, TermsEndForward
<1>2. CASE SolveDiagonal \/ BeginBackward
  <2>1. UNCHANGED fixed /\ phase' \in {"failed", "bwd-flow", "bwd-levels"}
    BY <1>2 DEF SolveDiagonal, BeginBackward, ToBackward
  <2> QED BY <2>1, TermsPast DEF Summing, Summed
<1>3. CASE LevelBackward \/ AncestorsBackward \/ EndBackward
  <2>1. UNCHANGED fixed /\ phase' \in {"bwd-levels", "bwd-subtrees", "done"}
    BY <1>3 DEF LevelBackward, AncestorsBackward, EndBackward
  <2> QED BY <2>1, TermsPast DEF Summing, Summed
<1>4. ASSUME NEW t \in Trees, StartInTree(t) PROVE TermsInv'
  BY <1>4, TermsStartInTree
<1>5. ASSUME NEW s \in Nodes, NodeStep(s) PROVE TermsInv'
  <2>1. CASE FinishInTree(s)
    BY <2>1, TermsFinishInTree
  <2>2. CASE StartForward(s) \/ FinishForward(s) \/ CountDownParent(s)
    BY <2>2, TermsStartForward, TermsFinishForward, TermsCountDown
  <2>3. CASE StartBackward(s) \/ FinishBackward(s)
    <3>1. UNCHANGED fixed /\ phase' = "bwd-flow"
      BY <2>3 DEF StartBackward, FinishBackward
    <3> QED BY <3>1, TermsPast DEF Summing, Summed
  <2> QED BY <1>5, <2>1, <2>2, <2>3 DEF NodeStep
<1>6. CASE UNCHANGED walkVars
  <2>1. UNCHANGED <<fixed, y, acc>> /\ phase' = phase /\ status' = status /\ level' = level
    BY <1>6 DEF walkVars, fixed
  <2>2. Handed(status') = Handed(status) /\ \A c : Taken(c, phase', status', level') = Taken(c, phase, status, level)
    BY <2>1 DEF Handed
  <2> QED BY <2>1, <2>2, TermsStay
<1> QED BY <1>1, <1>2, <1>3, <1>4, <1>5, <1>6 DEF WalkNext

\* What a row has taken when its node runs is of all that write it.
LEMMA InTheirOrder == WalkInv /\ TermsInv => TermsInSequentialOrder
<1> SUFFICES ASSUME WalkInv, TermsInv, NEW s \in Nodes, NEW c \in Columns(s),
                    (InForward /\ status[s] \in {"running", "ran", "done"}) \/ phase \in {"diagonal", "backward"}
             PROVE  InSweepOrder(y[c], {TermWith(u, c) : u \in Writers(c)})
  BY DEF TermsInSequentialOrder
<1>1. IsPlan(F, plan) /\ c \in DOMAIN plan.sn /\ plan.sn[c] = s
  BY DEF WalkInv, WalkTypes, Columns
<1>2. RowHolds(y[c], c, Taken(c, phase, status, level))
  BY <1>1 DEF TermsInv, TermsAt, RowsHold, InForward, Summing, Summed
<1>3. ASSUME NEW u \in Writers(c) PROVE u \in Taken(c, phase, status, level)
  <2>1. u \in Nodes /\ c \in F.rows[u]
    BY DEF Writers
  <2>2. status[u] = "done" /\ u \in Handed(status)
    <3>1. CASE InForward
      BY <1>1, <2>1, <3>1, ForwardReads DEF ForwardReadsFinal, InForward, Handed
    <3>2. CASE ~InForward
      BY <2>1, <3>2 DEF WalkInv, AllAre, Handed
    <3> QED BY <3>1, <3>2
  <2>3. ASSUME plan.slot[u][c] # NOSN PROVE HasPulled(u, c, phase, status, level)
    <3>1. s \in Tops
      BY <1>1, <2>3, NoMix
    <3>2. CASE phase = "fwd-subtrees"
      BY <3>1, <3>2 DEF WalkInv, AllAre
    <3>3. CASE phase = "fwd-flow"
      BY <1>1, <3>3 DEF HasPulled
    <3>4. CASE phase = "fwd-levels" /\ u \in Tops
      <4>1. ForwardLevels /\ status[s] = "done"
        BY <3>1, <3>4 DEF WalkInv, ForwardLevels, AllAre
      <4>2. PICK l \in DOMAIN plan.levels : u \in LevelNodes(l)
        BY <1>1, <3>4, PlanLevels
      <4>3. PICK m \in 1..l - 1 : s \in LevelNodes(m)
        BY <1>1, <2>1, <4>2, PlanLevels
      <4>4. DOMAIN plan.levels = 1..Len(plan.levels) /\ Len(plan.levels) \in Nat
        BY <1>1, LevelsAreTops
      <4>5. m \in DOMAIN plan.levels
        BY <4>3, <4>4
      <4>6. ~(m < level)
        BY <4>1, <4>3, <4>5 DEF ForwardLevels, AllAre
      <4>7. l > level
        BY <4>1, <4>3, <4>4, <4>6 DEF ForwardLevels
      <4> QED BY <3>4, <4>2, <4>7 DEF HasPulled
    <3>5. CASE phase = "fwd-levels" /\ u \notin Tops
      BY <3>5 DEF HasPulled
    <3>6. CASE phase \in {"diagonal", "backward"}
      BY <3>6 DEF HasPulled, Summed
    <3> QED BY <3>2, <3>3, <3>4, <3>5, <3>6 DEF InForward
  <2> QED BY <2>2, <2>3 DEF Taken
<1>4. Taken(c, phase, status, level) = Writers(c)
  BY <1>3 DEF Taken
<1> QED BY <1>2, <1>4 DEF RowHolds

(***************************************************************************)
(* The solve gives the same bits for every schedule of its tasks: what     *)
(* each row has taken when its node runs are the terms that one thread     *)
(* sweeping level by level subtracts, each summed in its order, and in the *)
(* order in which it subtracts them; and nobody races for a row.           *)
(***************************************************************************)
THEOREM SweepsHold == WalkSpec => []SweepsAreSound
<1>1. WalkInit => WalkInv /\ TermsInv
  BY WalkStarts, TermsBegin
<1>2. WalkInv /\ TermsInv /\ [WalkNext]_walkVars => (WalkInv /\ TermsInv)'
  BY WalkStep, TermsStep
<1>3. WalkInv /\ TermsInv => SweepsAreSound
  <2>1. WalkInv => NobodyLeftOut
    BY DEF WalkInv, AllAre, NobodyLeftOut
  <2> QED BY <2>1, RowsApart, ForwardReads, BackwardReads, InTheirOrder DEF SharedViewIsSound, SweepsAreSound
<1> QED BY <1>1, <1>2, <1>3, PTL DEF WalkSpec

-----------------------------------------------------------------------------
\* A list in a strict order is the only one of its elements.
LEMMA OneList ==
  ASSUME NEW S, NEW q \in Seq(S), NEW r \in Seq(S), NEW R, \A a, b \in S : <<a, b>> \in R => <<b, a>> \notin R,
         \A i, j \in DOMAIN q : i < j => <<q[i], q[j]>> \in R, \A i, j \in DOMAIN r : i < j => <<r[i], r[j]>> \in R,
         ToSet(q) = ToSet(r)
  PROVE  q = r
<1> DEFINE n == Len(q)
           m == Len(r)
           differ == {k \in Nat : (k \in 1..n \/ k \in 1..m) /\ ~(k \in 1..n /\ k \in 1..m /\ q[k] = r[k])}
<1>1. n \in Nat /\ m \in Nat /\ DOMAIN q = 1..n /\ DOMAIN r = 1..m
  OBVIOUS
<1>2. (\A k \in 1..n : q[k] \in S) /\ (\A k \in 1..m : r[k] \in S)
  OBVIOUS
<1>3. (\A k \in 1..n : \E j \in 1..m : q[k] = r[j]) /\ (\A k \in 1..m : \E j \in 1..n : r[k] = q[j])
  <2> HIDE DEF n, m
  <2> QED BY <1>1 DEF ToSet
<1> HIDE DEF n, m
<1>4. \A i, j \in 1..n : i < j => <<q[i], q[j]>> \in R /\ q[i] # q[j]
  BY <1>1, <1>2
<1>5. \A i, j \in 1..m : i < j => <<r[i], r[j]>> \in R /\ r[i] # r[j]
  BY <1>1, <1>2
<1>6. differ = {}
  <2> SUFFICES ASSUME differ # {} PROVE FALSE
    OBVIOUS
  <2>1. differ \in SUBSET Nat
    OBVIOUS
  <2>2. PICK k \in differ : \A e \in differ : k <= e
    <3> HIDE DEF differ
    <3> QED BY <2>1, MinIsLeast
  <2>3. k \in Nat /\ (k \in 1..n \/ k \in 1..m) /\ ~(k \in 1..n /\ k \in 1..m /\ q[k] = r[k])
    OBVIOUS
  <2>4. \A i \in 1..k - 1 : i \in 1..n /\ i \in 1..m /\ q[i] = r[i]
    <3> SUFFICES ASSUME NEW i \in 1..k - 1 PROVE i \in 1..n /\ i \in 1..m /\ q[i] = r[i]
      OBVIOUS
    <3>1. i \in Nat /\ ~(k <= i) /\ (i \in 1..n \/ i \in 1..m)
      BY <1>1, <2>3
    <3>2. i \notin differ
      BY <2>2, <3>1
    <3> QED BY <3>1, <3>2
  <2> HIDE DEF differ
  <2>5. ASSUME k \in 1..n PROVE k \in 1..m /\ q[k] # r[k] /\ <<r[k], q[k]>> \in R
    <3>1. PICK j \in 1..m : q[k] = r[j]
      BY <1>3, <2>5
    <3>2. ~(j < k)
      <4> SUFFICES ASSUME j < k PROVE FALSE
        OBVIOUS
      <4>1. j \in 1..k - 1
        BY <1>1, <2>3
      <4>2. j \in 1..n /\ q[j] = q[k]
        BY <2>4, <3>1, <4>1
      <4> QED BY <1>4, <2>5, <4>2
    <3>3. k \in 1..m
      BY <1>1, <2>3, <2>5, <3>2
    <3>4. k < j
      BY <1>1, <2>3, <2>5, <3>1, <3>2, <3>3
    <3> QED BY <1>5, <2>3, <2>5, <3>1, <3>3, <3>4
  <2>6. ASSUME k \in 1..m PROVE k \in 1..n /\ <<q[k], r[k]>> \in R
    <3>1. PICK j \in 1..n : r[k] = q[j]
      BY <1>3, <2>6
    <3>2. ~(j < k)
      <4> SUFFICES ASSUME j < k PROVE FALSE
        OBVIOUS
      <4>1. j \in 1..k - 1
        BY <1>1, <2>3
      <4>2. j \in 1..m /\ r[j] = r[k]
        BY <2>4, <3>1, <4>1
      <4> QED BY <1>5, <2>6, <4>2
    <3>3. k \in 1..n
      BY <1>1, <2>3, <2>6, <3>2
    <3>4. k < j
      BY <1>1, <2>3, <2>6, <3>1, <3>2, <3>3
    <3> QED BY <1>4, <3>1, <3>3, <3>4
  <2>7. <<r[k], q[k]>> \in R /\ <<q[k], r[k]>> \in R /\ r[k] \in S /\ q[k] \in S
    BY <1>2, <2>3, <2>5, <2>6
  <2> QED BY <2>7
<1>7. \A k \in Nat : (k \in 1..n \/ k \in 1..m) => k \in 1..n /\ k \in 1..m /\ q[k] = r[k]
  BY <1>6
<1>8. n = m
  <2>1. ~(n < m)
    BY <1>1, <1>7
  <2>2. ~(m < n)
    BY <1>1, <1>7
  <2> QED BY <1>1, <2>1, <2>2
<1> HIDE DEF differ
<1>9. \A k \in 1..n : q[k] = r[k]
  BY <1>1, <1>7
<1> QED BY <1>8, <1>9 DEF n, m

\* A node has one turn, so the order of the sweep is strict.
LEMMA SweepIsStrict ==
  ASSUME IsPlan(F, plan), NEW u \in Nodes, NEW s \in Nodes, Earlier(plan, u, s)
  PROVE  ~Earlier(plan, s, u)
<1> DEFINE a == Len(plan.subtrees)
           b == Len(plan.levels)
           turn(k) == Turns(plan)[k]
<1>1. a \in Nat /\ b \in Nat /\ Trees = 1..a /\ DOMAIN plan.levels = 1..b /\ F.ns \in Nat
  BY PlanSources, LevelsAreTops, PlanTypes
<1>2. DOMAIN Turns(plan) = 1..a + b
  BY DEF Turns
<1>3. \A t \in Trees : turn(t) = ToSet(TreeNodes[t])
  BY TurnsOf
<1>4. \A l \in DOMAIN plan.levels : turn(a + b + 1 - l) = LevelNodes(l)
  BY TurnsOf
<1> HIDE DEF a, b, turn
<1>5. \A k \in 1..a + b : k \in 1..a \/ a + b + 1 - k \in 1..b
  BY <1>1
<1>6. \A k \in 1..a + b : k = a + b + 1 - (a + b + 1 - k)
  BY <1>1
<1>7. ASSUME NEW j \in 1..a + b, NEW k \in 1..a + b, NEW v \in turn(j), v \in turn(k) PROVE j = k
  <2>1. CASE j \in 1..a /\ k \in 1..a
    <3>1. j \in Trees /\ k \in Trees
      BY <1>1, <2>1
    <3>2. v \in ToSet(TreeNodes[j]) /\ v \in ToSet(TreeNodes[k])
      BY <1>3, <1>7, <3>1
    <3> QED BY <3>1, <3>2, PlanTrees
  <2>2. CASE a + b + 1 - j \in 1..b /\ a + b + 1 - k \in 1..b
    <3> DEFINE l == a + b + 1 - j
               o == a + b + 1 - k
    <3>1. l \in DOMAIN plan.levels /\ o \in DOMAIN plan.levels
      BY <1>1, <2>2
    <3>2. j = a + b + 1 - l /\ k = a + b + 1 - o
      BY <1>6
    <3> HIDE DEF l, o
    <3>3. v \in LevelNodes(l) /\ v \in LevelNodes(o)
      BY <1>4, <1>7, <3>1, <3>2
    <3>4. l = o
      BY <3>1, <3>3, PlanLevels
    <3> QED BY <3>2, <3>4
  <2>3. ASSUME NEW x1 \in 1..a, NEW x2 \in 1..a + b, a + b + 1 - x2 \in 1..b, v \in turn(x1), v \in turn(x2) PROVE FALSE
    <3> DEFINE l == a + b + 1 - x2
    <3>1. l \in DOMAIN plan.levels /\ x2 = a + b + 1 - l
      BY <1>1, <1>6, <2>3
    <3> HIDE DEF l
    <3>2. v \in LevelNodes(l)
      BY <1>4, <2>3, <3>1
    <3>3. v \in Tops
      BY <3>1, <3>2, LevelsAreTops
    <3>4. v \in ToSet(TreeNodes[x1]) /\ x1 \in Trees
      BY <1>1, <1>3, <2>3
    <3> QED BY <3>3, <3>4, PlanTrees
  <2> QED BY <1>5, <1>7, <2>1, <2>2, <2>3
<1>8. PICK j, k \in 1..a + b : u \in turn(j) /\ s \in turn(k) /\ (j < k \/ (j = k /\ u < s))
  BY <1>2 DEF Earlier, turn
<1> SUFFICES ASSUME Earlier(plan, s, u) PROVE FALSE
  OBVIOUS
<1>9. PICK l, o \in 1..a + b : s \in turn(l) /\ u \in turn(o) /\ (l < o \/ (l = o /\ s < u))
  BY <1>2 DEF Earlier, turn
<1>10. l = k /\ o = j
  BY <1>7, <1>8, <1>9
<1>11. u \in Int /\ s \in Int
  BY <1>1 DEF Nodes, Supers
<1> QED BY <1>1, <1>8, <1>9, <1>10, <1>11

LEMMA OneOrder ==
  ASSUME IsPlan(F, plan), NEW q \in Seq(Seq(Nodes)), NEW r \in Seq(Seq(Nodes)), NEW sums, {} \notin sums,
         InSweepOrder(q, sums), InSweepOrder(r, sums)
  PROVE  q = r
<1> DEFINE list == {e \in Seq(Nodes) : ToSet(e) \in sums /\ IsAscending(e)}
           less == {x1 \in Nodes \X Nodes : x1[1] < x1[2]}
           before == {x1 \in list \X list : \A u \in ToSet(x1[1]), s \in ToSet(x1[2]) : Earlier(plan, u, s)}
<1>1. F.ns \in Nat /\ Nodes \subseteq Int
  <2>1. F.ns \in Nat
    BY PlanTypes
  <2> QED BY <2>1 DEF Nodes, Supers
<1>2. ASSUME NEW e \in list, NEW f \in list, ToSet(e) = ToSet(f) PROVE e = f
  <2>1. e \in Seq(Nodes) /\ f \in Seq(Nodes) /\ IsAscending(e) /\ IsAscending(f)
    OBVIOUS
  <2>2. \A v, w \in Nodes : <<v, w>> \in less <=> v < w
    OBVIOUS
  <2>3. \A v, w \in Nodes : <<v, w>> \in less => <<w, v>> \notin less
    BY <1>1, <2>2
  <2>4. (\A i \in DOMAIN e : e[i] \in Nodes) /\ (\A i \in DOMAIN f : f[i] \in Nodes)
    BY ONLY <2>1
  <2> HIDE DEF less, list
  <2>5. \A i, j \in DOMAIN e : i < j => <<e[i], e[j]>> \in less
    BY ONLY <2>1, <2>2, <2>4 DEF IsAscending
  <2>6. \A i, j \in DOMAIN f : i < j => <<f[i], f[j]>> \in less
    BY ONLY <2>1, <2>2, <2>4 DEF IsAscending
  <2> QED BY ONLY <1>2, <2>1, <2>3, <2>5, <2>6, OneList
<1>3. (\A k \in DOMAIN q : q[k] \in list) /\ (\A k \in DOMAIN r : r[k] \in list)
  BY DEF InSweepOrder
<1>4. \A e \in list : \E u \in ToSet(e) : u \in Nodes
  <2> SUFFICES ASSUME NEW e \in list PROVE \E u \in ToSet(e) : u \in Nodes
    OBVIOUS
  <2>1. ToSet(e) # {}
    OBVIOUS
  <2>2. \A i \in DOMAIN e : e[i] \in Nodes
    OBVIOUS
  <2> QED BY <2>1, <2>2 DEF ToSet
<1>5. \A e, f \in list : <<e, f>> \in before <=> \A u \in ToSet(e), s \in ToSet(f) : Earlier(plan, u, s)
  OBVIOUS
<1>6. q \in Seq(list) /\ r \in Seq(list)
  <2> HIDE DEF list
  <2> QED BY ONLY q \in Seq(Seq(Nodes)), r \in Seq(Seq(Nodes)), <1>3
<1>7. \A e \in list : \A u \in ToSet(e) : u \in Nodes
  BY DEF ToSet
<1> HIDE DEF before, list
<1>8. \A e, f \in list : <<e, f>> \in before => <<f, e>> \notin before
  BY <1>4, <1>5, <1>7, SweepIsStrict
<1>9. \A i, j \in DOMAIN q : i < j => <<q[i], q[j]>> \in before
  BY <1>3, <1>5 DEF InSweepOrder
<1>10. \A i, j \in DOMAIN r : i < j => <<r[i], r[j]>> \in before
  BY <1>3, <1>5 DEF InSweepOrder
<1>11. ToSet(q) = ToSet(r)
  <2>1. {ToSet(q[k]) : k \in DOMAIN q} = {ToSet(r[k]) : k \in DOMAIN r}
    BY ONLY InSweepOrder(q, sums), InSweepOrder(r, sums) DEF InSweepOrder
  <2>2. \A k \in DOMAIN q : \E j \in DOMAIN r : ToSet(q[k]) = ToSet(r[j])
    BY ONLY <2>1
  <2>3. \A k \in DOMAIN r : \E j \in DOMAIN q : ToSet(r[k]) = ToSet(q[j])
    BY ONLY <2>1
  <2>4. \A k \in DOMAIN q : \E j \in DOMAIN r : q[k] = r[j]
    BY <1>2, <1>3, <2>2
  <2>5. \A k \in DOMAIN r : \E j \in DOMAIN q : r[k] = q[j]
    BY <1>2, <1>3, <2>3
  <2> QED BY ONLY <2>4, <2>5 DEF ToSet
<1> QED BY ONLY <1>6, <1>8, <1>9, <1>10, <1>11, OneList

(***************************************************************************)
(* The terms of a row in the order of the sweep are one list: whoever      *)
(* takes them so, subtracts the same numbers in the same order, and so     *)
(* rounds alike.                                                           *)
(***************************************************************************)
THEOREM OneOrderOfTerms ==
  ASSUME IsPlan(F, plan), NEW c, NEW q \in Seq(Seq(Nodes)), NEW r \in Seq(Seq(Nodes)),
         InSweepOrder(q, {TermWith(s, c) : s \in Writers(c)}), InSweepOrder(r, {TermWith(s, c) : s \in Writers(c)})
  PROVE  q = r
<1>1. \A s \in Writers(c) : s \in TermWith(s, c)
  BY TermsAre DEF Writers
<1> QED BY <1>1, OneOrder
=============================================================================

--------------------------- MODULE EliminationTree ---------------------------
(***************************************************************************)
(* Elimination trees (src/src/ordering/elimination_tree.rs, postorder.rs)  *)
(* and what is read off them: the column counts                            *)
(* (src/src/symbolic/column_counts.rs) and the supernodes (supernode.rs).  *)
(*                                                                         *)
(* A symmetric pattern is given column by column: cols[j] is the sequence  *)
(* of column j's rows, in any order.  A tree is the sequence of its nodes' *)
(* parents, NONE at a root.  Columns count from 1.                         *)
(***************************************************************************)
EXTENDS Integers, Sequences, FiniteSets, SequencesExt, FiniteSetsExt, Sums

NONE == 0

-----------------------------------------------------------------------------
(***************************************************************************)
(* Liu's construction: a union-find forest with path compression.          *)
(***************************************************************************)
RootOf(ancestor, i) ==
  LET root[v \in DOMAIN ancestor] == IF ancestor[v] = v THEN v ELSE root[ancestor[v]]
  IN root[i]

PathTo(ancestor, i) ==
  LET path[v \in DOMAIN ancestor] ==
        IF ancestor[v] = v THEN {} ELSE {v} \cup path[ancestor[v]]
  IN path[i]

Compress(ancestor, i) ==
  LET r == RootOf(ancestor, i) IN
  FoldSet(LAMBDA v, a : [a EXCEPT ![v] = r], ancestor, PathTo(ancestor, i))

HangRoot(st, j, i) ==
  LET r == RootOf(st.ancestor, i)
      a == Compress(st.ancestor, i)
  IN IF r = j THEN [st EXCEPT !.ancestor = a]
     ELSE [parent |-> [st.parent EXCEPT ![r] = j], ancestor |-> [a EXCEPT ![r] = j]]

FromCols(cols) ==
  LET n == Len(cols)
      Column(st, j) ==
        FoldLeft(LAMBDA s, i : IF i >= j THEN s ELSE HangRoot(s, j, i), st, cols[j])
      start == [parent |-> [j \in 1..n |-> NONE], ancestor |-> [j \in 1..n |-> j]]
  IN FoldLeft(Column, start, [j \in 1..n |-> j]).parent

-----------------------------------------------------------------------------
(***************************************************************************)
(* The shape of a tree.                                                    *)
(***************************************************************************)
Children(parent, v) == {c \in DOMAIN parent : parent[c] = v}

Subtree(parent, v) ==
  LET below[u \in DOMAIN parent] == {u} \cup UNION {below[c] : c \in Children(parent, u)}
  IN below[v]

SubtreeSizes(parent) ==
  FoldLeft(LAMBDA sizes, j : IF parent[j] = NONE THEN sizes
                             ELSE [sizes EXCEPT ![parent[j]] = @ + sizes[j]],
           [j \in DOMAIN parent |-> 1], [j \in DOMAIN parent |-> j])

(***************************************************************************)
(* A depth-first traversal that visits the children of v, and the roots    *)
(* (the children of NONE), in the order kids[v].                           *)
(***************************************************************************)
DepthFirst(parent, Kids(_)) ==
  LET visit[v \in DOMAIN parent] ==
        Append(FlattenSeq([i \in DOMAIN Kids(v) |-> visit[Kids(v)[i]]]), v)
  IN FlattenSeq([i \in DOMAIN Kids(NONE) |-> visit[Kids(NONE)[i]]])

\* EliminationTree::postorder: children and roots ascending.
PlainPostorder(parent) == DepthFirst(parent, LAMBDA v : Ascending(Children(parent, v)))

\* By subtree size, equal sizes in the order the unstable sort leaves them in.
BySize(S, sizes, tie) ==
  Sorted(S, LAMBDA c, d : sizes[c] < sizes[d] \/ (sizes[c] = sizes[d] /\ tie[c] < tie[d]))

Postorder(parent, tie) ==
  DepthFirst(parent, LAMBDA v : BySize(Children(parent, v), SubtreeSizes(parent), tie))

\* The children to be merged last, next to their parent; roots by size alone.
BiasedPostorder(parent, bias, tie) ==
  LET sizes == SubtreeSizes(parent)
      Kids(v) ==
        LET S == Children(parent, v) IN
        IF v = NONE THEN BySize(S, sizes, tie)
        ELSE BySize(S \ bias, sizes, tie) \o BySize(S \cap bias, sizes, tie)
  IN DepthFirst(parent, Kids)

\* The position of every node in an order.
Positions(order) == [v \in DOMAIN order |-> CHOOSE k \in DOMAIN order : order[k] = v]

\* first[v]: the least position of a descendant of v.
FirstDescendants(parent, post) ==
  FoldLeft(LAMBDA first, v :
             IF parent[v] # NONE /\ first[v] < first[parent[v]]
             THEN [first EXCEPT ![parent[v]] = first[v]] ELSE first,
           Positions(post), post)

\* The tree relabelled by an order of its nodes.
Relabel(parent, order) ==
  LET at == Positions(order) IN
  [k \in DOMAIN order |-> IF parent[order[k]] = NONE THEN NONE ELSE at[parent[order[k]]]]

-----------------------------------------------------------------------------
(***************************************************************************)
(* What an analysis must agree with: the elimination game.  Eliminating a  *)
(* column joins its later neighbours to one another; the rows a column has *)
(* when its turn comes are its rows in the factor.                         *)
(***************************************************************************)
Eliminated(graph, k) ==
  LET later == {u \in graph[k] : u > k} IN
  [v \in DOMAIN graph |-> IF v \in later THEN (graph[v] \cup later) \ {v} ELSE graph[v]]

\* The graph after the first columns' turns.
Game(cols) ==
  LET graph[k \in 0..Len(cols)] ==
        IF k = 0 THEN [j \in DOMAIN cols |-> ToSet(cols[j]) \ {j}] ELSE Eliminated(graph[k - 1], k)
  IN graph

\* The rows below the diagonal of every column of the factor.
FactorRows(cols) ==
  LET filled == Game(cols)[Len(cols)] IN [j \in DOMAIN cols |-> {i \in filled[j] : i > j}]

\* A column's parent is its first row below the diagonal, 0 where it has none.
FactorTree(cols) ==
  LET rows == FactorRows(cols) IN
  [j \in DOMAIN cols |-> IF rows[j] = {} THEN 0 ELSE Min(rows[j])]

FactorCounts(cols) ==
  LET rows == FactorRows(cols) IN [j \in DOMAIN cols |-> 1 + Cardinality(rows[j])]

-----------------------------------------------------------------------------
(***************************************************************************)
(* The Gilbert-Ng-Peyton column counts (src/src/symbolic/column_counts.rs, *)
(* gnp): column j's count is the number of row subtrees that pass through  *)
(* j, got by adding the leaves of every row subtree at the leaves,         *)
(* subtracting at the least common ancestor of consecutive ones, and       *)
(* summing up the tree.  Row r counts weight[r] times.                     *)
(***************************************************************************)


\* Column i seen from row r > i: i is a leaf of r's subtree when no leaf seen
\* before lies below i.
IsLeaf(st, first, i, r) == first[i] > st.maxfirst[r]

KeepBoth(st, r, weight) == st.delta
DropAtMeeting(st, r, weight) ==
  IF st.prevleaf[r] = NONE THEN st.delta
  ELSE [st.delta EXCEPT ![RootOf(st.ancestor, st.prevleaf[r])] = @ - weight[r]]

Leaf(st, first, weight, i, r) ==
  IF r <= i \/ ~IsLeaf(st, first, i, r) THEN st
  ELSE [delta |-> [DropAtMeeting(st, r, weight) EXCEPT ![i] = @ + weight[r]],
        ancestor |-> IF st.prevleaf[r] = NONE THEN st.ancestor
                     ELSE Compress(st.ancestor, st.prevleaf[r]),
        prevleaf |-> [st.prevleaf EXCEPT ![r] = i],
        maxfirst |-> [st.maxfirst EXCEPT ![r] = first[i]]]

Count(parent, cols, weight, first, st, i) ==
  LET head == IF parent[i] = NONE THEN st
              ELSE [st EXCEPT !.delta[parent[i]] = @ - weight[i]]
      rows == FoldLeft(LAMBDA s, r : Leaf(s, first, weight, i, r), head, cols[i])
  IN IF parent[i] = NONE THEN rows ELSE [rows EXCEPT !.ancestor[i] = parent[i]]

SumUp(parent, post, delta) ==
  FoldLeft(LAMBDA d, i : IF parent[i] = NONE THEN d ELSE [d EXCEPT ![parent[i]] = @ + d[i]],
           delta, post)

Gnp(parent, cols, weight) ==
  LET post == PlainPostorder(parent)
      first == FirstDescendants(parent, post)
      Node == DOMAIN parent
      start == [delta |-> [i \in Node |-> IF Children(parent, i) = {} THEN weight[i] ELSE 0],
                ancestor |-> [i \in Node |-> i],
                prevleaf |-> [i \in Node |-> NONE],
                maxfirst |-> [i \in Node |-> 0]]
      done == FoldLeft(LAMBDA st, i : Count(parent, cols, weight, first, st, i), start, post)
  IN SumUp(parent, post, done.delta)

-----------------------------------------------------------------------------
(***************************************************************************)
(* Supernode detection and amalgamation (supernode.rs) on a postordered    *)
(* elimination tree with its column counts.                                *)
(*                                                                         *)
(* Settings are a record: strategy, nemin, pathLike (a fraction, as        *)
(* <<numerator, denominator>>), relaxWidth (NONE: no relaxed merges) with  *)
(* relaxRows, and rootCap (NONE: no cap); the two sizes that arm relaxing  *)
(* and the cap are folded into those.                                      *)
(***************************************************************************)

(***************************************************************************)
(* Fundamental supernodes.                                                 *)
(***************************************************************************)
Extends(parent, counts, j) ==
  /\ parent[j - 1] = j
  /\ counts[j] + 1 = counts[j - 1]
  /\ Cardinality(Children(parent, j)) = 1

Fundamental(parent, counts) ==
  LET Col == DOMAIN parent
      starts == {j \in Col : j = 1 \/ ~Extends(parent, counts, j)}
      id[j \in Col] == Cardinality({i \in starts : i <= j})
      start == Ascending(starts)
      ncol == [s \in DOMAIN start |-> Cardinality({j \in Col : id[j] = s})]
      up(s) == parent[start[s] + ncol[s] - 1]
  IN [start |-> start, ncol |-> ncol,
      parent |-> [s \in DOMAIN start |-> IF up(s) = NONE THEN NONE ELSE id[up(s)]]]

(***************************************************************************)
(* The merge rules.  c is the last column of the child, p the first one of *)
(* the parent, nc and np their widths.                                     *)
(***************************************************************************)
TrivialChain(counts, np, c, p) == np = 1 /\ counts[p] + 1 = counts[c]

SizeBased(settings, nc, np) == nc < settings.nemin /\ np < settings.nemin

Relaxed(settings, counts, nc, np, c, p) ==
  /\ settings.relaxWidth # NONE
  /\ nc + np <= settings.relaxWidth
  /\ Max({0, counts[c] - (1 + counts[p])}) <= settings.relaxRows

\* The columns of the supernodes predicted to merge into their parents.
PredictMerges(fund, counts, settings) ==
  LET Predicted(s) ==
        LET p == fund.parent[s]
            last == fund.start[s] + fund.ncol[s] - 1
        IN /\ p # NONE
           /\ \/ TrivialChain(counts, fund.ncol[p], last, fund.start[p])
              \/ SizeBased(settings, fund.ncol[s], fund.ncol[p])
  IN UNION {fund.start[s]..(fund.start[s] + fund.ncol[s] - 1) :
              s \in {t \in DOMAIN fund.start : Predicted(t)}}

\* The strategy for the tree's shape.
PickStrategy(parent, pathLike) ==
  LET kids(v) == Cardinality(Children(parent, v))
      internal == {v \in DOMAIN parent : kids(v) > 0}
      bushy == {v \in DOMAIN parent : kids(v) >= 2}
  IN IF \/ internal = {}
        \/ Cardinality(bushy) * pathLike[2] < pathLike[1] * Cardinality(internal)
     THEN "adjacency" ELSE "renumber"

-----------------------------------------------------------------------------
(***************************************************************************)
(* Amalgamation: one supernode after the other is looked at and absorbed   *)
(* by the group of its parent, or not.  m holds per supernode what it was  *)
(* merged into, its group's first column, width and height.                *)
(***************************************************************************)
FindRoot(into, s) ==
  LET root[t \in DOMAIN into] == IF into[t] = NONE THEN t ELSE root[into[t]]
  IN root[s]

StartMerging(fund, counts) ==
  [into |-> [s \in DOMAIN fund.start |-> NONE],
   first |-> fund.start,
   ncol |-> fund.ncol,
   nrow |-> [s \in DOMAIN fund.start |-> Max({counts[fund.start[s]], fund.ncol[s]})]]

Adjacent(m, s, p) == m.first[s] + m.ncol[s] = m.first[p]

CapExceeded(fund, settings, m, s, p) ==
  /\ settings.rootCap # NONE
  /\ fund.parent[p] = NONE
  /\ m.ncol[s] + m.ncol[p] > settings.rootCap

\* The rules by which group s may join the group p next to it.
Rules(counts, settings, m, s, p) ==
  LET last == m.first[s] + m.ncol[s] - 1 IN
  (IF TrivialChain(counts, m.ncol[p], last, m.first[p]) THEN {"chain"} ELSE {})
  \cup (IF SizeBased(settings, m.ncol[s], m.ncol[p]) THEN {"size"} ELSE {})
  \cup (IF Relaxed(settings, counts, m.ncol[s], m.ncol[p], last, m.first[p])
        THEN {"relaxed"} ELSE {})

TakesParentRows(m, s, p) == m.nrow[p]
AddsOwnColumns(m, s, p) == m.nrow[p] + m.ncol[s]

Absorb(m, s, p) ==
  [into |-> [m.into EXCEPT ![s] = p],
   first |-> [m.first EXCEPT ![p] = m.first[s]],
   ncol |-> [m.ncol EXCEPT ![p] = @ + m.ncol[s]],
   nrow |-> [m.nrow EXCEPT ![p] = AddsOwnColumns(m, s, p)]]

\* Whether s joins its parent's group when it is looked at.
Joins(fund, counts, settings, m, s) ==
  /\ fund.parent[s] # NONE /\ m.into[s] = NONE
  /\ LET p == FindRoot(m.into, fund.parent[s]) IN
       /\ Adjacent(m, s, p)
       /\ Rules(counts, settings, m, s, p) # {}
       /\ ~CapExceeded(fund, settings, m, s, p)

Visit(fund, counts, settings, m, s) ==
  IF Joins(fund, counts, settings, m, s) THEN Absorb(m, s, FindRoot(m.into, fund.parent[s]))
  ELSE m

\* Forward, or (for `renumber', and whenever relaxing) parents first.
VisitOrder(fund, settings) ==
  LET forward == [s \in DOMAIN fund.start |-> s] IN
  IF settings.relaxWidth # NONE \/ settings.strategy = "renumber" THEN Reverse(forward)
  ELSE forward

\* The groups left, in order, each child listed with its parent's group.
ChildOfParent(fund, m, s) == fund.parent[s]
ChildOfGroup(fund, m, s) == FindRoot(m.into, fund.parent[s])

Collect(fund, m) ==
  LET kept == Ascending({s \in DOMAIN m.into : m.into[s] = NONE})
      Kids(t) == {i \in DOMAIN kept :
                    fund.parent[kept[i]] # NONE /\ ChildOfGroup(fund, m, kept[i]) = kept[t]}
  IN [t \in DOMAIN kept |->
        [first |-> m.first[kept[t]], ncol |-> m.ncol[kept[t]],
         nrow |-> Max({m.nrow[kept[t]], m.ncol[kept[t]]}),
         children |-> Ascending(Kids(t))]]

FindSupernodes(parent, counts, settings) ==
  LET fund == Fundamental(parent, counts)
      Step(m, s) == Visit(fund, counts, settings, m, s)
  IN Collect(fund, FoldLeft(Step, StartMerging(fund, counts), VisitOrder(fund, settings)))
=============================================================================

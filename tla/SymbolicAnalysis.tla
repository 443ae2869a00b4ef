--------------------------- MODULE SymbolicAnalysis ---------------------------
(***************************************************************************)
(* The symbolic analysis of a pattern (src/src/symbolic/mod.rs,            *)
(* race.rs::finish, ordering_graph.rs): order, tree and column counts; a   *)
(* postorder that relabels both; for the `renumber' strategy a second one  *)
(* that puts the children to be merged next to their parents; then the     *)
(* amalgamation, supernode by supernode.                                   *)
(*                                                                         *)
(* The relabelled tree and counts are never recomputed by the code: a      *)
(* debug assertion and the properties below say they need not be.          *)
(***************************************************************************)
EXTENDS EliminationTree

-----------------------------------------------------------------------------
(***************************************************************************)
(* The structure of an ordered pattern (ordering_graph.rs and              *)
(* supervariables.rs): its elimination tree and column counts, read        *)
(* through the permutation, or computed on the graph of the groups of      *)
(* indistinguishable vertices and expanded.                                *)
(*                                                                         *)
(* The orderings themselves (the crates) are any permutation.  A pattern   *)
(* is the sequence of its columns' rows, ascending, both triangles.  The   *)
(* hash that finds candidates for a group is left out: a group is settled  *)
(* by comparing the adjacencies.                                           *)
(***************************************************************************)
\* Column `new' is column perm[new] of the pattern, its rows mapped.
Permuted(pattern, perm) ==
  LET inv == Positions(perm) IN
  [k \in DOMAIN perm |-> [i \in DOMAIN pattern[perm[k]] |-> inv[pattern[perm[k]][i]]]]

Structure(pattern, perm) ==
  LET cols == Permuted(pattern, perm)
      parent == FromCols(cols)
  IN [perm |-> perm, parent |-> parent,
      counts |-> Gnp(parent, cols, [j \in DOMAIN perm |-> 1])]

-----------------------------------------------------------------------------
(***************************************************************************)
(* Groups of indistinguishable vertices, numbered by their least members.  *)
(***************************************************************************)
Closed(pattern, v) == ToSet(pattern[v]) \cup {v}

GroupsOf(pattern) ==
  LET Class(v) == {u \in DOMAIN pattern : Closed(pattern, u) = Closed(pattern, v)}
      leaders == {v \in DOMAIN pattern : v = Min(Class(v))}
  IN [g \in 1..Cardinality(leaders) |-> Ascending(Class(Ascending(leaders)[g]))]

GroupOf(groups, v) == CHOOSE g \in DOMAIN groups : v \in ToSet(groups[g])

\* The compressed graph: a group's first member stands for all of them.
CompressGraph(pattern, groups) ==
  [g \in DOMAIN groups |->
     Ascending({GroupOf(groups, r) : r \in ToSet(pattern[groups[g][1]])} \ {g})]

\* The structure under an order of the groups, expanded: a group is a chain
\* whose last member hangs below the first member of the parent group.
GroupedStructure(pattern, order) ==
  LET groups == GroupsOf(pattern)
      cols == Permuted(CompressGraph(pattern, groups), order)
      parent == FromCols(cols)
      size == [k \in DOMAIN order |-> Len(groups[order[k]])]
      counts == Gnp(parent, cols, size)
      start == [k \in DOMAIN order |-> 1 + FoldLeft(+, 0, SubSeq(size, 1, k - 1))]
      perm == FlattenSeq([k \in DOMAIN order |-> groups[order[k]]])
      Group(j) == Max({k \in DOMAIN order : start[k] <= j})
      Member(j) == j - start[Group(j)] + 1
  IN [perm |-> perm,
      parent |-> [j \in DOMAIN perm |->
                    IF Member(j) < size[Group(j)] THEN j + 1
                    ELSE IF parent[Group(j)] = NONE THEN NONE ELSE start[parent[Group(j)]]],
      counts |-> [j \in DOMAIN perm |-> counts[Group(j)] - (Member(j) - 1)]]

-----------------------------------------------------------------------------
CONSTANTS
  Patterns,   \* the patterns
  Orders,     \* the orderings the crates may return, for any number of vertices
  Ties,       \* how the unstable sorts may leave equal subtree sizes
  Settings    \* the amalgamation settings

Analyses(pattern) == {Structure(pattern, p) : p \in {q \in Orders : Len(q) = Len(pattern)}}
GroupedAnalyses(pattern) ==
  {GroupedStructure(pattern, p) : p \in {q \in Orders : Len(q) = Len(GroupsOf(pattern))}}

\* A pattern lists rows it has.
ASSUME PatternsAssumption == \A p \in Patterns : p \in Seq(Seq(DOMAIN p))

VARIABLES
  stage,       \* what has been done
  pattern,     \* the pattern, in its own numbering
  perm,        \* the ordering, new to old
  parent,      \* the elimination tree, in the ordering's numbering
  counts,      \* the column counts
  settings,    \* the amalgamation settings, the strategy resolved
  fund,        \* the fundamental supernodes
  todo,        \* the supernodes still to look at
  merge,       \* what they were merged into
  supernodes   \* the result

vars == <<stage, pattern, perm, parent, counts, settings, fund, todo, merge, supernodes>>

Init ==
  /\ stage = "given" /\ pattern \in Patterns
  /\ perm = <<>> /\ parent = <<>> /\ counts = <<>>
  /\ settings = [strategy |-> "none"] /\ fund = [start |-> <<>>]
  /\ todo = <<>> /\ merge = [into |-> <<>>] /\ supernodes = <<>>

\* OrderingGraph::order, or a given permutation: on the pattern itself, or on
\* its groups (where they shrink it enough for the settings).
Order ==
  /\ stage = "given"
  /\ \E s \in Analyses(pattern) \cup GroupedAnalyses(pattern) :
       perm' = s.perm /\ parent' = s.parent /\ counts' = s.counts
  /\ stage' = "ordered"
  /\ UNCHANGED <<pattern, settings, fund, todo, merge, supernodes>>

RelabelBy(post) ==
  /\ perm' = [k \in DOMAIN post |-> perm[post[k]]]
  /\ parent' = Relabel(parent, post)
  /\ counts' = [k \in DOMAIN post |-> counts[post[k]]]

PostorderTree ==
  /\ stage = "ordered"
  /\ \E tie \in {t \in Ties : Len(t) = Len(perm)} : RelabelBy(Postorder(parent, tie))
  /\ stage' = "postordered"
  /\ UNCHANGED <<pattern, settings, fund, todo, merge, supernodes>>

Resolved(given) ==
  IF given.strategy = "auto" THEN [given EXCEPT !.strategy = PickStrategy(parent, given.pathLike)]
  ELSE given

RenumberTree ==
  /\ stage = "postordered"
  /\ \E given \in Settings, tie \in {t \in Ties : Len(t) = Len(perm)} :
       LET resolved == Resolved(given)
           bias == PredictMerges(Fundamental(parent, counts), counts, resolved)
       IN /\ settings' = resolved
          /\ IF resolved.strategy = "renumber" /\ bias # {}
               THEN RelabelBy(BiasedPostorder(parent, bias, tie))
               ELSE UNCHANGED <<perm, parent, counts>>
  /\ stage' = "numbered"
  /\ UNCHANGED <<pattern, fund, todo, merge, supernodes>>

FindFundamental ==
  /\ stage = "numbered"
  /\ fund' = Fundamental(parent, counts)
  /\ merge' = StartMerging(fund', counts)
  /\ todo' = VisitOrder(fund', settings)
  /\ stage' = "merging"
  /\ UNCHANGED <<pattern, perm, parent, counts, settings, supernodes>>

Look ==
  /\ stage = "merging" /\ todo # <<>>
  /\ merge' = Visit(fund, counts, settings, merge, Head(todo))
  /\ todo' = Tail(todo)
  /\ UNCHANGED <<stage, pattern, perm, parent, counts, settings, fund, supernodes>>

CollectSupernodes ==
  /\ stage = "merging" /\ todo = <<>>
  /\ supernodes' = Collect(fund, merge)
  /\ stage' = "done"
  /\ UNCHANGED <<pattern, perm, parent, counts, settings, fund, todo, merge>>

Next ==
  \/ Order \/ PostorderTree \/ RenumberTree
  \/ FindFundamental \/ Look \/ CollectSupernodes

Spec == Init /\ [][Next]_vars

-----------------------------------------------------------------------------
(***************************************************************************)
(* The structure, with its postorders: every column is ordered once, and   *)
(* the tree and the counts are those of the elimination game on the        *)
(* pattern as it is ordered by then (the debug assertion of finish, and    *)
(* from_cols, gnp and grouped_structure themselves).                       *)
(***************************************************************************)
StructureIsTheFactors ==
  stage # "given" =>
    /\ DOMAIN perm = DOMAIN pattern /\ ToSet(perm) = DOMAIN pattern
    /\ parent = FactorTree(Permuted(pattern, perm))
    /\ counts = FactorCounts(Permuted(pattern, perm))

\* Once postordered, every subtree's columns are consecutive.
SubtreesAreRuns ==
  stage \notin {"given", "ordered"} =>
    \A v \in DOMAIN parent :
      Subtree(parent, v) = (v - Cardinality(Subtree(parent, v)) + 1)..v

TreeIsTheFactors == StructureIsTheFactors /\ SubtreesAreRuns

-----------------------------------------------------------------------------
(***************************************************************************)
(* Amalgamation.                                                           *)
(***************************************************************************)
Groups == {s \in DOMAIN merge.into : merge.into[s] = NONE}
ColumnsOf(s) == merge.first[s]..(merge.first[s] + merge.ncol[s] - 1)
RowsOf(cs) == cs \cup UNION {FactorRows(Permuted(pattern, perm))[c] : c \in cs}

\* The groups are always consecutive runs of columns that cover them all,
\* each once, and hold what was merged into them (the adjacency check).
GroupsCoverColumns ==
  stage \in {"merging", "done"} =>
    \A c \in DOMAIN parent : Cardinality({s \in Groups : c \in ColumnsOf(s)}) = 1

\* A group's height is exact through every merge (the comment on snode_nrow,
\* and the test supernode_heights_match_the_built_row_sets).
HeightsAreExact ==
  stage = "merging" =>
    \A s \in Groups : merge.nrow[s] = Cardinality(RowsOf(ColumnsOf(s)))

\* The result is a forest of supernodes, children before parents, each child
\* once, whose parent holds all the rows the child leaves (what the schedule
\* and the forest driver build on).
SupernodesFormAForest ==
  stage = "done" =>
    LET cs(t) == supernodes[t].first..(supernodes[t].first + supernodes[t].ncol - 1) IN
    /\ \A t \in DOMAIN supernodes : supernodes[t].nrow = Cardinality(RowsOf(cs(t)))
    /\ \A t \in DOMAIN supernodes :
         LET parents == {u \in DOMAIN supernodes : t \in ToSet(supernodes[u].children)}
             left == RowsOf(cs(t)) \ cs(t)
         IN /\ \A u \in parents : t < u /\ left \subseteq RowsOf(cs(u))
            /\ Cardinality(parents) = IF left = {} THEN 0 ELSE 1

\* With nemin 1 and no relaxed merges the amalgamation adds no zero.
NoZerosUnlessAsked ==
  stage = "done" /\ settings.nemin = 1 /\ settings.relaxWidth = NONE =>
    \A t \in DOMAIN supernodes : \A k \in 0..(supernodes[t].ncol - 1) :
      counts[supernodes[t].first + k] = supernodes[t].nrow - k

\* Merging never widens a root beyond the cap.
RootsWithinCap ==
  stage \in {"merging", "done"} /\ settings.rootCap # NONE =>
    \A s \in Groups : fund.parent[s] = NONE /\ merge.ncol[s] > settings.rootCap =>
      merge.ncol[s] = fund.ncol[s]

\* What holds of the groups through every merge, and of the result.
GroupsAreExact == GroupsCoverColumns /\ HeightsAreExact /\ RootsWithinCap
SupernodesAreSound == SupernodesFormAForest /\ NoZerosUnlessAsked

-----------------------------------------------------------------------------
(***************************************************************************)
(* "Maximum explicit-zero rows a single relaxed merge may introduce"       *)
(* (RelaxAmalgamation::max_extra_rows): a group joined by the relaxed rule *)
(* alone holds at most that many rows its child's columns did not have.    *)
(***************************************************************************)
RelaxedMergesAddFewRows ==
  [][\A s \in DOMAIN merge.into :
       (stage = "merging" /\ merge.into[s] = NONE /\ merge'.into[s] # NONE) =>
         LET p == merge'.into[s]
             zeros == RowsOf(ColumnsOf(p)) \ RowsOf(ColumnsOf(s))
         IN Rules(counts, settings, merge, s, p) = {"relaxed"} =>
              Cardinality(zeros) <= settings.relaxRows]_vars
=============================================================================

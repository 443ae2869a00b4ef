------------------------------- MODULE SolveWalk -------------------------------
(***************************************************************************)
(* The supernodal solve: its plan (SolvePlan::from_panels, layout_size)    *)
(* and the sweeps over it (forward_block,                                  *)
(* backward_block, top_forward_flow, top_backward_flow, top_forward,       *)
(* top_backward and what calls them in src/src/numeric/supernodal/solve.rs)*)
(*                                                                         *)
(* A node's kernel is two steps, between which other nodes run: taking in  *)
(* its columns' pending terms (Start) and handing its products to the rows *)
(* below (Finish).  A row of the right-hand side is the sequence of terms  *)
(* subtracted from it so far, a term the sequence of nodes whose products  *)
(* an accumulator slot summed: two sweeps give the same bits where these   *)
(* are equal.  The row and column chunks of a large node are independent   *)
(* sums and are not steps of their own.                                    *)
(*                                                                         *)
(* The plan cuts the supernode tree into leaf subtrees of at most a share  *)
(* of the work and the ancestors above them; a row outside its writer's    *)
(* subtree gets a slot of an accumulator, and every ancestor a list of the *)
(* slots it takes in (its pulls).  A factor F is a record: ns supernodes   *)
(* of width[s] consecutive columns, rows[s] the off-block rows of s, tree  *)
(* the analysis' supernode parents (NOTREE where the caller has none).     *)
(* Values, packing and the block size do not matter here.                  *)
(***************************************************************************)
EXTENDS Integers, Sequences, FiniteSets, SequencesExt, FiniteSetsExt, Sums

NOSN == 0
NOTREE == <<>>

SumOver(S, f(_)) == MapThenSumSet(f, S)

Supers(F) == 1..F.ns
FirstCol(F, s) == 1 + SumOver(1..s - 1, LAMBDA u : F.width[u])
SuperCols(F, s) == FirstCol(F, s)..FirstCol(F, s) + F.width[s] - 1
AllCols(F) == 1..SumOver(Supers(F), LAMBDA s : F.width[s])
SnOf(F) == [c \in AllCols(F) |-> CHOOSE s \in Supers(F) : c \in SuperCols(F, s)]

(***************************************************************************)
(* The tree: the analysis' where it has an entry per supernode, else the   *)
(* parent that the first off-block row implies.                            *)
(***************************************************************************)
TreeEntry(F, s) == IF F.tree[s] > s /\ F.tree[s] <= F.ns THEN F.tree[s] ELSE NOSN
FirstRowsOwner(F, s) == IF F.rows[s] = {} THEN NOSN ELSE SnOf(F)[Min(F.rows[s])]
ParentOf(F) ==
  [s \in Supers(F) |-> IF Len(F.tree) = F.ns THEN TreeEntry(F, s) ELSE FirstRowsOwner(F, s)]

KidsOf(parent, s) == {c \in DOMAIN parent : parent[c] = s}
RootsOf(parent) == KidsOf(parent, NOSN)

(***************************************************************************)
(* The cut.  The heap of the code pops the heaviest subtree first; which   *)
(* ones are split does not depend on the order.                            *)
(***************************************************************************)
OwnWork(F, s) == F.width[s] * (F.width[s] + Cardinality(F.rows[s]))
TreeWork(F, parent) ==
  LET work[s \in Supers(F)] == OwnWork(F, s) + SumOver(KidsOf(parent, s), LAMBDA c : work[c]) IN work

Splits(F, parent, leaves) ==
  LET work == TreeWork(F, parent)
      cap == SumOver(RootsOf(parent), LAMBDA s : work[s]) \div Max({leaves, 1})
      split[s \in Supers(F)] ==
        /\ parent[s] = NOSN \/ split[parent[s]]
        /\ work[s] > cap
        /\ KidsOf(parent, s) # {}
  IN split

LeafRoots(parent, top) ==
  Ascending({s \in DOMAIN parent : ~top[s] /\ (parent[s] = NOSN \/ top[parent[s]])})

\* The supernode and everything above it.
Path(parent, from) ==
  LET up[s \in DOMAIN parent] == {s} \cup (IF parent[s] = NOSN THEN {} ELSE up[parent[s]])
  IN IF from = NOSN THEN {} ELSE up[from]

SubtreeNodes(parent, root) == Ascending({s \in DOMAIN parent : root \in Path(parent, s)})

\* The rows a set of supernodes has outside itself, ascending.
RowsOutside(F, nodes) ==
  Ascending(UNION {F.rows[s] : s \in nodes} \ UNION {SuperCols(F, s) : s \in nodes})

LeafSubtrees(F, parent, top) ==
  LET roots == LeafRoots(parent, top)
      At(r) == LET nodes == SubtreeNodes(parent, r) IN [nodes |-> nodes, ext |-> RowsOutside(F, ToSet(nodes))]
  IN [t \in DOMAIN roots |-> At(roots[t])]

\* The ancestors by depth from the roots, a level ascending.
TopLevels(parent, tops) ==
  LET depth(s) == Cardinality(Path(parent, s)) - 1
      deepest == Max({depth(s) : s \in tops} \cup {-1})
  IN [l \in 1..deepest + 1 |-> Ascending({s \in tops : depth(s) = l - 1})]

(***************************************************************************)
(* A row off its writer's ancestors: the structure follows no elimination  *)
(* tree, and every supernode becomes an ancestor of one sequential chain.  *)
(***************************************************************************)
Degenerate(F, parent, subtrees, tops) ==
  LET sn == SnOf(F)
      Off(from, rows) == \E r \in rows : sn[r] \notin Path(parent, from)
  IN \/ \E t \in DOMAIN subtrees : Off(parent[Last(subtrees[t].nodes)], ToSet(subtrees[t].ext))
     \/ \E s \in tops : Off(parent[s], F.rows[s])

PositionIn(list, x) == CHOOSE i \in DOMAIN list : list[i] = x

Slots(F, subtrees, tops) ==
  LET Home(s) == {t \in DOMAIN subtrees : s \in ToSet(subtrees[t].nodes)}
      SlotIn(list) == [r \in ToSet(list) |-> PositionIn(list, r)]
      Of(s, r) ==
        IF s \in tops THEN SlotIn(Ascending(F.rows[s]))[r]
        ELSE LET ext == subtrees[CHOOSE t \in Home(s) : TRUE].ext
             IN IF r \in ToSet(ext) THEN SlotIn(ext)[r] ELSE NOSN
  IN [s \in Supers(F) |-> [r \in F.rows[s] |-> Of(s, r)]]

(***************************************************************************)
(* The runs of a source's rows by the ancestor they lie in, as pulls       *)
(* <<source, lo, hi>>: a source is a subtree or, after those, an ancestor. *)
(***************************************************************************)
PullsFrom(F, source, list, s) ==
  LET own == {i \in DOMAIN list : list[i] \in SuperCols(F, s)}
  IN IF own = {} THEN <<>> ELSE << <<source, Min(own), Max(own)>> >>

PullsOf(F, subtrees, top, levels, s) ==
  LET FromTree(q, t) == q \o PullsFrom(F, t, subtrees[t].ext, s)
      FromTop(q, d) == q \o PullsFrom(F, Len(subtrees) + PositionIn(top, d), Ascending(F.rows[d]), s)
  IN FoldLeft(FromTop, FoldLeftDomain(FromTree, <<>>, subtrees), FlattenSeq(Reverse(levels)))

FromPanels(F, leaves) ==
  LET parent == ParentOf(F)
      isTop == Splits(F, parent, leaves)
      subtrees == LeafSubtrees(F, parent, isTop)
      tops == {s \in Supers(F) : isTop[s]}
      levels == TopLevels(parent, tops)
      chain == Degenerate(F, parent, subtrees, tops)
      all == [s \in Supers(F) |-> s]
  IN IF chain
     THEN [parent |-> parent, sn |-> SnOf(F), subtrees |-> <<>>,
           top |-> all, levels |-> [l \in Supers(F) |-> <<F.ns + 1 - l>>],
           slot |-> [s \in Supers(F) |-> [r \in F.rows[s] |-> NOSN]], pull |-> [s \in Supers(F) |-> <<>>],
           chain |-> TRUE]
     ELSE [parent |-> parent, sn |-> SnOf(F), subtrees |-> subtrees,
           top |-> Ascending(tops), levels |-> levels,
           slot |-> Slots(F, subtrees, tops),
           pull |-> [s \in Supers(F) |-> IF isTop[s] THEN PullsOf(F, subtrees, Ascending(tops), levels, s) ELSE <<>>],
           chain |-> FALSE]

(***************************************************************************)
(* The sizes the memory plan counts before there is a factor (layout_size),*)
(* in elements of the lists they are the lengths of.                       *)
(***************************************************************************)
CountRuns(F, list) ==
  Cardinality({i \in DOMAIN list : i = 1 \/ SnOf(F)[list[i]] # SnOf(F)[list[i - 1]]})

LayoutSize(F, leaves) ==
  LET parent == [s \in Supers(F) |-> TreeEntry(F, s)]
      isTop == Splits(F, parent, leaves)
      tops == {s \in Supers(F) : isTop[s]}
      roots == LeafRoots(parent, isTop)
      nodes(t) == SubtreeNodes(parent, roots[t])
      ext(t) == RowsOutside(F, ToSet(nodes(t)))
      trees == DOMAIN roots
  IN [subtrees |-> [t \in trees |-> <<Len(nodes(t)), Len(ext(t))>>],
      levels |-> [l \in DOMAIN TopLevels(parent, tops) |-> Len(TopLevels(parent, tops)[l])],
      pulls |-> SumOver(trees, LAMBDA t : CountRuns(F, ext(t))) + SumOver(tops, LAMBDA s : CountRuns(F, Ascending(F.rows[s]))),
      slots |-> SumOver(trees, LAMBDA t : Len(ext(t))) + SumOver(tops, LAMBDA s : Cardinality(F.rows[s]))]

\* What a plan holds, counted the same way.
SizeOf(F, plan) ==
  [subtrees |-> [t \in DOMAIN plan.subtrees |-> <<Len(plan.subtrees[t].nodes), Len(plan.subtrees[t].ext)>>],
   levels |-> [l \in DOMAIN plan.levels |-> Len(plan.levels[l])],
   pulls |-> SumOver(Supers(F), LAMBDA s : Len(plan.pull[s])),
   slots |-> SumOver(DOMAIN plan.subtrees, LAMBDA t : Len(plan.subtrees[t].ext))
             + SumOver(ToSet(plan.top), LAMBDA s : Cardinality(F.rows[s]))]

-----------------------------------------------------------------------------
(***************************************************************************)
(* The sources of a plan, their nodes and the rows their slots stand for;  *)
(* and the order in which one thread sweeps level by level: the subtrees,  *)
(* then the levels from the deepest, each in elimination order.            *)
(***************************************************************************)
SourcesIn(p) == 1..Len(p.subtrees) + Len(p.top)
NodesAt(p, src) ==
  IF src \in DOMAIN p.subtrees THEN ToSet(p.subtrees[src].nodes) ELSE {p.top[src - Len(p.subtrees)]}
RowsAt(f, p, src) ==
  IF src \in DOMAIN p.subtrees THEN p.subtrees[src].ext ELSE Ascending(f.rows[p.top[src - Len(p.subtrees)]])

Turns(p) ==
  LET trees == Len(p.subtrees)
      last == trees + Len(p.levels)
  IN [k \in 1..last |-> ToSet(IF k <= trees THEN p.subtrees[k].nodes ELSE p.levels[last + 1 - k])]
Earlier(p, u, s) ==
  \E j, k \in DOMAIN Turns(p) :
    u \in Turns(p)[j] /\ s \in Turns(p)[k] /\ (j < k \/ (j = k /\ u < s))

(***************************************************************************)
(* What the sweeps rely on: leaf subtrees and ancestors hold every node    *)
(* once, a subtree in elimination order; a row without a slot lies in its  *)
(* writer's subtree, later; every other one, and every row of an ancestor, *)
(* lies above, and on a lower level.  A slot stands for one row, and an    *)
(* ancestor pulls every slot of its rows, in the order of the sweep.       *)
(***************************************************************************)
\* u is in every set that goes on to the parents and holds that of s.
Above(parent, s, u) ==
  \A X \in SUBSET DOMAIN parent :
    (\A x \in X \cup {s} : parent[x] # NOSN => parent[x] \in X) => u \in X

IsAscending(list) == \A i, j \in DOMAIN list : i < j => list[i] < list[j]
AreApart(lists) == \A l, m \in DOMAIN lists : l # m => ToSet(lists[l]) \cap ToSet(lists[m]) = {}

SlotsAreRows(f, p) ==
  \A src \in SourcesIn(p) :
    /\ RowsAt(f, p, src) \in Seq(DOMAIN p.sn) /\ IsInjective(RowsAt(f, p, src))
    /\ \A s \in NodesAt(p, src) : \A r \in f.rows[s] :
         p.slot[s][r] # NOSN => p.slot[s][r] \in DOMAIN RowsAt(f, p, src) /\ RowsAt(f, p, src)[p.slot[s][r]] = r

PullsInOrder(f, p, s) ==
  LET pull == p.pull[s] IN
  /\ pull \in Seq(SourcesIn(p) \X Nat \X Nat)
  /\ \A k \in DOMAIN pull :
       /\ pull[k][2]..pull[k][3] \subseteq DOMAIN RowsAt(f, p, pull[k][1])
       /\ \E u \in NodesAt(p, pull[k][1]) : \E r \in f.rows[u] : p.sn[r] = s
  /\ \A src \in SourcesIn(p) : \A i \in DOMAIN RowsAt(f, p, src) :
       p.sn[RowsAt(f, p, src)[i]] = s => \E k \in DOMAIN pull : pull[k][1] = src /\ i \in pull[k][2]..pull[k][3]
  /\ \A j, k \in DOMAIN pull : j < k =>
       \A u \in NodesAt(p, pull[j][1]), v \in NodesAt(p, pull[k][1]) : Earlier(p, u, v)

IsPlan(f, p) ==
  LET Node == 1..f.ns
      Column == DOMAIN p.sn
      tops == ToSet(p.top)
      lists == [t \in DOMAIN p.subtrees |-> p.subtrees[t].nodes]
  IN
  /\ f.ns \in Nat /\ f.rows \in [Node -> SUBSET Column] /\ p.sn \in [Column -> Node]
  /\ p.subtrees \in Seq([nodes : Seq(Node), ext : Seq(Column)]) /\ p.top \in Seq(Node) /\ IsInjective(p.top)
  /\ SlotsAreRows(f, p) /\ (~p.chain => \A s \in tops : PullsInOrder(f, p, s))
  /\ p.chain =>
       /\ p.subtrees = <<>> /\ \A l \in DOMAIN p.levels : Len(p.levels[l]) = 1
       /\ \A s \in Node : \A r \in f.rows[s] : p.slot[s][r] = NOSN
  /\ p.parent \in [Node -> Node \cup {NOSN}]
  /\ \A s \in Node : p.parent[s] # NOSN => s < p.parent[s]
  /\ tops \subseteq Node /\ \A s \in tops : p.parent[s] # NOSN => p.parent[s] \in tops
  /\ lists \in Seq(Seq(Node)) /\ AreApart(lists) /\ \A t \in DOMAIN lists : IsAscending(lists[t])
  /\ UNION {ToSet(lists[t]) : t \in DOMAIN lists} = Node \ tops
  /\ p.levels \in Seq(Seq(Node)) /\ AreApart(p.levels) /\ \A l \in DOMAIN p.levels : IsAscending(p.levels[l])
  /\ UNION {ToSet(p.levels[l]) : l \in DOMAIN p.levels} = tops
  /\ \A t \in DOMAIN lists : \A s \in ToSet(lists[t]) : \A r \in f.rows[s] :
       IF p.slot[s][r] = NOSN THEN p.sn[r] \in ToSet(lists[t]) /\ s < p.sn[r] ELSE p.sn[r] \in tops
  /\ \A s \in tops : \A r \in f.rows[s] :
       /\ p.sn[r] \in tops
       /\ p.chain \/ (p.slot[s][r] # NOSN /\ Above(p.parent, s, p.sn[r]))
  /\ \A l \in DOMAIN p.levels : \A s \in ToSet(p.levels[l]) : \A r \in f.rows[s] :
       \E m \in 1..l - 1 : p.sn[r] \in ToSet(p.levels[m])

CONSTANTS
  Factors,     \* factors in panel form
  LeafCounts   \* values of SolveSettings::leaf_subtrees

ASSUME PlansAssumption == \A f \in Factors, leaves \in LeafCounts : IsPlan(f, FromPanels(f, leaves))

VARIABLES
  F, plan,     \* the factor and its plan, fixed
  whole,       \* one sweep of both directions (an L D L^T solve) or two
  parallel,    \* PlanWork::parallel, decided per sweep
  phase,
  status,      \* of every node in this sweep: idle, ready, running, ran, done
  y,           \* the terms each row has taken
  acc,         \* the slots of every source: the subtrees, then the ancestors
  pending,     \* PlanWork::pending, of whatever sweep came before at first
  level        \* the level of the sequential sweeps, counted from the root

walkVars == <<F, plan, whole, parallel, phase, status, y, acc, pending, level>>
fixed == <<F, plan, whole>>

Nodes == Supers(F)
Tops == ToSet(plan.top)
Trees == DOMAIN plan.subtrees
TopKids(s) == {c \in Tops : plan.parent[c] = s}
Columns(s) == {c \in DOMAIN plan.sn : plan.sn[c] = s}
TreeOf(s) == CHOOSE t \in Trees : s \in ToSet(plan.subtrees[t].nodes)
SourceOf(s) == IF s \in Tops THEN Len(plan.subtrees) + PositionIn(plan.top, s) ELSE TreeOf(s)
\* The rows that the slots of a source stand for.
RowList(src) == RowsAt(F, plan, src)
Flows(par) == par /\ ~plan.chain /\ Tops # {}

Cleared == [src \in SourcesIn(plan) |-> [i \in DOMAIN RowList(src) |-> <<>>]]
AllIdle == [s \in Nodes |-> "idle"]

WalkInit ==
  /\ F \in Factors
  /\ \E leaves \in LeafCounts : plan = FromPanels(F, leaves)
  /\ whole \in BOOLEAN
  /\ parallel = FALSE
  /\ phase = "forward"
  /\ status = AllIdle
  /\ y = [c \in DOMAIN plan.sn |-> <<>>]
  /\ acc = Cleared
  /\ \E stale \in 0..1 : pending = [s \in Nodes |-> stale]
  /\ level = 0

-----------------------------------------------------------------------------
(***************************************************************************)
(* fit: the sweep runs on the pool or on the calling thread, whichever is  *)
(* measured (or set) to be faster, once for both directions of a whole     *)
(* solve; then the subtrees' phase of a forward sweep begins.              *)
(***************************************************************************)
BeginForward ==
  /\ phase = "forward"
  /\ parallel' \in BOOLEAN
  /\ phase' = "fwd-subtrees"
  /\ acc' = Cleared
  /\ UNCHANGED <<fixed, status, y, pending, level>>

(***************************************************************************)
(* The next node of a leaf subtree, in elimination order or (backward)     *)
(* against it; on the calling thread one subtree after another.            *)
(***************************************************************************)
SubtreeOrder(t) == IF phase = "fwd-subtrees" THEN plan.subtrees[t].nodes ELSE Reverse(plan.subtrees[t].nodes)
AllDone(list) == \A s \in ToSet(list) : status[s] = "done"
Swept(t) == AllDone(plan.subtrees[t].nodes)
NextOf(list) == list[Min({i \in DOMAIN list : status[list[i]] # "done"})]
NextInTree(t) == NextOf(SubtreeOrder(t))

StartInTree(t) ==
  /\ phase \in {"fwd-subtrees", "bwd-subtrees"}
  /\ ~Swept(t)
  /\ parallel \/ \A u \in Trees : u < t => Swept(u)
  /\ status[NextInTree(t)] = "idle"
  /\ status' = [status EXCEPT ![NextInTree(t)] = "running"]
  /\ UNCHANGED <<fixed, parallel, phase, y, acc, pending, level>>

(***************************************************************************)
(* The products of a forward node: a row without a slot takes its term at  *)
(* once, another through the slot of the node's source.                    *)
(***************************************************************************)
Slotted(s) == {r \in F.rows[s] : plan.slot[s][r] # NOSN}
WriteRows(s) ==
  /\ y' = [c \in DOMAIN y |-> IF c \in F.rows[s] \ Slotted(s) THEN Append(y[c], <<s>>) ELSE y[c]]
  /\ acc' = [acc EXCEPT ![SourceOf(s)] =
       [i \in DOMAIN @ |-> IF \E r \in Slotted(s) : plan.slot[s][r] = i THEN Append(@[i], s) ELSE @[i]]]

FinishInTree(s) ==
  /\ phase \in {"fwd-subtrees", "bwd-subtrees"}
  /\ s \notin Tops
  /\ status[s] = "running"
  /\ status' = [status EXCEPT ![s] = "done"]
  /\ IF phase = "fwd-subtrees" THEN WriteRows(s) ELSE UNCHANGED <<y, acc>>
  /\ UNCHANGED <<fixed, parallel, phase, pending, level>>

(***************************************************************************)
(* Columns take what a list of pulls <<source, lo, hi>> brings them: what  *)
(* a reduction or an ancestor subtracts, in the order of the list.  A slot *)
(* nobody wrote is a zero and leaves no term.                              *)
(***************************************************************************)
Brings(pull, c) == {i \in pull[2]..pull[3] : RowList(pull[1])[i] = c /\ acc[pull[1]][i] # <<>>}
TermFrom(pull, c) == acc[pull[1]][CHOOSE i \in Brings(pull, c) : TRUE]
TakePulls(columns, pulls) ==
  LET From(c) == Ascending({k \in DOMAIN pulls : Brings(pulls[k], c) # {}})
  IN [c \in DOMAIN y |->
        IF c \in columns THEN y[c] \o [j \in DOMAIN From(c) |-> TermFrom(pulls[From(c)[j]], c)] ELSE y[c]]

\* Every slot of the sources.
TakeAll(sources) ==
  TakePulls(DOMAIN y, [k \in DOMAIN sources |-> <<sources[k], 1, Len(RowList(sources[k]))>>])

-----------------------------------------------------------------------------
(***************************************************************************)
(* The ancestors of a forward sweep.  As tasks: the counts are set, every  *)
(* leaf starts a walk, and a walk goes on to the parent whose last child   *)
(* it counted down.  Otherwise: the subtrees' slots are taken in order,    *)
(* then the levels run from the deepest.                                   *)
(***************************************************************************)
\* (slip) The counts the last solve left.
KeptPending == pending
ResetPending == [s \in Nodes |-> Cardinality(TopKids(s))]

SubtreesForward ==
  /\ phase = "fwd-subtrees"
  /\ \A t \in Trees : Swept(t)
  /\ IF Flows(parallel)
     THEN /\ phase' = "fwd-flow"
          /\ pending' = ResetPending
          /\ status' = [s \in Nodes |-> IF s \in Tops /\ TopKids(s) = {} THEN "ready" ELSE status[s]]
          /\ UNCHANGED <<y, level>>
     ELSE /\ phase' = "fwd-levels"
          /\ y' = TakeAll([t \in Trees |-> t])
          /\ level' = Len(plan.levels)
          /\ UNCHANGED <<pending, status>>
  /\ UNCHANGED <<fixed, parallel, acc>>

\* take: the columns of s take their terms from the slots of every source.
PullAll(s) == TakePulls(Columns(s), plan.pull[s])

StartForward(s) ==
  /\ phase = "fwd-flow"
  /\ status[s] = "ready"
  /\ y' = PullAll(s)
  /\ status' = [status EXCEPT ![s] = "running"]
  /\ UNCHANGED <<fixed, parallel, phase, acc, pending, level>>

FinishForward(s) ==
  /\ phase = "fwd-flow"
  /\ status[s] = "running"
  /\ WriteRows(s)
  /\ status' = [status EXCEPT ![s] = "ran"]
  /\ UNCHANGED <<fixed, parallel, phase, pending, level>>

\* fetch_sub on the parent's count, and the walk's next node if it was the last.
CountDownParent(s) ==
  /\ phase = "fwd-flow"
  /\ status[s] = "ran"
  /\ LET p == plan.parent[s] IN
     IF p = NOSN
     THEN /\ status' = [status EXCEPT ![s] = "done"]
          /\ UNCHANGED pending
     ELSE /\ pending' = [pending EXCEPT ![p] = @ - 1]
          /\ status' = [status EXCEPT ![s] = "done", ![p] = IF pending[p] = 1 THEN "ready" ELSE @]
  /\ UNCHANGED <<fixed, parallel, phase, y, acc, level>>

WalksEnded == \A s \in Tops : status[s] \in {"idle", "done"}

\* The next node of a level; the level's slots are taken in after its last.
LevelForward ==
  /\ phase = "fwd-levels"
  /\ level > 0
  /\ IF AllDone(plan.levels[level])
     THEN /\ y' = TakeAll([i \in DOMAIN plan.levels[level] |-> SourceOf(plan.levels[level][i])])
          /\ level' = level - 1
          /\ UNCHANGED <<status, acc>>
     ELSE LET s == NextOf(plan.levels[level]) IN
          /\ WriteRows(s)
          /\ status' = [status EXCEPT ![s] = "done"]
          /\ UNCHANGED level
  /\ UNCHANGED <<fixed, parallel, phase, pending>>

EndForward ==
  /\ \/ phase = "fwd-flow" /\ WalksEnded
     \/ phase = "fwd-levels" /\ level = 0
  /\ phase' = IF whole THEN "diagonal" ELSE "backward"
  /\ UNCHANGED <<fixed, parallel, status, y, acc, pending, level>>

-----------------------------------------------------------------------------
(***************************************************************************)
(* The backward sweep: of a whole solve after the diagonal, which a        *)
(* vanishing pivot ends with an error, or a sweep of its own.  As tasks, a *)
(* node starts when its parent is done; otherwise level by level.          *)
(***************************************************************************)
FirstBack(s) == s \in Tops /\ plan.parent[s] = NOSN
ToBackward(par) ==
  /\ phase' = IF Flows(par) THEN "bwd-flow" ELSE "bwd-levels"
  /\ status' = [s \in Nodes |-> IF Flows(par) /\ FirstBack(s) THEN "ready" ELSE "idle"]
  /\ level' = 1

SolveDiagonal ==
  /\ phase = "diagonal"
  /\ \/ phase' = "failed" /\ UNCHANGED <<status, level>>
     \/ ToBackward(parallel)
  /\ UNCHANGED <<fixed, parallel, y, acc, pending>>

BeginBackward ==
  /\ phase = "backward"
  /\ \E par \in BOOLEAN : parallel' = par /\ ToBackward(par)
  /\ UNCHANGED <<fixed, y, acc, pending>>

StartBackward(s) ==
  /\ phase = "bwd-flow"
  /\ status[s] = "ready"
  /\ status' = [status EXCEPT ![s] = "running"]
  /\ UNCHANGED <<fixed, parallel, phase, y, acc, pending, level>>

ReleasedBy(s) == TopKids(s)

FinishBackward(s) ==
  /\ phase = "bwd-flow"
  /\ status[s] = "running"
  /\ status' = [u \in Nodes |-> IF u = s THEN "done" ELSE IF u \in ReleasedBy(s) THEN "ready" ELSE status[u]]
  /\ UNCHANGED <<fixed, parallel, phase, y, acc, pending, level>>

LevelBackward ==
  /\ phase = "bwd-levels"
  /\ level <= Len(plan.levels)
  /\ IF AllDone(plan.levels[level])
     THEN /\ level' = level + 1
          /\ UNCHANGED status
     ELSE LET s == NextOf(plan.levels[level]) IN
          /\ status' = [status EXCEPT ![s] = IF @ = "idle" THEN "running" ELSE "done"]
          /\ UNCHANGED level
  /\ UNCHANGED <<fixed, parallel, phase, y, acc, pending>>

AncestorsBackward ==
  /\ \/ phase = "bwd-flow" /\ WalksEnded
     \/ phase = "bwd-levels" /\ level > Len(plan.levels)
  /\ phase' = "bwd-subtrees"
  /\ UNCHANGED <<fixed, parallel, status, y, acc, pending, level>>

EndBackward ==
  /\ phase = "bwd-subtrees"
  /\ \A t \in Trees : Swept(t)
  /\ phase' = "done"
  /\ UNCHANGED <<fixed, parallel, status, y, acc, pending, level>>

-----------------------------------------------------------------------------
NodeStep(s) ==
  \/ FinishInTree(s)
  \/ StartForward(s) \/ FinishForward(s) \/ CountDownParent(s)
  \/ StartBackward(s) \/ FinishBackward(s)

WalkNext ==
  \/ BeginForward \/ SubtreesForward \/ LevelForward \/ EndForward
  \/ SolveDiagonal \/ BeginBackward \/ LevelBackward \/ AncestorsBackward \/ EndBackward
  \/ \E t \in Trees : StartInTree(t)
  \/ \E s \in Nodes : NodeStep(s)

WalkSpec == WalkInit /\ [][WalkNext]_walkVars /\ WF_walkVars(WalkNext)

-----------------------------------------------------------------------------
(***************************************************************************)
(* The terms of a row: what a node hands over at once, or what the nodes   *)
(* of a source have summed in the row's slot; and a row that has taken     *)
(* some terms just as one thread would: each the sum of its nodes in       *)
(* elimination order, and the terms in the order of the sequential sweep.  *)
(***************************************************************************)
Writers(c) == {s \in Nodes : c \in F.rows[s]}
TermWith(s, c) ==
  IF plan.slot[s][c] = NOSN THEN {s}
  ELSE {u \in Nodes : c \in Slotted(u) /\ \E src \in SourcesIn(plan) : {s, u} \subseteq NodesAt(plan, src)}
InSweepOrder(terms, sums) ==
  /\ {ToSet(terms[k]) : k \in DOMAIN terms} = sums
  /\ \A k \in DOMAIN terms : IsAscending(terms[k])
  /\ \A j, k \in DOMAIN terms : j < k =>
       \A u \in ToSet(terms[j]), s \in ToSet(terms[k]) : Earlier(plan, u, s)

(***************************************************************************)
(* Bit-identical for every schedule: a forward node that runs has in its   *)
(* columns exactly the terms of the sequential sweep, in its order: none   *)
(* missing, none doubled, none of an accumulator still being written; and  *)
(* no sweep ends with a node left out.                                     *)
(***************************************************************************)
InForward == phase \in {"fwd-subtrees", "fwd-flow", "fwd-levels"}
TermsInSequentialOrder ==
  \A s \in Nodes :
    (InForward /\ status[s] \in {"running", "ran", "done"}) \/ phase \in {"diagonal", "backward"}
      => \A c \in Columns(s) : InSweepOrder(y[c], {TermWith(u, c) : u \in Writers(c)})

(***************************************************************************)
(* The contract of `Shared', the unchecked view that all tasks have of the *)
(* right-hand side: of two nodes under way, neither writes a row that the  *)
(* other reads or writes; and what a node reads is final: forward, all     *)
(* that update its columns are done, backward the owners of its rows.  A   *)
(* sweep that is over left no node out.                                    *)
(***************************************************************************)
Backward == phase \in {"bwd-flow", "bwd-levels", "bwd-subtrees"}
Writes(s) == Columns(s) \cup (IF Backward THEN {} ELSE F.rows[s] \ Slotted(s))
Reads(s) == Columns(s) \cup (IF Backward THEN F.rows[s] ELSE {})
SharedRowsAreDisjoint ==
  \A s, u \in Nodes :
    s # u /\ status[s] = "running" /\ status[u] = "running" => Writes(s) \cap (Reads(u) \cup Writes(u)) = {}
BackwardReadsFinal ==
  Backward =>
    \A s \in Nodes : status[s] \in {"running", "done"} =>
      \A r \in F.rows[s] : status[plan.sn[r]] = "done"
ForwardReadsFinal ==
  InForward =>
    \A s, u \in Nodes : status[s] \in {"running", "ran", "done"} /\ F.rows[u] \cap Columns(s) # {} =>
      status[u] = "done"
NobodyLeftOut ==
  phase \in {"diagonal", "backward", "failed", "done"} => \A s \in Nodes : status[s] = "done"
SharedViewIsSound == SharedRowsAreDisjoint /\ ForwardReadsFinal /\ BackwardReadsFinal /\ NobodyLeftOut

\* A sweep sums what one thread would, in its order, and nobody races for a row.
SweepsAreSound == TermsInSequentialOrder /\ SharedViewIsSound

(***************************************************************************)
(* A solve ends, having run every node once in each direction, or with the *)
(* error of the diagonal.                                                  *)
(***************************************************************************)
Solved == phase = "failed" \/ (phase = "done" /\ \A s \in Nodes : status[s] = "done")
SolveEnds == <>Solved

(***************************************************************************)
(* The memory plan's estimate, made from the analysis before there is a    *)
(* factor, counts what the plan then holds where the structure follows the *)
(* tree of the analysis.                                                   *)
(***************************************************************************)
EstimateIsThePlan ==
  (phase = "forward" /\ Len(F.tree) = F.ns /\ ~plan.chain) =>
    \E leaves \in LeafCounts : /\ plan = FromPanels(F, leaves)
                               /\ SizeOf(F, plan) = LayoutSize(F, leaves)
=============================================================================

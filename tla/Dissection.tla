------------------------------ MODULE Dissection ------------------------------
(***************************************************************************)
(* Nested dissection (crates/rslab-metis): a connected piece of the graph  *)
(* is coarsened by matching, the coarsest graph is cut in two and the cut  *)
(* turned into a separator, which is refined on every level back to the    *)
(* piece; the separator is numbered last and the sides are pieces again.   *)
(*                                                                         *)
(* What the generator draws is any choice: the next vertex of least degree *)
(* (a shuffle, then a stable sort), a trial's seed, the order in which a   *)
(* heap is seeded.  Pieces are taken in any order, since they only share   *)
(* the positions they write.  AMD's order of a piece is one of two.         *)
(***************************************************************************)
EXTENDS Integers, Sequences, FiniteSets, FiniteSetsExt, SequencesExt, TLC

CONSTANTS
  Dissected,    \* [rows |-> of every column, ascending, a row perhaps more than once,
                \*  vw |-> weights, floor |-> coarsen_floor]
  AmdSwitch, NiParts, FmPasses, MoveLimit,                  \* MetisOptions
  ImbalancePct, TwoHopPct, OvershootPct,                    \* its fractions
  TwoHopMinVertices, CoarsenStallPct, FmNoImproveMax, UnbalancedPct,
  MaxHops            \* RCM_PERIPHERAL_MAX_HOPS

VARIABLES whole, nd, bi    \* the input, the recursion, the bisection under way
ndVars == <<whole, nd, bi>>

Sorted(S) == SelectSeq([v \in DOMAIN whole.vw |-> v], LAMBDA v : v \in S)
PART_A == 0
PART_B == 1
PART_SEP == 2
OFF == -1
CeilDiv(a, b) == (a + b - 1) \div b
WeightIn(f, S) == SumFunctionOnSet(f, S)

\* Graph: to and wgt of every adjacency, the weights of the vertices.
Order(g) == Len(g.vw)
Vs(g) == 1..Order(g)
Deg(g, v) == Len(g.to[v])
Total(g) == WeightIn(g.vw, Vs(g))
\* from_csc_pattern: no diagonal, a repeated row once.
Adjacent(v) == Sorted(ToSet(whole.rows[v]) \ {v})
\* build_induced: of an ascending list of vertices, which keeps their order
Rank(verts, v) == Cardinality({w \in verts : w <= v})
Induced(verts) ==
  LET at == Sorted(verts)
      to == [k \in DOMAIN at |-> [x \in DOMAIN SelectSeq(Adjacent(at[k]), LAMBDA u : u \in verts) |->
                Rank(verts, SelectSeq(Adjacent(at[k]), LAMBDA u : u \in verts)[x])]]
  IN [to |-> to, wgt |-> [k \in DOMAIN to |-> [x \in DOMAIN to[k] |-> 1]],
      vw |-> [k \in DOMAIN at |-> whole.vw[at[k]]]]

Spread(S, verts) == S \cup {v \in verts : \E u \in S : u \in ToSet(Adjacent(v))}
ComponentOf(v, verts) == FoldLeft(LAMBDA S, k : Spread(S, verts), {v}, [k \in 1..Cardinality(verts) |-> k])
Components(verts) == {ComponentOf(v, verts) : v \in verts}
\* The components take their positions in the order of their first vertices.
TasksOf(verts, offset) ==
  {[verts |-> c, offset |-> offset + Cardinality(UNION {d \in Components(verts) : Min(d) < Min(c)})] :
     c \in Components(verts)}

-----------------------------------------------------------------------------
\* coarsen_level.  Unmatched vertices are taken by degree, each with the
\* unmatched neighbour it shares most with.
Unmatched == {v \in Vs(bi.g) : bi.match[v] = OFF}
Heaviest(g, v, S) ==
  LET w(u) == g.wgt[v][CHOOSE k \in DOMAIN g.to[v] : g.to[v][k] = u]
      most == {u \in S : \A x \in S : w(x) <= w(u)}
  IN Min(most)
MatchOne ==
  /\ bi.at = "match" /\ UNCHANGED <<whole, nd>>
  /\ \E v \in {x \in Unmatched : \A y \in Unmatched : Deg(bi.g, x) <= Deg(bi.g, y)} :
       LET S == ToSet(bi.g.to[v]) \cap Unmatched
           u == IF S = {} THEN v ELSE Heaviest(bi.g, v, S)
       IN bi' = [bi EXCEPT !.match = v :> u @@ u :> v @@ @, !.cmap = v :> bi.cn @@ u :> bi.cn @@ @, !.cn = @ + 1]

\* two_hop_pass: vertices left alone that share a neighbour
TwoHopOf(g, match, v) ==
  LET hops == FlattenSeq([k \in DOMAIN g.to[v] |-> g.to[g.to[v][k]]]) IN
  SelectSeq(hops, LAMBDA w : w # v /\ match[w] = w)
TwoHopped(g, match) ==
  FoldLeftDomain(LAMBDA st, v :
      IF st[v] # v \/ TwoHopOf(g, st, v) = <<>> THEN st
      ELSE [st EXCEPT ![v] = Head(TwoHopOf(g, st, v)), ![Head(TwoHopOf(g, st, v))] = v],
    match, match)
Renumbered(match) ==
  [v \in DOMAIN match |-> Cardinality({u \in DOMAIN match : u <= match[u] /\ u < Min({v, match[v]})}) + 1]

\* contract: the coarse vertices a coarse vertex meets, in the order it meets
\* them, the weights of the edges it meets them by added up.
Met(g, cmap, c) ==
  LET fine == Reverse(Sorted({v \in Vs(g) : cmap[v] = c}))
      all == FlattenSeq([k \in DOMAIN fine |-> [x \in DOMAIN g.to[fine[k]] |->
               <<cmap[g.to[fine[k]][x]], g.wgt[fine[k]][x]>>]])
  IN SelectSeq(all, LAMBDA e : e[1] # c)
SummedWeight(met, c) == FoldLeft(LAMBDA s, e : s + (IF e[1] = c THEN e[2] ELSE 0), 0, met)
FirstTouched(met) == FoldLeft(LAMBDA s, e : IF Contains(s, e[1]) THEN s ELSE Append(s, e[1]), <<>>, met)
Contract(g, cmap, cn) ==
  LET met == [c \in 1..cn |-> Met(g, cmap, c)]
      to == [c \in 1..cn |-> FirstTouched(met[c])]
  IN [to |-> to, wgt |-> [c \in 1..cn |-> [x \in DOMAIN to[c] |-> SummedWeight(met[c], to[c][x])]],
      vw |-> [c \in 1..cn |-> WeightIn(g.vw, {v \in Vs(g) : cmap[v] = c})]]

\* coarsen: another level while the graph is large and a level shrinks it
Unpaired(g) == [match |-> [v \in Vs(g) |-> OFF], cmap |-> [v \in Vs(g) |-> OFF]]
GoOn(st) ==
  IF Order(st.g) <= whole.floor THEN [st EXCEPT !.at = "trials"]
  ELSE [st EXCEPT !.at = "match", !.match = Unpaired(st.g).match, !.cmap = Unpaired(st.g).cmap, !.cn = 1]
Level(g, cmap, cn) == [g |-> Contract(g, cmap, cn), cmap |-> cmap]
Pushed(st, level, n) ==
  IF Order(level.g) * 100 > CoarsenStallPct * n
    THEN [st EXCEPT !.at = "trials", !.levels = IF Order(level.g) < n THEN Append(@, level) ELSE @,
                    !.g = IF Order(level.g) < n THEN level.g ELSE @]
    ELSE GoOn([st EXCEPT !.levels = Append(@, level), !.g = level.g])
Coarsen ==
  /\ bi.at = "match" /\ Unmatched = {} /\ UNCHANGED <<whole, nd>>
  /\ LET n == Order(bi.g)
         sparse == (bi.cn - 1) * 100 > TwoHopPct * n /\ n >= TwoHopMinVertices
         cmap == IF sparse THEN Renumbered(TwoHopped(bi.g, bi.match)) ELSE bi.cmap
     IN bi' = Pushed(bi, Level(bi.g, cmap, Max(Range(cmap))), n)

-----------------------------------------------------------------------------
\* initial_bisect_ggp: A grows by the vertex whose edges go to it most.
Cut(g, labels) ==
  FoldLeftDomain(LAMBDA s, v : s + FoldLeftDomain(LAMBDA t, k :
      IF g.to[v][k] > v /\ labels[g.to[v][k]] # labels[v] THEN t + g.wgt[v][k] ELSE t, 0, g.to[v]), 0, g.to)
ToSide(g, labels, v, side) ==
  FoldLeftDomain(LAMBDA t, k : IF labels[g.to[v][k]] = side THEN t + g.wgt[v][k] ELSE t, 0, g.to[v])
SideWeight(g, labels, side) == WeightIn(g.vw, {v \in Vs(g) : labels[v] = side})
Target(g) == Total(g) \div 2
AddBoundary(g, st, v) ==
  [st EXCEPT !.boundary = @ \o SelectSeq(g.to[v], LAMBDA u : st.labels[u] = PART_B /\ ~Contains(st.boundary, u))]
GrowthGain(g, labels, v) == ToSide(g, labels, v, PART_A) - ToSide(g, labels, v, PART_B)
BestGrowth(g, st) ==
  Min({i \in DOMAIN st.boundary : \A k \in DOMAIN st.boundary :
         GrowthGain(g, st.labels, st.boundary[k]) <= GrowthGain(g, st.labels, st.boundary[i])})
SwapRemove(s, i) == IF i = Len(s) THEN Front(s) ELSE [Front(s) EXCEPT ![i] = Last(s)]
GrownBy(g, st, i) ==
  LET v == st.boundary[i] IN
  AddBoundary(g, [st EXCEPT !.labels[v] = PART_A, !.boundary = SwapRemove(@, i)], v)
OnlyInA(g, v) == [u \in Vs(g) |-> IF u = v THEN PART_A ELSE PART_B]
Grown(g, seed) ==
  FoldLeftDomain(LAMBDA st, k :
      IF SideWeight(g, st.labels, PART_A) >= Target(g) \/ st.boundary = <<>> THEN st
      ELSE GrownBy(g, st, BestGrowth(g, st)),
    AddBoundary(g, [labels |-> OnlyInA(g, seed), boundary |-> <<>>], seed), g.to).labels

\* initial_bisect_bfs
BfsStep(g, st) ==
  LET v == Head(st.queue)
      new == SelectSeq(g.to[v], LAMBDA u : u \notin st.visited)
  IN [st EXCEPT !.labels[v] = PART_A, !.queue = Tail(@) \o new, !.visited = @ \cup ToSet(new)]
Searched(g, seed) ==
  FoldLeftDomain(LAMBDA st, k :
      IF st.queue = <<>> \/ SideWeight(g, st.labels, PART_A) >= Target(g) THEN st ELSE BfsStep(g, st),
    [labels |-> [v \in Vs(g) |-> PART_B], queue |-> <<seed>>, visited |-> {seed}], g.to).labels

-----------------------------------------------------------------------------
\* refine_bisection.  The heap's live entries are the unlocked vertices, each
\* with the gain it has.
MaxSide(g) == CeilDiv((100 + ImbalancePct) * Total(g), 200)
BalancedAt(g, labels) == Max({SideWeight(g, labels, PART_A), SideWeight(g, labels, PART_B)}) <= MaxSide(g)
GainsOf(g, labels) ==
  [v \in Vs(g) |-> ToSide(g, labels, v, 1 - labels[v]) - ToSide(g, labels, v, labels[v])]
UNSET == -1
PassFrom(g, labels, cut, pass) ==
  [labels |-> labels, gain |-> GainsOf(g, labels), locked |-> {}, start |-> cut, cut |-> cut, moves |-> <<>>,
   prefix |-> IF BalancedAt(g, labels) THEN 0 ELSE UNSET, best |-> cut, idle |-> 0, pass |-> pass]
Trial ==
  /\ bi.at = "trials" /\ bi.trial < NiParts /\ UNCHANGED <<whole, nd>>
  /\ \E seed \in Vs(bi.g) :
       LET labels == IF bi.trial % 2 = 0 THEN Grown(bi.g, seed) ELSE Searched(bi.g, seed) IN
       bi' = [bi EXCEPT !.trial = @ + 1, !.at = "fm", !.fm = PassFrom(bi.g, labels, Cut(bi.g, labels), 1)]

Free == Vs(bi.g) \ bi.fm.locked
NextMove == LET best == {v \in Free : \A u \in Free : bi.fm.gain[u] <= bi.fm.gain[v]} IN Min(best)
\* (slip) A neighbour's gain changes by the edge's weight once.
GainsOnce(g, fm, v) ==
  [u \in Vs(g) |->
     LET w == ToSide(g, OnlyInA(g, v), u, PART_A) IN
     IF u \in fm.locked \cup {v} THEN fm.gain[u]
     ELSE IF fm.labels[u] = fm.labels[v] THEN fm.gain[u] + w ELSE fm.gain[u] - w]
GainsAfter(g, fm, v) ==
  [u \in Vs(g) |->
     LET w == ToSide(g, OnlyInA(g, v), u, PART_A) IN
     IF u \in fm.locked \cup {v} THEN fm.gain[u]
     ELSE IF fm.labels[u] = fm.labels[v] THEN fm.gain[u] + 2 * w ELSE fm.gain[u] - 2 * w]
Moved(g, fm, v) ==
  [fm EXCEPT !.gain = GainsAfter(g, fm, v), !.labels[v] = 1 - @, !.cut = @ - fm.gain[v],
             !.locked = @ \cup {v}, !.moves = Append(@, v)]
Judged(g, fm) ==
  IF BalancedAt(g, fm.labels) /\ (fm.prefix = UNSET \/ fm.cut < fm.best)
    THEN [fm EXCEPT !.best = fm.cut, !.prefix = Len(fm.moves), !.idle = 0]
    ELSE [fm EXCEPT !.idle = @ + 1]
PassOver == Order(bi.g) < 2 \/ FmPasses = 0 \/ Free = {} \/ bi.fm.idle >= FmNoImproveMax
FmMove ==
  /\ bi.at = "fm" /\ ~PassOver /\ UNCHANGED <<whole, nd>>
  /\ bi' = [bi EXCEPT !.fm = Judged(bi.g, Moved(bi.g, @, NextMove))]

\* Back to the best balanced cut; the trial with the least cut is kept.
RolledBack(fm) ==
  LET undone == ToSet(SubSeq(fm.moves, fm.prefix + 1, Len(fm.moves))) IN
  IF fm.prefix = UNSET THEN fm
  ELSE [fm EXCEPT !.cut = fm.best,
          !.labels = [v \in DOMAIN fm.labels |-> IF v \in undone THEN 1 - fm.labels[v] ELSE fm.labels[v]]]
KeptTrial(st, fm) ==
  IF st.cut # UNSET /\ fm.cut >= st.cut THEN [st EXCEPT !.at = "trials"]
  ELSE [st EXCEPT !.at = "trials", !.cut = fm.cut, !.labels = fm.labels]
FmEnd ==
  /\ bi.at = "fm" /\ PassOver /\ UNCHANGED <<whole, nd>>
  /\ LET fm == RolledBack(bi.fm) IN
     bi' = IF fm.cut = fm.start \/ fm.pass >= FmPasses THEN KeptTrial(bi, fm)
           ELSE [bi EXCEPT !.fm = PassFrom(bi.g, fm.labels, fm.cut, fm.pass + 1)]

-----------------------------------------------------------------------------
\* construct_separator: a largest matching of the crossing edges (Kuhn), and
\* the cover it gives (Koenig).
Across(g, labels, v) == SelectSeq(g.to[v], LAMBDA u : labels[u] # labels[v])
BoundaryOf(g, labels, side) == {v \in Vs(g) : labels[v] = side /\ Across(g, labels, v) # <<>>}
RECURSIVE TryAugment(_, _, _)
TryAugment(adj, st, u) ==
  FoldLeft(LAMBDA s, v :
      IF s.found \/ v \in s.visited THEN s
      ELSE LET seen == [s EXCEPT !.visited = @ \cup {v}]
               deeper == IF seen.mate[v] = OFF THEN [seen EXCEPT !.found = TRUE]
                         ELSE TryAugment(adj, seen, seen.mate[v])
           IN IF deeper.found THEN [deeper EXCEPT !.mate[v] = u, !.mate[u] = v] ELSE deeper,
    st, adj[u])
Matching(g, labels) ==
  LET adj == [v \in Vs(g) |-> Across(g, labels, v)] IN
  FoldLeftDomain(LAMBDA st, v :
      IF v \notin BoundaryOf(g, labels, PART_A) THEN st
      ELSE TryAugment(adj, [st EXCEPT !.visited = {}, !.found = FALSE], v),
    [mate |-> [v \in Vs(g) |-> OFF], visited |-> {}, found |-> FALSE], g.to).mate
ZStep(g, labels, mate, Z) ==
  Z \cup UNION {ToSet(Across(g, labels, v)) : v \in {v \in Z : labels[v] = PART_A}}
    \cup {mate[v] : v \in {v \in Z : labels[v] = PART_B /\ mate[v] # OFF}}
ZOf(g, labels, mate) ==
  FoldLeftDomain(LAMBDA Z, k : ZStep(g, labels, mate, Z),
    {v \in BoundaryOf(g, labels, PART_A) : mate[v] = OFF}, g.to)
Cover(g, labels, Z) == (BoundaryOf(g, labels, PART_A) \ Z) \cup (BoundaryOf(g, labels, PART_B) \cap Z)
Labelled(labels, S) == [v \in DOMAIN labels |-> IF v \in S THEN PART_SEP ELSE labels[v]]

-----------------------------------------------------------------------------
\* GainHeap: the largest key first, the most recently touched among equals.
Before(h, a, b) == h.key[a] > h.key[b] \/ (h.key[a] = h.key[b] /\ h.tie[a] > h.tie[b])
Exchanged(h, p, q) == [h EXCEPT !.heap[p] = h.heap[q], !.heap[q] = h.heap[p]]
SiftUp(h, at) ==
  FoldLeftDomain(LAMBDA st, k :
      IF st.p > 1 /\ Before(st.h, st.h.heap[st.p], st.h.heap[st.p \div 2])
        THEN [h |-> Exchanged(st.h, st.p, st.p \div 2), p |-> st.p \div 2] ELSE st,
    [h |-> h, p |-> at], h.heap).h
FirstBelow(h, p) ==
  LET below == {q \in {p, 2 * p, 2 * p + 1} : q <= Len(h.heap)} IN
  CHOOSE q \in below : \A r \in below \ {q} : Before(h, h.heap[q], h.heap[r])
SiftDown(h, at) ==
  FoldLeftDomain(LAMBDA st, k :
      IF FirstBelow(st.h, st.p) = st.p THEN st
      ELSE [h |-> Exchanged(st.h, st.p, FirstBelow(st.h, st.p)), p |-> FirstBelow(st.h, st.p)],
    [h |-> h, p |-> at], h.heap).h
InHeap(h, v) == Contains(h.heap, v)
Touch(h, v, key) == [h EXCEPT !.key[v] = key, !.tie[v] = h.seq + 1, !.seq = h.seq + 1]
Push(h, v, key) == SiftUp([Touch(h, v, key) EXCEPT !.heap = Append(h.heap, v)], Len(h.heap) + 1)
Update(h, v, key) ==
  LET p == CHOOSE q \in DOMAIN h.heap : h.heap[q] = v IN
  IF key >= h.key[v] THEN SiftUp(Touch(h, v, key), p) ELSE SiftDown(Touch(h, v, key), p)
WithoutTop(h) ==
  IF Len(h.heap) = 1 THEN [h EXCEPT !.heap = <<>>]
  ELSE SiftDown([h EXCEPT !.heap = <<Last(h.heap)>> \o SubSeq(h.heap, 2, Len(h.heap) - 1)], 1)
EmptyHeap(g) == [heap |-> <<>>, key |-> [v \in Vs(g) |-> 0], tie |-> [v \in Vs(g) |-> 0], seq |-> 0]

FarWeight(g, labels, v, side) == WeightIn(g.vw, {u \in ToSet(g.to[v]) : labels[u] = side})
SepGain(g, labels, v, into) == g.vw[v] - FarWeight(g, labels, v, 1 - into)
SeedHeap(g, labels, order, into) ==
  FoldLeft(LAMBDA h, v : Push(h, v, SepGain(g, labels, v, into)), EmptyHeap(g), order)

\* apply_move: a separator vertex goes to a side, its neighbours on the other
\* side come into the separator, and what they were to others is updated.
Regained(g, st, t, wu) ==
  IF st.labels[t] # PART_SEP THEN st
  ELSE [st EXCEPT !.h = IF InHeap(@, t) THEN Update(@, t, @.key[t] + wu)
                        ELSE Push(@, t, SepGain(g, st.labels, t, st.into))]
Pulled(g, st, u) ==
  IF st.labels[u] # 1 - st.into THEN st
  ELSE LET in == [st EXCEPT !.labels[u] = PART_SEP, !.journal = Append(@, <<u, 1 - st.into>>)]
           pushed == [in EXCEPT !.h = Push(@, u, SepGain(g, in.labels, u, in.into))]
       IN FoldLeft(LAMBDA s, t : Regained(g, s, t, g.vw[u]), pushed, g.to[u])
ApplyMove(g, st, v) ==
  FoldLeft(LAMBDA s, u : Pulled(g, s, u),
    [st EXCEPT !.labels[v] = st.into, !.journal = Append(@, <<v, PART_SEP>>)], g.to[v])

ClassWeight(g, labels, side) == SideWeight(g, labels, side)
SideCap(g) == MaxSide(g)
Lighter(g, labels) == IF ClassWeight(g, labels, PART_A) <= ClassWeight(g, labels, PART_B) THEN PART_A ELSE PART_B
Difference(g, labels) ==
  LET d == ClassWeight(g, labels, PART_A) - ClassWeight(g, labels, PART_B) IN IF d < 0 THEN -d ELSE d
Tolerance(g, labels) ==
  Max({1, CeilDiv((ClassWeight(g, labels, PART_A) + ClassWeight(g, labels, PART_B)) * ImbalancePct, 200)})

\* side_pass, balance_node_separator: the heap is seeded with the separator.
SeedWith(st, labels, into) ==
  \E order \in SetToSeqs({v \in Vs(st.g) : labels[v] = PART_SEP}) :
    bi' = [st EXCEPT !.at = "pass", !.sp.labels = labels, !.sp.into = into, !.sp.journal = <<>>,
             !.sp.h = SeedHeap(st.g, labels, order, into), !.sp.best = ClassWeight(st.g, labels, PART_SEP),
             !.sp.len = 0, !.sp.since = 0, !.sp.over = FALSE, !.sp.tol = Tolerance(st.g, labels)]
Fits(sp, v) ==
  ClassWeight(bi.g, sp.labels, sp.into) + bi.g.vw[v]
    <= IF sp.balancing THEN ClassWeight(bi.g, sp.labels, 1 - sp.into) ELSE SideCap(bi.g)
Weighed(g, sp, w) ==
  IF sp.balancing THEN [sp EXCEPT !.over = Difference(g, sp.labels) <= sp.tol]
  ELSE IF w < sp.best THEN [sp EXCEPT !.best = w, !.len = Len(sp.journal), !.since = 0]
  ELSE [sp EXCEPT !.since = @ + 1,
          !.over = sp.since + 1 > MoveLimit \/ (w - sp.best) * 100 > OvershootPct * Max({1, sp.best})]
Popping(sp, v) ==
  LET rest == [sp EXCEPT !.h = WithoutTop(@)]
      moved == ApplyMove(bi.g, rest, v)
  IN IF Fits(sp, v) THEN Weighed(bi.g, moved, ClassWeight(bi.g, moved.labels, PART_SEP)) ELSE rest
PopMove ==
  /\ bi.at = "pass" /\ bi.sp.h.heap # <<>> /\ ~bi.sp.over /\ UNCHANGED <<whole, nd>>
  /\ bi' = [bi EXCEPT !.sp = Popping(@, Head(@.h.heap))]

\* unwind, refine_node_separator: two passes a round, the lighter side first
Unwound(sp, keep) ==
  FoldRight(LAMBDA t, labels : [labels EXCEPT ![t[1]] = t[2]],
    SubSeq(sp.journal, keep + 1, Len(sp.journal)), sp.labels)
RoundStart(st, labels) ==
  IF FmPasses = 0 \/ ClassWeight(st.g, labels, PART_SEP) = 0 THEN [st EXCEPT !.at = "up", !.labels = labels]
  ELSE [st EXCEPT !.at = "seed", !.labels = labels, !.sp.balancing = FALSE, !.sp.round = 1, !.sp.half = 1,
                  !.sp.start = ClassWeight(st.g, labels, PART_SEP), !.sp.first = Lighter(st.g, labels), !.sp.after = 0]
Seed ==
  /\ bi.at = "seed" /\ UNCHANGED <<whole, nd>>
  /\ SeedWith(bi, bi.labels, IF bi.sp.half = 1 THEN bi.sp.first ELSE 1 - bi.sp.first)
NextHalf(st, labels) ==
  IF st.sp.half = 1 THEN [st EXCEPT !.at = "seed", !.labels = labels, !.sp.half = 2, !.sp.after = st.sp.best]
  ELSE LET reached == Min({st.sp.after, st.sp.best}) IN
       IF reached >= st.sp.start \/ st.sp.round >= FmPasses THEN [st EXCEPT !.at = "up", !.labels = labels]
       ELSE [st EXCEPT !.at = "seed", !.labels = labels, !.sp.half = 1, !.sp.round = @ + 1, !.sp.start = reached,
                       !.sp.first = Lighter(st.g, labels)]
PassEnd ==
  /\ bi.at = "pass" /\ (bi.sp.h.heap = <<>> \/ bi.sp.over) /\ UNCHANGED <<whole, nd>>
  /\ bi' = IF bi.sp.balancing THEN RoundStart(bi, bi.sp.labels) ELSE NextHalf(bi, Unwound(bi.sp, bi.sp.len))

\* multilevel_node_bisection: the separator at the coarsest level, projected
\* to the level before and rebalanced there.
Separate ==
  /\ bi.at = "trials" /\ bi.trial = NiParts /\ UNCHANGED <<whole, nd>>
  /\ LET Z == ZOf(bi.g, bi.labels, Matching(bi.g, bi.labels)) IN
     bi' = RoundStart(bi, Labelled(bi.labels, Cover(bi.g, bi.labels, Z)))
GraphAbove == IF Len(bi.levels) = 1 THEN Induced(bi.task.verts) ELSE bi.levels[Len(bi.levels) - 1].g
Projected == [v \in DOMAIN Last(bi.levels).cmap |-> bi.labels[Last(bi.levels).cmap[v]]]
Uncoarsen ==
  /\ bi.at = "up" /\ bi.levels # <<>> /\ UNCHANGED <<whole, nd>>
  /\ LET st == [bi EXCEPT !.g = GraphAbove, !.levels = Front(@)] IN
     IF Difference(st.g, Projected) <= Tolerance(st.g, Projected) THEN bi' = RoundStart(st, Projected)
     ELSE SeedWith([st EXCEPT !.sp.balancing = TRUE], Projected,
                   IF ClassWeight(st.g, Projected, PART_B) > ClassWeight(st.g, Projected, PART_A) THEN PART_A
                   ELSE PART_B)

-----------------------------------------------------------------------------
\* nd_subproblem
NoBisection == [at |-> "idle"]
Positions(seq, offset) == [v \in ToSet(seq) |-> offset + (CHOOSE k \in DOMAIN seq : seq[k] = v)]
Without(t) == nd.work \ {t}
LeafOf(t) ==
  \E order \in {Sorted(t.verts), Reverse(Sorted(t.verts))} :
    nd' = [nd EXCEPT !.work = Without(t), !.place = Positions(order, t.offset) @@ @]
Started(t) ==
  LET g == Induced(t.verts) IN
  GoOn([at |-> "match", task |-> t, g |-> g, levels |-> <<>>, match |-> <<>>, cmap |-> <<>>, cn |-> 1,
        trial |-> 0, cut |-> UNSET, labels |-> <<>>, fm |-> UNSET,
        sp |-> [labels |-> <<>>, into |-> PART_A, journal |-> <<>>, h |-> UNSET, best |-> 0, len |-> 0, since |-> 0,
                over |-> FALSE, tol |-> 0, balancing |-> FALSE, round |-> 0, half |-> 0, start |-> 0, first |-> PART_A,
                after |-> 0]])
Take ==
  /\ bi = NoBisection /\ UNCHANGED whole
  /\ \E t \in nd.work :
       IF Cardinality(Components(t.verts)) > 1
         THEN nd' = [nd EXCEPT !.work = Without(t) \cup TasksOf(t.verts, t.offset)] /\ UNCHANGED bi
       ELSE IF Cardinality(t.verts) = 1 \/ Cardinality(t.verts) <= AmdSwitch THEN LeafOf(t) /\ UNCHANGED bi
       ELSE bi' = Started(t) /\ UNCHANGED nd

ChosenAs(side) == {v \in bi.task.verts : bi.labels[Rank(bi.task.verts, v)] = side}
Split ==
  LET sa == ChosenAs(PART_A)
      sb == ChosenAs(PART_B)
      t == bi.task
      na == Cardinality(sa)
      nb == Cardinality(sb)
  IN /\ bi.at = "up" /\ bi.levels = <<>> /\ bi' = NoBisection /\ UNCHANGED whole
     /\ IF na = 0 \/ nb = 0 \/ Max({na, nb}) * 100 >= UnbalancedPct * Cardinality(t.verts) THEN LeafOf(t)
        ELSE nd' = [nd EXCEPT
               !.work = Without(t) \cup {[verts |-> sa, offset |-> t.offset],
                                          [verts |-> sb, offset |-> t.offset + na]},
               !.place = Positions(Sorted(ChosenAs(PART_SEP)), t.offset + na + nb) @@ @,
               !.splits = @ \cup {<<sa, sb, ChosenAs(PART_SEP)>>}]

-----------------------------------------------------------------------------
\* rcm_order (rslab-ordering-core) takes the rows as they are stored.
StoredRows(v) == SelectSeq(whole.rows[v], LAMBDA u : u # v)
\* level_structure: the vertices as a search from start meets them, and how far
\* they are; each is marked as it is met, so that a repeated row is met once.
LevelsFrom(start) ==
  FoldLeftDomain(LAMBDA st, k :
      IF k > Len(st.met) THEN st
      ELSE LET v == st.met[k]
               new == SelectSeq(Adjacent(v), LAMBDA u : u \notin DOMAIN st.dist)
           IN [met |-> st.met \o new, dist |-> st.dist @@ [u \in ToSet(new) |-> st.dist[v] + 1]],
    [met |-> <<start>>, dist |-> start :> 0], whole.vw)
Eccentricity(start) == Max(Range(LevelsFrom(start).dist))
Degree(v) == Len(StoredRows(v))
FirstLeastDegree(start) ==
  LET ls == LevelsFrom(start)
      last == SelectSeq(ls.met, LAMBDA u : ls.dist[u] = Max(Range(ls.dist)))
  IN last[Min({k \in DOMAIN last : \A x \in DOMAIN last : Degree(last[k]) <= Degree(last[x])})]
Peripheral(seed) ==
  FoldLeft(LAMBDA st, k :
      IF st.done \/ Eccentricity(FirstLeastDegree(st.u)) <= Eccentricity(st.u) THEN [st EXCEPT !.done = TRUE]
      ELSE [st EXCEPT !.u = FirstLeastDegree(st.u)],
    [u |-> seed, done |-> FALSE], [k \in 1..MaxHops |-> k]).u
ByDegree(s) == SortSeq(s, LAMBDA u, v : Degree(u) < Degree(v) \/ (Degree(u) = Degree(v) /\ u < v))
\* The queue is kept whole, the vertices taken from it are cm: a neighbour is
\* marked after all of its vertex are collected, so a repeated row enters twice.
SweepFrom(cm, start) ==
  FoldLeftDomain(LAMBDA st, k :
      IF k <= Len(cm) \/ k > Len(st) THEN st
      ELSE st \o ByDegree(SelectSeq(StoredRows(st[k]), LAMBDA u : ~Contains(st, u))),
    Append(cm, start), whole.vw \o FlattenSeq(whole.rows))
CuthillMcKee ==
  FoldLeftDomain(LAMBDA cm, seed : IF Contains(cm, seed) THEN cm ELSE SweepFrom(cm, Peripheral(seed)),
    <<>>, whole.vw)
RcmOrder == Reverse(CuthillMcKee)

NdOn(input) ==
  /\ nd = [work |-> TasksOf(DOMAIN input.vw, 0), place |-> <<>>, splits |-> {}]
  /\ bi = NoBisection
NdInit == whole \in Dissected /\ NdOn(whole)
NdNext ==
  \/ Take \/ MatchOne \/ Coarsen \/ Trial \/ FmMove \/ FmEnd \/ Separate \/ Seed \/ PopMove \/ PassEnd
  \/ Uncoarsen \/ Split
NdSpec == NdInit /\ [][NdNext]_ndVars

-----------------------------------------------------------------------------
NoEdgeAcross(g, labels) ==
  \A v \in Vs(g) : labels[v] = PART_A => \A u \in ToSet(g.to[v]) : labels[u] # PART_B

(***************************************************************************)
(* A coarse graph has fewer vertices, each of one or two, and every cut of *)
(* it weighs what the same cut of its fine graph does.                     *)
(***************************************************************************)
GraphAt(k) == IF k = 0 THEN Induced(bi.task.verts) ELSE bi.levels[k].g
CoarseCutsAsFine ==
  bi.at = "trials" => \A k \in DOMAIN bi.levels :
    LET fine == GraphAt(k - 1)
        level == bi.levels[k]
    IN /\ \A c \in Vs(level.g) : Cardinality({v \in Vs(fine) : level.cmap[v] = c}) \in 1..2
       /\ Total(level.g) = Total(fine) /\ Order(level.g) < Order(fine)
       /\ \A S \in SUBSET Vs(level.g) :
            Cut(level.g, [c \in Vs(level.g) |-> IF c \in S THEN PART_A ELSE PART_B])
              = Cut(fine, [v \in Vs(fine) |-> IF level.cmap[v] \in S THEN PART_A ELSE PART_B])

(***************************************************************************)
(* The gains kept over the moves are the gains, the cut kept is the cut,   *)
(* and a pass is rolled back to the least cut of all it had in balance,    *)
(* the first of them if several: begun in balance it stays in it and gives *)
(* no larger cut, and it keeps its moves only where none was in balance.   *)
(***************************************************************************)
After(fm, k) ==
  LET undone == ToSet(SubSeq(fm.moves, k + 1, Len(fm.moves))) IN
  [v \in DOMAIN fm.labels |-> IF v \in undone THEN 1 - fm.labels[v] ELSE fm.labels[v]]
LeastBalancedCut(g, fm) ==
  LET balanced == {k \in 0..Len(fm.moves) : BalancedAt(g, After(fm, k))}
      least == {k \in balanced : \A j \in balanced : Cut(g, After(fm, k)) <= Cut(g, After(fm, j))}
  IN IF balanced = {} THEN fm.prefix = UNSET
     ELSE /\ fm.prefix = Min(least) /\ fm.best = Cut(g, After(fm, fm.prefix))
          /\ 0 \in balanced => fm.best <= fm.start
CutIsTracked ==
  /\ bi.at = "trials" /\ bi.cut # UNSET => bi.cut = Cut(bi.g, bi.labels)
  /\ bi.at = "fm" => LET fm == bi.fm IN
    /\ fm.cut = Cut(bi.g, fm.labels) /\ fm.start = Cut(bi.g, After(fm, 0))
    /\ \A v \in Free : fm.gain[v] = GainsOf(bi.g, fm.labels)[v]
    /\ LeastBalancedCut(bi.g, fm)
    /\ RolledBack(fm).labels = After(fm, IF fm.prefix = UNSET THEN Len(fm.moves) ELSE fm.prefix)
    /\ RolledBack(fm).cut = Cut(bi.g, RolledBack(fm).labels)

(***************************************************************************)
(* Whatever the cut of the coarsest graph, the first separator is a        *)
(* smallest set of vertices on all its crossing edges.                     *)
(***************************************************************************)
SmallestCover(g, labels, S) ==
  /\ NoEdgeAcross(g, Labelled(labels, S))
  /\ \A T \in SUBSET Vs(g) : Cardinality(T) < Cardinality(S) => ~NoEdgeAcross(g, Labelled(labels, T))
CoverIsSmallest ==
  bi.at = "trials" /\ bi.trial = 0 =>
    \A labels \in [Vs(bi.g) -> {PART_A, PART_B}] :
      SmallestCover(bi.g, labels, Cover(bi.g, labels, ZOf(bi.g, labels, Matching(bi.g, labels))))

(***************************************************************************)
(* While the separator moves it separates, the keys kept are the gains, the*)
(* heap holds separator vertices in order, and one it does not hold is too *)
(* heavy for the side it would go to, now and for the rest of the pass.    *)
(***************************************************************************)
SeparatorSeparates ==
  /\ bi.at \in {"seed", "up"} => NoEdgeAcross(bi.g, bi.labels)
  /\ bi.at = "seed" =>
       ClassWeight(bi.g, bi.labels, PART_SEP) = IF bi.sp.half = 1 THEN bi.sp.start ELSE bi.sp.after
  /\ bi.at = "pass" =>
       LET h == bi.sp.h IN
       /\ NoEdgeAcross(bi.g, bi.sp.labels) /\ NoEdgeAcross(bi.g, Unwound(bi.sp, bi.sp.len))
       /\ ~bi.sp.balancing => ClassWeight(bi.g, Unwound(bi.sp, bi.sp.len), PART_SEP) = bi.sp.best
       /\ IsInjective(h.heap)
       /\ \A v \in Vs(bi.g) : bi.sp.labels[v] = PART_SEP => InHeap(h, v) \/ ~Fits(bi.sp, v)
       /\ \A p \in DOMAIN h.heap :
            /\ bi.sp.labels[h.heap[p]] = PART_SEP
            /\ h.key[h.heap[p]] = SepGain(bi.g, bi.sp.labels, h.heap[p], bi.sp.into)
            /\ p > 1 => Before(h, h.heap[p \div 2], h.heap[p])

(***************************************************************************)
(* Every vertex gets one position; of a split piece the separator comes    *)
(* after both sides, which have no edge between them.                      *)
(***************************************************************************)
OrderIsDissected ==
  nd.work = {} =>
    /\ DOMAIN nd.place = DOMAIN whole.vw /\ IsInjective(nd.place) /\ Range(nd.place) = DOMAIN whole.vw
    /\ \A s \in nd.splits :
         /\ \A a \in s[1], b \in s[2] : b \notin ToSet(Adjacent(a)) /\ nd.place[a] < nd.place[b]
         /\ \A x \in s[1] \cup s[2], y \in s[3] : nd.place[x] < nd.place[y]

(***************************************************************************)
(* A Cuthill-McKee sweep leaves out no vertex.  It queues one as often as  *)
(* the vertex that reaches it first stores it: neighbours are filtered by  *)
(* visited before any of them is marked (rcm.rs:74-84).  So the order of a *)
(* pattern without repeated rows, as the analysis gives it, is an order;   *)
(* one with repeated rows, which CscPattern::new accepts (lib.rs:277),     *)
(* fails the assertion at rcm.rs:88, "every vertex ordered exactly once".  *)
(***************************************************************************)
PlacesOf(order, v) == {k \in DOMAIN order : order[k] = v}
ReachedFrom(v) ==
  {k \in 1..(Min(PlacesOf(CuthillMcKee, v)) - 1) : v \in ToSet(StoredRows(CuthillMcKee[k]))}
OrderedAsStored ==
  /\ ToSet(CuthillMcKee) = DOMAIN whole.vw
  /\ \A v \in DOMAIN whole.vw :
       Cardinality(PlacesOf(CuthillMcKee, v)) =
         IF ReachedFrom(v) = {} THEN 1
         ELSE Cardinality(PlacesOf(StoredRows(CuthillMcKee[Min(ReachedFrom(v))]), v))

(***************************************************************************)
(* RCM orders the vertices as stored and starts at a vertex from which a   *)
(* search ends at least as far as from the component's first, whatever the *)
(* rows.  Without repeated rows reversing makes the profile no larger.     *)
(***************************************************************************)
NoRowRepeats == \A v \in DOMAIN whole.rows : IsInjective(whole.rows[v])
Reaches(order, k) == Min({k} \cup UNION {PlacesOf(order, u) : u \in ToSet(Adjacent(order[k]))})
Profile(order) == FoldLeftDomain(LAMBDA s, k : s + k - Reaches(order, k), 0, order)
RcmIsSound ==
  nd.place = <<>> /\ bi = NoBisection =>
    /\ \A c \in Components(DOMAIN whole.vw) : Eccentricity(Peripheral(Min(c))) >= Eccentricity(Min(c))
    /\ OrderedAsStored
    /\ NoRowRepeats =>
         /\ IsInjective(CuthillMcKee)
         /\ \A k \in DOMAIN RcmOrder : k > 1 => Reaches(CuthillMcKee, k) >= Reaches(CuthillMcKee, k - 1)
         /\ Profile(RcmOrder) <= Profile(CuthillMcKee)

DissectionIsSound ==
  RcmIsSound /\ CoarseCutsAsFine /\ CutIsTracked /\ CoverIsSmallest /\ SeparatorSeparates /\ OrderIsDissected
==============================================================================

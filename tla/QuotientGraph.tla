---------------------------- MODULE QuotientGraph ----------------------------
(***************************************************************************)
(* The minimum degree and minimum fill orderings (quotient_graph of        *)
(* crates/rslab-ordering-core): a graph of variables and of the elements   *)
(* their elimination left, from its workspace to the permutation.          *)
(*                                                                         *)
(* The lists in `iw' are sets, so their compaction is not seen; a bucket   *)
(* is the set of its variables, and the pivot any of those the scan may    *)
(* meet first.  A pivot's variables come in ascending order.  The marks    *)
(* and the numbers of variables keep the code's signs and arithmetic.      *)
(***************************************************************************)
EXTENDS Integers, Sequences, FiniteSets, FiniteSetsExt, SequencesExt

CONSTANTS
  Graphs,     \* [n, adj]: adj[v] the neighbours of v, without v
  Tasks,      \* [fill, aggressive, dense]: AMF or AMD, and the degree to defer from
  MaxMark     \* i32::MAX

VARIABLES ws, task   \* the Workspace; what is asked
qgVars == <<ws, task>>

NOONE == 0
NOWHERE == -1     \* in no bucket
WBig == MaxMark - ws.n
Vertices == 1..ws.n
Ascending(S) == SelectSeq([v \in Vertices |-> v], LAMBDA v : v \in S)
TotalOver(f, S) == MapThenSumSet(LAMBDA x : f[x], S)

\* Workspace::new: isolated variables are eliminated, dense ones deferred.
Workspace(g, dense) ==
  LET deg == [v \in 1..g.n |-> Cardinality(g.adj[v])]
      Deferred(v) == deg[v] > Min({dense, g.n})
      Live(v) == deg[v] > 0 /\ ~Deferred(v)
      lone == {v \in 1..g.n : deg[v] = 0}
      out == {v \in 1..g.n : Deferred(v)}
  IN [n |-> g.n, graph |-> g.adj, at |-> "select", me |-> NOONE, nvpiv |-> 0, degme |-> 0,
      nv |-> [v \in 1..g.n |-> IF Deferred(v) THEN 0 ELSE 1],
      elems |-> [v \in 1..g.n |-> {}], adj |-> g.adj, members |-> [v \in 1..g.n |-> {}],
      pe |-> [v \in 1..g.n |-> NOONE], elen |-> [v \in 1..g.n |-> IF deg[v] = 0 THEN 1 ELSE 0],
      degree |-> deg, wf |-> deg, bucket |-> [v \in 1..g.n |-> IF Live(v) THEN deg[v] ELSE NOWHERE],
      w |-> [v \in 1..g.n |-> IF deg[v] = 0 THEN 0 ELSE 1], wflg |-> 0, lemax |-> 0, mindeg |-> 0,
      nel |-> Cardinality(lone \cup out), ndense |-> Cardinality(out), lnz |-> 0,
      pivoted |-> lone, perm |-> <<>>]

QgInit == \E g \in Graphs, t \in Tasks : task = t /\ ws = Workspace(g, t.dense)

\* amf_bucket_of, and `n' buckets that are degrees
Stride == Max({ws.n \div 8, 1})
BucketOf(score) ==
  IF score <= ws.n THEN score ELSE Min({(score - ws.n) \div Stride + ws.n, 2 * ws.n})
LastBucket == IF task.fill THEN 2 * ws.n + 1 ELSE ws.n - 1

\* clear_flag
ClearFlag(w, wflg) ==
  IF wflg < 2 \/ wflg >= WBig
    THEN [w |-> [e \in DOMAIN w |-> IF w[e] = 0 THEN 0 ELSE 1], wflg |-> 2]
    ELSE [w |-> w, wflg |-> wflg]

-----------------------------------------------------------------------------
\* select_pivot, select_pivot_amf: the first bucket from mindeg that is not
\* empty, of a coarse one the least score.
Heads(d) ==
  LET there == {i \in Vertices : ws.bucket[i] = d} IN
  IF d > ws.n THEN {i \in there : \A j \in there : ws.wf[i] <= ws.wf[j]} ELSE there
SelectPivot ==
  LET open == {d \in ws.mindeg..LastBucket : \E i \in Vertices : ws.bucket[i] = d} IN
  /\ ws.at = "select" /\ UNCHANGED task
  /\ IF ws.nel >= ws.n \/ open = {} THEN ws' = [ws EXCEPT !.at = "permute"]
     ELSE \E me \in Heads(Min(open)) :
       ws' = [ws EXCEPT !.mindeg = Min(open), !.me = me, !.bucket[me] = NOWHERE, !.at = "create"]

\* create_element, create_element_amf: the variables still to be eliminated of
\* the pivot's elements and of its own list; its elements are absorbed.
Absorbed(me) == ws.elems[me]
Found(me) == {i \in ws.adj[me] \cup UNION {ws.members[e] : e \in ws.elems[me]} : ws.nv[i] > 0} \ {me}
CreateElement ==
  LET me == ws.me
      found == Found(me)
      degme == TotalOver(ws.nv, found)
      gone == Absorbed(me)
      marks == ClearFlag([e \in Vertices |-> IF e \in gone THEN 0 ELSE ws.w[e]], ws.wflg)
  IN /\ ws.at = "create" /\ UNCHANGED task
     /\ ws' = [ws EXCEPT
          !.at = "approximate", !.nel = @ + ws.nv[me], !.nvpiv = ws.nv[me], !.degme = degme,
          !.nv = [i \in Vertices |-> IF i \in found \cup {me} THEN -@[i] ELSE @[i]],
          !.members = [e \in Vertices |-> IF e = me THEN found ELSE IF e \in gone THEN {} ELSE @[e]],
          !.pe = [e \in Vertices |-> IF e \in gone THEN me ELSE @[e]],
          !.bucket = [i \in Vertices |-> IF i \in found THEN NOWHERE ELSE @[i]],
          !.degree[me] = degme, !.elen[me] = ws.nv[me] + degme,
          !.w = marks.w, !.wflg = marks.wflg, !.pivoted = @ \cup {me}]

-----------------------------------------------------------------------------
\* finalize_step, first pass: how much of every element lies outside the new
\* one, above the flag.  A mark below the flag is of an earlier step.
Touching(e) == {i \in ws.members[ws.me] : e \in ws.elems[i]}
Seeded(e) ==
  IF Touching(e) = {} \/ ws.w[e] = 0 THEN ws.w[e]
  ELSE (IF ws.w[e] >= ws.wflg THEN ws.w[e] ELSE ws.degree[e] + ws.wflg) + TotalOver(ws.nv, Touching(e))

\* Second pass: an element with nothing outside is absorbed too, if asked to;
\* the degree of a variable is at most what its lists add up to.
Outside(w, e) == w[e] - ws.wflg
Dead(w) ==
  IF task.aggressive
    THEN {e \in UNION {ws.elems[i] : i \in ws.members[ws.me]} : w[e] # 0 /\ Outside(w, e) <= 0} ELSE {}
Kept(w, i) == {e \in ws.elems[i] \ Dead(w) : w[e] # 0}
Others(i) == {j \in ws.adj[i] : ws.nv[j] > 0}
Approximated(w, i) == MapThenSumSet(LAMBDA e : Outside(w, e), Kept(w, i)) + TotalOver(ws.nv, Others(i))

\* amf_wf_surface, amf_wf_combine: the fill the elements around account for.
Surface(dext, deg) == dext * (2 * deg - dext - 1)
WorkingFill(w, i) ==
  IF ws.degree[i] < Approximated(w, i) THEN 0
  ELSE MapThenSumSet(LAMBDA e : Surface(Outside(w, e), ws.degree[e]), Kept(w, i))
         + 2 * (-ws.nv[i]) * TotalOver(ws.nv, Others(i))

\* A variable with nothing left but the pivot is eliminated with it.
Massed(w) == {i \in ws.members[ws.me] : Kept(w, i) = {} /\ Others(i) = {}}
Approximate ==
  LET me == ws.me
      w == [e \in Vertices |-> Seeded(e)]
      mass == Massed(w)
      nvm == -TotalOver(ws.nv, mass)
      degme == ws.degme - nvm
      lemax == Max({ws.lemax, degme})
      others == ws.members[me] \ mass
      marks == ClearFlag([e \in Vertices |-> IF e \in Dead(w) THEN 0 ELSE w[e]], ws.wflg + lemax)
  IN /\ ws.at = "approximate" /\ UNCHANGED task
     /\ ws' = [ws EXCEPT
          !.at = "merge", !.degme = degme, !.nvpiv = @ + nvm, !.nel = @ + nvm, !.lemax = lemax,
          !.nv = [i \in Vertices |-> IF i \in mass THEN 0 ELSE @[i]],
          !.pe = [i \in Vertices |-> IF i \in mass \cup Dead(w) THEN me ELSE @[i]],
          !.members = [e \in Vertices |-> IF e \in Dead(w) THEN {} ELSE @[e]],
          !.elems = [i \in Vertices |-> IF i \in others THEN Kept(w, i) \cup {me} ELSE @[i]],
          !.adj = [i \in Vertices |-> IF i \in others THEN Others(i) ELSE @[i]],
          !.degree = [i \in Vertices |-> IF i = me THEN degme
                        ELSE IF i \in others THEN Min({@[i], Approximated(w, i)}) ELSE @[i]],
          !.wf = [i \in Vertices |-> IF i \in others /\ task.fill THEN WorkingFill(w, i) ELSE @[i]],
          !.w = marks.w, !.wflg = marks.wflg]

-----------------------------------------------------------------------------
\* Indistinguishable variables: a chain per hash, the last inserted first; the
\* lists of each are marked with a flag of its own and those behind compared.
ListOf(i) == (ws.elems[i] \ {ws.me}) \cup ws.adj[i]
Hash(i) == MapThenSumSet(LAMBDA x : x - 1, ListOf(i)) % ws.n
Marked == {i \in ws.members[ws.me] : ws.nv[i] < 0}
Chain(h) == Reverse(Ascending({i \in Marked : Hash(i) = h}))
Anchors == {i \in Marked : \A j \in Marked : Hash(j) = Hash(i) => i <= j}

Alike(w, wflg, i, j) ==
  /\ Cardinality(ws.elems[i]) = Cardinality(ws.elems[j]) /\ Cardinality(ListOf(i)) = Cardinality(ListOf(j))
  /\ \A x \in ListOf(j) : w[x] = wflg
\* (slip) The flag stays the same along a chain.
SameFlag(wflg) == wflg
NextFlag(wflg) == wflg + 1
MergeInto(st, i, behind) ==
  LET w == [x \in Vertices |-> IF x \in ListOf(i) THEN st.wflg ELSE st.w[x]]
      like == {j \in behind : Alike(w, st.wflg, i, j)}
  IN [nv |-> [j \in Vertices |-> IF j = i THEN st.nv[i] + TotalOver(st.nv, like)
                                 ELSE IF j \in like THEN 0 ELSE st.nv[j]],
      pe |-> [j \in Vertices |-> IF j \in like THEN i ELSE st.pe[j]],
      wf |-> IF task.fill THEN [st.wf EXCEPT ![i] = Max({st.wf[j] : j \in like \cup {i}})] ELSE st.wf,
      w |-> w, wflg |-> NextFlag(st.wflg)]
WalkChain(start, chain) ==
  FoldLeftDomain(LAMBDA st, k :
    LET behind == {chain[m] : m \in k + 1..Len(chain)} \cap {j \in Vertices : st.nv[j] # 0}
    IN IF st.nv[chain[k]] = 0 \/ behind = {} THEN st ELSE MergeInto(st, chain[k], behind), start, chain)
DetectSupervariables ==
  LET st == FoldLeft(LAMBDA s, i : WalkChain(s, Chain(Hash(i))),
                     [nv |-> ws.nv, pe |-> ws.pe, wf |-> ws.wf, w |-> ws.w, wflg |-> ws.wflg], Ascending(Anchors))
  IN /\ ws.at = "merge" /\ UNCHANGED task
     /\ ws' = [ws EXCEPT !.at = "reinsert", !.nv = st.nv, !.pe = st.pe, !.wf = st.wf,
                         !.w = st.w, !.wflg = st.wflg]

\* f64::round, of a quotient of integers that is not negative
Rounded(a, b) == (2 * a + b) \div (2 * b)
\* The variables that are left, by their new degree or quantized fill.
NewDegree(i) ==
  Min({ws.degree[i] + ws.degme + ws.nv[i], (ws.n - ws.nel) + ws.nv[i]})
Fill(i) ==
  LET nvi == -ws.nv[i]
      loose == ws.degree[i] * (ws.degree[i] - 1 + 2 * ws.degme) - ws.wf[i]
      nd == NewDegree(i)
      tight == nd * (nd - 1) - (ws.degme - nvi) * (ws.degme - nvi - 1)
      rmf == IF ws.degree[i] + ws.degme > ws.n - ws.nel THEN Min({tight, loose}) ELSE loose
  IN IF rmf <= 0 THEN 1 ELSE Max({1, Rounded(rmf, nvi + 1)})
Bucketed(i) == IF task.fill THEN BucketOf(Fill(i)) ELSE NewDegree(i)
Lowered(ds) == Min(ds \cup {ws.mindeg})
Reinsert ==
  LET me == ws.me
      left == Marked
      f == ws.nvpiv
      r == ws.degme + ws.ndense
  IN /\ ws.at = "reinsert" /\ UNCHANGED task
     /\ ws' = [ws EXCEPT
          !.at = "select",
          !.nv = [i \in Vertices |-> IF i = me THEN f ELSE IF i \in left THEN -@[i] ELSE @[i]],
          !.degree = [i \in Vertices |-> IF i \in left THEN NewDegree(i) ELSE @[i]],
          !.wf = [i \in Vertices |-> IF i \in left /\ task.fill THEN Fill(i) ELSE @[i]],
          !.bucket = [i \in Vertices |-> IF i \in left THEN Bucketed(i) ELSE @[i]],
          !.mindeg = Lowered({Bucketed(i) : i \in left}),
          !.members[me] = left, !.w[me] = IF left = {} THEN 0 ELSE @,
          !.lnz = @ + f * r + (f * (f - 1)) \div 2]

-----------------------------------------------------------------------------
\* finalize_permutation.  The pivot an eliminated or merged variable went with:
PivotOf(v) ==
  FoldLeftDomain(LAMBDA u, k : IF ws.nv[u] = 0 /\ ws.pe[u] # NOONE THEN ws.pe[u] ELSE u, v, ws.pe)
Pivots == {e \in Vertices : ws.nv[e] > 0}

\* assembly_tree_postorder: the children ascending, the last of the largest
\* fronts moved to the end.
ChildrenOfPivot(e) ==
  LET all == {c \in Pivots : ws.pe[c] = e}
      big == {c \in all : \A d \in all : ws.elen[d] <= ws.elen[c]}
  IN IF all = {} THEN <<>> ELSE Ascending(all \ {Max(big)}) \o <<Max(big)>>
PostorderOfPivots ==
  LET post[e \in Pivots] == FoldLeft(LAMBDA done, c : done \o post[c], <<>>, ChildrenOfPivot(e)) \o <<e>>
      roots == {e \in Pivots : ws.pe[e] = NOONE /\ ws.members[e] = {}}
  IN FoldLeft(LAMBDA done, e : done \o post[e], <<>>, Ascending(roots))

\* A block is what went with its pivot, ascending, and the pivot; the deferred
\* variables come last.
Block(e) == Ascending({v \in Vertices : ws.nv[v] = 0 /\ PivotOf(v) = e}) \o <<e>>
DeferredLast == Ascending({v \in Vertices : ws.nv[v] = 0 /\ ws.pe[v] = NOONE})
Permute ==
  /\ ws.at = "permute" /\ UNCHANGED task
  /\ ws' = [ws EXCEPT !.at = "done",
       !.perm = FoldLeft(LAMBDA done, e : done \o Block(e), <<>>, PostorderOfPivots) \o DeferredLast,
       !.lnz = @ + (ws.ndense * (ws.ndense - 1)) \div 2]

QgNext ==
  SelectPivot \/ CreateElement \/ Approximate \/ DetectSupervariables \/ Reinsert \/ Permute
QgSpec == QgInit /\ [][QgNext]_qgVars

-----------------------------------------------------------------------------
\* Elimination itself: w is reached from v through eliminated vertices.
ReachThrough(gone, v) ==
  FoldLeftDomain(LAMBDA s, k : s \cup UNION {ws.graph[u] : u \in (s \cap gone) \cup {v}}, {}, ws.graph)
    \ (gone \cup {v})

MembersOf(i) == {v \in Vertices : PivotOf(v) = i}
Deferred == {v \in Vertices : ws.nv[v] = 0 /\ ws.pe[v] = NOONE}
Gone == {v \in Vertices : PivotOf(v) \in ws.pivoted}
Live == {i \in Vertices \ ws.pivoted : ws.nv[i] > 0}

(***************************************************************************)
(* Between two steps the quotient graph is the elimination graph: the      *)
(* lists of a variable lead to the vertices that elimination made its      *)
(* neighbours, the same ones for all it stands for.                        *)
(***************************************************************************)
QuotientIsElimination ==
  ws.at = "select" => \A i \in Live :
    LET near == ws.adj[i] \cup UNION {ws.members[e] : e \in ws.elems[i]}
        around == UNION {MembersOf(j) : j \in (near \cap Live) \ {i}}
    IN \A v \in MembersOf(i) :
         (ReachThrough(Gone, v) \ Deferred) \cup {v} = around \cup MembersOf(i)

(***************************************************************************)
(* The degrees bound the true ones, the scan starts at or below every      *)
(* bucket in use, and nobody is left out of the buckets.                   *)
(***************************************************************************)
DegreesBound ==
  ws.at = "select" => \A i \in Live :
    /\ ws.degree[i] >= Cardinality(ReachThrough(Gone, i) \ (Deferred \cup MembersOf(i)))
    /\ ws.bucket[i] \in ws.mindeg..LastBucket

\* The marks never leave their integers ("bump wflg safely").
MarksFit == ws.wflg <= MaxMark /\ \A e \in Vertices : ws.w[e] <= MaxMark

(***************************************************************************)
(* The result is a permutation whose factor has at most the entries the    *)
(* elimination counted; with every pivot before what went with it, exactly *)
(* those, unless deferred variables were counted as full.                  *)
(***************************************************************************)
FactorEntries(perm) ==
  MapThenSumSet(LAMBDA k : Cardinality(ReachThrough({perm[m] : m \in 1..k - 1}, perm[k])), 1..ws.n)
PivotsFirst ==
  FoldLeft(LAMBDA done, e : done \o <<e>> \o Front(Block(e)), <<>>, PostorderOfPivots)
PermutationKeepsTheFill ==
  ws.at = "done" =>
    /\ Len(ws.perm) = ws.n /\ ToSet(ws.perm) = Vertices
    /\ FactorEntries(ws.perm) <= ws.lnz
    /\ ws.ndense = 0 => FactorEntries(PivotsFirst) = ws.lnz

OrderingIsTheElimination ==
  QuotientIsElimination /\ DegreesBound /\ MarksFit /\ PermutationKeepsTheFill

===============================================================================

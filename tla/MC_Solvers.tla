----------------------------- MODULE MC_Solvers -----------------------------
(***************************************************************************)
(* The solver objects and the orderings, one component a behaviour: `part' *)
(* says which of them moves while the others keep the state they start in. *)
(*   "auto"    AutoSolver: two solvers over one analysis (MC_AutoSolver)   *)
(*   "direct"  DirectSolver: four value sets, of which one does not factor *)
(*             and one pivots to rows of its own, and three callers        *)
(*   "refine"  Refinement: errors 0..2, up to two corrections              *)
(*   "degree"  QuotientGraph: every graph of four vertices and some of six *)
(*             to eight, with and without fill, absorption and deferral;   *)
(*             the largest mark so small that the marks are reset          *)
(*   "scaling" Scaling: all patterns of three columns with two magnitudes, *)
(*             every symmetric one with three, drawn matrices of five, and *)
(*             the equilibration of two and three rows, with magnitudes    *)
(*             that stay integers through the steps taken                  *)
(*   "dissect" Dissection: every graph of four vertices uncoarsened, with  *)
(*             and without rows stored twice, and graphs of five to eight  *)
(*             coarsened to two, three or not at all; limits so low that   *)
(*             each of them binds                                          *)
(*   "handles" PythonHandles: two Python threads over one handle at a time *)
(*             of each class; one of three value sets singular, and an     *)
(*             order of KLU that does not serve another value set          *)
(***************************************************************************)
EXTENDS MC_AutoSolver, DirectSolver, Refinement, QuotientGraph, Scaling, Dissection, PythonHandles

CONSTANTS t1, t2

VARIABLE part

HandleOrders == {<<1, 1>>, <<2, 2>>, <<1, 2>>}
ASSUME HandlesHold == HandlesAssumption

RowsOfFour == <<1, 1, 2, 1>>

Graph(n, edges) == [n |-> n, adj |-> [v \in 1..n |-> {u \in 1..n : {u, v} \in edges}]]
Edges(n) == {e \in SUBSET (1..n) : Cardinality(e) = 2}
SmallGraphs ==
  {Graph(4, e) : e \in SUBSET Edges(4)} \cup
  {Graph(6, {{1, 2}, {2, 3}, {4, 5}, {5, 6}, {1, 4}, {2, 5}, {3, 6}}),
   Graph(6, {{1, 2}, {2, 3}, {3, 4}, {4, 5}, {5, 6}, {6, 1}}),
   Graph(6, {{1, 2}, {2, 3}, {1, 3}, {4, 5}, {5, 6}, {4, 6}, {1, 4}, {2, 5}, {3, 6}}),
   Graph(6, {{1, 4}, {1, 5}, {1, 6}, {2, 4}, {2, 5}, {3, 5}, {3, 6}}),
   Graph(7, {{1, 2}, {2, 3}, {3, 4}, {4, 1}, {5, 1}, {5, 3}, {6, 2}, {6, 4}, {7, 5}, {7, 6}}),
   Graph(8, {{u, v} : u \in 1..4, v \in 5..8} \ {{1, 8}, {2, 7}, {3, 5}}),
   Graph(8, {{1, 2}, {2, 3}, {3, 4}, {5, 6}, {6, 7}, {7, 8}, {1, 5}, {2, 6}, {3, 7}, {4, 8}})}
BothDegrees == [fill : BOOLEAN, aggressive : BOOLEAN, dense : {2, 9}]
\* Matrices as Scaling takes them: what is absent is dropped.
Absent == -99
ToScale(n, strategy, f) ==
  [n |-> n, strategy |-> strategy, tol |-> 8, pieces |-> 2,
   entry |-> [e \in {e \in DOMAIN f : f[e] # Absent} |-> f[e]]]
Square(n, values) == [(1..n) \X (1..n) -> values]
LowerHalf(n, values) == [{e \in (1..n) \X (1..n) : e[1] >= e[2]} -> values]
Mixed(s, i, j) == ((s * 57 + i * 31 + j * 17) * (s * 13 + i * 5 + j * j * 7 + 3)) % 1009
Drawn(n, s) ==
  [e \in {e \in (1..n) \X (1..n) : e[1] = e[2] \/ Mixed(s, e[1], e[2]) % 5 > 0} |-> Mixed(s, e[1], e[2]) % 11]
SmallScaled ==
  {ToScale(3, "Mc64", f) : f \in Square(3, {Absent, 1})} \cup
  {ToScale(3, "Mc64Symmetric", f) : f \in LowerHalf(3, {Absent, ZERO, 0, 2})} \cup
  {ToScale(5, "Mc64", Drawn(5, s)) : s \in 1..1500} \cup
  {ToScale(2, s, f) : s \in {"InfNorm", "OnePassInfNorm"}, f \in Square(2, {Absent, ZERO, -512, 0, 512, 1024})} \cup
  {ToScale(3, "InfNorm", f) : f \in Square(3, {0, 512})} \cup
  {ToScale(3, s, f) : s \in {"SymInfNorm", "SymOnePass"}, f \in LowerHalf(3, {Absent, 0, -512, 1024})}

ToDissect(n, edges, weight, floor) ==
  [rows |-> [j \in 1..n |-> SelectSeq([i \in 1..n |-> i], LAMBDA i : i = j \/ {i, j} \in edges)],
   vw |-> [i \in 1..n |-> weight], floor |-> floor]
Grid == {{1, 2}, {2, 3}, {4, 5}, {5, 6}, {1, 4}, {2, 5}, {3, 6}}
Bipartite == {{1, 4}, {1, 5}, {1, 6}, {2, 4}, {2, 5}, {3, 5}, {3, 6}}
Tree == {{1, 2}, {1, 3}, {1, 4}, {4, 5}, {5, 6}}
\* The k-th row of every column stored twice, as CscPattern::new allows.
Repeating(input, k) ==
  [input EXCEPT !.rows = [v \in DOMAIN @ |->
     IF k > Len(@[v]) THEN @[v] ELSE SubSeq(@[v], 1, k) \o SubSeq(@[v], k, Len(@[v]))]]
RepeatedRows ==
  {Repeating(ToDissect(4, e, 1, 4), k) : e \in SUBSET Edges(4), k \in 1..2} \cup
  {Repeating(ToDissect(2, {{1, 2}}, 1, 2), 2), Repeating(ToDissect(6, Tree, 1, 2), 2), Repeating(ToDissect(6, Grid, 1, 6), 3)}
SmallDissected == RepeatedRows \cup
  {ToDissect(4, e, 1, 4) : e \in SUBSET Edges(4)} \cup
  {ToDissect(5, {{1, 2}, {2, 3}, {3, 4}, {4, 5}}, 1, 2), ToDissect(5, {{1, 3}, {3, 5}}, 1, 2),
   ToDissect(6, {{1, 4}, {4, 2}, {2, 5}, {5, 3}, {3, 6}}, 1, 2), ToDissect(6, Tree, 1, 2), ToDissect(6, Tree, 2, 6),
   ToDissect(7, {{4, i} : i \in (1..7) \ {4}} \cup {{6, 7}}, 1, 2), ToDissect(6, Grid, 1, 2), ToDissect(6, Grid, 1, 6),
   ToDissect(6, Grid \cup {{1, 3}, {4, 6}}, 1, 6), ToDissect(6, Bipartite, 1, 3), ToDissect(6, Bipartite, 1, 6),
   ToDissect(8, {{i, i + 1} : i \in {1, 2, 3, 5, 6, 7}} \cup {{i, i + 4} : i \in 1..4}, 1, 3)}

Some(set) == CHOOSE e \in set : TRUE

-----------------------------------------------------------------------------
partVars == <<part, vars, directVars, refineVars, qgVars, scalingVars, ndVars, pyVars>>

MCInit ==
  /\ part \in {"auto", "direct", "refine", "degree", "scaling", "dissect", "handles"}
  /\ Init /\ DirectInit
  /\ IF part = "refine" THEN TRUE
     ELSE policy = [max_steps |-> 0, target |-> 0] /\ iterate = [finite |-> TRUE, err |-> 0]
  /\ RefineInit
  /\ IF part = "degree" THEN QgInit
     ELSE task = Some(Tasks) /\ ws = Workspace(Some(Graphs), task.dense)
  /\ IF part = "scaling" THEN asked \in Scaled ELSE asked = ToScale(1, "Identity", [e \in {} |-> 0])
  /\ AsAsked
  /\ IF part = "dissect" THEN NdInit ELSE whole = ToDissect(1, {}, 1, 1) /\ nd = [work |-> {}, place |-> <<1>>, splits |-> {}] /\ bi = NoBisection
  /\ IF part = "handles" THEN TRUE ELSE path = "ldlt"
  /\ PyInit

Of(p, A, Rest) == part = p /\ A /\ UNCHANGED <<part, Rest>>

Autos == Of("auto", Next, <<directVars, refineVars, qgVars, scalingVars, ndVars, pyVars>>)
Directs == Of("direct", DirectNext, <<vars, refineVars, qgVars, scalingVars, ndVars, pyVars>>)
Refinements == Of("refine", RefineNext, <<vars, directVars, qgVars, scalingVars, ndVars, pyVars>>)
Degrees == Of("degree", QgNext, <<vars, directVars, refineVars, scalingVars, ndVars, pyVars>>)
Scales == Of("scaling", ScalingNext, <<vars, directVars, refineVars, qgVars, ndVars, pyVars>>)
Dissects == Of("dissect", NdNext, <<vars, directVars, refineVars, qgVars, scalingVars, pyVars>>)
Pythons == Of("handles", PyNext, <<vars, directVars, refineVars, qgVars, scalingVars, ndVars>>)

MCNext == Autos \/ Directs \/ Refinements \/ Degrees \/ Scales \/ Dissects \/ Pythons
MCSpec == MCInit /\ [][MCNext]_partVars

\* The solvers are alike, and so are the Python threads.
AlikeAll == Symmetry \cup Permutations({t1, t2})
=============================================================================

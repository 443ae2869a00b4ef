----------------------------- MODULE MC_Numeric -----------------------------
(***************************************************************************)
(* The numeric factorization, one component a behaviour: `part' says which *)
(* of them moves while the others keep the state they start in.            *)
(*   "forest"    ForestSchedule: a forest of two trees                     *)
(*   "schedule"  LlSchedule: what the symbolic analysis makes of every     *)
(*               pattern of four vertices, amalgamated or not, and of      *)
(*               every tree and every cycle of five                       *)
(*   "fronts"    LuFronts: matrices of four and five columns               *)
(*   "arena"     PanelArena: three panels, fronts of the analysis' sizes   *)
(*               and larger, in total within the room and beyond it        *)
(*   "ldlt"      LdltFactor: one supernode of five columns, and three with *)
(*               rows that skip one, over the numbers modulo 5             *)
(***************************************************************************)
EXTENDS ForestSchedule, LlSchedule, LuFronts, PanelArena, LdltFactor

VARIABLE part

S == INSTANCE EliminationTree

GraphsOn(n) ==
  LET pairs == {<<i, j>> \in (1..n) \X (1..n) : i < j} IN
  {[v \in 1..n |-> S!Ascending({u \in 1..n : <<u, v>> \in e \/ <<v, u>> \in e})] : e \in SUBSET pairs}

Amalgamation(nemin) ==
  [strategy |-> "adjacency", nemin |-> nemin, relaxWidth |-> 0, relaxRows |-> 0, rootCap |-> 0]

\* A sequence evaluated once, not at every use.
Eager(q) == FoldLeft(LAMBDA done, x : Append(done, x), <<>>, q)

\* What is left of the analysis once its columns are ordered, once its counts
\* are known, and once its supernodes are.
OfSupernodes(cols, supernodes, below) ==
  LET Cols(s) == supernodes[s].first..(supernodes[s].first + supernodes[s].ncol - 1) IN
  [n |-> Len(cols), nsuper |-> Len(supernodes), supernodes |-> supernodes,
   cols |-> Eager([j \in DOMAIN cols |-> ToSet(cols[j])]),
   left |-> Eager([s \in DOMAIN supernodes |-> UNION {below[c] : c \in Cols(s)} \ Cols(s)])]

OfColumnsAndTree(cols, etree, nemin) ==
  OfSupernodes(cols,
    Eager(S!FindSupernodes(etree, Eager(S!Gnp(etree, cols, [j \in DOMAIN cols |-> 1])), Amalgamation(nemin))),
    Eager(S!FactorRows(cols)))

Renamed(pattern, order, new) ==
  Eager([k \in DOMAIN order |-> Eager([i \in DOMAIN pattern[order[k]] |-> new[pattern[order[k]][i]]])])

OfOrder(pattern, tree, order, nemin) ==
  OfColumnsAndTree(Renamed(pattern, order, Eager(S!Positions(order))), Eager(S!Relabel(tree, order)), nemin)

OfTree(pattern, tree, nemin) ==
  OfOrder(pattern, tree, Eager(S!Postorder(tree, [j \in DOMAIN pattern |-> j])), nemin)

Analysis(pattern, nemin) == OfTree(pattern, S!FromCols(pattern), nemin)

\* The trees and the cycles on n vertices.
Links(n) == {e \in SUBSET (1..n) : Cardinality(e) = 2}
Pattern(n, links) == [v \in 1..n |-> S!Ascending({u \in 1..n : {u, v} \in links})]
Connected(n, links) ==
  \A S1 \in SUBSET (1..n) \ {{}, 1..n} : \E l \in links : l \cap S1 # {} /\ ~(l \subseteq S1)
Degree(links, v) == Cardinality({l \in links : v \in l})
Trees(n) == {links \in kSubset(n - 1, Links(n)) : Connected(n, links)}
Cycles(n) == {links \in kSubset(n, Links(n)) : Connected(n, links) /\ \A v \in 1..n : Degree(links, v) = 2}
Sparse == {Pattern(5, links) : links \in Trees(5) \cup Cycles(5)}

SmallAnalyses ==
  {Analysis(p, nemin) : p \in GraphsOn(4), nemin \in 1..2} \cup {Analysis(p, 1) : p \in Sparse}

-----------------------------------------------------------------------------
\* Two trees: 1, 2 below 3, 4 below 5, 3 and 5 below the root 6, and the lone
\* supernode 7 that nothing reads.  1 and 4 have rows in the root too, so the
\* last of two consumers releases them; 2 has one.
ForestParent == <<3, 3, 6, 5, 6, NONE, NONE>>

ForestUpdaters == <<{}, {}, {1, 2}, {}, {4}, {1, 3, 4, 5}, {}>>

\* The patterns of four columns without two of the entries of the first, and
\* patterns of five whose last two form one supernode.
FourFronts ==
  {[width |-> <<1, 1, 1, 1>>, entries |-> e] :
     e \in SUBSET {<<i, j>> \in (1..4) \X (1..4) : i # j /\ <<i, j>> \notin {<<2, 1>>, <<4, 1>>}}}
WideRoot ==
  {[width |-> <<1, 1, 1, 2>>, entries |-> e \cup {<<4, 5>>, <<5, 4>>}] :
     e \in SUBSET {<<1, 3>>, <<3, 1>>, <<5, 1>>, <<1, 4>>, <<3, 2>>, <<2, 4>>, <<4, 2>>, <<4, 3>>, <<3, 5>>}}
SmallMatrices == FourFronts \cup WideRoot

SmallJobs ==
  {j \in [delays : BOOLEAN, slot : {<<1, 2, 1>>},
          front : {<<1, 2, 3>>, <<2, 2, 1>>, <<1, 4, 1>>, <<2, 3, 4>>},
          kept : {<<1, 2, 1>>, <<0, 2, 3>>, <<1, 1, 1>>}] :
     \A s \in 1..3 : j.kept[s] <= j.front[s]}

\* Symmetric matrices of six rows, scaled; two with zeros on the diagonal.
Symmetric(width, below, perm, f(_, _)) ==
  [width |-> width, below |-> below, perm |-> perm, scale |-> [i \in 1..6 |-> 1 + (i % 3)],
   entry |-> [e \in {<<g, h>> \in (1..6) \X (1..6) : g >= h} |-> f(e[1], e[2]) % P]]
SmallSystems ==
  {Symmetric(<<5, 1>>, <<{6}, {}>>, <<3, 1, 6, 2, 5, 4>>, LAMBDA g, h : IF g = h THEN 0 ELSE g * h + g),
   Symmetric(<<5, 1>>, <<{6}, {}>>, <<3, 1, 6, 2, 5, 4>>, LAMBDA g, h : IF g = h THEN g * (g - 1) ELSE (g + h) * (g + h)),
   Symmetric(<<1, 3, 2>>, <<{2, 4, 5}, {5, 6}, {}>>, <<1, 2, 3, 4, 5, 6>>,
     LAMBDA g, h : IF g = h THEN IF g = 1 THEN 2 ELSE 0 ELSE IF h = 1 /\ g \in {3, 6} THEN 0 ELSE g * g + h)}
SmallTunings == [nb : {2, 3}, sb : {1, 2}, tile : {2}, look : BOOLEAN, floor : BOOLEAN]

-----------------------------------------------------------------------------
partVars == <<part, vars, scheduleVars, frontVars, arenaVars, ldltVars>>

Some(set) == CHOOSE e \in set : TRUE

MCInit ==
  /\ part \in {"forest", "schedule", "fronts", "arena", "ldlt"}
  /\ (IF part = "forest" THEN serial \in BOOLEAN ELSE serial = TRUE) /\ Init
  /\ IF part = "schedule" THEN TRUE ELSE sym = Some(Analyses)
  /\ ScheduleInit
  /\ IF part = "fronts" THEN FrontInit
     ELSE lu = Analyzed(Some(Matrices)) /\ delays = FALSE /\ record = [s \in {} |-> 0]
  /\ IF part = "arena" THEN TRUE ELSE job = Some(Jobs)
  /\ ArenaInit
  /\ IF part = "ldlt" THEN TRUE ELSE system = Some(Systems) /\ tuning = Some(Tunings)
  /\ LdltInit

Of(p, A, Rest) == part = p /\ A /\ UNCHANGED <<part, Rest>>

InForest == Of("forest", Next, <<scheduleVars, frontVars, arenaVars, ldltVars>>)
Schedules == Of("schedule", ScheduleNext, <<vars, frontVars, arenaVars, ldltVars>>)
InFronts == Of("fronts", FrontNext, <<vars, scheduleVars, arenaVars, ldltVars>>)
InArena == Of("arena", ArenaNext, <<vars, scheduleVars, frontVars, ldltVars>>)
InLdlt == Of("ldlt", LdltNext, <<vars, scheduleVars, frontVars, arenaVars>>)

MCNext == InForest \/ Schedules \/ InFronts \/ InArena \/ InLdlt

\* The fairness of ForestSchedule.
MCSpec == MCInit /\ [][MCNext]_partVars /\ WF_partVars(InForest)

\* The factorization returns (Terminates), in its own behaviours.
ForestReturns == part = "forest" => Terminates
=============================================================================

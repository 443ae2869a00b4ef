------------------------------- MODULE Scaling -------------------------------
(***************************************************************************)
(* How a matrix is scaled before it is factored (src/scaling): the         *)
(* matching of MC64, a shortest path search per unmatched column, with the *)
(* scaling its duals give, and the equilibration of row and column maxima. *)
(*                                                                         *)
(* Magnitudes are their logarithms, integers: a product is a sum, a square *)
(* root a half (`asked' keeps them divisible), and what overflows in       *)
(* floating point is not seen.  A position in a column stands for the      *)
(* entry's index, so an entry is a column and a position.                  *)
(***************************************************************************)
EXTENDS Integers, Sequences, FiniteSets, FiniteSetsExt, SequencesExt

CONSTANTS
  Scaled,        \* [n, strategy, entry, tol, pieces]: entry[<<i, j>>] a logarithm or ZERO
  ZERO,          \* a stored entry without a logarithm
  RINF,          \* more than any path
  DenseColDiv, DenseMinRows,   \* HUNGARIAN_DENSE_COL_DIV, HUNGARIAN_DENSE_MIN_ROWS
  InfNormMaxIter               \* INFNORM_MAX_ITER

VARIABLES asked, m, eq    \* the matching, the equilibration under way
scalingVars == <<asked, m, eq>>

FREE == 0
Lines == 1..asked.n
HasLog(i, j) == <<i, j>> \in DOMAIN asked.entry /\ asked.entry[<<i, j>>] # ZERO

\* build_cost_graph, compute_matching_general: the column maximum less the
\* logarithm; the symmetric one has the lower triangle twice.
Mirrored == asked.strategy \in {"Mc64Symmetric", "SymInfNorm", "SymOnePass"}
Has(i, j) == HasLog(i, j) \/ (Mirrored /\ HasLog(j, i))
Log(i, j) == IF HasLog(i, j) THEN asked.entry[<<i, j>>] ELSE asked.entry[<<j, i>>]
Stored(j) == SelectSeq([i \in Lines |-> i], LAMBDA i : Has(i, j))
MaxOf(rows, j) == IF rows = <<>> THEN 0 ELSE Max({Log(i, j) : i \in ToSet(rows)})
ColumnMax(j) == MaxOf(Stored(j), j)
Costs(rows, j, max) == [k \in DOMAIN rows |-> [row |-> rows[k], cost |-> max - Log(rows[k], j)]]
CostGraph == [j \in Lines |-> Costs(Stored(j), j, ColumnMax(j))]

RowAt(j, k) == m.col[j][k].row
Reduced(u, j, k) == m.col[j][k].cost - u[RowAt(j, k)]

BuildGraph ==
  /\ m.at = "build" /\ UNCHANGED <<asked, eq>>
  /\ m' = [m EXCEPT !.at = "minima", !.col = CostGraph]

-----------------------------------------------------------------------------
\* hungarian_init_heuristic.  1: the least cost of every row, the last of them.
StoredPlaces == {e \in Lines \X Lines : e[2] \in DOMAIN m.col[e[1]]}
LeastOf(i) ==
  LET in == {e \in StoredPlaces : RowAt(e[1], e[2]) = i}
      least == {e \in in : \A f \in in : m.col[e[1]][e[2]].cost <= m.col[f[1]][f[2]].cost}
  IN IF in = {} THEN <<FREE, FREE>> ELSE CHOOSE e \in least : \A f \in least : f[1] <= e[1]
RowMinima ==
  /\ m.at = "minima" /\ UNCHANGED <<asked, eq>>
  /\ m' = [m EXCEPT !.at = "claim", !.least = [i \in Lines |-> LeastOf(i)],
       !.u = [i \in Lines |-> LET e == LeastOf(i) IN IF e[1] = FREE THEN RINF ELSE m.col[e[1]][e[2]].cost]]

\* 2: every row takes that entry, unless the column has a row or is dense.
Dense(j) == Len(m.col[j]) > asked.n \div DenseColDiv /\ asked.n > DenseMinRows
Claimed(st, i) ==
  LET e == m.least[i] IN
  IF e[1] = FREE \/ Dense(e[1]) THEN st
  ELSE IF st.jperm[e[1]] # FREE THEN st
  ELSE [st EXCEPT !.num = @ + 1, !.iperm[i] = e[1], !.jperm[e[1]] = e[2]]
Claim ==
  /\ m.at = "claim" /\ UNCHANGED <<asked, eq>>
  /\ m' = [FoldLeft(Claimed, m, [i \in Lines |-> i]) EXCEPT !.at = "improve"]

\* 3: a column takes the least reduced cost, a free row first, or a path of
\* length two to one.
FirstLeast(iperm, j) ==
  FoldLeft(LAMBDA k0, k :
      IF Reduced(m.u, j, k) > Reduced(m.u, j, k0) THEN k0
      ELSE IF Reduced(m.u, j, k) = Reduced(m.u, j, k0)
              /\ (iperm[RowAt(j, k)] # FREE \/ iperm[RowAt(j, k0)] = FREE) THEN k0
      ELSE k,
    1, [k \in 2..Len(m.col[j]) |-> k])
FreeBeyond(st, jj) ==
  {kk \in st.from[jj]..Len(m.col[jj]) :
     st.iperm[RowAt(jj, kk)] = FREE /\ Reduced(m.u, jj, kk) <= st.dcol[jj]}
Shifted(st, j, k, jj, frees) ==
  IF frees = {} THEN [st EXCEPT !.from[jj] = Len(m.col[jj]) + 1]
  ELSE [st EXCEPT !.num = @ + 1, !.jperm[jj] = Min(frees), !.iperm[RowAt(jj, Min(frees))] = jj,
                  !.jperm[j] = k, !.iperm[RowAt(j, k)] = j, !.from[jj] = Min(frees) + 1, !.from[j] = k + 1]
ByTwo(st, j, k0, k) ==
  LET jj == st.iperm[RowAt(j, k)] IN
  IF st.jperm[j] # FREE \/ k < k0 \/ Reduced(m.u, j, k) > Reduced(m.u, j, k0) \/ jj = FREE THEN st
  ELSE Shifted(st, j, k, jj, FreeBeyond(st, jj))
ImprovedAt(st, j, k0) ==
  IF st.iperm[RowAt(j, k0)] = FREE
    THEN [st EXCEPT !.num = @ + 1, !.jperm[j] = k0, !.iperm[RowAt(j, k0)] = j, !.from[j] = k0 + 1]
    ELSE FoldLeftDomain(LAMBDA s, k : ByTwo(s, j, k0, k), st, m.col[j])
Improved(st, j) ==
  IF st.jperm[j] # FREE \/ m.col[j] = <<>> THEN st
  ELSE ImprovedAt([st EXCEPT !.dcol[j] = Reduced(m.u, j, FirstLeast(st.iperm, j))], j, FirstLeast(st.iperm, j))
Improve ==
  /\ m.at = "improve" /\ UNCHANGED <<asked, eq>>
  /\ m' = [FoldLeft(Improved, m, [j \in Lines |-> j])
             EXCEPT !.at = "columns", !.u = [i \in Lines |-> IF m.u[i] = RINF THEN 0 ELSE m.u[i]]]

-----------------------------------------------------------------------------
\* IndexHeap: a row's key is its distance.
Swapped(h, p, q) == [h EXCEPT ![p] = h[q], ![q] = h[p]]
SiftedUp(h, at, d) ==
  FoldLeftDomain(LAMBDA st, k :
      IF st.p > 1 /\ d[st.h[st.p]] < d[st.h[st.p \div 2]]
        THEN [h |-> Swapped(st.h, st.p, st.p \div 2), p |-> st.p \div 2] ELSE st,
    [h |-> h, p |-> at], h).h
LeastChild(h, p, d) == IF 2 * p < Len(h) /\ d[h[2 * p]] > d[h[2 * p + 1]] THEN 2 * p + 1 ELSE 2 * p
SiftedDown(h, d) ==
  FoldLeftDomain(LAMBDA st, k :
      IF 2 * st.p <= Len(h) /\ d[st.h[st.p]] > d[st.h[LeastChild(st.h, st.p, d)]]
        THEN [h |-> Swapped(st.h, st.p, LeastChild(st.h, st.p, d)), p |-> LeastChild(st.h, st.p, d)] ELSE st,
    [h |-> h, p |-> 1], h).h
Keyed(h, i, d) ==     \* insert, or update where i is in the heap
  IF i \in ToSet(h) THEN SiftedUp(h, CHOOSE p \in DOMAIN h : h[p] = i, d) ELSE SiftedUp(Append(h, i), Len(h) + 1, d)
WithoutLeast(h, d) == IF Len(h) = 1 THEN <<>> ELSE SiftedDown(<<Last(h)>> \o SubSeq(h, 2, Len(h) - 1), d)

\* hungarian_match: the search from an unmatched column.  A free row ends a
\* path, a matched one is reached at its distance and leads to its column.
Reached(st, j, k, i, dnew) ==
  IF i \in st.visited \/ dnew >= st.csp THEN st
  ELSE IF st.iperm[i] = FREE THEN [st EXCEPT !.csp = dnew, !.isp = k, !.jsp = j]
  ELSE IF st.d[i] <= dnew THEN st
  ELSE [st EXCEPT !.d[i] = dnew, !.touched = @ \cup {i}, !.out[st.iperm[i]] = k, !.pr[st.iperm[i]] = j,
                  !.heap = Keyed(@, i, [st.d EXCEPT ![i] = dnew])]
ScanColumn(st, j, offset) ==
  FoldLeftDomain(LAMBDA s, k : Reached(s, j, k, RowAt(j, k), offset + Reduced(m.u, j, k)), st, m.col[j])

Root ==
  LET left == {j \in Lines : j > m.jord /\ m.jperm[j] = FREE} IN
  /\ m.at = "columns" /\ left # {} /\ UNCHANGED <<asked, eq>>
  /\ m' = ScanColumn([m EXCEPT !.at = "search", !.jord = Min(left), !.csp = RINF, !.isp = FREE, !.jsp = FREE,
                                !.visited = {}, !.touched = {}, !.pr[Min(left)] = FREE], Min(left), 0)

Exhausted == IF m.heap = <<>> THEN TRUE ELSE m.d[m.heap[1]] >= m.csp
Pop ==
  LET q0 == m.heap[1]
      j2 == m.iperm[q0]
  IN /\ m.at = "search" /\ ~Exhausted /\ UNCHANGED <<asked, eq>>
     /\ m' = ScanColumn([m EXCEPT !.heap = WithoutLeast(@, m.d), !.visited = @ \cup {q0}], j2,
                        m.d[q0] - Reduced(m.u, j2, m.jperm[j2]))

\* The path is flipped from its end; the rows it was searched through get the
\* duals that keep their entries tight.
Flipped(st) ==
  FoldLeftDomain(LAMBDA s, step :
      LET jj == s.pr[s.cur] IN
      IF jj = FREE THEN s
      ELSE [s EXCEPT !.iperm[RowAt(jj, s.out[s.cur])] = jj, !.jperm[jj] = s.out[s.cur], !.cur = jj],
    [st EXCEPT !.num = @ + 1, !.iperm[RowAt(st.jsp, st.isp)] = st.jsp, !.jperm[st.jsp] = st.isp, !.cur = st.jsp],
    st.jperm)
\* (slip) Only the rows that were popped are cleared.
ClearsVisited(st) == [i \in Lines |-> IF i \in st.visited THEN RINF ELSE st.d[i]]
ClearsTouched(st) == [i \in Lines |-> IF i \in st.touched THEN RINF ELSE st.d[i]]
Augment ==
  /\ m.at = "search" /\ Exhausted /\ UNCHANGED <<asked, eq>>
  /\ m' = [(IF m.csp < RINF THEN Flipped(m) ELSE m) EXCEPT
       !.at = "columns", !.heap = <<>>, !.d = ClearsTouched(m),
       !.u = [i \in Lines |-> IF m.csp < RINF /\ i \in m.visited THEN m.u[i] + m.d[i] - m.csp ELSE m.u[i]]]

\* finalize_duals, build_matching
Duals ==
  /\ m.at = "columns" /\ \A j \in Lines : j > m.jord => m.jperm[j] # FREE
  /\ UNCHANGED <<asked, eq>>
  /\ m' = [m EXCEPT !.at = "done",
       !.v = [j \in Lines |-> IF m.jperm[j] = FREE THEN 0 ELSE Reduced(m.u, j, m.jperm[j])],
       !.u = [i \in Lines |-> IF m.iperm[i] = FREE THEN 0 ELSE m.u[i]]]

\* scaling_from_cache, unsymmetric_scaling: twice a symmetric logarithm, or
\* the logarithms of a row and a column.
Perm(j) == IF m.jperm[j] = FREE THEN FREE ELSE RowAt(j, m.jperm[j])
SymmetricScale(i) ==
  IF Stored(i) = <<>> \/ Perm(i) = FREE \/ \A j \in Lines : Perm(j) # i THEN 0
  ELSE m.u[i] + m.v[i] - ColumnMax(i)
RowScale(i) == m.u[i]
ColumnScale(j) == m.v[j] - ColumnMax(j)

-----------------------------------------------------------------------------
\* maxima: the columns in pieces of about as many entries; a piece keeps its
\* own row maxima and the maxima of its columns.  FREE: nothing stored.
Under(r, c, i, j) == Log(i, j) + r[i] + c[j]
Pointer(j) == Cardinality({e \in DOMAIN asked.entry : e[2] <= j})
PieceStart(p) ==
  Min({asked.n, Cardinality({j \in 0..asked.n : Pointer(j) < (p * Pointer(asked.n)) \div asked.pieces})})
PieceColumns(p) == PieceStart(p) + 1..(IF p + 1 = asked.pieces THEN asked.n ELSE PieceStart(p + 1))
Largest(values) == IF values = {} THEN ZERO ELSE Max(values)
RowMax(r, c) ==
  [i \in Lines |-> Largest(UNION {{Under(r, c, i, j) : j \in {j \in PieceColumns(p) : Has(i, j)}} :
                                    p \in 0..asked.pieces - 1})]
ColMax(r, c) == [j \in Lines |-> Largest({Under(r, c, i, j) : i \in {i \in Lines : Has(i, j)}})]
Deviation(rm, cm) ==
  Max({0} \cup {IF x < 0 THEN -x ELSE x : x \in ({rm[i] : i \in Lines} \cup {cm[j] : j \in Lines}) \ {ZERO}})

\* steps_bound
MaxHalvings == 16
StepsBound(dev) == IF dev <= asked.tol THEN 1 ELSE Min({k \in 1..MaxHalvings : dev <= asked.tol * 2^k}) + 1

\* kr_guarded_update: less half the logarithm of the maximum
Halved(s, max) == [i \in Lines |-> IF max[i] = ZERO THEN s[i] ELSE s[i] - max[i] \div 2]

\* equilibrate_general, one step
StepTo(rm, cm, dev) ==
  IF eq.steps > 0 /\ dev <= asked.tol THEN [eq EXCEPT !.at = "done"]
  ELSE LET bound == IF eq.steps = 0 /\ asked.strategy = "InfNorm" THEN StepsBound(dev) ELSE eq.bound
       IN [at |-> IF eq.steps + 1 >= bound THEN "done" ELSE "step", r |-> Halved(eq.r, rm), c |-> Halved(eq.c, cm),
           bound |-> bound, steps |-> eq.steps + 1]
\* compute_infnorm, compute_onepass: the maxima before the step decide.
SymmetricStep(rm, dev) ==
  [eq EXCEPT !.r = Halved(@, rm), !.c = Halved(@, rm), !.steps = @ + 1,
     !.at = IF asked.strategy = "SymOnePass" \/ dev < asked.tol \/ eq.steps + 1 = InfNormMaxIter THEN "done" ELSE "step"]
StepOf(rm, cm, dev) == IF Mirrored THEN SymmetricStep(rm, dev) ELSE StepTo(rm, cm, dev)
DeviationUnder(r, c) == Deviation(RowMax(r, c), ColMax(r, c))
Equilibrate ==
  /\ eq.at = "step" /\ UNCHANGED <<asked, m>>
  /\ eq' = StepOf(RowMax(eq.r, eq.c), ColMax(eq.r, eq.c), DeviationUnder(eq.r, eq.c))

-----------------------------------------------------------------------------
Matches == asked.strategy \in {"Mc64Symmetric", "Mc64"}
Every(x) == [i \in Lines |-> x]
AsAsked ==
  /\ m = [at |-> IF Matches THEN "build" ELSE "idle", col |-> Every(<<>>),
          iperm |-> Every(FREE), jperm |-> Every(FREE), u |-> Every(0), v |-> Every(0), least |-> Every(<<FREE, FREE>>),
          dcol |-> Every(0), from |-> Every(1), num |-> 0, jord |-> 0, csp |-> RINF, isp |-> FREE, jsp |-> FREE,
          cur |-> FREE, d |-> Every(RINF), pr |-> Every(FREE), out |-> Every(FREE), heap |-> <<>>,
          visited |-> {}, touched |-> {}]
  /\ eq = [at |-> IF Matches \/ asked.strategy = "Identity" THEN "idle" ELSE "step",
           r |-> Every(0), c |-> Every(0), bound |-> 1, steps |-> 0]
ScalingInit == asked \in Scaled /\ AsAsked
ScalingNext ==
  BuildGraph \/ RowMinima \/ Claim \/ Improve \/ Root \/ Pop \/ Augment \/ Duals \/ Equilibrate
ScalingSpec == ScalingInit /\ [][ScalingNext]_scalingVars

-----------------------------------------------------------------------------
Entries(j) == DOMAIN m.col[j]
Neighbours(J) == UNION {ToSet(Stored(j)) : j \in J}
Matched == {j \in Lines : m.jperm[j] # FREE}

(***************************************************************************)
(* Between two searches the duals allow every entry and are tight on the   *)
(* matched ones (a free column's is 0), and rows and columns agree on who  *)
(* is matched with whom.                                                   *)
(***************************************************************************)
DualsStayFeasible ==
  m.at \in {"columns", "done"} =>
    /\ \A i \in Lines : m.iperm[i] # FREE => Perm(m.iperm[i]) = i
    /\ \A j \in Lines : m.jperm[j] # FREE => m.iperm[Perm(j)] = j
    /\ \A j \in Lines : \A k \in DOMAIN m.col[j] :
         Reduced(m.u, j, k) >= (IF m.jperm[j] = FREE THEN 0 ELSE Reduced(m.u, j, m.jperm[j]))

(***************************************************************************)
(* As many columns are matched as the pattern allows, also over searches   *)
(* that found nothing (Hall's condition gives the number).                 *)
(***************************************************************************)
MatchingIsLargest ==
  m.at = "done" =>
    /\ m.num = Cardinality(Matched)
    /\ m.num = asked.n - Max({Cardinality(J) - Cardinality(Neighbours(J)) : J \in SUBSET Lines})

(***************************************************************************)
(* "|r_i a_ij c_j| <= 1 with equality on the matched entries"; under the   *)
(* symmetric scaling of a full matching no entry exceeds one either.       *)
(***************************************************************************)
EntriesWithinOne ==
  m.at = "done" => \A j \in Lines : \A k \in Entries(j) :
    LET i == RowAt(j, k) IN
    /\ RowScale(i) + Log(i, j) + ColumnScale(j) <= 0
    /\ Perm(j) = i => RowScale(i) + Log(i, j) + ColumnScale(j) = 0
    /\ Mirrored /\ Matched = Lines => SymmetricScale(i) + 2 * Log(i, j) + SymmetricScale(j) <= 0

(***************************************************************************)
(* Once scaled no entry exceeds one, every step but the first halves what  *)
(* rows and columns are from one, and the general iteration stops at its   *)
(* bound within the tolerance.                                             *)
(***************************************************************************)
EquilibratedInBound ==
  eq.at # "idle" /\ eq.steps > 0 =>
    /\ \A i, j \in Lines : Has(i, j) => Under(eq.r, eq.c, i, j) <= 0
    /\ DeviationUnder(eq.r, eq.c) * 2^(eq.steps - 1) <= DeviationUnder(Every(0), Every(0))
    /\ eq.at = "done" /\ asked.strategy = "InfNorm" => DeviationUnder(eq.r, eq.c) <= asked.tol

ScalingIsSound == DualsStayFeasible /\ MatchingIsLargest /\ EntriesWithinOne /\ EquilibratedInBound
==============================================================================

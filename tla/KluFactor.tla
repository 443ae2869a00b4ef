------------------------------ MODULE KluFactor ------------------------------
(***************************************************************************)
(* The KLU factorization (src/src/numeric/klu/factor.rs, solver.rs): every *)
(* diagonal block of the block triangular form is factored column after    *)
(* column by Gilbert and Peierls' method, the reach of a column searched   *)
(* in the pruned columns of L, its pivot any candidate that does not       *)
(* vanish, the diagonal candidates handed on when an off-diagonal pivot    *)
(* takes a row; then the solves, the transposed solves and the replay of   *)
(* other values (KluSolver::refactor).                                     *)
(*                                                                         *)
(* The numbers are those of a prime field, so the factors are exact; which *)
(* candidate is largest, and whether the diagonal clears the threshold, is *)
(* any choice.  The blocks are factored in pieces, each with a work vector *)
(* of its own that a failed block leaves as it is.                         *)
(***************************************************************************)
EXTENDS PrimeField, TLC

\* A system: the matrix by columns (a.ptr, a.row, a.val, counted from 1), the
\* form analyzed (rowPerm, colPerm, blocks), the row scaling, the piece each
\* block belongs to, and the matrices to refactor with.
CONSTANT Systems

VARIABLES
  sys,
  status,    \* every block: "todo", "running", "done", "failed", "interrupted"
  turn,      \* the column in progress, NoColumn between blocks
  final,     \* mark[..][1]: the final position of each pre-pivot position
  lower,     \* L(:,j) by pre-pivot position
  kept,      \* lpend: the part of L(:,j) the search still reads
  upper,     \* U(:,j): <<column, value>> in elimination order
  udiag,
  diagRow,   \* the row each column has as its diagonal candidate
  diagCol,   \* and the column each row is that of
  work       \* KluScratch::x of every piece, by position in the block
factors == <<final, lower, kept, upper, udiag>>
kluVars == <<sys, status, turn, factors, diagRow, diagCol, work>>

UNPIVOTED == 0
UNPRUNED == {0}
NoColumn == 0

-----------------------------------------------------------------------------
(***************************************************************************)
(* The analyzed form.                                                      *)
(***************************************************************************)
Size == Len(sys.rowPerm)
Places == 1..Size
Parts == 1..Len(sys.blocks) - 1
PartCols(b) == sys.blocks[b]..sys.blocks[b + 1] - 1
PartOf(j) == CHOOSE b \in Parts : j \in PartCols(b)
Pre(r) == CHOOSE k \in Places : sys.rowPerm[k] = r
PieceOf(j) == sys.piece[PartOf(j)]
Local(j) == j - sys.blocks[PartOf(j)] + 1

\* Column j of a matrix in the pre-pivot space, its rows scaled.
EntriesOf(a, j) == a.ptr[sys.colPerm[j]]..a.ptr[sys.colPerm[j] + 1] - 1
Scaled(a, e) == Times(a.val[e], sys.scale[a.row[e]])
ColumnOf(a, j) ==
  [k \in {Pre(a.row[e]) : e \in EntriesOf(a, j)} |->
     Scaled(a, CHOOSE e \in EntriesOf(a, j) : Pre(a.row[e]) = k)]
InBlock(column, j) == [k \in DOMAIN column \cap PartCols(PartOf(j)) |-> column[k]]
OffBlock(column, j) == [k \in DOMAIN column \ PartCols(PartOf(j)) |-> column[k]]

KluInit ==
  /\ sys \in Systems
  /\ status = [b \in Parts |-> "todo"] /\ turn = NoColumn
  /\ final = [k \in Places |-> UNPIVOTED]
  /\ lower = [j \in Places |-> <<>>] /\ kept = [j \in Places |-> UNPRUNED]
  /\ upper = lower /\ udiag = [j \in Places |-> 0]
  /\ diagRow = [j \in Places |-> j] /\ diagCol = diagRow
  /\ work = [p \in Range(sys.piece) |-> [i \in Places |-> 0]]

-----------------------------------------------------------------------------
(***************************************************************************)
(* The blocks: the pieces of the section run theirs in order; the          *)
(* sequential driver stops at the first that fails.  Blocks share nothing, *)
(* so one at a time is in progress.                                        *)
(***************************************************************************)
Settled(b) == status[b] \notin {"todo", "running"}
NextOfPiece(b) == \A c \in Parts : c < b /\ sys.piece[c] = sys.piece[b] => Settled(c)
GoesOn == sys.parallel \/ \A b \in Parts : status[b] \notin {"failed", "interrupted"}

StartBlock(b) ==
  /\ turn = NoColumn /\ status[b] = "todo" /\ NextOfPiece(b) /\ GoesOn
  /\ turn' = sys.blocks[b]
  /\ status' = [status EXCEPT ![b] = "running"]
  /\ UNCHANGED <<sys, factors, diagRow, diagCol, work>>

InterruptBlock(b) ==
  /\ turn = NoColumn /\ status[b] = "todo" /\ NextOfPiece(b) /\ GoesOn
  /\ status' = [status EXCEPT ![b] = "interrupted"]
  /\ UNCHANGED <<sys, turn, factors, diagRow, diagCol, work>>

-----------------------------------------------------------------------------
(***************************************************************************)
(* A column.  Pass 1, the reach of its rows over the pruned columns of L:  *)
(* a row not yet pivoted is a candidate, a pivoted one leads to the rows   *)
(* its column still shows.                                                 *)
(***************************************************************************)
Shows(k) == IF kept[final[k]] = UNPRUNED THEN DOMAIN lower[final[k]] ELSE kept[final[k]]

ReachBy(Rows(_), start) ==
  FoldLeft(LAMBDA S, i : S \cup UNION {Rows(k) : k \in {x \in S : final[x] # UNPIVOTED}},
           start, [i \in Places |-> i])
Reached(j) == ReachBy(Shows, DOMAIN InBlock(ColumnOf(sys.a, j), j))

Pivotal(j) == {k \in Reached(j) : final[k] # UNPIVOTED}
Candidates(j) == {k \in Reached(j) : final[k] = UNPIVOTED}

\* The search's reverse post-order: a column before those it shows.
Orders(j) ==
  {order \in SetToSeqs(Pivotal(j)) :
     \A i, k \in DOMAIN order : order[k] \in Shows(order[i]) => i < k}

\* Pass 2: the work vector, the column scattered into it.  A singleton's
\* pivot is its entry alone.
Scattered(j) ==
  LET column == InBlock(ColumnOf(sys.a, j), j)
      first == sys.blocks[PartOf(j)]
  IN [k \in PartCols(PartOf(j)) |->
        IF k \in DOMAIN column THEN column[k]
        ELSE IF Cardinality(PartCols(PartOf(j))) = 1 THEN 0 ELSE work[PieceOf(j)][Local(k)]]

\* Pass 3: every pivotal row's value, final when its turn comes, becomes an
\* entry of U and is eliminated from the rest.
EliminateRow(st, k) ==
  [x |-> Axpy([st.x EXCEPT ![k] = 0], st.x[k], lower[final[k]]),
   u |-> Append(st.u, <<final[k], st.x[k]>>)]
Elimination(j, order) == FoldLeft(EliminateRow, [x |-> Scattered(j), u |-> <<>>], order)

Written(j, x) ==
  [work EXCEPT ![PieceOf(j)] =
     [i \in DOMAIN @ |-> LET k == sys.blocks[PartOf(j)] + i - 1 IN IF k \in DOMAIN x THEN x[k] ELSE @[i]]]

DiagRowKept(j, piv) == diagRow

\* The displaced diagonal row goes to the column whose row was taken.
DiagRow(j, piv) == [diagRow EXCEPT ![diagCol[piv]] = diagRow[j]]
DiagCol(j, piv) == [diagCol EXCEPT ![diagRow[j]] = diagCol[piv]]

PrunedAlways(j, piv, u) ==
  [s \in Places |->
     IF kept[s] = UNPRUNED /\ (\E e \in Range(u) : e[1] = s)
     THEN {k \in DOMAIN lower[s] : final[k] # UNPIVOTED \/ k = piv} ELSE kept[s]]

\* Symmetric pruning: a column of U whose L holds the pivot row shows, from
\* now on, only the rows pivoted so far.
PrunedBy(j, piv, u) ==
  [s \in Places |->
     IF kept[s] = UNPRUNED /\ (\E e \in Range(u) : e[1] = s) /\ piv \in DOMAIN lower[s]
     THEN {k \in DOMAIN lower[s] : final[k] # UNPIVOTED \/ k = piv} ELSE kept[s]]
LColumnNonzero(j, piv, x) == [k \in {c \in Candidates(j) \ {piv} : x[c] # 0} |-> Over(x[k], x[piv])]

\* Structural zeros stay: the pattern must not depend on the values.
LColumn(j, piv, x) == [k \in Candidates(j) \ {piv} |-> Over(x[k], x[piv])]

Cleared(x, rows) == [k \in DOMAIN x |-> IF k \in rows THEN 0 ELSE x[k]]

PivotColumn ==
  /\ turn # NoColumn
  /\ \E order \in Orders(turn) :
       LET el == Elimination(turn, order) IN
       \E piv \in {k \in Candidates(turn) : el.x[k] # 0} :
         /\ final' = [final EXCEPT ![piv] = turn]
         /\ lower' = [lower EXCEPT ![turn] = LColumn(turn, piv, el.x)]
         /\ upper' = [upper EXCEPT ![turn] = el.u]
         /\ udiag' = [udiag EXCEPT ![turn] = el.x[piv]]
         /\ kept' = PrunedBy(turn, piv, el.u)
         /\ diagRow' = DiagRow(turn, piv) /\ diagCol' = DiagCol(turn, piv)
         /\ work' = Written(turn, Cleared(el.x, Candidates(turn)))
  /\ LET b == PartOf(turn)
         last == turn + 1 = sys.blocks[b + 1]
     IN /\ turn' = IF last THEN NoColumn ELSE turn + 1
        /\ status' = [status EXCEPT ![b] = IF last THEN "done" ELSE @]
  /\ UNCHANGED sys

\* No candidate is left: SingularBasis.
FailColumn ==
  /\ turn # NoColumn
  /\ \E order \in Orders(turn) :
       LET el == Elimination(turn, order) IN
       /\ \A k \in Candidates(turn) : el.x[k] = 0
       /\ work' = Written(turn, el.x)
  /\ status' = [status EXCEPT ![PartOf(turn)] = "failed"]
  /\ turn' = NoColumn
  /\ UNCHANGED <<sys, factors, diagRow, diagCol>>

KluNext == PivotColumn \/ FailColumn \/ \E b \in Parts : StartBlock(b) \/ InterruptBlock(b)
KluSpec == KluInit /\ [][KluNext]_kluVars
-----------------------------------------------------------------------------
(***************************************************************************)
(* The factored solver, in final positions: the block substitutions.       *)
(***************************************************************************)
PreOf(k) == CHOOSE i \in Places : final[i] = k
RowOf(k) == sys.rowPerm[PreOf(k)]
FinalOf(column) == [k \in {final[i] : i \in DOMAIN column} |-> column[PreOf(k)]]

UOf(f, j) == [k \in {e[1] : e \in Range(f.u[j])} |-> (CHOOSE e \in Range(f.u[j]) : e[1] = k)[2]]

Factored ==
  [l |-> [j \in Places |-> FinalOf(lower[j])], u |-> upper, d |-> udiag,
   f |-> [j \in Places |-> FinalOf(OffBlock(ColumnOf(sys.a, j), j))]]

Up(b) == [i \in 1..Cardinality(PartCols(b)) |-> sys.blocks[b] + i - 1]
Down(b) == Reverse(Up(b))
Forward == [i \in Parts |-> i]

\* Blocks last to first: L, U, then the columns off the block feed the
\* earlier rows.
SolveBlock(f, w, b) ==
  LET Unit(v, j) == Axpy(v, v[j], f.l[j])
      Back(v, j) == LET x == Over(v[j], f.d[j]) IN Axpy([v EXCEPT ![j] = x], x, UOf(f, j))
      Feed(v, j) == Axpy(v, v[j], f.f[j])
  IN FoldLeft(Feed, FoldLeft(Back, FoldLeft(Unit, w, Up(b)), Down(b)), Up(b))

Solve(f, rhs) ==
  LET w == FoldLeft(LAMBDA v, b : SolveBlock(f, v, b),
                    [k \in Places |-> Times(rhs[RowOf(k)], sys.scale[RowOf(k)])], Reverse(Forward))
  IN [c \in Places |-> w[CHOOSE k \in Places : sys.colPerm[k] = c]]

\* Transposed: blocks first to last, every column gathered.
Gather(w, column) == SumMod([k \in DOMAIN column |-> Times(column[k], w[k])])
SolveBlockTransposed(f, w, b) ==
  LET Fed(v, j) == [v EXCEPT ![j] = Minus(@, Gather(v, f.f[j]))]
      Fore(v, j) == [v EXCEPT ![j] = Over(Minus(@, Gather(v, UOf(f, j))), f.d[j])]
      Unit(v, j) == [v EXCEPT ![j] = Minus(@, Gather(v, f.l[j]))]
  IN FoldLeft(Unit, FoldLeft(Fore, FoldLeft(Fed, w, Up(b)), Up(b)), Down(b))

SolveTransposed(f, rhs) ==
  LET w == FoldLeft(LAMBDA v, b : SolveBlockTransposed(f, v, b),
                    [k \in Places |-> rhs[sys.colPerm[k]]], Forward)
  IN [r \in Places |-> Times(w[final[Pre(r)]], sys.scale[r])]

-----------------------------------------------------------------------------
(***************************************************************************)
(* KluSolver::refactor, column after column: the entries must lie in the   *)
(* rows recorded at factor time, entry by entry, and go where the entry of *)
(* the factored matrix went.                                               *)
(***************************************************************************)
Entries(a) == 1..Len(a.row)
ColumnAt(a, e) == CHOOSE j \in Places : e \in EntriesOf(a, j)
Accepts(a) ==
  /\ Len(a.row) = Len(sys.a.row)
  /\ \A e \in Entries(a) : a.row[e] = sys.a.row[e]

\* scatter_target: off the block, or a position of the work vector.
IsOffBlock(e) == Pre(sys.a.row[e]) < sys.blocks[PartOf(ColumnAt(sys.a, e))]
TargetOf(e) == final[Pre(sys.a.row[e])]

ReplayColumn(a, st, j) ==
  LET mine == EntriesOf(a, j)
      at(k) == {e \in mine : ~IsOffBlock(e) /\ TargetOf(e) = k}
      x0 == [k \in Places |-> IF at(k) = {} THEN st.x[k] ELSE Scaled(a, Max(at(k)))]
      Replay(r, e) == [x |-> Axpy([r.x EXCEPT ![e[1]] = 0], r.x[e[1]], st.l[e[1]]),
                       u |-> Append(r.u, <<e[1], r.x[e[1]]>>)]
      done == FoldLeft(Replay, [x |-> x0, u |-> <<>>], upper[j])
      d == done.x[j]
      rows == DOMAIN FinalOf(lower[j])
      off == {e \in mine : IsOffBlock(e)}
  IN IF st.fails \/ d = 0 THEN [st EXCEPT !.fails = TRUE]
     ELSE [fails |-> FALSE,
           x |-> Cleared(done.x, rows \cup {j}),
           l |-> [st.l EXCEPT ![j] = [k \in rows |-> Over(done.x[k], d)]],
           u |-> [st.u EXCEPT ![j] = done.u],
           d |-> [st.d EXCEPT ![j] = d],
           f |-> [st.f EXCEPT ![j] = [k \in {TargetOf(e) : e \in off} |->
                    Scaled(a, CHOOSE e \in off : TargetOf(e) = k)]]]

Replayed(a) ==
  FoldLeft(LAMBDA st, j : ReplayColumn(a, st, j),
           Factored @@ [x |-> [k \in Places |-> 0], fails |-> FALSE], [j \in Places |-> j])

-----------------------------------------------------------------------------
Finished == turn = NoColumn /\ (GoesOn => \A b \in Parts : Settled(b))
Broken == {b \in Parts : status[b] \in {"failed", "interrupted"}}

Unit(i) == [k \in Places |-> IF k = i THEN 1 ELSE 0]
\* Original column c of a matrix, as a vector over the rows.
Dense(a, c) ==
  [r \in Places |-> LET here == {e \in a.ptr[c]..a.ptr[c + 1] - 1 : a.row[e] = r} IN
                    IF here = {} THEN 0 ELSE a.val[CHOOSE e \in here : TRUE]]
SolvesFor(a, f) ==
  \A i \in Places :
    LET x == Solve(f, Unit(i))
        y == SolveTransposed(f, Unit(i))
    IN \A k \in Places :
         /\ SumMod([c \in Places |-> Times(Dense(a, c)[k], x[c])]) = Unit(i)[k]
         /\ SumMod([r \in Places |-> Times(Dense(a, k)[r], y[r])]) = Unit(i)[k]

\* While a block is in progress its columns to come and its rows not pivoted
\* yet stay matched, and every such column will reach the row matched to it:
\* the diagonal stays zero-free whatever rows were taken.
DiagonalStaysZeroFree ==
  turn # NoColumn =>
    LET ahead == {j \in PartCols(PartOf(turn)) : j >= turn}
        rows == {k \in PartCols(PartOf(turn)) : final[k] = UNPIVOTED}
    IN /\ {diagRow[j] : j \in ahead} = rows
       /\ \A j \in ahead :
            /\ diagCol[diagRow[j]] = j
            /\ diagRow[j] \in ReachBy(LAMBDA k : DOMAIN lower[final[k]], DOMAIN InBlock(ColumnOf(sys.a, j), j))

\* A factorization that ends well solves A x = b and A^T x = b, whatever the
\* pivots, the order of the blocks and what another block left in the work
\* vector: the pruned search missed no row and no value was used before it was
\* final.  Until then the diagonal stays zero-free.
FactorSolves ==
  /\ DiagonalStaysZeroFree
  /\ Finished /\ Broken = {} => SolvesFor(sys.a, Factored)

\* One that fails names the first column, of the first block in order, that
\* depends on the columns of the block before it: what a sequential run
\* reports, whatever the pieces ran before and after.
BlockVectors(b) ==
  [j \in PartCols(b) |-> [k \in PartCols(b) |->
     LET column == ColumnOf(sys.a, j) IN IF k \in DOMAIN column THEN column[k] ELSE 0]]
FirstDependent(b) == {j \in PartCols(b) : Dependent(BlockVectors(b), j)}
FailsAtTheFirstDependentColumn ==
  (Finished /\ Broken # {}) =>
    LET b == Min(Broken)
        column == Min({j \in PartCols(b) : j \notin Range(final)})
    IN /\ \A c \in Parts : c < b => FirstDependent(c) = {}
       /\ status[b] = "failed" => FirstDependent(b) # {} /\ column = Min(FirstDependent(b))

\* A refactor solves the matrix it is given, fails at a vanishing pivot, or
\* rejects the matrix.
RefactorSolvesOrRejects ==
  (Finished /\ Broken = {}) =>
    \A a \in sys.others : Accepts(a) =>
      LET f == Replayed(a) IN f.fails \/ SolvesFor(a, f)

-----------------------------------------------------------------------------
(***************************************************************************)
(* What the KLU analysis predicts of the factor (klu/symbolic.rs): the     *)
(* estimate read off the blocks' symmetrized Cholesky structure            *)
(* (order_blocks), the exact fill and replay work under diagonal pivots    *)
(* (symbolic_fill_uncached), and the same work as the factorization counts *)
(* it for the replay plan (compute_replay_plan in factor.rs).              *)
(***************************************************************************)
LOCAL CC == INSTANCE EliminationTree

COL_WORK == 32

RowsOf(j) == DOMAIN ColumnOf(sys.a, j)
OwnRows(j) == DOMAIN InBlock(ColumnOf(sys.a, j), j)
Total(f) == FoldSet(LAMBDA k, s : s + f[k], 0, DOMAIN f)
OffBlockCount == Total([j \in Places |-> Cardinality(RowsOf(j) \ OwnRows(j))])

-----------------------------------------------------------------------------
(***************************************************************************)
(* Per block: B + B^T and the diagonal, its elimination tree and column    *)
(* counts; a block of one or two columns is taken dense.                   *)
(***************************************************************************)
Symmetrized(b) ==
  LET first == sys.blocks[b] IN
  [i \in 1..Cardinality(PartCols(b)) |->
     LET j == first + i - 1
         rows == {j} \cup OwnRows(j) \cup {k \in PartCols(b) : j \in OwnRows(k)}
     IN SetToSortSeq({k - first + 1 : k \in rows}, <)]

BlockCounts(b) ==
  LET cols == Symmetrized(b) IN
  CC!Gnp(CC!FromCols(cols), cols, [i \in DOMAIN cols |-> 1])

PredictedEntries(b) ==
  LET bn == Cardinality(PartCols(b)) IN
  IF bn <= 2 THEN bn * bn ELSE 2 * Total(BlockCounts(b)) - bn
Estimated == Total([b \in Parts |-> PredictedEntries(b)]) + OffBlockCount

-----------------------------------------------------------------------------
(***************************************************************************)
(* The symbolic pass, column j's pivot its diagonal.                       *)
(***************************************************************************)
\* (slip) The entries of A alone.
RowsWithoutFill == [j \in Places |-> OwnRows(j)]
FillRows ==
  LET fill[j \in Places] ==
        LET Grow(S, i) == S \cup UNION {{r \in fill[k] : r > k} : k \in {x \in S : x < j}}
        IN FoldLeft(Grow, OwnRows(j), [i \in Places |-> i])
  IN fill

SymL(j) == {r \in FillRows[j] : r > j}
SymU(j) == {r \in FillRows[j] : r < j}
Symbolic(L(_), U(_)) ==
  LET level[j \in Places] == IF U(j) = {} THEN 0 ELSE 1 + Max({level[k] : k \in U(j)}) IN
  [l |-> Total([j \in Places |-> Cardinality(L(j))]),
   u |-> Total([j \in Places |-> Cardinality(U(j))]),
   f |-> OffBlockCount,
   replay |-> [b \in Parts |->
     <<Total([j \in PartCols(b) |-> COL_WORK + Total([k \in U(j) |-> Cardinality(L(k))])]),
       1 + Max({level[j] : j \in PartCols(b)})>>]]

SymbolicFill == Symbolic(SymL, SymU)

\* compute_replay_plan, on the factor.
FactorFill == Symbolic(LAMBDA j : DOMAIN lower[j], LAMBDA j : {e[1] : e \in Range(upper[j])})

Entered(fill) == fill.l + fill.u + Size + fill.f

-----------------------------------------------------------------------------
\* A factorization that never left the diagonal has exactly the entries, the
\* replay work and the levels the symbolic pass foretold, though one searches
\* pruned columns and the other whole ones, and never more than the estimate
\* from the symmetrized blocks (George and Ng).
FillIsPredicted ==
  (Finished /\ Broken = {}) =>
    /\ (\A k \in Places : final[k] = k) => FactorFill = SymbolicFill
    /\ Entered(SymbolicFill) <= Estimated
==============================================================================

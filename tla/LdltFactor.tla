------------------------------ MODULE LdltFactor ------------------------------
(***************************************************************************)
(* The numeric LDL^T factorization (src/src/numeric/ldlt): supernode by    *)
(* supernode, each assembled from A, updated by its factored descendants   *)
(* (ll_factor_node), and factored in panels of nb columns with 1x1 and 2x2 *)
(* pivots bounded to the panel (ll_bk_panel_step), the deep rows replayed  *)
(* afterwards (apply_bk_panel_trailing), the trailing columns updated once *)
(* a panel is done, and the next panel factored while the update of the    *)
(* columns past it still runs (ll_cdiv_emit).                              *)
(*                                                                         *)
(* The arithmetic is exact, modulo P.  Magnitudes are gone with it: where  *)
(* the code compares them, any pivot it could come to choose is chosen,    *)
(* and a pivot is below the floor where it is zero.  Matrices are their    *)
(* lower triangle; indices count from 1, in the analysis' order unless     *)
(* said otherwise.  The inertia is not modelled.                           *)
(***************************************************************************)
EXTENDS PrimeField

CONSTANTS
  Systems,  \* [width, below, perm, entry, scale]: the supernodes' widths, the rows below
            \* each, the fill-reducing order, A by its lower triangle, the scaling
  Tunings   \* [nb, sb, tile, look, floor]: panel width, replay sub-block, update tile,
            \* lookahead, pivot floor

VARIABLES
  system, tuning,
  node,     \* the supernode being factored and its buffers, or Idle
  factored, \* what each factored supernode left: panel, D, row order
  eOfG,     \* LlEmitLdlt.e_of_g
  emitted   \* the rows of each emitted panel, by elimination position
ldltVars == <<system, tuning, node, factored, eOfG, emitted>>

Idle == [s |-> 0]
Failed == [s |-> -1]

Nodes == DOMAIN system.width
Offset(s) == FoldLeftDomain(LAMBDA sum, k : IF k < s THEN sum + system.width[k] ELSE sum, 0, system.width)
NodeCols(s) == (Offset(s) + 1)..(Offset(s) + system.width[s])
Size == Offset(Len(system.width)) + system.width[Len(system.width)]
NodeRows(s) ==
  SelectSeq([g \in 1..Size |-> g], LAMBDA g : g \in NodeCols(s) \cup system.below[s])
PanelOf(s) == {<<i, j>> \in (1..Len(NodeRows(s))) \X (1..system.width[s]) : i >= j}
LocalRow(s, g) == CHOOSE i \in DOMAIN NodeRows(s) : NodeRows(s)[i] = g

ReadBy(k) == {s \in Nodes : k < s /\ NodeCols(s) \cap system.below[k] # {}}
UpdatersOf(s) == {k \in Nodes : s \in ReadBy(k)}

-----------------------------------------------------------------------------
(***************************************************************************)
(* D: the diagonal, the sub-diagonal of the 2x2 blocks, and the flags of   *)
(* their first columns; its product with a row of L.                       *)
(***************************************************************************)
EmptyD(s) ==
  [diag |-> [c \in 1..system.width[s] |-> 0], sub |-> [c \in 1..system.width[s] |-> 0], pairs |-> {}]
ByD(D, row) ==
  [c \in DOMAIN row |->
     (D.diag[c] * row[c]
        + (IF c \in D.pairs THEN D.sub[c] * row[c + 1]
           ELSE IF c - 1 \in D.pairs THEN D.sub[c - 1] * row[c - 1] ELSE 0)) % P]

Dot(x, y) == SumMod([c \in DOMAIN x |-> Times(x[c], y[c])])
RowOf(a, i, columns) == [c \in columns |-> a[<<i, c>>]]

\* A's lower triangle is folded: an entry of the permuted matrix is where the
\* larger original index is the row.
Folded(i, j) == <<Max({i, j}), Min({i, j})>>
Stored(i, j) == system.entry[Folded(i, j)]

\* The input: entry (g, h) of the permuted matrix, scaled.
Input(g, h) ==
  LET i == system.perm[g]
      j == system.perm[h]
  IN (Stored(i, j) * system.scale[i] * system.scale[j]) % P

\* cmod: what the factored supernode k has at two rows past its own columns.
LandsOf(k, g, h) ==
  LET done == factored[k]
      cols == 1..system.width[k]
  IN IF {g, h} \subseteq system.below[k]
     THEN Dot(RowOf(done.a, LocalRow(k, g), cols), ByD(done.d, RowOf(done.a, LocalRow(k, h), cols)))
     ELSE 0

\* The panel assembled from A's lower triangle, less its updaters' products.
Assembled(s) ==
  [e \in PanelOf(s) |->
     LET g == NodeRows(s)[e[1]]
         h == NodeRows(s)[e[2]]
     IN Minus(Input(g, h), SumMod([k \in UpdatersOf(s) |-> LandsOf(k, g, h)]))]

PanelEnd(s, kb) == Min({kb + Min({tuning.nb, system.width[s]}) - 1, system.width[s]})

LdltInit ==
  /\ system \in Systems /\ tuning \in Tunings
  /\ node = Idle
  /\ factored = [s \in {} |-> 0] /\ eOfG = [g \in {} |-> 0] /\ emitted = [s \in {} |-> 0]

Assemble(s) ==
  /\ node = Idle /\ s \notin DOMAIN factored /\ UpdatersOf(s) \subseteq DOMAIN factored
  /\ node' = [s |-> s, a |-> Assembled(s), rows |-> [i \in DOMAIN NodeRows(s) |-> i],
              d |-> EmptyD(s), kb |-> 1, k |-> 1, steps |-> <<>>, replayed |-> FALSE,
              wide |-> [e \in {} |-> 0], floors |-> [c \in 1..system.width[s] |-> 0]]
  /\ UNCHANGED <<system, tuning, factored, eOfG, emitted>>

Running == node \notin {Idle, Failed}
Ke == PanelEnd(node.s, node.kb)
Deep == Ke + 1..Len(NodeRows(node.s))

-----------------------------------------------------------------------------
(***************************************************************************)
(* One pivot of a panel, over the panel's rows alone.                      *)
(***************************************************************************)
Exchange(p, q) == [i \in DOMAIN node.rows |-> IF i = p THEN q ELSE IF i = q THEN p ELSE i]

\* swap_sym_lower_bounded: rows and columns p and q, above the deep rows.
Swapped(a, p, q) ==
  LET to == Exchange(p, q) IN
  [e \in DOMAIN a |->
     IF e[1] > Ke THEN a[e]
     ELSE LET x == {to[e[1]], to[e[2]]} IN a[<<Max(x), Min(x)>>]]

\* The choices of Bunch-Kaufman: the diagonal, the row of the largest entry
\* below it, or the two of them as a block.  An entry that is the largest of
\* a column is not zero unless the column is.
Pivots ==
  LET a == node.a
      k == node.k
      entries == {i \in k + 1..Ke : a[<<i, k>>] # 0}
  IN {p \in {[size |-> 1, from |-> k]} : entries = {} \/ a[<<k, k>>] # 0}
       \cup {[size |-> 1, from |-> i] : i \in {j \in entries : a[<<j, j>>] # 0}}
       \cup {[size |-> 2, from |-> i] : i \in entries}

\* The pivot's row or column it is moved to.
EndOf(p) == node.k + p.size - 1

Det(d, lift) == ((d[1] + lift) * (d[3] + lift) - d[2] * d[2]) % P
Block(a, p) ==
  IF p.size = 1 THEN <<a[<<node.k, node.k>>], 0, 1>>
  ELSE <<a[<<node.k, node.k>>], a[<<node.k + 1, node.k>>], a[<<node.k + 1, node.k + 1>>]>>

\* What a floor adds to the diagonal of a block that has vanished: any number
\* that brings one entry above the floor, the least that brings a pair.
Lifts(p, d) ==
  IF p.size = 1 THEN IF d[1] # 0 THEN {0} ELSE 1..2
  ELSE {Min({l \in Num : Det(d, l) # 0})}
Lifted(p, d, l) == IF p.size = 1 THEN <<(d[1] + l) % P, 0, 1>> ELSE <<(d[1] + l) % P, d[2], (d[3] + l) % P>>
Vanished(p, d) == IF p.size = 1 THEN d[1] = 0 ELSE Det(d, 0) = 0

\* A row's entries of the pivot's columns as entries of L.
Solved(p, d, w) ==
  IF p.size = 1 THEN [c \in {p.k} |-> Over(w[p.k], d[1])]
  ELSE [c \in {p.k, p.k + 1} |->
          IF c = p.k THEN Over((d[3] * w[p.k] - d[2] * w[p.k + 1]) % P, Det(d, 0))
          ELSE Over((d[1] * w[p.k + 1] - d[2] * w[p.k]) % P, Det(d, 0))]

\* The step as it is replayed: its columns, its exchange (0 for none), its
\* block and the multipliers of the panel's columns as they are now.
StepOf(a, p, d) ==
  LET at == [k |-> node.k, size |-> p.size] IN
  [k |-> node.k, size |-> p.size, swap |-> IF p.from = EndOf(p) THEN 0 ELSE p.from, d |-> d,
   mult |-> [j \in EndOf(p) + 1..Ke |-> Solved(at, d, RowOf(a, j, node.k..EndOf(p)))]]

Eliminated(a, step) ==
  LET end == step.k + step.size - 1 IN
  [e \in DOMAIN a |->
     IF e[1] > Ke \/ e[1] <= end THEN a[e]
     ELSE IF e[2] \in step.k..end THEN step.mult[e[1]][e[2]]
     ELSE IF e[2] > end THEN Minus(a[e], Dot(RowOf(a, e[1], step.k..end), step.mult[e[2]]))
     ELSE a[e]]

WithBlock(D, step) ==
  IF step.size = 1 THEN [D EXCEPT !.diag[step.k] = step.d[1]]
  ELSE [diag |-> [D.diag EXCEPT ![step.k] = step.d[1], ![step.k + 1] = step.d[3]],
        sub |-> [D.sub EXCEPT ![step.k] = step.d[2]],
        pairs |-> D.pairs \cup {step.k}]

Pivot ==
  /\ Running /\ node.k <= Ke
  /\ \E p \in Pivots :
       LET a == IF p.from = EndOf(p) THEN node.a ELSE Swapped(node.a, EndOf(p), p.from)
           d == Block(a, p)
           Factor(lift) ==
             LET step == StepOf(a, p, Lifted(p, d, lift)) IN
             [node EXCEPT !.a = Eliminated(a, step),
                          !.rows = [i \in DOMAIN @ |-> @[Exchange(EndOf(p), p.from)[i]]],
                          !.d = WithBlock(@, step),
                          !.k = @ + p.size,
                          !.steps = Append(@, step),
                          !.floors = [c \in DOMAIN @ |-> IF c \in node.k..EndOf(p) THEN lift ELSE @[c]]]
       IN IF Vanished(p, d) /\ ~tuning.floor THEN node' = Failed
          ELSE \E lift \in Lifts(p, d) : node' = Factor(lift)
  /\ UNCHANGED <<system, tuning, factored, eOfG, emitted>>

-----------------------------------------------------------------------------
(***************************************************************************)
(* apply_bk_panel_trailing: the steps of the panel on one deep row, in     *)
(* sub-blocks of sb columns.  A step updates its own sub-block at once; the *)
(* columns past it get the pending steps together, from the row's entries  *)
(* before their division (w), at the sub-block's end or before a column    *)
(* past it is exchanged.                                                   *)
(***************************************************************************)
\* A pair is never split: it extends its sub-block by a column.
SubBlockEnd(kb2) ==
  LET end == Min({kb2 + tuning.sb - 1, Ke}) IN IF end < Ke /\ end \in node.d.pairs THEN end + 1 ELSE end

\* (slip) The multipliers read from the finished panel.
MultOfPanel(step, c, j) == node.a[<<j, c>>]
MultOfStep(step, c, j) == step.mult[j][c]

FlushesFirst(step, end) == step.swap > end

Flushed(row, w, pending, end) ==
  [j \in DOMAIN row |->
     IF j <= end THEN row[j]
     ELSE Minus(row[j], SumMod([c \in pending |->
            Times(w[c], MultOfStep(node.steps[CHOOSE n \in DOMAIN node.steps :
                          c \in node.steps[n].k..node.steps[n].k + node.steps[n].size - 1], c, j))]))]

\* The replay so far: the row, its entries before division, the columns
\* pending and the sub-block's end.
ReplayStep(at, step) ==
  LET end == IF step.k > at.end THEN SubBlockEnd(step.k) ELSE at.end
      cols == step.k..step.k + step.size - 1
      early == FlushesFirst(step, end)
      row == IF early THEN Flushed(at.row, at.w, at.pending, end) ELSE at.row
      last == step.k + step.size - 1
      swapped == IF step.swap = 0 THEN row ELSE [row EXCEPT ![last] = row[step.swap], ![step.swap] = row[last]]
      updated == [j \in DOMAIN row |->
                    IF j \in last + 1..end
                    THEN Minus(swapped[j], SumMod([c \in cols |-> Times(swapped[c], MultOfStep(step, c, j))]))
                    ELSE swapped[j]]
      w == [j \in DOMAIN row |-> IF j \in cols THEN swapped[j] ELSE at.w[j]]
      solved == [j \in DOMAIN row |->
                   IF j \in cols THEN Solved(step, step.d, [c \in cols |-> swapped[c]])[j] ELSE updated[j]]
      pending == (IF early THEN {} ELSE at.pending) \cup cols
  IN IF last >= end THEN [row |-> Flushed(solved, w, pending, end), w |-> w, pending |-> {}, end |-> end]
     ELSE [row |-> solved, w |-> w, pending |-> pending, end |-> end]

ReplayedRow(row) ==
  FoldLeft(ReplayStep, [row |-> row, w |-> row, pending |-> {}, end |-> 0], node.steps).row

Replay ==
  /\ Running /\ node.k > Ke /\ node.kb <= Ke /\ ~node.replayed
  /\ LET cols == node.kb..Ke
         row == [i \in Deep |-> ReplayedRow(RowOf(node.a, i, cols))]
     IN node' = [node EXCEPT !.a = [e \in DOMAIN @ |-> IF e[1] \in Deep /\ e[2] \in cols THEN row[e[1]][e[2]] ELSE @[e]],
                             !.replayed = TRUE]
  /\ UNCHANGED <<system, tuning, factored, eOfG, emitted>>

-----------------------------------------------------------------------------
(***************************************************************************)
(* The deferred update of the columns past the panel, from its columns as  *)
(* they are now; with lookahead the next panel's columns only, the rest    *)
(* (`wide') while that panel is factored.                                  *)
(***************************************************************************)
Trails == {e \in DOMAIN node.a : e[2] > Ke}
Updates ==
  LET cols == node.kb..Ke
      scaled == [i \in Deep |-> ByD(node.d, [c \in DOMAIN node.d.diag |-> IF c \in cols THEN node.a[<<i, c>>] ELSE 0])]
  IN [e \in Trails |-> SumMod([c \in cols |-> Times(scaled[e[1]][c], node.a[<<e[2], c>>])])]

\* schur_tiles: the columns lo..hi in tiles, each its diagonal block, of which
\* the lower triangle is subtracted, and blocks of the rows below.
Pieces(lo, hi) ==
  LET w == tuning.tile
      tiles == {a..Min({a + w - 1, hi}) : a \in {c \in lo..hi : (c - lo) % w = 0}}
      below(t) == {r..Min({r + w - 1, Len(NodeRows(node.s))}) :
                     r \in {q \in Max(t) + 1..Len(NodeRows(node.s)) : (q - Max(t) - 1) % w = 0}}
  IN UNION {{{<<i, j>> \in t \X t : i >= j}} \cup {r \X t : r \in below(t)} : t \in tiles}

Less(a, updates, pieces) ==
  [e \in DOMAIN a |->
     IF e \in DOMAIN updates THEN Minus(a[e], updates[e] * Cardinality({x \in pieces : e \in x})) ELSE a[e]]

AtOnce(next) == {e \in Trails : e[2] <= next}

UpdateTrailing ==
  /\ Running /\ node.replayed /\ node.wide = [e \in {} |-> 0]
  /\ LET next == PanelEnd(node.s, Ke + 1)
         look == tuning.look /\ next < system.width[node.s]
         now == IF look THEN AtOnce(next) ELSE Trails
         updates == Updates
         pieces == Pieces(Ke + 1, IF look THEN next ELSE system.width[node.s])
     IN node' = [node EXCEPT !.a = Less(@, Restrict(updates, now), pieces),
                             !.wide = Restrict(updates, Trails \ now),
                             !.kb = Ke + 1, !.k = Ke + 1, !.steps = <<>>, !.replayed = FALSE]
  /\ UNCHANGED <<system, tuning, factored, eOfG, emitted>>

UpdateWide ==
  /\ Running /\ node.wide # [e \in {} |-> 0]
  /\ node' = [node EXCEPT !.a = Less(@, node.wide, Pieces(Ke + 1, system.width[node.s])),
                          !.wide = [e \in {} |-> 0]]
  /\ UNCHANGED <<system, tuning, factored, eOfG, emitted>>

-----------------------------------------------------------------------------
(***************************************************************************)
(* The end of ll_cdiv_emit: the node's columns numbered in pivot order.    *)
(* ldlt_emit_and_free: a panel every reader is done with gets its rows'    *)
(* elimination positions.                                                  *)
(***************************************************************************)
NumberColumns ==
  /\ Running /\ node.kb > system.width[node.s]
  /\ LET s == node.s
         at(g) == CHOOSE p \in 1..system.width[s] : NodeRows(s)[node.rows[p]] = g
     IN /\ eOfG' = [g \in DOMAIN eOfG \cup NodeCols(s) |-> IF g \in NodeCols(s) THEN Offset(s) + at(g) ELSE eOfG[g]]
        /\ factored' = [t \in DOMAIN factored \cup {s} |->
                          IF t = s THEN [a |-> node.a, d |-> node.d, floors |-> node.floors] ELSE factored[t]]
  /\ node' = Idle
  /\ UNCHANGED <<system, tuning, emitted>>

Emit(k) ==
  /\ k \in DOMAIN factored \ DOMAIN emitted /\ ReadBy(k) \subseteq DOMAIN factored
  /\ LET rows == [i \in system.width[k] + 1..Len(NodeRows(k)) |->
                    IF NodeRows(k)[i] \in DOMAIN eOfG THEN eOfG[NodeRows(k)[i]] ELSE 0]
     IN emitted' = [t \in DOMAIN emitted \cup {k} |-> IF t = k THEN rows ELSE emitted[t]]
  /\ UNCHANGED <<system, tuning, node, factored, eOfG>>

LdltNext ==
  \/ \E s \in Nodes : Assemble(s) \/ Emit(s)
  \/ Pivot \/ Replay \/ UpdateTrailing \/ UpdateWide \/ NumberColumns

LdltSpec == LdltInit /\ [][LdltNext]_ldltVars

-----------------------------------------------------------------------------
(***************************************************************************)
(* The factor is one of the matrix, its rows and columns in pivot order,   *)
(* plus what the floors added to the diagonal: whichever pivots each panel *)
(* chose, in panels and sub-blocks of whatever width, the exchanges of a   *)
(* panel reaching the deep rows later, the wide update falling between any *)
(* two pivots of the panel ahead.                                          *)
(***************************************************************************)
OwnerOfColumn(e) == CHOOSE s \in Nodes : e \in NodeCols(s)
EntryOfL(e, c) ==
  LET s == OwnerOfColumn(c)
      f == factored[s]
      p == c - Offset(s)
  IN IF e = c THEN 1
     ELSE IF e < c THEN 0
     ELSE IF e \in NodeCols(s)
     THEN IF p \in f.d.pairs /\ e = c + 1 THEN 0 ELSE f.a[<<e - Offset(s), p>>]
     ELSE SumMod([i \in {j \in DOMAIN emitted[s] : emitted[s][j] = e} |-> f.a[<<i, p>>]])
WholeD ==
  [diag |-> [e \in 1..Size |-> factored[OwnerOfColumn(e)].d.diag[e - Offset(OwnerOfColumn(e))]],
   sub |-> [e \in 1..Size |-> factored[OwnerOfColumn(e)].d.sub[e - Offset(OwnerOfColumn(e))]],
   pairs |-> {e \in 1..Size : (e - Offset(OwnerOfColumn(e))) \in factored[OwnerOfColumn(e)].d.pairs}]
PositionOf(i) == eOfG[CHOOSE g \in 1..Size : system.perm[g] = i]
\* What the floors added to the unscaled matrix at index i.
FloorOf(i) ==
  LET e == PositionOf(i)
      s == OwnerOfColumn(e)
  IN Over(factored[s].floors[e - Offset(s)], Times(system.scale[i], system.scale[i]))

LdltIsTheMatrix ==
  DOMAIN emitted = Nodes =>
    /\ DOMAIN eOfG = 1..Size /\ Cardinality(Range(eOfG)) = Size
    /\ LET L == [e \in 1..Size |-> [c \in 1..Size |-> EntryOfL(e, c)]]
           D == WholeD
           scaled == [e \in 1..Size |-> ByD(D, L[e])]
       IN \A i, j \in 1..Size : i >= j =>
            Dot(scaled[PositionOf(i)], L[PositionOf(j)])
              = ((system.entry[<<i, j>>] + (IF i = j THEN FloorOf(i) ELSE 0)) * system.scale[i] * system.scale[j]) % P
===============================================================================

----------------------------- MODULE SparseFormats -----------------------------
(***************************************************************************)
(* Matrices on their way into the solver: the Matrix Market reader and     *)
(* writer (src/src/io/mtx.rs), the compressed columns a list of entries is *)
(* assembled into (src/src/sparse/), the patterns derived from them, and   *)
(* what the Python package takes over from SciPy                           *)
(* (src/python/src/common.rs).                                             *)
(*                                                                         *)
(* Rows, columns and slots count from one; column j of a matrix holds the  *)
(* slots ptr[j] + 1 .. ptr[j + 1].  A value is re and im, each the list of *)
(* numbers summed into it written as digits to the base 100: 302 is 3 + 2  *)
(* in this order, 0 the empty sum.  So two values are equal exactly where  *)
(* the code makes the same additions in the same order.                    *)
(*                                                                         *)
(* A line of a file is its words.  A number is a word that can be read as  *)
(* an index and as a value; the other words are named below.               *)
(***************************************************************************)
EXTENDS Integers, Sequences, FiniteSets, SequencesExt, FiniteSetsExt

CONSTANTS
  Files,      \* files to read: a banner and lines
  Arrays,     \* matrices given as arrays
  Readers,    \* the readers tried on every file, of AllReaders
  IndexMax    \* PatternIndex::MAX

FRACTION == -1   \* a value that is no index
NAN == -2        \* parses, to a value that is not finite
JUNK == -3       \* parses as nothing
PERCENT == -4    \* a word that starts a comment

NONE == [n |-> -1]
ANY == <<>>
AllReaders == {<<"real", "symmetric">>, <<"complex", "symmetric">>, <<"complex", "general">>, ANY}

-----------------------------------------------------------------------------
(* Values and arrays.                                                      *)

Zero == [re |-> 0, im |-> 0]
Joined(u, v) == IF v = 0 THEN u ELSE 100 * u + v
Plus(u, v) == [re |-> Joined(u.re, v.re), im |-> Joined(u.im, v.im)]
\* The product with a scale: a number of its own for every factor and scale.
Times(v, s) == [re |-> IF v.re = 0 THEN 0 ELSE 20 * s + v.re, im |-> IF v.im = 0 THEN 0 ELSE 20 * s + v.im]

Cells(n) == (1..n) \X (1..n)
Places(s) == [k \in 1..Len(s) |-> k]
Upto(n) == [k \in 1..n |-> k]
Flat(columns) == FlattenSeq(columns)
Starts(columns) == [j \in 1..Len(columns) + 1 |-> Len(FlattenSeq(SubSeq(columns, 1, j - 1)))]
ColumnOf(a, j) == SubSeq(a.idx, a.ptr[j] + 1, a.ptr[j + 1])
\* The entries in the order a walk over the columns meets them.
Stored(a) == Flat([j \in 1..a.n |-> [p \in 1..Len(ColumnOf(a, j)) |->
  [i |-> ColumnOf(a, j)[p], j |-> j, v |-> a.val[a.ptr[j] + p]]]])

-----------------------------------------------------------------------------
(* Entries into compressed columns.                                        *)

\* What stays of a sorted list: everything that differs from the one before.
FirstOfItsKind(s) == {p \in 1..Len(s) : p = 1 \/ s[p] # s[p - 1]}
Deduped(s) == [p \in 1..Cardinality(FirstOfItsKind(s)) |-> s[SetToSortSeq(FirstOfItsKind(s), <)[p]]]

EntriesOf(cols, j) == SelectSeq(Places(cols), LAMBDA k : cols[k] = j)
Layout(n, rows, cols) ==
  LET inOrder == [j \in 1..n |-> SortSeq(EntriesOf(cols, j), LAMBDA k, l : rows[k] < rows[l])]
      column == [j \in 1..n |-> [p \in 1..Len(inOrder[j]) |-> rows[inOrder[j][p]]]]
      kept == [j \in 1..n |-> Deduped(column[j])]
      placeOf(k) == CHOOSE p \in DOMAIN inOrder[cols[k]] : inOrder[cols[k]][p] = k
      newBefore(k) == {p \in FirstOfItsKind(column[cols[k]]) : p <= placeOf(k)}
  IN IF Len(rows) # Len(cols) \/ \E k \in DOMAIN rows : rows[k] > n \/ cols[k] > n
     THEN NONE
     ELSE [n |-> n, ptr |-> Starts(kept), idx |-> Flat(kept),
           slot |-> [k \in DOMAIN rows |-> Starts(kept)[cols[k]] + Cardinality(newBefore(k))]]
LayoutOf(a) == [n |-> a.n, ptr |-> a.ptr, idx |-> a.idx, slot |-> Places(a.idx)]

\* The values vals[k] added one after the other to the slots at[k].
AddedUp(slots, at, vals) ==
  FoldLeft(LAMBDA out, k : [out EXCEPT ![at[k]] = Plus(@, vals[k])], [s \in 1..slots |-> Zero], Upto(Len(vals)))
Scatter(l, vals) == AddedUp(Len(l.idx), l.slot, vals)
\* Runs of values, each with its scale, and the rest of the entries all alike.
ScatterScaled(l, parts, rest) ==
  LET runsEnd == FoldLeft(LAMBDA k, p : k + Len(p.vals), 0, parts)
      startOf(q) == FoldLeft(LAMBDA k, p : k + Len(p.vals), 0, SubSeq(parts, 1, q - 1))
      add(out, k, v) == [out EXCEPT ![l.slot[k]] = Plus(@, v)]
      run(out, q) == FoldLeft(LAMBDA o, i : add(o, startOf(q) + i, Times(parts[q].vals[i], parts[q].scale)),
                              out, Upto(Len(parts[q].vals)))
      runs == FoldLeft(run, [s \in DOMAIN l.idx |-> Zero], Upto(Len(parts)))
  IN FoldLeft(LAMBDA out, k : add(out, runsEnd + k, rest), runs, Upto(Len(l.slot) - runsEnd))

Matrix(l, values) == [n |-> l.n, ptr |-> l.ptr, idx |-> l.idx, val |-> values]
GeneralOf(n, rows, cols, vals) ==
  IF Len(rows) # Len(cols) \/ Len(cols) # Len(vals) \/ Layout(n, rows, cols) = NONE
  THEN NONE
  ELSE Matrix(Layout(n, rows, cols), Scatter(Layout(n, rows, cols), vals))
LowerOf(n, rows, cols, vals) ==
  IF \E k \in DOMAIN rows : rows[k] < cols[k] THEN NONE ELSE GeneralOf(n, rows, cols, vals)

\* A dense matrix by rows, its zeros left out; of a symmetric one the lower half.
NonzerosFrom(n, dense, j, first) ==
  SelectSeq(Upto(n), LAMBDA i : i >= first /\ dense[(i - 1) * n + j] # Zero)
OfColumns(n, dense, columns) ==
  [n |-> n, ptr |-> Starts(columns), idx |-> Flat(columns),
   val |-> Flat([j \in 1..n |-> [p \in DOMAIN columns[j] |-> dense[(columns[j][p] - 1) * n + j]]])]
GeneralOfDense(n, dense) == OfColumns(n, dense, [j \in 1..n |-> NonzerosFrom(n, dense, j, 1)])
LowerOfDense(n, dense) == OfColumns(n, dense, [j \in 1..n |-> NonzerosFrom(n, dense, j, j)])

-----------------------------------------------------------------------------
(* What is accepted as a matrix.                                           *)

PointersHold(a) ==
  /\ Len(a.ptr) = a.n + 1
  /\ Len(a.idx) = Len(a.val)
  /\ a.ptr[1] = 0
  /\ a.ptr[a.n + 1] = Len(a.idx)
  /\ \A j \in 1..a.n : a.ptr[j] <= a.ptr[j + 1]
Ascends(s) == \A p \in 2..Len(s) : s[p - 1] < s[p]
Validate(a) ==
  /\ PointersHold(a)
  /\ \A j \in 1..a.n : Ascends(ColumnOf(a, j)) /\ \A p \in DOMAIN ColumnOf(a, j) : ColumnOf(a, j)[p] <= a.n
ValidateLower(a) ==
  /\ PointersHold(a)
  /\ \A j \in 1..a.n : \A p \in DOMAIN ColumnOf(a, j) : ColumnOf(a, j)[p] \in j..a.n
  /\ \A j \in 1..a.n : Ascends(ColumnOf(a, j))

-----------------------------------------------------------------------------
(* Products: the terms added to an element of y, a value and an element of *)
(* x each.                                                                 *)

MatVec(a) ==
  FoldLeft(LAMBDA y, e : [y EXCEPT ![e.i] = Append(@, <<e.v, e.j>>)], [i \in 1..a.n |-> <<>>], Stored(a))
SymV(a) ==
  LET own(y, e) == [y EXCEPT ![e.i] = Append(@, <<e.v, e.j>>)]
      mirrored(y, e) == IF e.i = e.j THEN y ELSE [y EXCEPT ![e.j] = Append(@, <<e.v, e.i>>)]
  IN FoldLeft(LAMBDA y, e : mirrored(own(y, e), e), [i \in 1..a.n |-> <<>>], Stored(a))

\* Of a block of s columns of x and y, one after the other: an entry is given
\* to every column before the next is read.
At(a, c, i) == (c - 1) * a.n + i
Given(a, y, i, j, v, s) ==
  FoldLeft(LAMBDA z, c : [z EXCEPT ![At(a, c, i)] = Append(@, <<v, At(a, c, j)>>)], y, Upto(s))
GivenBoth(a, y, e, s) ==
  FoldLeft(LAMBDA z, c : [z EXCEPT ![At(a, c, e.i)] = Append(@, <<e.v, At(a, c, e.j)>>),
                                   ![At(a, c, e.j)] = Append(@, <<e.v, At(a, c, e.i)>>)], y, Upto(s))
BlockMatVec(a, s) ==
  FoldLeft(LAMBDA y, e : Given(a, y, e.i, e.j, e.v, s), [k \in 1..s * a.n |-> <<>>], Stored(a))
BlockSymV(a, s) ==
  FoldLeft(LAMBDA y, e : IF e.i = e.j THEN Given(a, y, e.i, e.j, e.v, s) ELSE GivenBoth(a, y, e, s),
           [k \in 1..s * a.n |-> <<>>], Stored(a))

-----------------------------------------------------------------------------
(* Patterns made of a matrix.                                              *)

\* Entry (i, j) to column i: the columns are met in order, so are its rows.
InRow(a, i) == SelectSeq(Stored(a), LAMBDA e : e.i = i)
Transpose(a) ==
  LET columns == [i \in 1..a.n |-> InRow(a, i)] IN
  [n |-> a.n, ptr |-> Starts(columns),
   idx |-> [k \in 1..Len(Flat(columns)) |-> Flat(columns)[k].j],
   val |-> [k \in 1..Len(Flat(columns)) |-> Flat(columns)[k].v]]

\* The slot of (c, r) for every slot (r, c), none where one is missing.
TransposeSlots(l) ==
  LET partner(r, c) == {k \in (l.ptr[r] + 1)..l.ptr[r + 1] : l.idx[k] = c}
      pairs == Flat([c \in 1..l.n |-> [p \in 1..Len(ColumnOf(l, c)) |-> partner(ColumnOf(l, c)[p], c)]])
  IN IF {} \in ToSet(pairs) THEN NONE ELSE [n |-> l.n, pair |-> [k \in DOMAIN pairs |-> Min(pairs[k])]]

\* Above a column of the lower triangle comes its row, which is met in order.
FromRow(a, c) == LET r == SelectSeq(InRow(a, c), LAMBDA e : e.j # c) IN [p \in DOMAIN r |-> r[p].j]
OfPattern(n, columns) ==
  IF n > IndexMax \/ Len(Flat(columns)) > IndexMax THEN NONE
  ELSE [n |-> n, ptr |-> Starts(columns), idx |-> Flat(columns)]
SymmetricPatternSorted(a) ==
  OfPattern(a.n, [c \in 1..a.n |-> SortSeq(FromRow(a, c) \o ColumnOf(a, c), <)])
SymmetricPattern(a) ==
  IF \E k \in DOMAIN Stored(a) : Stored(a)[k].i < Stored(a)[k].j THEN SymmetricPatternSorted(a)
  ELSE OfPattern(a.n, [c \in 1..a.n |-> FromRow(a, c) \o ColumnOf(a, c)])

\* (slip) The rows are renamed the wrong way round.
NotInverted(rowOf) == rowOf
\* The lower triangle of B and its transpose, B with row r of a renamed
\* rowMap[r]; the matching names the row of a that each row of B is.
RowMap(rowOf) == [r \in DOMAIN rowOf |-> CHOOSE i \in DOMAIN rowOf : rowOf[i] = r]
SymmetrizedLower(a, rowMap) ==
  LET ends(e) == {rowMap[e.i], e.j}
      bucket(j) == LET b == SelectSeq(Stored(a), LAMBDA e : Min(ends(e)) = j) IN [p \in DOMAIN b |-> Max(ends(b[p]))]
      kept == [j \in 1..a.n |-> Deduped(SortSeq(bucket(j), <))]
  IN [n |-> a.n, ptr |-> Starts(kept), idx |-> Flat(kept)]

-----------------------------------------------------------------------------
(* What the Python package takes over.                                     *)

RowsBefore(a, j, d) == Cardinality({p \in 1..Len(ColumnOf(a, j)) : ColumnOf(a, j)[p] < d})
LowerSuffixes(a) ==
  LET from == [j \in 1..a.n |-> a.ptr[j] + RowsBefore(a, j, j) + 1]
      columns == [j \in 1..a.n |-> SubSeq(a.idx, from[j], a.ptr[j + 1])]
  IN IF ~PointersHold(a) THEN NONE
     ELSE [n |-> a.n, ptr |-> Starts(columns), idx |-> Flat(columns),
           val |-> Flat([j \in 1..a.n |-> SubSeq(a.val, from[j], a.ptr[j + 1])])]

\* The values of a in the order of the pattern analyzed, if it has that pattern.
Gather(a, pattern, lower) ==
  LET from == [j \in 1..a.n |-> a.ptr[j] + (IF lower THEN RowsBefore(a, j, j) ELSE 0) + 1]
      fits(j) == SubSeq(a.idx, from[j], a.ptr[j + 1]) = ColumnOf(pattern, j)
  IN IF a.n # pattern.n \/ \E j \in 1..a.n : ~fits(j) THEN NONE
     ELSE [n |-> a.n, val |-> Flat([j \in 1..a.n |-> SubSeq(a.val, from[j], a.ptr[j + 1])])]

\* A Krylov operator is validated here: the core applies one without a check.
FitsPattern(a) == Len(a.ptr) = a.n + 1 /\ Len(a.val) = Len(a.idx)
Operator(a) == IF FitsPattern(a) /\ Validate(a) THEN a ELSE NONE

-----------------------------------------------------------------------------
(* The reader and the writer.                                              *)

VARIABLES
  file,      \* the file read: <<>> if it is empty
  want,      \* the field and symmetry the reader is for, or ANY
  phase,
  at,        \* the lines taken
  size,      \* n and the number of entries declared
  entries,
  mat,       \* the matrix assembled, or the arrays given
  written    \* the matrix the file was written from, if any

formatVars == <<file, want, phase, at, size, entries, mat, written>>

FormatInit ==
  /\ \/ file \in Files /\ want \in Readers /\ phase = "banner" /\ mat = NONE
     \/ file = <<>> /\ want = ANY /\ phase = "given" /\ mat \in Arrays
  /\ at = 0 /\ size = [n |-> 0, nnz |-> 0] /\ entries = <<>> /\ written = NONE

Fields == {"real", "complex", "integer"}
Symmetries == {"symmetric", "general"}
Banner(field, symmetry) == <<"%%MatrixMarket", "matrix", "coordinate", field, symmetry>>
\* The reader of any file takes the field and the symmetry from the banner.
Announced(f) == IF Len(f) > 0 /\ Len(f[1]) = 5 THEN <<f[1][4], f[1][5]>> ELSE ANY
Wanted == IF want = ANY THEN Announced(file) ELSE want
Takes(f, w) ==
  /\ Len(f) > 0 /\ w # ANY
  /\ w[1] \in Fields /\ w[2] \in Symmetries
  /\ f[1] = Banner(w[1], w[2])
ReadBanner ==
  /\ phase = "banner"
  /\ want' = Wanted
  /\ IF Takes(file, Wanted) THEN phase' = "size" /\ at' = 1 ELSE phase' = "failed" /\ at' = at
  /\ UNCHANGED <<file, size, entries, mat, written>>

Line == file[at + 1]
IsIndex(w) == w >= 0
IsValue(w) == w >= 0 \/ w \in {FRACTION, NAN}
Skipped(line) == line # <<>> => line[1] = PERCENT
Sizes(line) == Len(line) = 3 /\ (\A k \in 1..3 : IsIndex(line[k])) /\ line[1] = line[2]

SkipBeforeSize ==
  /\ phase = "size" /\ at < Len(file) /\ Skipped(Line)
  /\ at' = at + 1
  /\ UNCHANGED <<file, want, phase, size, entries, mat, written>>
ReadSize ==
  /\ phase = "size" /\ (at < Len(file) => ~Skipped(Line))
  /\ IF at < Len(file) /\ Sizes(Line)
     THEN phase' = "entries" /\ at' = at + 1 /\ size' = [n |-> Line[1], nnz |-> Line[3]]
     ELSE phase' = "failed" /\ UNCHANGED <<at, size>>
  /\ UNCHANGED <<file, want, entries, mat, written>>

ValueWords == IF want[1] = "complex" THEN 2 ELSE 1
ValueOf(words) == [re |-> words[1], im |-> IF Len(words) = 2 THEN words[2] ELSE 0]
Parses(line) ==
  /\ Len(line) = 2 + ValueWords
  /\ IsIndex(line[1]) /\ IsIndex(line[2])
  /\ \A k \in 3..Len(line) : IsValue(line[k]) /\ line[k] # NAN
  /\ line[1] \in 1..size.n /\ line[2] \in 1..size.n
\* (slip) The entries below the diagonal are mirrored.
FoldedUp(i, j) == IF want[2] = "symmetric" /\ i > j THEN <<j, i>> ELSE <<i, j>>
\* Of a symmetric file an entry above the diagonal is its mirror below.
Folded(i, j) == IF want[2] = "symmetric" /\ i < j THEN <<j, i>> ELSE <<i, j>>
EntryOf(line) ==
  [i |-> Folded(line[1], line[2])[1], j |-> Folded(line[1], line[2])[2], v |-> ValueOf(SubSeq(line, 3, Len(line)))]

ReadEntry ==
  /\ phase = "entries" /\ at < Len(file)
  /\ IF Line # <<>> /\ ~Parses(Line)
     THEN phase' = "failed" /\ UNCHANGED <<at, entries>>
     ELSE /\ at' = at + 1 /\ phase' = phase
          /\ entries' = IF Line = <<>> THEN entries ELSE Append(entries, EntryOf(Line))
  /\ UNCHANGED <<file, want, size, mat, written>>
ReadEnd ==
  /\ phase = "entries" /\ at = Len(file)
  /\ phase' = IF Len(entries) # size.nnz THEN "failed" ELSE "read"
  /\ UNCHANGED <<file, want, at, size, entries, mat, written>>

RowsOf(es) == [k \in DOMAIN es |-> es[k].i]
ColsOf(es) == [k \in DOMAIN es |-> es[k].j]
ValsOf(es) == [k \in DOMAIN es |-> es[k].v]
ToMatrix ==
  /\ phase = "read"
  /\ mat' = IF want[2] = "symmetric" THEN LowerOf(size.n, RowsOf(entries), ColsOf(entries), ValsOf(entries))
            ELSE GeneralOf(size.n, RowsOf(entries), ColsOf(entries), ValsOf(entries))
  /\ phase' = IF mat' = NONE THEN "failed" ELSE "matrix"
  /\ UNCHANGED <<file, want, at, size, entries, written>>

\* The file that is written of the matrix, complex or real as its scalars are:
\* a real file may have been read into either.
WordsOf(v, field) == IF field = "complex" THEN <<v.re, v.im>> ELSE <<v.re>>
FileOf(a, field, symmetry) ==
  <<Banner(field, symmetry), <<a.n, a.n, Len(a.idx)>>>>
    \o [k \in DOMAIN a.idx |-> <<Stored(a)[k].i, Stored(a)[k].j>> \o WordsOf(Stored(a)[k].v, field)]
WriteBack ==
  /\ phase = "matrix" /\ written = NONE
  /\ \E field \in {"complex", IF want[1] = "real" THEN "real" ELSE "complex"} : file' = FileOf(mat, field, want[2])
  /\ want' = ANY /\ phase' = "banner" /\ at' = 0 /\ entries' = <<>> /\ written' = mat /\ mat' = NONE
  /\ size' = [n |-> 0, nnz |-> 0]

\* Arrays given are checked, here or by the core where it analyzes them.
Check ==
  /\ phase = "given"
  /\ phase' = IF Operator(mat) # NONE THEN "valid" ELSE "failed"
  /\ UNCHANGED <<file, want, at, size, entries, mat, written>>

FormatNext ==
  ReadBanner \/ SkipBeforeSize \/ ReadSize \/ ReadEntry \/ ReadEnd \/ ToMatrix \/ WriteBack \/ Check
FormatSpec == FormatInit /\ [][FormatNext]_formatVars

-----------------------------------------------------------------------------
\* What is read is what the file says: exactly the well-formed files are
\* read, a truncated or extended one is not, the value at a place is the sum
\* of its lines in the order of the file, and what was written comes back.
SizeLine(f) == IF \E k \in 2..Len(f) : ~Skipped(f[k]) THEN Min({k \in 2..Len(f) : ~Skipped(f[k])}) ELSE 0
Body(f) == {k \in 2..Len(f) : k > SizeLine(f) /\ f[k] # <<>>}
WellFormed(f, w) ==
  LET s == f[SizeLine(f)] words == IF w[1] = "complex" THEN 4 ELSE 3 IN
  /\ f # <<>> /\ w # ANY
  /\ w[1] \in Fields /\ w[2] \in Symmetries /\ f[1] = Banner(w[1], w[2])
  /\ SizeLine(f) # 0
  /\ Len(s) = 3 /\ s[1] = s[2] /\ s[1] >= 0 /\ s[3] = Cardinality(Body(f))
  /\ \A k \in Body(f) :
       /\ Len(f[k]) = words
       /\ f[k][1] \in 1..s[1] /\ f[k][2] \in 1..s[1]
       /\ \A q \in 3..words : f[k][q] >= FRACTION
PlaceOf(line, w) ==
  IF w[2] = "general" THEN <<line[1], line[2]>>
  ELSE <<Max({line[1], line[2]}), Min({line[1], line[2]})>>
LinesAt(f, w, e) == SetToSortSeq({k \in Body(f) : PlaceOf(f[k], w) = <<e.i, e.j>>}, <)
SumOfLines(f, w, e) ==
  LET ls == LinesAt(f, w, e) IN
  FoldLeft(LAMBDA v, k : Plus(v, ValueOf(SubSeq(f[k], 3, Len(f[k])))), Zero, ls)
MatrixIsTheFile ==
  /\ phase = "failed" /\ mat = NONE => ~WellFormed(file, want)
  /\ phase = "matrix" =>
       /\ WellFormed(file, want)
       /\ IF want[2] = "symmetric" THEN ValidateLower(mat) ELSE Validate(mat)
       /\ {<<Stored(mat)[k].i, Stored(mat)[k].j>> : k \in DOMAIN Stored(mat)} = {PlaceOf(file[k], want) : k \in Body(file)}
       /\ \A k \in DOMAIN Stored(mat) : Stored(mat)[k].v = SumOfLines(file, want, Stored(mat)[k])
       /\ written # NONE => mat = written
\* The arrays accepted are those that list a set of positions: no entry is
\* outside the columns, twice in one or out of order.
PositionsOf(a) == {<<Stored(a)[k].i, Stored(a)[k].j>> : k \in DOMAIN Stored(a)}
AscOf(S) == SetToSortSeq(S, <)
Listing(n, cells) ==
  LET columns == [j \in 1..n |-> AscOf({i \in 1..n : <<i, j>> \in cells})] IN
  [n |-> n, ptr |-> Starts(columns), idx |-> Flat(columns)]
Lists(a, cells) == a.n >= 0 /\ Listing(a.n, cells) = [n |-> a.n, ptr |-> a.ptr, idx |-> a.idx]
OnlyListingsAreAccepted ==
  phase \in {"valid", "failed"} /\ mat # NONE =>
    (phase = "valid" <=> /\ Len(mat.val) = Len(mat.idx)
                         /\ \E cells \in SUBSET Cells(mat.n) : Lists(mat, cells))

Swapped(cells) == {<<e[2], e[1]>> : e \in cells}
LowerCells(cells) == {e \in cells : e[1] >= e[2]}
WithValues(p) == [n |-> p.n, ptr |-> p.ptr, idx |-> p.idx, val |-> Places(p.idx)]

\* The transpose of the transpose is the matrix, and where every slot has a
\* partner the partners are the transpose's places.
TransposesAgree(a) ==
  LET t == Transpose(a) pairs == TransposeSlots(LayoutOf(a)) IN
  /\ Transpose(t) = a /\ Lists(t, Swapped(PositionsOf(a)))
  /\ pairs # NONE <=> PositionsOf(a) = Swapped(PositionsOf(a))
  /\ pairs # NONE => \A k \in DOMAIN a.idx : pairs.pair[pairs.pair[k]] = k /\ a.val[pairs.pair[k]] = t.val[k]
\* The pattern that needs no sort is the sorted one and holds both halves once;
\* the one analyzed for LU is what the renamed matrix and its transpose cover.
PatternsAgree(a) ==
  LET full == PositionsOf(a) \cup Swapped(PositionsOf(a)) IN
  /\ PositionsOf(a) = LowerCells(PositionsOf(a)) =>
       /\ SymmetricPattern(a) = SymmetricPatternSorted(a)
       /\ SymmetricPattern(a) = IF a.n <= IndexMax /\ Cardinality(full) <= IndexMax THEN Listing(a.n, full) ELSE NONE
  /\ \A rowOf \in {p \in [1..a.n -> 1..a.n] : \A i, j \in 1..a.n : p[i] = p[j] => i = j} :
       LET renamed == {e \in Cells(a.n) : <<rowOf[e[1]], e[2]>> \in PositionsOf(a)} IN
       SymmetrizedLower(a, RowMap(rowOf)) = Listing(a.n, LowerCells(renamed \cup Swapped(renamed)))
\* A block is multiplied as its columns are, in the same order.
BlocksAgree(a, s) ==
  LET inColumn(y, c) == [i \in 1..a.n |-> [t \in DOMAIN y[i] |-> <<y[i][t][1], At(a, c, y[i][t][2])>>]]
      agrees(block, y) == \A c \in 1..s, i \in 1..a.n : block[At(a, c, i)] = inColumn(y, c)[i]
  IN agrees(BlockMatVec(a, s), MatVec(a)) /\ agrees(BlockSymV(a, s), SymV(a))
\* Values are taken from a matrix exactly where it has the pattern that was
\* analyzed, or its lower half that of which the lower half was.
GathersAgree(a) ==
  /\ \A cells \in SUBSET Cells(2) :
       LET other == WithValues(Listing(2, cells))
       IN /\ (Gather(other, a, FALSE) # NONE) <=> (a.n = 2 /\ cells = PositionsOf(a))
          /\ (Gather(other, LowerSuffixes(a), TRUE) # NONE) <=> (a.n = 2 /\ LowerCells(cells) = LowerCells(PositionsOf(a)))
  /\ Gather(a, a, FALSE).val = a.val
  /\ Gather(a, LowerSuffixes(a), TRUE).val = LowerSuffixes(a).val
\* Dense and sparse, and scaled runs and their concatenation, are one matrix.
AssembliesAgree(a) ==
  LET dense == [k \in 1..a.n * a.n |->
                  LET at1 == {s \in DOMAIN Stored(a) : Stored(a)[s].i = ((k - 1) \div a.n) + 1 /\ Stored(a)[s].j = ((k - 1) % a.n) + 1}
                  IN IF at1 = {} THEN Zero ELSE Stored(a)[Min(at1)].v]
  IN Zero \notin ToSet(a.val) =>
       /\ GeneralOfDense(a.n, dense) = a
       /\ LowerOfDense(a.n, dense) = LowerSuffixes(a)
RunsAgree ==
  phase = "matrix" =>
    LET l == Layout(size.n, RowsOf(entries), ColsOf(entries))
        all == ValsOf(entries)
        parts(p, q) == <<[vals |-> SubSeq(all, 1, p), scale |-> 2], [vals |-> SubSeq(all, p + 1, q), scale |-> 3]>>
        one == [re |-> 7, im |-> 0]
        scaled(p, q) == [k \in DOMAIN all |-> IF k <= p THEN Times(all[k], 2) ELSE IF k <= q THEN Times(all[k], 3) ELSE one]
    IN \A p \in 0..Len(all) : \A q \in p..Len(all) : ScatterScaled(l, parts(p, q), one) = Scatter(l, scaled(p, q))

\* What is derived from a matrix says the same of it on every way it is made.
FormsAgree ==
  /\ OnlyListingsAreAccepted /\ RunsAgree
  /\ phase \in {"matrix", "valid"} =>
       TransposesAgree(mat) /\ PatternsAgree(mat) /\ BlocksAgree(mat, 2) /\ GathersAgree(mat) /\ AssembliesAgree(mat)
=============================================================================

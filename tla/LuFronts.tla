------------------------------- MODULE LuFronts -------------------------------
(***************************************************************************)
(* The fronts of the LU factorization (src/src/numeric/lu): the exact row  *)
(* and column structure of every supernode (LuStructure::build), what a    *)
(* front makes of it when pivots are delayed to the parent, and the run    *)
(* without delays when they outgrow their room (factor_lu_left_looking).   *)
(*                                                                         *)
(* Which columns of a front find a stable pivot, and in which rows, the    *)
(* values decide: any choice here.  The panels are dense, so what an       *)
(* update touches follows from the row and column lists alone, as sets;    *)
(* indices are those of the ordered matrix, counted from 1.                *)
(***************************************************************************)
EXTENDS Integers, Sequences, FiniteSets, FiniteSetsExt, SequencesExt

CONSTANT Matrices  \* [width, entries]: the supernodes' widths, the <<row, col>> stored

VARIABLES
  lu,       \* the matrix, with what the analysis makes of it
  delays,   \* LlEmit.delays
  record    \* LlEmit.pivots: what each factored supernode leaves
frontVars == <<lu, delays, record>>

-----------------------------------------------------------------------------
(***************************************************************************)
(* The analysis: the supernodes' columns, their rows and updaters in the   *)
(* symmetrized pattern (LlSchedule), and the exact structure.              *)
(***************************************************************************)
\* f(done, s) for every supernode s in turn, given the results before it.
Each(width, f(_, _)) == FoldLeftDomain(LAMBDA done, s : Append(done, f(done, s)), <<>>, width)

FrontCols(width) ==
  Each(width, LAMBDA done, s :
    LET first == 1 + Cardinality(UNION Range(done)) IN first..(first + width[s] - 1))

Hits(list, columns) == list \cap columns # {}
Past(list, columns) == {g \in list : g > Max(columns)}
OwnerOf(cols, g) == CHOOSE s \in DOMAIN cols : g \in cols[s]

\* The rows below a supernode: of its columns, and of its children.
SymRows(width, cols, entries) ==
  Each(width, LAMBDA done, s :
    LET own == {g \in UNION Range(cols) : \E c \in cols[s] : {<<g, c>>, <<c, g>>} \cap entries # {}}
        kids == {k \in 1..s - 1 : done[k] # {} /\ Min(done[k]) \in cols[s]}
    IN Past(own \cup UNION {done[k] : k \in kids}, cols[s]))

\* LuStructure::build: the entries, and what the updaters that land here pass.
Structure(width, cols, entries, updaters) ==
  Each(width, LAMBDA done, s :
    LET FromL == UNION {done[k].l : k \in {u \in updaters[s] : Hits(done[u].u, cols[s])}}
        FromU == UNION {done[k].u : k \in {u \in updaters[s] : Hits(done[u].l, cols[s])}}
    IN [l |-> Past({e[1] : e \in {x \in entries : x[2] \in cols[s]}} \cup FromL, cols[s]),
        u |-> Past({e[2] : e \in {x \in entries : x[1] \in cols[s]}} \cup FromU, cols[s])])

Analyzed(m) ==
  LET cols == FrontCols(m.width)
      below == SymRows(m.width, cols, m.entries)
      updaters == [s \in DOMAIN cols |-> {k \in 1..s - 1 : Hits(below[k], cols[s])}]
  IN [entries |-> m.entries, cols |-> cols, updaters |-> updaters,
      parent |-> [s \in DOMAIN cols |-> IF below[s] = {} THEN 0 ELSE OwnerOf(cols, Min(below[s]))],
      st |-> Structure(m.width, cols, m.entries, updaters)]

(***************************************************************************)
(* What the fronts rely on: columns in ascending runs; updaters before the *)
(* supernode they land in, and with them their parents on the way up to    *)
(* it; and a structure that lists what hits later columns only where the   *)
(* supernode is an updater, holds the entries and what updates fill.       *)
(***************************************************************************)
IsAnalyzed(a) ==
  LET Super == DOMAIN a.cols
      All == UNION Range(a.cols)
      L(s) == a.st[s].l
      U(s) == a.st[s].u
  IN
  /\ Len(a.cols) \in Nat /\ Super = 1..Len(a.cols) /\ IsFiniteSet(All) /\ All = 1..Cardinality(All)
  /\ \A s \in Super : a.cols[s] # {}
  /\ \A s, t \in Super : s < t => \A g \in a.cols[s], h \in a.cols[t] : g < h
  /\ a.entries \subseteq All \X All
  /\ \A s \in Super : a.parent[s] = 0 \/ (a.parent[s] \in Super /\ s < a.parent[s])
  /\ \A s \in Super : \A k \in a.updaters[s] :
       k \in Super /\ k < s /\ a.parent[k] \in a.updaters[s] \cup {s}
  /\ \A k \in Super : L(k) \cup U(k) \subseteq All
  /\ \A k, s \in Super : Hits(L(k) \cup U(k), a.cols[s]) => k \in a.updaters[s]
  /\ \A s \in Super : \A e \in a.entries :
       /\ e[2] \in a.cols[s] => Past({e[1]}, a.cols[s]) \subseteq L(s)
       /\ e[1] \in a.cols[s] => Past({e[2]}, a.cols[s]) \subseteq U(s)
  /\ \A s \in Super : \A k \in a.updaters[s] :
       /\ Hits(U(k), a.cols[s]) => Past(L(k), a.cols[s]) \subseteq L(s)
       /\ Hits(L(k), a.cols[s]) => Past(U(k), a.cols[s]) \subseteq U(s)

ASSUME FrontsAssumption == \A m \in Matrices : IsAnalyzed(Analyzed(m))

Fronts == DOMAIN lu.cols
ChildrenOf(s) == {c \in Fronts : lu.parent[c] = s}

FrontInit ==
  /\ \E m \in Matrices : lu = Analyzed(m)
  /\ delays \in BOOLEAN
  /\ record = [s \in {} |-> 0]

-----------------------------------------------------------------------------
(***************************************************************************)
(* A front: its own columns, the pivots its children passed on, and the    *)
(* off-block rows and columns: the structure's, those the passed pivots    *)
(* bring, and those an updater that has such ones passes on.               *)
(***************************************************************************)
Passed(s) == record[s].rows # {}

\* NodePivots::off: the lists past the pivots, the passed ones among them.
OffL(k) == IF Passed(k) \/ record[k].extras THEN record[k].rows \cup record[k].offL ELSE lu.st[k].l
OffU(k) == IF Passed(k) \/ record[k].extras THEN record[k].cols \cup record[k].offU ELSE lu.st[k].u

Passing(s) == {c \in ChildrenOf(s) : Passed(c)}
Extended(s) == {k \in lu.updaters[s] : record[k].extras}
\* (slip) The updaters' extensions are left to the children.
NoExtraL(s) == UNION {OffL(c) : c \in Passing(s)}
ExtraL(s) ==
  (UNION {OffL(c) : c \in Passing(s)})
    \cup UNION {OffL(k) : k \in {u \in Extended(s) : Hits(OffU(u), lu.cols[s])}}
ExtraU(s) ==
  (UNION {OffU(c) : c \in Passing(s)})
    \cup UNION {OffU(k) : k \in {u \in Extended(s) : Hits(OffL(u), lu.cols[s])}}

FrontOffL(s) == lu.st[s].l \cup Past(ExtraL(s), lu.cols[s])
FrontOffU(s) == lu.st[s].u \cup Past(ExtraU(s), lu.cols[s])
SummedRows(s) == lu.cols[s] \cup UNION {record[c].rows : c \in Passing(s)}
SummedCols(s) == lu.cols[s] \cup UNION {record[c].cols : c \in Passing(s)}

MayDelay(s) == delays /\ lu.parent[s] # 0

\* The columns no fully-summed row is stable for, and the rows left with them.
Left(s) ==
  {left \in (SUBSET SummedRows(s)) \X (SUBSET SummedCols(s)) :
     /\ Cardinality(left[1]) = Cardinality(left[2])
     /\ MayDelay(s) \/ left[1] = {}}

Leaves(s, left) ==
  [pivotRows |-> SummedRows(s) \ left[1], pivotCols |-> SummedCols(s) \ left[2],
   rows |-> left[1], cols |-> left[2],
   offL |-> FrontOffL(s), offU |-> FrontOffU(s),
   extras |-> FrontOffL(s) # lu.st[s].l \/ FrontOffU(s) # lu.st[s].u]

Ready(s) == s \notin DOMAIN record /\ \A c \in ChildrenOf(s) : c \in DOMAIN record
FactorFront(s) ==
  /\ Ready(s)
  /\ \E left \in Left(s) :
       record' = [t \in DOMAIN record \cup {s} |-> IF t = s THEN Leaves(s, left) ELSE record[t]]
  /\ UNCHANGED <<lu, delays>>

\* A front finds the room for delayed pivots spent: the forest stops, and the
\* factor is computed again, every pivot in its own front.
Overflow ==
  /\ delays /\ \E s \in Fronts : Ready(s)
  /\ delays' = FALSE /\ record' = [s \in {} |-> 0]
  /\ UNCHANGED lu

FrontNext == Overflow \/ \E s \in Fronts : FactorFront(s)
FrontSpec == FrontInit /\ [][FrontNext]_frontVars

-----------------------------------------------------------------------------
(***************************************************************************)
(* What a front reads: from an updater, its rows from the first that lands *)
(* here on against its columns that land here, and its rows that land here *)
(* against its columns past; from a child that passed pivots, the passed   *)
(* columns over all its rows past the pivots, and the passed rows.         *)
(***************************************************************************)
From(list, columns) == {g \in list : g >= Min(columns)}
UpdatesOf(k, s) ==
  LET cs == lu.cols[s]
      l == OffL(k)
      u == OffU(k)
  IN (From(l, cs) \X (u \cap cs)) \cup ((l \cap cs) \X Past(u, cs))
CarriedFrom(c) == (OffL(c) \X record[c].cols) \cup (record[c].rows \X OffU(c))

InFront(s, e) ==
  \/ e[1] \in SummedRows(s) \cup FrontOffL(s) /\ e[2] \in SummedCols(s)
  \/ e[1] \in SummedRows(s) /\ e[2] \in SummedCols(s) \cup FrontOffU(s)

\* Everything a front takes in lies in it, whatever was delayed below: the
\* local row an update is added to is one the front has ("entry outside the
\* L structure", "delayed row outside the front").
UpdatesLandInTheFront ==
  \A s \in Fronts : Ready(s) =>
    /\ \A e \in lu.entries :
         (e[2] \in lu.cols[s] /\ e[1] >= Min(lu.cols[s])) \/ (e[1] \in lu.cols[s] /\ e[2] >= Min(lu.cols[s])) => InFront(s, e)
    /\ \A k \in lu.updaters[s] : \A e \in UpdatesOf(k, s) : InFront(s, e)
    /\ \A c \in Passing(s) : \A e \in CarriedFrom(c) : InFront(s, e)

\* Gaussian elimination of the whole matrix by the pivots of one supernode:
\* every remaining row of one of its columns meets every remaining column of
\* one of its rows.
Fill(pattern, s) ==
  LET r == record[s]
      rows == {e[1] : e \in {x \in pattern : x[2] \in r.pivotCols}} \ r.pivotRows
      cols == {e[2] : e \in {x \in pattern : x[1] \in r.pivotRows}} \ r.pivotCols
  IN [rows |-> rows, cols |-> cols,
      pattern |-> {e \in pattern : e[1] \notin r.pivotRows /\ e[2] \notin r.pivotCols} \cup (rows \X cols)]

\* What is left of the pattern after the first supernodes' pivots.
Remaining[s \in 0..Len(lu.cols)] ==
  IF s = 0 THEN lu.entries ELSE Fill(Remaining[s - 1], s).pattern

\* Once the forest is factored, every row and every column was pivoted once,
\* each panel has a row for every entry elimination fills below its pivots,
\* and a column for every one right of them: no update is lost to a pivot
\* delayed out of the structure the schedule was made for.
PanelsHoldTheFill ==
  DOMAIN record = Fronts =>
    /\ \A g \in UNION Range(lu.cols) :
         /\ Cardinality({s \in Fronts : g \in record[s].pivotRows}) = 1
         /\ Cardinality({s \in Fronts : g \in record[s].pivotCols}) = 1
    /\ \A s \in Fronts :
         LET fill == Fill(Remaining[s - 1], s) IN
         fill.rows \subseteq OffL(s) /\ fill.cols \subseteq OffU(s)

FrontsAreClosed == UpdatesLandInTheFront /\ PanelsHoldTheFill
===============================================================================

----------------------------- MODULE Numeric_proofs -----------------------------
(***************************************************************************)
(* Proofs about the parts of the numeric phase that MC_Numeric composes.   *)
(*                                                                         *)
(* LlSchedule, for every analysis that satisfies IsAnalysis: the updater   *)
(* lists are the hits of the rows, each once and ascending, the finished   *)
(* schedule is one ForestSchedule may be run on, and its leaves stand      *)
(* depth first.  The inductive invariant: the rows built so far are the    *)
(* factor's and hold what the children leave; the lists hold exactly the   *)
(* supernodes whose walked rows hit; the walk ascends; a supernode found   *)
(* by the traversal is on the stack or has adopted its children; and the   *)
(* leaves followed by the stack from its top are a line of disjoint        *)
(* subtrees, in which what lies below a supernode stands together.         *)
(*                                                                         *)
(* PanelArena, for jobs of any number and sizes of panels: the panels      *)
(* survive being closed into the factor.  What that needs of the sums      *)
(* that place the panels is proved of MapThenSumSet first.                 *)
(*                                                                         *)
(* LuFronts, for every matrix whose analysis satisfies IsAnalyzed: what a  *)
(* front takes in lies in it, and the finished panels hold all the fill.   *)
(***************************************************************************)
EXTENDS LlSchedule, PanelArena, LuFronts, Sums_proofs, TLAPS, FiniteSetTheorems, SequenceTheorems, NaturalsInduction, WellFoundedInduction

TypeInv ==
  /\ sym \in Analyses
  /\ phase \in {"rows", "hits", "forest", "done"}
  /\ rows \in Seq(SUBSET (1..sym.n)) /\ Len(rows) <= sym.nsuper
  /\ phase # "rows" => Len(rows) = sym.nsuper
  /\ at \in 0..sym.nsuper /\ (phase = "rows" => at = 0 /\ last = NONE)
  /\ rest \in SUBSET (1..sym.n)
  /\ phase # "hits" \/ at = 0 => rest = {}
  /\ last \in Supernode \cup {NONE}
  /\ updaters \in [Supernode -> Seq(Supernode)]
  /\ stack \in Seq(Supernode)
  /\ parent \in [Supernode -> Supernode \cup {NONE}]

\* The rows built so far.
RowsInv ==
  \A s \in 1..Len(rows) :
    /\ rows[s] = sym.left[s]
    /\ \A c \in Kids(sym, s) : Beyond(s, rows[c]) \subseteq rows[s]

\* The rows of k that each_hit has walked.
Walked(k) ==
  IF phase = "rows" \/ (phase = "hits" /\ k > at) THEN {}
  ELSE IF phase = "hits" /\ k = at THEN rows[k] \ rest ELSE rows[k]

HitsInv ==
  /\ at # 0 /\ phase = "hits" => rest \subseteq rows[at]
  /\ \A s, k \in Supernode : k \in Range(updaters[s]) <=> Walked(k) \cap Columns(sym, s) # {}
  /\ phase = "hits" /\ last # NONE => at # 0 /\ at \in Range(updaters[last])

\* The walk ascends.
OrderInv ==
  /\ phase = "hits" =>
       /\ \A s \in Supernode : at \in Range(updaters[s]) => s <= last
       /\ last # NONE => \A r \in rest : last <= SnodeOf(r)
  /\ UpdatersAscend

\* The supernodes the traversal has found.
Found(s) == IF IsChild(s) THEN parent[s] # NONE ELSE s <= at

ForestInv ==
  /\ phase \in {"rows", "hits"} => stack = <<>> /\ \A s \in Supernode : parent[s] = NONE
  /\ phase = "done" => stack = <<>> /\ at = sym.nsuper
  /\ \A c \in Supernode : parent[c] # NONE => c \in Kids(sym, parent[c])
  /\ phase \in {"forest", "done"} =>
       \A s \in Supernode : Found(s) =>
         s \in Range(stack) \/ \A c \in Kids(sym, s) : parent[c] = s

IInv == TypeInv /\ RowsInv /\ HitsInv /\ OrderInv /\ ForestInv

-----------------------------------------------------------------------------
(***************************************************************************)
(* Facts about the analysis.                                               *)
(***************************************************************************)

\* The shape of an analysis.
LEMMA Shape ==
  ASSUME sym \in Analyses
  PROVE  /\ sym.n \in Nat /\ sym.nsuper \in Nat
         /\ \A s \in Supernode :
              /\ sym.supernodes[s].children \in Seq(Supernode)
              /\ Columns(sym, s) \subseteq 1..sym.n
              /\ Columns(sym, s) # {}
              /\ sym.left[s] \subseteq 1..sym.n
              /\ Kids(sym, s) \subseteq Supernode
              /\ Kids(sym, s) = Range(sym.supernodes[s].children)
         /\ \A c \in 1..sym.n : sym.cols[c] \subseteq 1..sym.n
<1>1. IsAnalysis(sym)
  BY AnalysesHold
<1>2. /\ sym.n \in Nat /\ sym.nsuper \in Nat
      /\ sym.supernodes \in [1..sym.nsuper -> [first : Nat, ncol : Nat \ {0}, nrow : Nat,
                                               children : Seq(1..sym.nsuper)]]
      /\ sym.cols \in [1..sym.n -> SUBSET (1..sym.n)]
      /\ sym.left \in [1..sym.nsuper -> SUBSET (1..sym.n)]
      /\ \A s \in 1..sym.nsuper : Columns(sym, s) \subseteq 1..sym.n
  BY <1>1 DEF IsAnalysis
<1>3. ASSUME NEW s \in Supernode
      PROVE  /\ sym.supernodes[s].children \in Seq(Supernode)
             /\ Columns(sym, s) \subseteq 1..sym.n
             /\ Columns(sym, s) # {}
             /\ sym.left[s] \subseteq 1..sym.n
             /\ Kids(sym, s) \subseteq Supernode
             /\ Kids(sym, s) = Range(sym.supernodes[s].children)
  <2>1. sym.supernodes[s] \in [first : Nat, ncol : Nat \ {0}, nrow : Nat, children : Seq(Supernode)]
    BY <1>2 DEF Supernode
  <2>2. sym.supernodes[s].children \in Seq(Supernode)
    BY <2>1
  <2>3. sym.supernodes[s].first \in Columns(sym, s)
    BY <2>1 DEF Columns
  <2>4. Kids(sym, s) = Range(sym.supernodes[s].children)
    BY DEF Kids, Range
  <2>5. Kids(sym, s) \subseteq Supernode
    BY <2>2 DEF Kids
  <2> QED
    BY <1>2, <2>2, <2>3, <2>4, <2>5 DEF Supernode
<1> QED
  BY <1>2, <1>3

\* Columns are numbered as their supernodes are.
LEMMA ColumnOrder ==
  ASSUME sym \in Analyses, NEW s \in Supernode, NEW t \in Supernode,
         NEW c \in Columns(sym, s), NEW d \in Columns(sym, t), c <= d
  PROVE  s <= t
<1>1. \A u, v \in Supernode : u < v => \A x \in Columns(sym, u), y \in Columns(sym, v) : x < y
  BY AnalysesHold DEF IsAnalysis, Supernode
<1>2. c \in Int /\ d \in Int /\ s \in Int /\ t \in Int
  BY Shape DEF Supernode
<1>3. ~(t < s)
  BY <1>1, <1>2
<1> QED
  BY <1>2, <1>3

\* Every column has its supernode.
LEMMA Owner ==
  ASSUME sym \in Analyses, NEW r \in 1..sym.n
  PROVE  /\ SnodeOf(r) \in Supernode
         /\ r \in Columns(sym, SnodeOf(r))
         /\ \A s \in Supernode : r \in Columns(sym, s) => s = SnodeOf(r)
<1>1. \E s \in Supernode : r \in Columns(sym, s)
  BY AnalysesHold DEF IsAnalysis, Supernode
<1>2. SnodeOf(r) \in Supernode /\ r \in Columns(sym, SnodeOf(r))
  BY <1>1 DEF SnodeOf
<1>3. ASSUME NEW s \in Supernode, r \in Columns(sym, s)
      PROVE  s = SnodeOf(r)
  <2>1. r <= r /\ s \in Int /\ SnodeOf(r) \in Int
    BY <1>2, Shape DEF Supernode
  <2>2. s <= SnodeOf(r)
    BY <1>2, <1>3, <2>1, ColumnOrder
  <2>3. SnodeOf(r) <= s
    BY <1>2, <1>3, <2>1, ColumnOrder
  <2> QED
    BY <2>1, <2>2, <2>3
<1> QED
  BY <1>2, <1>3

\* What a supernode leaves lies beyond its columns, and the pattern's rows of
\* its columns are its own or left.
LEMMA LeftBeyond ==
  ASSUME sym \in Analyses, NEW s \in Supernode
  PROVE  /\ \A r \in sym.left[s] : \A c \in Columns(sym, s) : c < r
         /\ \A c \in Columns(sym, s) : \A r \in sym.cols[c] :
              r \in sym.left[s] \/ \E d \in Columns(sym, s) : r <= d
         /\ (\A p \in Supernode : s \notin Kids(sym, p)) => sym.left[s] = {}
BY AnalysesHold DEF IsAnalysis, Supernode

\* Children come before their one parent, which holds what they leave.
LEMMA Kin ==
  ASSUME sym \in Analyses, NEW p \in Supernode, NEW c \in Kids(sym, p)
  PROVE  /\ c \in Supernode /\ c < p
         /\ sym.left[c] \subseteq Columns(sym, p) \cup sym.left[p]
         /\ \A q \in Supernode : c \in Kids(sym, q) => q = p
<1>1. c < p /\ sym.left[c] \subseteq Columns(sym, p) \cup sym.left[p]
  BY AnalysesHold DEF IsAnalysis, Supernode
<1>2. \A q \in Supernode : q # p => Kids(sym, p) \cap Kids(sym, q) = {}
  BY AnalysesHold DEF IsAnalysis, Supernode
<1> QED
  BY <1>1, <1>2, Shape

-----------------------------------------------------------------------------
(***************************************************************************)
(* Types.                                                                  *)
(***************************************************************************)
LEMMA TypeStart == ScheduleInit => TypeInv
<1> SUFFICES ASSUME ScheduleInit PROVE TypeInv
  OBVIOUS
<1>1. sym \in Analyses
  BY DEF ScheduleInit
<1>2. <<>> \in Seq(SUBSET (1..sym.n)) /\ <<>> \in Seq(Supernode) /\ Len(<<>>) = 0
  OBVIOUS
<1>3. 0 \in 0..sym.nsuper /\ 0 <= sym.nsuper
  BY <1>1, Shape
<1> QED
  BY <1>1, <1>2, <1>3 DEF ScheduleInit, TypeInv

\* The rows built for a supernode are columns.
LEMMA TrailingType ==
  ASSUME TypeInv, Len(rows) < sym.nsuper
  PROVE  /\ Len(rows) + 1 \in Supernode
         /\ Trailing(Len(rows) + 1) \subseteq 1..sym.n
         /\ Kids(sym, Len(rows) + 1) \subseteq 1..Len(rows)
<1>1. sym \in Analyses /\ rows \in Seq(SUBSET (1..sym.n)) /\ Len(rows) \in Nat
  BY DEF TypeInv
<1>2. Len(rows) + 1 \in Supernode
  BY <1>1, Shape DEF Supernode
<1>3. \A c \in Kids(sym, Len(rows) + 1) : c \in 1..Len(rows)
  <2> TAKE c \in Kids(sym, Len(rows) + 1)
  <2>1. c \in Supernode /\ c < Len(rows) + 1
    BY <1>1, <1>2, Kin
  <2> QED
    BY <1>1, <2>1, Shape DEF Supernode
<1>4. \A c \in 1..Len(rows) : rows[c] \subseteq 1..sym.n
  BY <1>1
<1>5. \A c \in Columns(sym, Len(rows) + 1) : sym.cols[c] \subseteq 1..sym.n
  BY <1>1, <1>2, Shape
<1> QED
  BY <1>2, <1>3, <1>4, <1>5 DEF Trailing, OfColumns, Beyond

\* The row that is walked next, and the supernode it lies in.
LEMMA NextRow ==
  ASSUME TypeInv, rest # {}
  PROVE  /\ Min(rest) \in rest /\ Min(rest) \in 1..sym.n
         /\ \A r \in rest : Min(rest) <= r
         /\ SnodeOf(Min(rest)) \in Supernode
         /\ Min(rest) \in Columns(sym, SnodeOf(Min(rest)))
<1>1. sym \in Analyses /\ rest \subseteq 1..sym.n
  BY DEF TypeInv
<1>2. rest \subseteq Nat
  BY <1>1
<1>3. Min(rest) \in rest /\ \A r \in rest : Min(rest) <= r
  BY <1>2, LeastNumber
<1> QED
  BY <1>1, <1>3, Owner

LEMMA TypeStep == TypeInv /\ [ScheduleNext]_scheduleVars => TypeInv'
<1> SUFFICES ASSUME TypeInv, [ScheduleNext]_scheduleVars PROVE TypeInv'
  OBVIOUS
<1>0. /\ sym.n \in Nat /\ sym.nsuper \in Nat /\ sym \in Analyses
      /\ at \in Nat /\ at <= sym.nsuper /\ Len(rows) \in Nat
      /\ rows \in Seq(SUBSET (1..sym.n))
  BY Shape DEF TypeInv
<1>1. CASE BuildRows
  <2> DEFINE T == Trailing(Len(rows) + 1)
  <2>1. T \in SUBSET (1..sym.n)
    BY <1>1, TrailingType DEF BuildRows
  <2>2. /\ Append(rows, T) \in Seq(SUBSET (1..sym.n))
        /\ Len(Append(rows, T)) = Len(rows) + 1
    BY <1>0, <2>1, AppendProperties
  <2> QED
    BY <1>0, <1>1, <2>2 DEF TypeInv, BuildRows, Supernode
<1>2. CASE StartHits
  BY <1>2 DEF TypeInv, StartHits, Supernode
<1>3. CASE NextUpdater
  <2>1. rows[at + 1] \in SUBSET (1..sym.n)
    BY <1>0, <1>3 DEF TypeInv, NextUpdater
  <2> QED
    BY <1>0, <1>3, <2>1 DEF TypeInv, NextUpdater, Supernode, ResetLast
<1>4. CASE Hit
  <2>1. SnodeOf(Min(rest)) \in Supernode
    BY <1>4, NextRow DEF Hit
  <2>2. at \in Supernode
    <3>1. rest # {}
      BY <1>4 DEF Hit
    <3>2. at # 0
      BY <3>1 DEF TypeInv
    <3> QED
      BY <1>0, <3>2 DEF Supernode
  <2>3. updaters' \in [Supernode -> Seq(Supernode)]
    <3>1. updaters \in [Supernode -> Seq(Supernode)]
      BY DEF TypeInv
    <3>2. updaters' = [updaters EXCEPT ![SnodeOf(Min(rest))] = Append(@, at)]
            \/ updaters' = updaters
      BY <1>4 DEF Hit
    <3>3. \A q \in Seq(Supernode) : Append(q, at) \in Seq(Supernode)
      BY <2>2
    <3> QED
      BY <2>1, <3>1, <3>2, <3>3
  <2>4. rest' \in SUBSET (1..sym.n) /\ last' \in Supernode
    BY <1>4, <2>1 DEF Hit, TypeInv
  <2> QED
    BY <1>0, <1>4, <2>3, <2>4 DEF TypeInv, Hit, Supernode
<1>5. CASE StartForest
  BY <1>0, <1>5 DEF TypeInv, StartForest, Supernode
<1>6. CASE FindRoots
  <2>1. at + 1 \in Supernode
    BY <1>0, <1>6 DEF FindRoots, Supernode
  <2>2. stack' \in Seq(Supernode)
    BY <1>6, <2>1 DEF TypeInv, FindRoots
  <2> QED
    BY <1>0, <1>6, <2>2 DEF TypeInv, FindRoots, Supernode
<1>7. CASE Visit
  <2>1. stack \in Seq(Supernode) /\ Len(stack) \in Nat \ {0}
    BY <1>7 DEF TypeInv, Visit
  <2>2. stack[Len(stack)] \in Supernode
    BY <2>1
  <2>3. /\ sym.supernodes[stack[Len(stack)]].children \in Seq(Supernode)
    BY <1>0, <2>2, Shape
  <2>4. SubSeq(stack, 1, Len(stack) - 1) \in Seq(Supernode)
    BY <2>1
  <2>5. stack' \in Seq(Supernode)
    BY <1>7, <2>3, <2>4 DEF Visit
  <2>6. parent' \in [Supernode -> Supernode \cup {NONE}]
    BY <1>7, <2>2 DEF Visit, Adopt, TypeInv
  <2> QED
    BY <1>0, <1>7, <2>5, <2>6 DEF TypeInv, Visit, Supernode
<1>8. CASE Finish
  BY <1>8 DEF TypeInv, Finish, Supernode
<1>9. CASE UNCHANGED scheduleVars
  BY <1>9 DEF TypeInv, scheduleVars, Supernode
<1> QED
  BY <1>1, <1>2, <1>3, <1>4, <1>5, <1>6, <1>7, <1>8, <1>9 DEF ScheduleNext

-----------------------------------------------------------------------------
(***************************************************************************)
(* The rows.                                                               *)
(***************************************************************************)
LEMMA RowsStep == TypeInv /\ RowsInv /\ [ScheduleNext]_scheduleVars => RowsInv'
<1> SUFFICES ASSUME TypeInv, RowsInv, [ScheduleNext]_scheduleVars PROVE RowsInv'
  OBVIOUS
<1>0. sym \in Analyses /\ rows \in Seq(SUBSET (1..sym.n)) /\ Len(rows) \in Nat
  BY DEF TypeInv
<1>1. CASE BuildRows
  <2> DEFINE t == Len(rows) + 1
             T == Trailing(t)
  <2>1. t \in Supernode /\ Kids(sym, t) \subseteq 1..Len(rows)
    BY <1>1, TrailingType DEF BuildRows
  <2>2. /\ sym' = sym /\ Len(rows') = t /\ rows'[t] = T
        /\ \A s \in 1..Len(rows) : rows'[s] = rows[s]
    BY <1>0, <1>1 DEF BuildRows
  <2>3. Beyond(t, UNION {rows[c] : c \in Kids(sym, t)}) \subseteq sym.left[t]
    <3> SUFFICES ASSUME NEW c \in Kids(sym, t), NEW r \in rows[c],
                        \A d \in Columns(sym, t) : d < r
                 PROVE  r \in sym.left[t]
      BY DEF Beyond
    <3>1. c \in 1..Len(rows) /\ rows[c] \subseteq sym.left[c]
      BY <2>1 DEF RowsInv
    <3>2. r \in Columns(sym, t) \cup sym.left[t]
      BY <1>0, <2>1, <3>1, Kin
    <3>3. r \in Columns(sym, t) => r < r /\ r \in Int
      BY <1>0, <2>1, Shape
    <3> QED
      BY <3>2, <3>3
  <2>4. OfColumns(t) \subseteq sym.left[t]
    <3> SUFFICES ASSUME NEW c \in Columns(sym, t), NEW r \in sym.cols[c],
                        \A d \in Columns(sym, t) : d < r
                 PROVE  r \in sym.left[t]
      BY DEF OfColumns, Beyond
    <3>1. r \in Int /\ \A d \in Columns(sym, t) : d \in Int
      BY <1>0, <2>1, Shape
    <3>2. r \in sym.left[t] \/ \E d \in Columns(sym, t) : r <= d
      BY <1>0, <2>1, LeftBeyond
    <3> QED
      BY <3>1, <3>2
  <2>5. T = sym.left[t]
    <3>1. ASSUME NEW r \in sym.left[t] PROVE r \in T
      <4>1. \A d \in Columns(sym, t) : d < r
        BY <1>0, <2>1, LeftBeyond
      <4>2. (\E c \in Columns(sym, t) : r \in sym.cols[c]) \/ \E c \in Kids(sym, t) : r \in sym.left[c]
        <5>1. IsAnalysis(sym)
          BY <1>0, AnalysesHold
        <5>2. \A s \in 1..sym.nsuper : \A x \in sym.left[s] :
                (\E c \in Columns(sym, s) : x \in sym.cols[c]) \/ \E c \in Kids(sym, s) : x \in sym.left[c]
          BY <5>1 DEF IsAnalysis
        <5> QED
          BY <2>1, <5>2 DEF Supernode
      <4>3. \A c \in Kids(sym, t) : rows[c] = sym.left[c]
        BY <2>1 DEF RowsInv
      <4> QED
        BY <4>1, <4>2, <4>3 DEF Trailing, OfColumns, Beyond
    <3> QED
      BY <2>3, <2>4, <3>1 DEF Trailing
  <2>6. \A c \in Kids(sym, t) : Beyond(t, rows[c]) \subseteq T
    BY DEF Trailing, Beyond
  <2>7. ASSUME NEW s \in 1..Len(rows')
        PROVE  /\ rows'[s] = sym.left[s]
               /\ \A c \in Kids(sym, s) : Beyond(s, rows'[c]) \subseteq rows'[s]
    <3>1. CASE s = t
      BY <2>1, <2>2, <2>5, <2>6, <3>1
    <3>2. CASE s # t
      <4>1. s \in 1..Len(rows)
        BY <1>0, <2>2, <2>7, <3>2
      <4>2. s \in Supernode
        BY <1>0, <4>1, Shape DEF TypeInv, Supernode
      <4>3. \A c \in Kids(sym, s) : c \in 1..Len(rows)
        <5> TAKE c \in Kids(sym, s)
        <5>1. c \in Supernode /\ c < s
          BY <1>0, <4>2, Kin
        <5> QED
          BY <1>0, <4>1, <5>1, Shape DEF Supernode
      <4> QED
        BY <2>2, <4>1, <4>3 DEF RowsInv
    <3> QED
      BY <3>1, <3>2
  <2> QED
    BY <2>2, <2>7 DEF RowsInv, Beyond
<1>2. CASE sym' = sym /\ rows' = rows
  BY <1>2 DEF RowsInv, Beyond
<1> QED
  BY <1>1, <1>2 DEF ScheduleNext, scheduleVars, StartHits, NextUpdater, Hit, StartForest, FindRoots, Visit, Finish

-----------------------------------------------------------------------------
(***************************************************************************)
(* The updater lists.                                                      *)
(***************************************************************************)
LEMMA AppendRange ==
  ASSUME NEW S, NEW q \in Seq(S), NEW x \in S
  PROVE  Range(Append(q, x)) = Range(q) \cup {x}
<1>1. /\ DOMAIN Append(q, x) = 1..(Len(q) + 1) /\ DOMAIN q = 1..Len(q)
      /\ Len(q) \in Nat /\ Append(q, x)[Len(q) + 1] = x
      /\ \A i \in 1..Len(q) : Append(q, x)[i] = q[i]
  OBVIOUS
<1> QED
  BY <1>1 DEF Range

\* One row is walked, and the supernode it lies in has the updater.
LEMMA HitEffect ==
  ASSUME TypeInv, HitsInv, Hit
  PROVE  LET r == Min(rest)
             s == SnodeOf(r)
         IN /\ at \in Supernode /\ r \in rest /\ rest' = rest \ {r}
            /\ s \in Supernode /\ last' = s
            /\ r \in Columns(sym, s)
            /\ \A u \in Supernode : r \in Columns(sym, u) => u = s
            /\ Range(updaters'[s]) = Range(updaters[s]) \cup {at}
            /\ \A u \in Supernode \ {s} : updaters'[u] = updaters[u]
<1> DEFINE r == Min(rest)
           s == SnodeOf(r)
<1>1. rest # {} /\ phase = "hits" /\ rest' = rest \ {r} /\ last' = s
  BY DEF Hit
<1>2. sym \in Analyses /\ at \in 0..sym.nsuper /\ updaters \in [Supernode -> Seq(Supernode)]
  BY DEF TypeInv
<1>3. at \in Supernode
  <2>1. at # 0
    BY <1>1 DEF TypeInv
  <2> QED
    BY <1>2, <2>1, Shape DEF Supernode
<1>4. r \in rest /\ r \in 1..sym.n /\ s \in Supernode /\ r \in Columns(sym, s)
  BY <1>1, NextRow
<1>5. \A u \in Supernode : r \in Columns(sym, u) => u = s
  BY <1>2, <1>4, Owner
<1>6. updaters' = IF Enters(s) THEN [updaters EXCEPT ![s] = Append(@, at)] ELSE updaters
  BY DEF Hit
<1>7. Range(updaters'[s]) = Range(updaters[s]) \cup {at}
  <2>1. CASE Enters(s)
    <3>1. updaters[s] \in Seq(Supernode) /\ updaters'[s] = Append(updaters[s], at)
      BY <1>2, <1>4, <1>6, <2>1
    <3> QED
      BY <1>3, <3>1, AppendRange
  <2>2. CASE ~Enters(s)
    <3>1. s = last /\ last # NONE
      BY <1>2, <1>4, <2>2, Shape DEF Enters, Supernode, NONE
    <3>2. at \in Range(updaters[s])
      BY <1>1, <3>1 DEF HitsInv
    <3> QED
      BY <1>6, <2>2, <3>2
  <2> QED
    BY <2>1, <2>2
<1>8. \A u \in Supernode \ {s} : updaters'[u] = updaters[u]
  BY <1>2, <1>6
<1> QED
  BY <1>1, <1>3, <1>4, <1>5, <1>7, <1>8

LEMMA HitsStep == TypeInv /\ HitsInv /\ [ScheduleNext]_scheduleVars => HitsInv'
<1> SUFFICES ASSUME TypeInv, HitsInv, [ScheduleNext]_scheduleVars PROVE HitsInv'
  OBVIOUS
<1>0. /\ sym \in Analyses /\ at \in Nat /\ at <= sym.nsuper /\ sym.nsuper \in Nat
      /\ \A k \in Supernode : k \in Nat /\ k >= 1 /\ k <= sym.nsuper
      /\ NONE \notin Supernode
  BY Shape DEF TypeInv, Supernode, NONE
<1>1. CASE BuildRows
  <2>1. phase = "rows" /\ \A k \in Supernode : Walked(k) = {}
    BY <1>1 DEF BuildRows, Walked
  <2>2. phase' = "rows" /\ updaters' = updaters /\ sym' = sym
    BY <1>1 DEF BuildRows
  <2>3. \A k \in Supernode : Walked(k)' = {}
    BY <2>2 DEF Walked
  <2> QED
    BY <2>1, <2>2, <2>3 DEF HitsInv, Supernode, Columns
<1>2. CASE StartHits
  <2>1. phase = "rows" /\ \A k \in Supernode : Walked(k) = {}
    BY <1>2 DEF StartHits, Walked
  <2>2. at = 0 /\ last = NONE
    BY <2>1 DEF TypeInv
  <2>3. phase' = "hits" /\ updaters' = updaters /\ sym' = sym /\ at' = 0 /\ last' = NONE
    BY <1>2, <2>2 DEF StartHits
  <2>4. \A k \in Supernode : Walked(k)' = {}
    BY <1>0, <2>3 DEF Walked
  <2> QED
    BY <2>1, <2>3, <2>4 DEF HitsInv, Supernode, Columns
<1>3. CASE NextUpdater
  <2>1. /\ phase = "hits" /\ phase' = "hits" /\ rest = {} /\ at' = at + 1
        /\ rest' = rows[at'] /\ last' = NONE
        /\ updaters' = updaters /\ sym' = sym /\ rows' = rows
    BY <1>3 DEF NextUpdater, ResetLast
  <2>2. \A k \in Supernode : Walked(k)' = Walked(k)
    BY <1>0, <2>1 DEF Walked
  <2> QED
    BY <2>1, <2>2 DEF HitsInv, Supernode, Columns
<1>4. CASE Hit
  <2> DEFINE r == Min(rest)
             s == SnodeOf(r)
  <2>1. /\ at \in Supernode /\ r \in rest /\ rest' = rest \ {r}
        /\ s \in Supernode /\ last' = s
        /\ r \in Columns(sym, s)
        /\ \A u \in Supernode : r \in Columns(sym, u) => u = s
        /\ Range(updaters'[s]) = Range(updaters[s]) \cup {at}
        /\ \A u \in Supernode \ {s} : updaters'[u] = updaters[u]
    BY <1>4, HitEffect
  <2>2. phase = "hits" /\ phase' = "hits" /\ at' = at /\ sym' = sym /\ rows' = rows
    BY <1>4 DEF Hit
  <2>3. rest \subseteq rows[at]
    BY <1>0, <2>1, <2>2 DEF HitsInv, NONE
  <2>4. /\ Walked(at)' = Walked(at) \cup {r}
        /\ \A k \in Supernode \ {at} : Walked(k)' = Walked(k)
    BY <1>0, <2>1, <2>2, <2>3 DEF Walked
  <2>5. ASSUME NEW u \in Supernode, NEW k \in Supernode
        PROVE  k \in Range(updaters'[u]) <=> Walked(k)' \cap Columns(sym, u) # {}
    <3>1. k \in Range(updaters[u]) <=> Walked(k) \cap Columns(sym, u) # {}
      BY DEF HitsInv
    <3>2. k \in Range(updaters'[u]) <=> k \in Range(updaters[u]) \/ (k = at /\ u = s)
      BY <2>1
    <3>3. r \in Columns(sym, u) <=> u = s
      BY <2>1
    <3>4. CASE k = at
      <4>1. Walked(k)' \cap Columns(sym, u) # {} <=>
              Walked(k) \cap Columns(sym, u) # {} \/ r \in Columns(sym, u)
        BY <2>2, <2>4, <3>4
      <4> QED
        BY <3>1, <3>2, <3>3, <3>4, <4>1
    <3>5. CASE k # at
      BY <2>4, <3>1, <3>2, <3>5
    <3> QED
      BY <3>4, <3>5
  <2>6. rest' \subseteq rows'[at'] /\ at' # 0 /\ at' \in Range(updaters'[last'])
    BY <1>0, <2>1, <2>2, <2>3
  <2> QED
    BY <2>2, <2>5, <2>6 DEF HitsInv, Supernode, Columns
<1>5. CASE StartForest
  <2>1. /\ phase = "hits" /\ phase' = "forest" /\ rest = {} /\ at = sym.nsuper
        /\ updaters' = updaters /\ sym' = sym /\ rows' = rows
    BY <1>5 DEF StartForest
  <2>2. \A k \in Supernode : Walked(k)' = Walked(k)
    BY <1>0, <2>1 DEF Walked
  <2> QED
    BY <2>1, <2>2 DEF HitsInv, Supernode, Columns
<1>6. CASE FindRoots \/ Visit \/ Finish
  <2>1. /\ phase = "forest" /\ phase' \in {"forest", "done"}
        /\ updaters' = updaters /\ sym' = sym /\ rows' = rows
    BY <1>6 DEF FindRoots, Visit, Finish
  <2>2. \A k \in Supernode : Walked(k)' = Walked(k)
    BY <2>1 DEF Walked
  <2> QED
    BY <2>1, <2>2 DEF HitsInv, Supernode, Columns
<1>7. CASE UNCHANGED scheduleVars
  <2>1. \A k \in Supernode : Walked(k)' = Walked(k)
    BY <1>7 DEF Walked, scheduleVars
  <2> QED
    BY <1>7, <2>1 DEF HitsInv, Supernode, Columns, scheduleVars
<1> QED
  BY <1>1, <1>2, <1>3, <1>4, <1>5, <1>6, <1>7 DEF ScheduleNext

-----------------------------------------------------------------------------
(***************************************************************************)
(* The walk ascends, so the lists do.                                      *)
(***************************************************************************)
LEMMA SameSnode ==
  ASSUME sym' = sym
  PROVE  \A r : SnodeOf(r)' = SnodeOf(r)
BY DEF SnodeOf, Supernode, Columns

LEMMA OrderStep == TypeInv /\ HitsInv /\ OrderInv /\ [ScheduleNext]_scheduleVars => OrderInv'
<1> SUFFICES ASSUME TypeInv, HitsInv, OrderInv, [ScheduleNext]_scheduleVars PROVE OrderInv'
  OBVIOUS
<1>a. /\ sym \in Analyses /\ at \in Nat /\ updaters \in [Supernode -> Seq(Supernode)]
      /\ last \in Nat /\ rest \subseteq 1..sym.n
      /\ \A k \in Supernode : k \in Nat /\ k >= 1
  BY Shape DEF TypeInv, Supernode, NONE
<1>b. ASSUME NEW s \in Supernode
      PROVE  Range(updaters[s]) \subseteq Supernode
  <2>1. updaters[s] \in Seq(Supernode)
    BY <1>a
  <2> QED
    BY <2>1 DEF Range
<1>0. /\ sym \in Analyses /\ at \in Nat /\ updaters \in [Supernode -> Seq(Supernode)]
      /\ last \in Nat /\ rest \subseteq 1..sym.n
      /\ \A k \in Supernode : k \in Nat /\ k >= 1
      /\ \A s \in Supernode : Range(updaters[s]) \subseteq Supernode
  BY <1>a, <1>b
<1>1. CASE phase' # "hits" /\ updaters' = updaters /\ sym' = sym
  BY <1>1 DEF OrderInv, UpdatersAscend, Supernode
<1>2. CASE StartHits
  <2>1. /\ phase = "rows" /\ at' = at /\ last' = last /\ updaters' = updaters /\ sym' = sym
    BY <1>2 DEF StartHits
  <2>2. at = 0 /\ last = NONE
    BY <2>1 DEF TypeInv
  <2>3. \A s \in Supernode : at \notin Range(updaters[s])
    BY <1>0, <2>2
  <2> QED
    BY <2>1, <2>2, <2>3 DEF OrderInv, UpdatersAscend, Supernode
<1>3. CASE NextUpdater
  <2>1. /\ phase = "hits" /\ at' = at + 1 /\ at' \in Supernode /\ last' = NONE
        /\ updaters' = updaters /\ sym' = sym
    BY <1>0, <1>3, Shape DEF NextUpdater, ResetLast, Supernode
  <2>2. Walked(at') = {}
    BY <1>0, <2>1 DEF Walked
  <2>3. \A s \in Supernode : at' \notin Range(updaters[s])
    BY <2>1, <2>2 DEF HitsInv
  <2> QED
    BY <2>1, <2>3 DEF OrderInv, UpdatersAscend, Supernode
<1>4. CASE Hit
  <2> DEFINE r == Min(rest)
             s == SnodeOf(r)
  <2>1. /\ at \in Supernode /\ r \in rest /\ rest' = rest \ {r}
        /\ s \in Supernode /\ last' = s
        /\ r \in Columns(sym, s)
        /\ Range(updaters'[s]) = Range(updaters[s]) \cup {at}
        /\ \A u \in Supernode \ {s} : updaters'[u] = updaters[u]
    BY <1>4, HitEffect
  <2>2. /\ phase = "hits" /\ at' = at /\ sym' = sym
        /\ updaters' = IF Enters(s) THEN [updaters EXCEPT ![s] = Append(@, at)] ELSE updaters
    BY <1>4 DEF Hit
  <2>3. \A u \in Supernode : at \in Range(updaters[u]) => u <= last /\ last <= s
    <3> TAKE u \in Supernode
    <3> HAVE at \in Range(updaters[u])
    <3>1. u <= last
      BY <2>2 DEF OrderInv
    <3>2. last # NONE
      BY <1>0, <3>1 DEF NONE
    <3>3. last <= s
      BY <2>1, <2>2, <3>2 DEF OrderInv
    <3> QED
      BY <3>1, <3>3
  <2>4. ASSUME NEW u \in Supernode, at \in Range(updaters'[u])
        PROVE  u <= s
    <3>1. CASE u = s
      BY <1>0, <3>1
    <3>2. CASE u # s
      <4>1. at \in Range(updaters[u])
        BY <2>1, <2>4, <3>2
      <4>2. u <= last /\ last <= s
        BY <2>3, <4>1
      <4> HIDE DEF s
      <4> QED
        BY <1>0, <2>1, <4>2
    <3> QED
      BY <3>1, <3>2
  <2>5. \A t \in rest' : s <= SnodeOf(t)
    <3> TAKE t \in rest'
    <3>1. t \in rest /\ t \in 1..sym.n /\ r <= t
      BY <1>0, <2>1, <1>4, NextRow
    <3>2. SnodeOf(t) \in Supernode /\ t \in Columns(sym, SnodeOf(t))
      BY <1>0, <3>1, Owner
    <3> QED
      BY <1>0, <2>1, <3>1, <3>2, ColumnOrder
  <2>6. UpdatersAscend'
    <3>1. CASE Enters(s)
      <4>1. at \notin Range(updaters[s])
        <5>1. s # last
          BY <3>1 DEF Enters
        <5>2. at \in Range(updaters[s]) => s <= last /\ last <= s
          BY <2>1, <2>3
        <5> HIDE DEF s
        <5>3. last \in Int /\ s \in Int
          BY <1>0, <2>1 DEF Supernode, NONE
        <5> QED
          BY <5>1, <5>2, <5>3
      <4>2. \A k \in Range(updaters[s]) : k < at
        <5> TAKE k \in Range(updaters[s])
        <5>1. k \in Supernode /\ k # at
          BY <1>0, <2>1, <4>1
        <5>2. Walked(k) # {}
          BY <2>1, <5>1 DEF HitsInv
        <5>3. ~(k > at)
          BY <2>2, <5>2 DEF Walked
        <5> QED
          BY <1>0, <5>1, <5>3
      <4> DEFINE q == updaters[s]
      <4>3. /\ q \in Seq(Supernode) /\ Len(q) \in Nat /\ DOMAIN q = 1..Len(q)
            /\ updaters'[s] = Append(q, at)
        <5>1. q \in Seq(Supernode)
          BY <1>0, <2>1
        <5>2. updaters'[s] = Append(q, at)
          BY <1>0, <2>1, <2>2, <3>1
        <5> QED
          BY <5>1, <5>2
      <4>4. /\ DOMAIN Append(q, at) = 1..(Len(q) + 1)
            /\ Append(q, at)[Len(q) + 1] = at
            /\ \A i \in 1..Len(q) : Append(q, at)[i] = q[i] /\ q[i] \in Range(q)
        BY <2>1, <4>3 DEF Range
      <4>5. \A i, j \in DOMAIN q : i < j => q[i] < q[j]
        BY <2>1 DEF OrderInv, UpdatersAscend
      <4>6. \A i, j \in DOMAIN updaters'[s] : i < j => updaters'[s][i] < updaters'[s][j]
        <5> TAKE i, j \in DOMAIN updaters'[s]
        <5> HAVE i < j
        <5>1. i \in 1..Len(q) /\ j \in 1..(Len(q) + 1)
          BY <4>3, <4>4
        <5>2. CASE j = Len(q) + 1
          BY <4>2, <4>3, <4>4, <5>1, <5>2
        <5>3. CASE j # Len(q) + 1
          BY <4>3, <4>4, <4>5, <5>1, <5>3
        <5> QED
          BY <5>2, <5>3
      <4>7. \A u \in Supernode \ {s} : \A i, j \in DOMAIN updaters'[u] :
              i < j => updaters'[u][i] < updaters'[u][j]
        BY <2>1 DEF OrderInv, UpdatersAscend
      <4> QED
        BY <2>2, <4>6, <4>7 DEF UpdatersAscend, Supernode
    <3>2. CASE ~Enters(s)
      BY <2>2, <3>2 DEF OrderInv, UpdatersAscend, Supernode
    <3> QED
      BY <3>1, <3>2
  <2>7. \A t \in rest' : last' <= SnodeOf(t)'
    BY <2>1, <2>2, <2>5, SameSnode
  <2> QED
    BY <2>1, <2>2, <2>4, <2>6, <2>7 DEF OrderInv, Supernode
<1>5. CASE UNCHANGED scheduleVars
  <2>1. \A t : SnodeOf(t)' = SnodeOf(t)
    BY <1>5, SameSnode DEF scheduleVars
  <2> QED
    BY <1>5, <2>1 DEF OrderInv, UpdatersAscend, Supernode, scheduleVars
<1> QED
  BY <1>1, <1>2, <1>3, <1>4, <1>5
     DEF ScheduleNext, BuildRows, StartForest, FindRoots, Visit, Finish

-----------------------------------------------------------------------------
(***************************************************************************)
(* The traversal.                                                          *)
(***************************************************************************)
\* The stack without its top, and with k on it.
LEMMA Popped ==
  ASSUME NEW S, NEW q \in Seq(S), q # <<>>
  PROVE  LET p == SubSeq(q, 1, Len(q) - 1) IN
         /\ Len(q) \in Nat \ {0} /\ p \in Seq(S) /\ Len(p) = Len(q) - 1
         /\ \A i \in 1..(Len(q) - 1) : p[i] = q[i]
<1> DEFINE p == SubSeq(q, 1, Len(q) - 1)
<1>1. Len(q) \in Nat /\ Len(q) # 0  OBVIOUS
<1>2. 1 \in Int /\ Len(q) - 1 \in Int /\ \A i \in 1..(Len(q) - 1) : q[i] \in S  BY <1>1
<1>3. /\ p \in Seq(S)
      /\ Len(p) = IF 1 <= Len(q) - 1 THEN (Len(q) - 1) - 1 + 1 ELSE 0
      /\ \A i \in 1..((Len(q) - 1) - 1 + 1) : p[i] = q[1 + i - 1]
  BY <1>2, SubSeqProperties
<1> HIDE DEF p
<1>4. Len(p) = Len(q) - 1
  <2>1. CASE 1 <= Len(q) - 1
    <3>1. Len(p) = (Len(q) - 1) - 1 + 1  BY <1>3, <2>1
    <3> QED BY <1>1, <3>1
  <2>2. CASE ~(1 <= Len(q) - 1)
    <3>1. Len(p) = 0  BY <1>3, <2>2
    <3>2. \A n \in Nat : n # 0 /\ ~(1 <= n - 1) => n = 1  OBVIOUS
    <3>3. Len(q) = 1  BY <1>1, <2>2, <3>2
    <3> QED BY <3>1, <3>3
  <2> QED BY <2>1, <2>2
<1>5. \A i \in 1..(Len(q) - 1) : p[i] = q[i]
  <2> TAKE i \in 1..(Len(q) - 1)
  <2>1. i \in 1..((Len(q) - 1) - 1 + 1) /\ 1 + i - 1 = i  BY <1>1
  <2> QED BY <1>3, <2>1
<1> QED BY <1>1, <1>3, <1>4, <1>5 DEF p

Pushed(q, k) == SubSeq(q, 1, Len(q) - 1) \o k

LEMMA PoppedAndPushed ==
  ASSUME NEW S, NEW q \in Seq(S), q # <<>>, NEW k \in Seq(S)
  PROVE  /\ Pushed(q, k) \in Seq(S) /\ Len(Pushed(q, k)) = Len(q) - 1 + Len(k)
         /\ \A i \in 1..(Len(q) - 1) : Pushed(q, k)[i] = q[i]
         /\ \A j \in Len(q)..Len(Pushed(q, k)) : Pushed(q, k)[j] = k[j - Len(q) + 1]
<1> DEFINE p == SubSeq(q, 1, Len(q) - 1)
           r == p \o k
<1>1. Len(q) \in Nat \ {0} /\ p \in Seq(S) /\ Len(p) = Len(q) - 1 /\ \A i \in 1..(Len(q) - 1) : p[i] = q[i]
  BY Popped
<1>2. Len(k) \in Nat  OBVIOUS
<1> HIDE DEF p
<1>3. /\ r \in Seq(S) /\ Len(r) = Len(p) + Len(k)
      /\ \A i \in 1..(Len(p) + Len(k)) : r[i] = IF i <= Len(p) THEN p[i] ELSE k[i - Len(p)]
  BY <1>1, ConcatProperties
<1> HIDE DEF r
<1>4. Len(r) = Len(q) - 1 + Len(k)  BY <1>1, <1>3
<1>5. \A i \in 1..(Len(q) - 1) : r[i] = q[i]
  <2> TAKE i \in 1..(Len(q) - 1)
  <2>1. i \in 1..(Len(p) + Len(k)) /\ i <= Len(p)  BY <1>1, <1>2
  <2> QED BY <1>1, <1>3, <2>1
<1>6. \A j \in Len(q)..Len(r) : r[j] = k[j - Len(q) + 1]
  <2> TAKE j \in Len(q)..Len(r)
  <2>1. j \in 1..(Len(p) + Len(k)) /\ ~(j <= Len(p)) /\ j - Len(p) = j - Len(q) + 1  BY <1>1, <1>2, <1>4
  <2> QED BY <1>3, <2>1
<1>7. r = Pushed(q, k)  BY DEF r, p, Pushed
<1> QED BY <1>3, <1>4, <1>5, <1>6, <1>7

LEMMA PopAndPush ==
  ASSUME NEW S, NEW q \in Seq(S), q # <<>>, NEW k \in Seq(S)
  PROVE  /\ \A x \in Range(q) : x = q[Len(q)] \/ x \in Range(Pushed(q, k))
         /\ Range(k) \subseteq Range(Pushed(q, k))
<1> DEFINE r == Pushed(q, k)
<1>1. Len(q) \in Nat \ {0} /\ Len(k) \in Nat /\ DOMAIN q = 1..Len(q) /\ DOMAIN k = 1..Len(k)
  OBVIOUS
<1>2. /\ r \in Seq(S) /\ Len(r) = Len(q) - 1 + Len(k)
      /\ \A i \in 1..(Len(q) - 1) : r[i] = q[i]
      /\ \A j \in Len(q)..Len(r) : r[j] = k[j - Len(q) + 1]
  BY PoppedAndPushed
<1> HIDE DEF r
<1>3. DOMAIN r = 1..(Len(q) - 1 + Len(k))
  BY <1>2
<1>4. ASSUME NEW x \in Range(q), x # q[Len(q)]
      PROVE  x \in Range(r)
  <2>1. PICK i \in 1..Len(q) : x = q[i]
    BY <1>1, <1>4 DEF Range
  <2>2. i \in 1..(Len(q) - 1) /\ i \in DOMAIN r
    BY <1>1, <1>3, <1>4, <2>1
  <2> QED
    BY <1>2, <2>1, <2>2 DEF Range
<1>5. ASSUME NEW x \in Range(k)
      PROVE  x \in Range(r)
  <2>1. PICK i \in 1..Len(k) : x = k[i]
    BY <1>1, <1>5 DEF Range
  <2>2. PICK j \in Int : j = Len(q) - 1 + i
    BY <1>1, <2>1
  <2>3. j \in Len(q)..Len(r) /\ j \in DOMAIN r /\ j - Len(q) + 1 = i
    BY <1>1, <1>2, <1>3, <2>1, <2>2
  <2> QED
    BY <1>2, <2>1, <2>3 DEF Range
<1> QED
  BY <1>4, <1>5 DEF r

LEMMA ForestStart == ScheduleInit => ForestInv
BY DEF ScheduleInit, ForestInv

LEMMA ForestStep == TypeInv /\ ForestInv /\ [ScheduleNext]_scheduleVars => ForestInv'
<1> SUFFICES ASSUME TypeInv, ForestInv, [ScheduleNext]_scheduleVars PROVE ForestInv'
  OBVIOUS
<1>a. sym' = sym
  BY DEF ScheduleNext, scheduleVars, BuildRows, StartHits, NextUpdater, Hit, StartForest, FindRoots, Visit, Finish
<1>b. at \in Nat
  BY Shape DEF TypeInv
<1>0. /\ sym \in Analyses /\ at \in Nat /\ stack \in Seq(Supernode)
      /\ parent \in [Supernode -> Supernode \cup {NONE}]
      /\ \A s \in Supernode : s \in Nat /\ s >= 1 /\ s # NONE
      /\ sym' = sym
  BY <1>a, <1>b DEF TypeInv, Supernode, NONE
<1>1. CASE BuildRows \/ StartHits \/ NextUpdater \/ Hit
  <2>1. /\ phase \in {"rows", "hits"} /\ phase' \in {"rows", "hits"}
        /\ stack' = stack /\ parent' = parent
    BY <1>1 DEF BuildRows, StartHits, NextUpdater, Hit
  <2> QED
    BY <1>0, <2>1 DEF ForestInv, Supernode, Kids
<1>2. CASE StartForest
  <2>1. /\ phase = "hits" /\ phase' = "forest" /\ at' = 0
        /\ stack' = stack /\ parent' = parent
    BY <1>2 DEF StartForest
  <2>2. \A s \in Supernode : parent[s] = NONE
    BY <2>1 DEF ForestInv
  <2>3. \A s \in Supernode : ~Found(s)'
    BY <1>0, <2>1, <2>2 DEF Found
  <2> QED
    BY <1>0, <2>1, <2>2, <2>3 DEF ForestInv, Supernode, Kids
<1>3. CASE FindRoots
  <2>1. /\ phase = "forest" /\ phase' = "forest" /\ at' = at + 1 /\ at + 1 \in Supernode
        /\ stack' = (IF IsChild(at + 1) THEN stack ELSE Append(stack, at + 1))
        /\ parent' = parent
    BY <1>0, <1>3, Shape DEF FindRoots, Supernode
  <2>2. /\ Range(stack) \subseteq Range(stack')
        /\ ~IsChild(at + 1) => at + 1 \in Range(stack')
    BY <1>0, <2>1, AppendRange
  <2>3. ASSUME NEW s \in Supernode, Found(s)'
        PROVE  s \in Range(stack') \/ \A c \in Kids(sym, s) : parent[c] = s
    <3>1. IsChild(s)' <=> IsChild(s)
      BY <1>0 DEF IsChild, Supernode, Kids
    <3>2. Found(s) \/ (~IsChild(s) /\ s = at + 1)
      BY <1>0, <2>1, <2>3, <3>1 DEF Found
    <3> QED
      BY <2>1, <2>2, <3>2 DEF ForestInv
  <2> QED
    BY <1>0, <2>1, <2>3 DEF ForestInv, Supernode, Kids
<1>4. CASE Visit
  <2> DEFINE s == stack[Len(stack)]
             kids == sym.supernodes[s].children
  <2>1. /\ phase = "forest" /\ phase' = "forest" /\ at' = at /\ stack # <<>>
        /\ parent' = Adopt(s)
        /\ stack' = SubSeq(stack, 1, Len(stack) - 1) \o kids
    BY <1>4 DEF Visit
  <2>2. s \in Supernode
    BY <1>0, <2>1
  <2>3. kids \in Seq(Supernode) /\ Range(kids) = Kids(sym, s) /\ Kids(sym, s) \subseteq Supernode
    BY <1>0, <2>2, Shape
  <2>a. stack' = Pushed(stack, kids)
    BY <2>1 DEF Pushed
  <2>4. /\ \A x \in Range(stack) : x = s \/ x \in Range(stack')
        /\ Kids(sym, s) \subseteq Range(stack')
    BY <1>0, <2>1, <2>3, <2>a, PopAndPush
  <2>5. /\ \A c \in Kids(sym, s) : parent'[c] = s
        /\ \A c \in Supernode \ Kids(sym, s) : parent'[c] = parent[c]
    BY <2>1, <2>3 DEF Adopt
  <2>6. ASSUME NEW c \in Supernode, parent'[c] # NONE
        PROVE  c \in Kids(sym, parent'[c])
    BY <2>5, <2>6 DEF ForestInv
  <2>7. ASSUME NEW t \in Supernode, Found(t)'
        PROVE  t \in Range(stack') \/ \A c \in Kids(sym, t) : parent'[c] = t
    <3>1. CASE t = s
      BY <2>5, <3>1
    <3>2. CASE t \in Kids(sym, s)
      BY <2>4, <3>2
    <3>3. CASE t # s /\ t \notin Kids(sym, s)
      <4>1. IsChild(t)' <=> IsChild(t)
        BY <1>0 DEF IsChild, Supernode, Kids
      <4>2. Found(t)
        BY <2>1, <2>5, <2>7, <3>3, <4>1 DEF Found
      <4>3. t \in Range(stack) \/ \A c \in Kids(sym, t) : parent[c] = t
        BY <2>1, <4>2 DEF ForestInv
      <4>4. \A c \in Kids(sym, t) : c \in Supernode /\ c \notin Kids(sym, s)
        BY <1>0, <2>2, <3>3, Kin
      <4> QED
        BY <2>4, <2>5, <3>3, <4>3, <4>4
    <3> QED
      BY <3>1, <3>2, <3>3
  <2> QED
    BY <1>0, <2>1, <2>6, <2>7, SMTT(30) DEF ForestInv, Supernode, Kids
<1>5. CASE Finish
  <2>1. /\ phase = "forest" /\ phase' = "done" /\ at' = at /\ at = sym.nsuper
        /\ stack = <<>> /\ stack' = stack /\ parent' = parent
    BY <1>5 DEF Finish
  <2>2. \A s \in Supernode : Found(s)' <=> Found(s)
    BY <1>0, <2>1 DEF Found, IsChild, Supernode, Kids
  <2> QED
    BY <1>0, <2>1, <2>2 DEF ForestInv, Supernode, Kids
<1>6. CASE UNCHANGED scheduleVars
  BY <1>6 DEF ForestInv, Found, IsChild, Supernode, Kids, scheduleVars
<1> QED
  BY <1>1, <1>2, <1>3, <1>4, <1>5, <1>6 DEF ScheduleNext

-----------------------------------------------------------------------------
(***************************************************************************)
(* The leaves so far and then the stack from its top: the line in which    *)
(* the traversal has found the forest.                                     *)
(***************************************************************************)
InLine == 1..(Len(leaves) + Len(stack))
Line(i) == IF i <= Len(leaves) THEN leaves[i] ELSE stack[Len(stack) + Len(leaves) - i + 1]

LineInv ==
  /\ leaves \in Seq(Supernode)
  /\ phase \in {"rows", "hits"} \/ (phase = "forest" /\ at = 0) => leaves = <<>> /\ stack = <<>>
  /\ phase = "forest" /\ at < sym.nsuper =>
       leaves = <<>> /\ Range(stack) = {s \in Supernode : s <= at /\ ~IsChild(s)}
  /\ phase \in {"forest", "done"} /\ at = sym.nsuper =>
       \A c \in Supernode : Kids(sym, c) = {} => \E i \in InLine : c \in Below(sym, Line(i))
  /\ \A i \in 1..Len(leaves) : Kids(sym, leaves[i]) = {}
  /\ \A i, j \in InLine : i # j => Below(sym, Line(i)) \cap Below(sym, Line(j)) = {}
  /\ \A s \in Supernode : \A i, j, k \in InLine :
       i <= j /\ j <= k /\ Line(i) \in Below(sym, s) /\ Line(k) \in Below(sym, s) => Line(j) \in Below(sym, s)

-----------------------------------------------------------------------------
\* What lies below a supernode: it and what lies below its children.
LEMMA BelowItself ==
  ASSUME NEW s \in Supernode
  PROVE  s \in Below(sym, s) /\ Below(sym, s) \subseteq Supernode
BY DEF Below, Supernode

LEMMA BelowLeast ==
  ASSUME NEW s \in Supernode, NEW set \in SUBSET Supernode, s \in set, Closed(sym, set)
  PROVE  Below(sym, s) \subseteq set
BY DEF Below, Supernode

LEMMA BelowClosed ==
  ASSUME sym \in Analyses, NEW s \in Supernode
  PROVE  Closed(sym, Below(sym, s))
<1> SUFFICES ASSUME NEW p \in Below(sym, s), NEW c \in Kids(sym, p) PROVE c \in Below(sym, s)
  BY DEF Closed
<1>1. p \in Supernode  BY BelowItself
<1>2. c \in Supernode  BY <1>1, Shape
<1>3. ASSUME NEW set \in SUBSET Supernode, s \in set, Closed(sym, set) PROVE c \in set
  BY <1>1, <1>3, BelowLeast DEF Closed
<1> QED BY <1>2, <1>3 DEF Below, Supernode

LEMMA BelowTransitive ==
  ASSUME sym \in Analyses, NEW s \in Supernode, NEW c \in Below(sym, s)
  PROVE  Below(sym, c) \subseteq Below(sym, s)
<1>1. c \in Supernode /\ Below(sym, s) \in SUBSET Supernode  BY BelowItself
<1> QED BY <1>1, BelowClosed, BelowLeast

LEMMA BelowBefore ==
  ASSUME sym \in Analyses, NEW s \in Supernode
  PROVE  \A d \in Below(sym, s) : d <= s
<1> DEFINE Upto == {d \in Supernode : d <= s}
<1>0. \A d \in Supernode : d \in Int  BY Shape DEF Supernode
<1>1. s \in Upto /\ Upto \in SUBSET Supernode  BY <1>0
<1>2. ASSUME NEW p \in Upto, NEW c \in Kids(sym, p) PROVE c \in Upto
  <2>1. c \in Supernode /\ c < p  BY Kin
  <2> QED BY <1>0, <2>1
<1>3. Closed(sym, Upto)  BY <1>2 DEF Closed
<1>4. Below(sym, s) \subseteq Upto
  <2> HIDE DEF Upto
  <2> QED BY <1>1, <1>3, BelowLeast
<1> QED BY <1>4

\* Whatever lies below s and is not s has its parent there.
LEMMA BelowParent ==
  ASSUME sym \in Analyses, NEW s \in Supernode, NEW d \in Below(sym, s), d # s
  PROVE  \E p \in Below(sym, s) : d \in Kids(sym, p)
<1> SUFFICES ASSUME \A p \in Below(sym, s) : d \notin Kids(sym, p) PROVE FALSE
  OBVIOUS
<1> DEFINE Others == Below(sym, s) \ {d}
<1>1. s \in Others /\ Others \in SUBSET Supernode  BY BelowItself
<1>2. Closed(sym, Others)  BY BelowClosed DEF Closed
<1>3. Below(sym, s) \subseteq Others
  <2> HIDE DEF Others
  <2> QED BY <1>1, <1>2, BelowLeast
<1> QED BY <1>3

LEMMA BelowKids ==
  ASSUME sym \in Analyses, NEW s \in Supernode
  PROVE  Below(sym, s) = {s} \cup UNION {Below(sym, c) : c \in Kids(sym, s)}
<1> DEFINE Parts == {s} \cup UNION {Below(sym, c) : c \in Kids(sym, s)}
<1>1. \A c \in Kids(sym, s) : c \in Supernode /\ c \in Below(sym, c) /\ Below(sym, c) \subseteq Supernode /\ Closed(sym, Below(sym, c))
  BY Shape, BelowItself, BelowClosed
<1>2. Parts \in SUBSET Supernode /\ s \in Parts  BY <1>1
<1>3. Closed(sym, Parts)  BY <1>1 DEF Closed
<1>4. Below(sym, s) \subseteq Parts
  <2> HIDE DEF Parts
  <2> QED BY <1>2, <1>3, BelowLeast
<1>5. \A c \in Kids(sym, s) : c \in Below(sym, s)  BY BelowItself, BelowClosed DEF Closed
<1>6. \A c \in Kids(sym, s) : Below(sym, c) \subseteq Below(sym, s)  BY <1>5, BelowTransitive
<1> QED BY <1>4, <1>6, BelowItself

\* A child lies below what its parent lies below, and else below itself only.
LEMMA BelowOrTop ==
  ASSUME sym \in Analyses, NEW s \in Supernode, NEW p \in Supernode, NEW c \in Kids(sym, p),
         c \in Below(sym, s), p \notin Below(sym, s)
  PROVE  c = s
<1> SUFFICES ASSUME c # s PROVE FALSE
  OBVIOUS
<1>1. PICK q \in Below(sym, s) : c \in Kids(sym, q)  BY BelowParent
<1>2. q \in Supernode  BY BelowItself
<1>3. q = p  BY <1>1, <1>2, Kin
<1> QED BY <1>1, <1>3

\* The subtrees of two children lie apart.
LEMMA KidsApart ==
  ASSUME sym \in Analyses, NEW p \in Supernode, NEW c \in Kids(sym, p), NEW d \in Kids(sym, p), c # d
  PROVE  Below(sym, c) \cap Below(sym, d) = {}
<1> DEFINE Both == Below(sym, c) \cap Below(sym, d)
<1> SUFFICES ASSUME Both # {} PROVE FALSE
  OBVIOUS
<1>0. c \in Supernode /\ d \in Supernode /\ c < p /\ d < p /\ sym.nsuper \in Nat  BY Kin, Shape
<1>1. Both \in SUBSET (1..sym.nsuper)  BY <1>0, BelowItself DEF Supernode
<1>2. PICK m \in Both : \A t \in Both : t <= m
  <2> HIDE DEF Both
  <2> QED BY <1>0, <1>1, GreatestNumber
<1>3. \A x \in {c, d} : p \notin Below(sym, x)
  <2>1. p \in Int /\ c \in Int /\ d \in Int  BY <1>0 DEF Supernode
  <2> QED BY <1>0, <2>1, BelowBefore
<1>4. m # c  BY <1>0, <1>2, <1>3, BelowOrTop
<1>5. m # d  BY <1>0, <1>2, <1>3, BelowOrTop
<1>6. PICK q \in Below(sym, c) : m \in Kids(sym, q)  BY <1>0, <1>2, <1>4, BelowParent
<1>7. PICK r \in Below(sym, d) : m \in Kids(sym, r)  BY <1>0, <1>2, <1>5, BelowParent
<1>8. q \in Supernode /\ r \in Supernode  BY <1>0, BelowItself
<1>9. q = r /\ m < q  BY <1>6, <1>7, <1>8, Kin
<1>10. q <= m  BY <1>2, <1>6, <1>7, <1>9
<1> QED BY <1>1, <1>2, <1>8, <1>9, <1>10 DEF Supernode

\* A leaf is all there is below it, and there is a leaf below every supernode.
LEMMA LeafAlone ==
  ASSUME sym \in Analyses, NEW s \in Supernode, Kids(sym, s) = {}
  PROVE  Below(sym, s) = {s}
BY BelowKids

\* Every supernode lies below a root.
LEMMA RootAbove ==
  ASSUME sym \in Analyses, NEW c \in Supernode
  PROVE  \E r \in Supernode : ~IsChild(r) /\ c \in Below(sym, r)
<1> DEFINE Above == {s \in Supernode : c \in Below(sym, s)}
<1>0. sym.nsuper \in Nat  BY Shape
<1>1. Above \in SUBSET (1..sym.nsuper) /\ c \in Above  BY BelowItself DEF Supernode
<1>2. PICK m \in Above : \A t \in Above : t <= m
  <2> HIDE DEF Above
  <2> QED BY <1>0, <1>1, GreatestNumber
<1>3. ASSUME IsChild(m) PROVE FALSE
  <2>1. PICK p \in Supernode : m \in Kids(sym, p)  BY <1>3 DEF IsChild
  <2>2. m \in Supernode /\ m < p  BY <2>1, Kin
  <2>3. m \in Below(sym, p)  BY <2>1, BelowItself, BelowClosed DEF Closed
  <2>4. p \in Above  BY <1>2, <2>1, <2>3, BelowTransitive
  <2>5. p <= m  BY <1>2, <2>4
  <2> QED BY <2>1, <2>2, <2>5 DEF Supernode
<1> QED BY <1>2, <1>3

\* Two roots have nothing below in common, and a root lies below itself alone.
LEMMA RootTop ==
  ASSUME sym \in Analyses, NEW r \in Supernode, ~IsChild(r), NEW s \in Supernode, r \in Below(sym, s)
  PROVE  r = s
<1> SUFFICES ASSUME r # s PROVE FALSE
  OBVIOUS
<1>1. PICK p \in Below(sym, s) : r \in Kids(sym, p)  BY BelowParent
<1> QED BY <1>1, BelowItself DEF IsChild

LEMMA RootsApart ==
  ASSUME sym \in Analyses, NEW r \in Supernode, ~IsChild(r), NEW s \in Supernode, ~IsChild(s), r # s
  PROVE  Below(sym, r) \cap Below(sym, s) = {}
<1> DEFINE Both == Below(sym, r) \cap Below(sym, s)
<1> SUFFICES ASSUME Both # {} PROVE FALSE
  OBVIOUS
<1>0. sym.nsuper \in Nat  BY Shape
<1>1. Both \in SUBSET (1..sym.nsuper)  BY BelowItself DEF Supernode
<1>2. PICK m \in Both : \A t \in Both : t <= m
  <2> HIDE DEF Both
  <2> QED BY <1>0, <1>1, GreatestNumber
<1>3. m # r /\ m # s  BY <1>2, RootTop
<1>4. PICK q \in Below(sym, r) : m \in Kids(sym, q)  BY <1>2, <1>3, BelowParent
<1>5. PICK p \in Below(sym, s) : m \in Kids(sym, p)  BY <1>2, <1>3, BelowParent
<1>6. q \in Supernode /\ p \in Supernode  BY BelowItself
<1>7. q = p /\ m < q  BY <1>4, <1>5, <1>6, Kin
<1>8. q <= m  BY <1>2, <1>4, <1>5, <1>7
<1> QED BY <1>1, <1>2, <1>6, <1>7, <1>8 DEF Supernode

-----------------------------------------------------------------------------
\* Where what stands in the line after a visit came from.
Old(i, m) == IF i <= Len(leaves) THEN i ELSE IF i <= Len(leaves) + m THEN Len(leaves) + 1 ELSE i - m + 1
OfTop(i, m) == i > Len(leaves) /\ i <= Len(leaves) + m
Childs == sym.supernodes[stack[Len(stack)]].children

LEMMA VisitLeaf ==
  ASSUME leaves \in Seq(Supernode), stack \in Seq(Supernode), Visit, Childs = <<>>
  PROVE  /\ leaves' \in Seq(Supernode) /\ InLine' = InLine
         /\ \A i \in InLine : Line(i)' = Line(i)
         /\ Len(leaves)' = Len(leaves) + 1 /\ leaves'[Len(leaves) + 1] = stack[Len(stack)]
         /\ \A i \in 1..Len(leaves) : leaves'[i] = leaves[i]
<1> DEFINE L == Len(leaves)
           N == Len(stack)
           s == stack[N]
<1>1. L \in Nat /\ N \in Nat \ {0} /\ s \in Supernode  BY DEF Visit
<1>2. stack' = SubSeq(stack, 1, N - 1) \o Childs /\ leaves' = Append(leaves, s)  BY DEF Visit, Childs
<1>3. /\ stack' \in Seq(Supernode) /\ Len(stack') = N - 1
      /\ \A i \in 1..(N - 1) : stack'[i] = stack[i]
  <2>1. stack # <<>>  BY DEF Visit
  <2>2. /\ SubSeq(stack, 1, Len(stack) - 1) \in Seq(Supernode)
        /\ Len(SubSeq(stack, 1, Len(stack) - 1)) = Len(stack) - 1
        /\ \A i \in 1..(Len(stack) - 1) : SubSeq(stack, 1, Len(stack) - 1)[i] = stack[i]
    BY <2>1, Popped
  <2>3. stack' = SubSeq(stack, 1, N - 1)
    <3>1. \A q \in Seq(Supernode) : q \o <<>> = q  OBVIOUS
    <3> QED BY <1>2, <2>2, <3>1
  <2> QED BY <2>2, <2>3
<1>4. /\ leaves' \in Seq(Supernode) /\ Len(leaves') = L + 1 /\ leaves'[L + 1] = s
      /\ \A i \in 1..L : leaves'[i] = leaves[i]
  BY <1>1, <1>2, AppendProperties
<1>5. InLine' = InLine  BY <1>1, <1>3, <1>4 DEF InLine
<1>6. ASSUME NEW i \in InLine PROVE Line(i)' = Line(i)
  <2>0. i \in 1..(L + N) /\ i \in Int  BY <1>1 DEF InLine
  <2>1. CASE i <= L  BY <1>1, <1>4, <2>0, <2>1 DEF Line
  <2>2. CASE i = L + 1
    <3>1. N + L - i + 1 = N  BY <1>1, <2>2
    <3> QED BY <1>1, <1>4, <2>2, <3>1 DEF Line
  <2>3. CASE i > L + 1
    <3>1. N + L - i + 1 \in 1..(N - 1) /\ (N - 1) + (L + 1) - i + 1 = N + L - i + 1 /\ ~(i <= L) /\ ~(i <= L + 1)
      BY <1>1, <2>0, <2>3
    <3> QED BY <1>3, <1>4, <3>1, SMTT(30) DEF Line
  <2> QED BY <1>1, <2>0, <2>1, <2>2, <2>3
<1> QED BY <1>4, <1>5, <1>6

LEMMA VisitInner ==
  ASSUME leaves \in Seq(Supernode), stack \in Seq(Supernode), Visit, Childs \in Seq(Supernode), Childs # <<>>,
         NEW m, m = Len(Childs)
  PROVE  /\ leaves' = leaves /\ m \in Nat \ {0} /\ Len(leaves) + 1 \in InLine
         /\ Line(Len(leaves) + 1) = stack[Len(stack)]
         /\ \A i \in InLine' :
              /\ Old(i, m) \in InLine
              /\ OfTop(i, m) => Len(leaves) + m - i + 1 \in 1..m /\ Line(i)' = Childs[Len(leaves) + m - i + 1]
              /\ ~OfTop(i, m) => Line(i)' = Line(Old(i, m))
         /\ \A i \in InLine \ {Len(leaves) + 1} : \E j \in InLine' : ~OfTop(j, m) /\ Old(j, m) = i
         /\ \A i \in 1..m : \E j \in InLine' : OfTop(j, m) /\ Line(j)' = Childs[i]
<1> DEFINE L == Len(leaves)
           N == Len(stack)
<1>1. L \in Nat /\ N \in Nat \ {0} /\ m \in Nat \ {0}  BY DEF Visit
<1>2. stack' = SubSeq(stack, 1, N - 1) \o Childs /\ leaves' = leaves  BY DEF Visit, Childs
<1>3. /\ stack' \in Seq(Supernode) /\ Len(stack') = N - 1 + m
      /\ \A i \in 1..(N - 1) : stack'[i] = stack[i]
      /\ \A j \in N..(N - 1 + m) : stack'[j] = Childs[j - N + 1]
  <2>1. stack # <<>>  BY DEF Visit
  <2>2. /\ Pushed(stack, Childs) \in Seq(Supernode) /\ Len(Pushed(stack, Childs)) = Len(stack) - 1 + Len(Childs)
        /\ \A i \in 1..(Len(stack) - 1) : Pushed(stack, Childs)[i] = stack[i]
        /\ \A j \in Len(stack)..Len(Pushed(stack, Childs)) : Pushed(stack, Childs)[j] = Childs[j - Len(stack) + 1]
    BY <2>1, PoppedAndPushed
  <2>3. stack' = Pushed(stack, Childs)  BY <1>2 DEF Pushed
  <2> QED BY <2>2, <2>3
<1>4. InLine = 1..(L + N) /\ InLine' = 1..(L + N - 1 + m)
  <2>1. L + (N - 1 + m) = L + N - 1 + m  BY <1>1
  <2> QED BY <1>2, <1>3, <2>1 DEF InLine
<1>5. L + 1 \in InLine /\ Line(L + 1) = stack[N]
  <2>1. ~(L + 1 <= L) /\ N + L - (L + 1) + 1 = N  BY <1>1
  <2> QED BY <1>1, <1>4, <2>1 DEF Line
<1>6. ASSUME NEW i \in InLine'
      PROVE  /\ Old(i, m) \in InLine
             /\ OfTop(i, m) => L + m - i + 1 \in 1..m /\ Line(i)' = Childs[L + m - i + 1]
             /\ ~OfTop(i, m) => Line(i)' = Line(Old(i, m))
  <2>0. i \in Int /\ 1 <= i /\ i <= L + N - 1 + m  BY <1>1, <1>4
  <2>1. Line(i)' = IF i <= L THEN leaves[i] ELSE stack'[N - 1 + m + L - i + 1]
    BY <1>2, <1>3 DEF Line
  <2>2. CASE i <= L  BY <1>1, <1>4, <2>0, <2>1, <2>2 DEF Old, OfTop, Line
  <2>3. CASE i > L /\ i <= L + m
    <3>1. /\ L + m - i + 1 \in 1..m /\ ~(i <= L)
          /\ N - 1 + m + L - i + 1 \in N..(N - 1 + m) /\ (N - 1 + m + L - i + 1) - N + 1 = L + m - i + 1
      BY <1>1, <2>0, <2>3
    <3> QED BY <1>3, <1>5, <2>1, <2>3, <3>1 DEF Old, OfTop
  <2>4. CASE i > L + m
    <3>1. /\ N - 1 + m + L - i + 1 \in 1..(N - 1) /\ ~(i <= L) /\ ~(i <= L + m)
          /\ i - m + 1 \in 1..(L + N) /\ ~(i - m + 1 <= L)
          /\ N - 1 + m + L - i + 1 = N + L - (i - m + 1) + 1
      BY <1>1, <2>0, <2>4
    <3> QED BY <1>3, <1>4, <2>1, <3>1 DEF Old, OfTop, Line
  <2> QED BY <1>1, <2>0, <2>2, <2>3, <2>4
<1>7. ASSUME NEW i \in InLine \ {L + 1} PROVE \E j \in InLine' : ~OfTop(j, m) /\ Old(j, m) = i
  <2>0. i \in Int /\ 1 <= i /\ i <= L + N /\ i # L + 1  BY <1>1, <1>4
  <2>1. CASE i <= L
    <3>1. i \in InLine'  BY <1>1, <1>4, <2>0, <2>1
    <3>2. ~OfTop(i, m) /\ Old(i, m) = i  BY <1>1, <2>0, <2>1 DEF OfTop, Old
    <3> QED BY <3>1, <3>2
  <2>2. CASE i > L
    <3>1. /\ i + m - 1 \in InLine' /\ ~(i + m - 1 <= L) /\ ~(i + m - 1 <= L + m)
          /\ i + m - 1 - m + 1 = i
      BY <1>1, <1>4, <2>0, <2>2
    <3> DEFINE j == i + m - 1
    <3>2. ~OfTop(j, m)  BY <3>1 DEF OfTop
    <3>3. Old(j, m) = j - m + 1  BY <3>1 DEF Old
    <3>4. j \in InLine' /\ Old(j, m) = i  BY <1>1, <2>0, <3>1, <3>3
    <3> HIDE DEF j
    <3> QED BY <3>2, <3>4
  <2> QED BY <1>1, <2>0, <2>1, <2>2
<1>8. ASSUME NEW i \in 1..m PROVE \E j \in InLine' : OfTop(j, m) /\ Line(j)' = Childs[i]
  <2>1. /\ L + m - i + 1 \in InLine' /\ L + m - i + 1 > L /\ L + m - i + 1 <= L + m
        /\ L + m - (L + m - i + 1) + 1 = i
    BY <1>1, <1>4
  <2>2. OfTop(L + m - i + 1, m)  BY <2>1 DEF OfTop
  <2> QED BY <1>6, <2>1, <2>2
<1> QED BY <1>1, <1>2, <1>5, <1>6, <1>7, <1>8

-----------------------------------------------------------------------------
LEMMA LineStart == ScheduleInit => LineInv
<1> SUFFICES ASSUME ScheduleInit PROVE LineInv
  OBVIOUS
<1>1. phase = "rows" /\ leaves = <<>> /\ stack = <<>> /\ Len(<<>>) = 0  BY DEF ScheduleInit
<1>2. InLine = {} /\ 1..Len(leaves) = {} /\ leaves \in Seq(Supernode)  BY <1>1 DEF InLine
<1> QED BY <1>1, <1>2 DEF LineInv

\* A root found joins the line, behind no leaf.
LEMMA LineRoot ==
  ASSUME TypeInv, LineInv, FindRoots
  PROVE  LineInv'
<1> DEFINE n == sym.nsuper
<1>1. /\ sym' = sym /\ phase = "forest" /\ phase' = "forest" /\ at' = at + 1 /\ leaves' = leaves
      /\ sym \in Analyses /\ n \in Nat /\ at \in Nat /\ at < n /\ stack \in Seq(Supernode)
  BY Shape DEF FindRoots, TypeInv
<1>2. leaves = <<>> /\ Len(leaves) = 0 /\ Range(stack) = {s \in Supernode : s <= at /\ ~IsChild(s)}
  BY <1>1 DEF LineInv
<1>3. /\ Supernode' = Supernode /\ (\A s \in Supernode : IsChild(s)' <=> IsChild(s))
      /\ \A s \in Supernode : s \in Int /\ s >= 1
  BY <1>1 DEF Supernode, IsChild, Kids
<1>4. at + 1 \in Supernode  BY <1>1 DEF Supernode
<1>5. IsChild(at + 1) => stack' = stack
  BY DEF FindRoots
<1>6. ~IsChild(at + 1) => stack' = Append(stack, at + 1)
  BY DEF FindRoots
<1>7. \A s \in Supernode : s <= at + 1 <=> s <= at \/ s = at + 1  BY <1>1, <1>3
<1>8. Range(stack') = {s \in Supernode : s <= at + 1 /\ ~IsChild(s)}
  <2>1. CASE IsChild(at + 1)  BY <1>2, <1>5, <1>7, <2>1
  <2>2. CASE ~IsChild(at + 1)
    <3>0. Range(Append(stack, at + 1)) = Range(stack) \cup {at + 1}  BY <1>1, <1>4, AppendRange
    <3>1. Range(stack') = Range(stack) \cup {at + 1}  BY <1>6, <2>2, <3>0
    <3> QED BY <1>2, <1>4, <1>7, <2>2, <3>1
  <2> QED BY <2>1, <2>2
<1>9. stack' \in Seq(Supernode) /\ Len(stack') \in Nat
  BY <1>1, <1>4, <1>5, <1>6, AppendProperties
<1>10. ASSUME NEW i \in InLine' PROVE Line(i)' \in Supernode /\ ~IsChild(Line(i)')
  <2>1. i \in Nat /\ 1 <= i /\ i <= Len(stack')  BY <1>1, <1>2, <1>9, <1>10 DEF InLine
  <2>2. Line(i)' = stack'[Len(stack') - i + 1] /\ Len(stack') - i + 1 \in 1..Len(stack')
    <3>1. ~(i <= Len(leaves')) /\ Len(stack') + Len(leaves') - i + 1 = Len(stack') - i + 1  BY <1>1, <1>2, <1>9, <2>1
    <3>2. Len(stack') - i + 1 \in 1..Len(stack')  BY <1>9, <2>1
    <3> QED BY <3>1, <3>2 DEF Line
  <2>3. Line(i)' \in Range(stack')  BY <1>9, <2>2 DEF Range
  <2> QED BY <1>8, <2>3
<1>11. ASSUME NEW i \in InLine', NEW j \in InLine', i # j PROVE Line(i)' # Line(j)'
  <2> DEFINE N == Len(stack)
  <2>0. N \in Nat /\ DOMAIN stack = 1..N  BY <1>1
  <2>1. \A x, y \in InLine : x # y => Line(x) # Line(y)
    <3> SUFFICES ASSUME NEW x \in InLine, NEW y \in InLine, x # y PROVE Line(x) # Line(y)
      OBVIOUS
    <3>1. Below(sym, Line(x)) \cap Below(sym, Line(y)) = {}  BY DEF LineInv
    <3>2. Line(x) \in Supernode
      <4>1. x \in Nat /\ 1 <= x /\ x <= N  BY <1>2, <2>0 DEF InLine
      <4>2. Line(x) = stack[N - x + 1] /\ N - x + 1 \in 1..N
        <5>1. ~(x <= Len(leaves)) /\ N + Len(leaves) - x + 1 = N - x + 1  BY <1>2, <2>0, <4>1
        <5>2. N - x + 1 \in 1..N  BY <2>0, <4>1
        <5> QED BY <5>1, <5>2 DEF Line
      <4> QED BY <1>1, <4>2
    <3>3. Line(x) \in Below(sym, Line(x))  BY <3>2, BelowItself
    <3> QED BY <3>1, <3>3
  <2>2. CASE IsChild(at + 1)
    <3>1. stack' = stack /\ leaves' = leaves  BY <1>1, <1>5, <2>2
    <3>2. InLine' = InLine /\ \A x \in InLine : Line(x)' = Line(x)  BY <3>1 DEF InLine, Line
    <3> QED BY <1>11, <2>1, <3>2
  <2>3. CASE ~IsChild(at + 1)
    <3>1. stack' = Append(stack, at + 1)  BY <1>6, <2>3
    <3>2. Len(stack') = N + 1 /\ stack'[N + 1] = at + 1 /\ \A x \in 1..N : stack'[x] = stack[x]
      BY <1>1, <1>4, <3>1, AppendProperties
    <3>3. InLine' = 1..(N + 1) /\ InLine = 1..N  BY <1>1, <1>2, <2>0, <3>2 DEF InLine
    <3>4. ASSUME NEW x \in 1..(N + 1)
          PROVE  IF x = 1 THEN Line(x)' = at + 1 ELSE x - 1 \in InLine /\ Line(x)' = Line(x - 1)
      <4>0. x \in Int /\ 1 <= x /\ x <= N + 1  BY <2>0
      <4>1. Line(x)' = stack'[N + 1 - x + 1]
        <5>1. ~(x <= Len(leaves')) /\ Len(stack') + Len(leaves') - x + 1 = N + 1 - x + 1  BY <1>1, <1>2, <2>0, <3>2, <4>0
        <5> QED BY <5>1 DEF Line
      <4>2. CASE x = 1
        <5>1. N + 1 - x + 1 = N + 1  BY <2>0, <4>2
        <5> QED BY <3>2, <4>1, <4>2, <5>1
      <4>3. CASE x # 1
        <5>1. /\ x - 1 \in 1..N /\ ~(x - 1 <= Len(leaves)) /\ N + Len(leaves) - (x - 1) + 1 = N + 1 - x + 1
              /\ N + 1 - x + 1 \in 1..N
          BY <1>2, <2>0, <4>0, <4>3
        <5>2. Line(x - 1) = stack[N + 1 - x + 1]  BY <5>1 DEF Line
        <5> QED BY <3>2, <3>3, <4>1, <4>3, <5>1, <5>2
      <4> QED BY <4>2, <4>3
    <3>5. at + 1 \notin Range(stack)  BY <1>1, <1>2
    <3>6. \A x \in InLine : Line(x) # at + 1
      <4> TAKE x \in InLine
      <4>1. x \in Nat /\ 1 <= x /\ x <= N  BY <2>0, <3>3
      <4>2. Line(x) = stack[N - x + 1] /\ N - x + 1 \in 1..N
        <5>1. ~(x <= Len(leaves)) /\ N + Len(leaves) - x + 1 = N - x + 1  BY <1>2, <2>0, <4>1
        <5>2. N - x + 1 \in 1..N  BY <2>0, <4>1
        <5> QED BY <5>1, <5>2 DEF Line
      <4>3. Line(x) \in Range(stack)  BY <2>0, <4>2 DEF Range
      <4> QED BY <3>5, <4>3
    <3>7. i \in 1..(N + 1) /\ j \in 1..(N + 1)  BY <1>11, <3>3
    <3>8. CASE i = 1 \/ j = 1  BY <1>11, <3>4, <3>6, <3>7, <3>8
    <3>9. CASE i # 1 /\ j # 1
      <4>1. i - 1 # j - 1  BY <1>11, <2>0, <3>7
      <4> QED BY <2>1, <3>4, <3>7, <3>9, <4>1
    <3> QED BY <3>8, <3>9
  <2> QED BY <2>2, <2>3
<1>12. \A i, j \in InLine' : i # j => Below(sym, Line(i)') \cap Below(sym, Line(j)') = {}
  BY <1>1, <1>10, <1>11, RootsApart
<1>13. ASSUME NEW s \in Supernode, NEW i \in InLine', NEW j \in InLine', NEW k \in InLine', i <= j, j <= k,
              Line(i)' \in Below(sym, s), Line(k)' \in Below(sym, s)
       PROVE  Line(j)' \in Below(sym, s)
  <2>1. Line(i)' = s /\ Line(k)' = s  BY <1>1, <1>10, <1>13, RootTop
  <2>2. i = k  BY <1>11, <2>1
  <2>3. i \in Int /\ j \in Int  BY <1>1, <1>2, <1>9 DEF InLine
  <2>4. i = j  BY <1>13, <2>2, <2>3
  <2> QED BY <1>13, <2>4
<1>14. ASSUME at + 1 = n, NEW c \in Supernode PROVE \E i \in InLine' : c \in Below(sym, Line(i)')
  <2>1. PICK r \in Supernode : ~IsChild(r) /\ c \in Below(sym, r)  BY <1>1, RootAbove
  <2>2. r \in Range(stack')  BY <1>8, <1>14, <2>1 DEF Supernode
  <2>3. PICK x \in 1..Len(stack') : r = stack'[x]  BY <1>9, <2>2 DEF Range
  <2>a. Len(stack') - x + 1 \in 1..Len(stack')  BY <1>9
  <2>b. PICK i \in 1..Len(stack') : i = Len(stack') - x + 1  BY <2>a
  <2>4. /\ i \in 1..Len(stack') /\ ~(i <= Len(leaves')) /\ Len(stack') + Len(leaves') - i + 1 = x
        /\ i \in 1..(Len(leaves') + Len(stack'))
    BY <1>1, <1>2, <1>9, <2>b
  <2>5. i \in InLine' /\ Line(i)' = r  BY <2>3, <2>4 DEF InLine, Line
  <2> QED BY <2>1, <2>5
<1>15. at + 1 # 0  BY <1>1
<1>16. at + 1 = n => \A c \in Supernode : \E i \in InLine' : c \in Below(sym, Line(i)')  BY <1>14
<1>17. {s \in Supernode : s <= at + 1 /\ ~IsChild(s)} = {s \in Supernode' : s <= at' /\ ~IsChild(s)'}  BY <1>1, <1>3
<1>18. \A i \in 1..Len(leaves') : Kids(sym', leaves'[i]) = {}  BY <1>1, <1>2
<1>19. leaves' \in Seq(Supernode')  BY <1>1, <1>2
<1>20. \A s \in Supernode : \A i, j, k \in InLine' :
         i <= j /\ j <= k /\ Line(i)' \in Below(sym, s) /\ Line(k)' \in Below(sym, s) => Line(j)' \in Below(sym, s)
  BY <1>13
<1> HIDE DEF n
<1> QED BY <1>1, <1>2, <1>3, <1>8, <1>12, <1>15, <1>16, <1>17, <1>18, <1>19, <1>20 DEF LineInv, n

\* A visited supernode leaves the line to its children, or stays as a leaf.
LEMMA LineVisit ==
  ASSUME TypeInv, LineInv, Visit
  PROVE  LineInv'
<1> DEFINE n == sym.nsuper
           L == Len(leaves)
           s == stack[Len(stack)]
           m == Len(Childs)
<1>1. /\ sym' = sym /\ phase = "forest" /\ phase' = "forest" /\ at' = at /\ at = n /\ stack # <<>>
      /\ sym \in Analyses /\ n \in Nat /\ stack \in Seq(Supernode) /\ leaves \in Seq(Supernode)
  BY Shape DEF Visit, TypeInv, LineInv
<1>2. Supernode' = Supernode  BY <1>1 DEF Supernode
<1>3. at # 0  BY <1>1 DEF LineInv
<1>4. L \in Nat /\ Len(stack) \in Nat \ {0} /\ s \in Supernode  BY <1>1
<1>5. Childs \in Seq(Supernode) /\ Range(Childs) = Kids(sym, s) /\ Kids(sym, s) \subseteq Supernode
  BY <1>1, <1>4, Shape DEF Childs
<1>6. IsInjective(Childs)  BY <1>1, <1>4, AnalysesHold DEF IsAnalysis, Childs, Supernode
<1>7. \A i \in InLine : Line(i) \in Supernode
  <2> TAKE i \in InLine
  <2>0. i \in Int /\ 1 <= i /\ i <= L + Len(stack)  BY <1>4 DEF InLine
  <2>1. CASE i <= L  BY <1>1, <1>4, <2>0, <2>1 DEF Line
  <2>2. CASE ~(i <= L)
    <3>1. Len(stack) + Len(leaves) - i + 1 \in 1..Len(stack)  BY <1>4, <2>0, <2>2
    <3> QED BY <1>1, <2>2, <3>1 DEF Line
  <2> QED BY <2>1, <2>2
<1>8. CASE Childs = <<>>
  <2>1. /\ leaves' \in Seq(Supernode) /\ InLine' = InLine
        /\ \A i \in InLine : Line(i)' = Line(i)
        /\ Len(leaves)' = L + 1 /\ leaves'[L + 1] = s
        /\ \A i \in 1..L : leaves'[i] = leaves[i]
    BY <1>1, <1>8, VisitLeaf
  <2>2. Kids(sym, s) = {}  BY <1>5, <1>8 DEF Range
  <2>3. \A i \in 1..Len(leaves') : Kids(sym, leaves'[i]) = {}
    <3> TAKE i \in 1..Len(leaves')
    <3>1. i = L + 1 \/ i \in 1..L  BY <1>4, <2>1
    <3> QED BY <2>1, <2>2, <3>1 DEF LineInv
  <2>4. \A c \in Supernode : Kids(sym, c) = {} => \E i \in InLine : c \in Below(sym, Line(i))
    BY <1>1 DEF LineInv
  <2>5. \A i, j \in InLine : i # j => Below(sym, Line(i)) \cap Below(sym, Line(j)) = {}
    BY DEF LineInv
  <2>6. \A u \in Supernode : \A i, j, k \in InLine :
          i <= j /\ j <= k /\ Line(i) \in Below(sym, u) /\ Line(k) \in Below(sym, u) => Line(j) \in Below(sym, u)
    BY DEF LineInv
  <2>7. ~(at < n)  BY <1>1
  <2> QED BY <1>1, <1>2, <1>3, <2>1, <2>3, <2>4, <2>5, <2>6, <2>7 DEF LineInv
<1>9. CASE Childs # <<>>
  <2>1. /\ leaves' = leaves /\ m \in Nat \ {0} /\ L + 1 \in InLine /\ Line(L + 1) = s
        /\ \A i \in InLine' :
             /\ Old(i, m) \in InLine
             /\ OfTop(i, m) => L + m - i + 1 \in 1..m /\ Line(i)' = Childs[L + m - i + 1]
             /\ ~OfTop(i, m) => Line(i)' = Line(Old(i, m))
        /\ \A i \in InLine \ {L + 1} : \E j \in InLine' : ~OfTop(j, m) /\ Old(j, m) = i
        /\ \A i \in 1..m : \E j \in InLine' : OfTop(j, m) /\ Line(j)' = Childs[i]
    BY <1>1, <1>5, <1>9, VisitInner
  <2>2. \A i \in InLine' : i \in Int
    BY <1>4 DEF InLine
  <2>3. \A i \in Int : OfTop(i, m) => Old(i, m) = L + 1
    BY <1>4, <2>1 DEF OfTop, Old
  <2>4. \A i, j \in Int : i <= j => Old(i, m) <= Old(j, m)
    BY <1>4, <2>1 DEF Old
  <2>5. \A i, j \in Int : i # j /\ Old(i, m) = Old(j, m) => OfTop(i, m) /\ OfTop(j, m)
    BY <1>4, <2>1 DEF Old, OfTop
  <2> DEFINE Before(i) == Line(Old(i, m))
  <2>6. ASSUME NEW i \in InLine', OfTop(i, m)
        PROVE  Before(i) = s /\ Line(i)' \in Kids(sym, s)
    <3>1. Line(i)' = Childs[L + m - i + 1] /\ L + m - i + 1 \in 1..m  BY <2>1, <2>6
    <3>2. Line(i)' \in Range(Childs)  BY <1>5, <3>1 DEF Range
    <3> QED BY <1>5, <2>1, <2>2, <2>3, <2>6, <3>2
  <2>7. \A i \in InLine' : ~OfTop(i, m) => Line(i)' = Before(i)  BY <2>1
  <2>8. \A i \in InLine' : Before(i) \in Supernode /\ Line(i)' \in Supernode  BY <1>5, <1>7, <2>1, <2>6, <2>7
  <2>9. \A i \in InLine' : Line(i)' \in Below(sym, Before(i))
    <3> TAKE i \in InLine'
    <3>1. Before(i) \in Supernode /\ Before(i) \in Below(sym, Before(i))  BY <2>8, BelowItself
    <3>2. Closed(sym, Below(sym, Before(i)))  BY <1>1, <3>1, BelowClosed
    <3>3. CASE OfTop(i, m)  BY <2>6, <3>1, <3>2, <3>3 DEF Closed
    <3>4. CASE ~OfTop(i, m)  BY <2>7, <3>1, <3>4
    <3> QED BY <3>3, <3>4
  <2>10. \A i \in InLine' : Below(sym, Line(i)') \subseteq Below(sym, Before(i))
    BY <1>1, <2>8, <2>9, BelowTransitive
  <2>11. \A i, j \in InLine : i # j => Below(sym, Line(i)) \cap Below(sym, Line(j)) = {}
    BY DEF LineInv
  <2>12. ASSUME NEW i \in InLine', NEW j \in InLine', i # j
         PROVE  Below(sym, Line(i)') \cap Below(sym, Line(j)') = {}
    <3>1. CASE Old(i, m) # Old(j, m)
      <4>1. Below(sym, Before(i)) \cap Below(sym, Before(j)) = {}  BY <2>1, <2>11, <3>1
      <4> QED BY <2>10, <4>1
    <3>2. CASE Old(i, m) = Old(j, m)
      <4>1. OfTop(i, m) /\ OfTop(j, m)  BY <2>2, <2>5, <2>12, <3>2
      <4>2. /\ Line(i)' = Childs[L + m - i + 1] /\ L + m - i + 1 \in 1..m
            /\ Line(j)' = Childs[L + m - j + 1] /\ L + m - j + 1 \in 1..m
        BY <2>1, <4>1
      <4>3. L + m - i + 1 # L + m - j + 1  BY <1>4, <2>1, <2>2, <2>12
      <4>4. DOMAIN Childs = 1..m  BY <1>5
      <4>5. Line(i)' # Line(j)'  BY <1>6, <4>2, <4>3, <4>4 DEF IsInjective
      <4> QED BY <1>1, <1>4, <2>6, <4>1, <4>5, KidsApart
    <3> QED BY <3>1, <3>2
  <2>13. ASSUME NEW u \in Supernode, NEW i \in InLine', Line(i)' \in Below(sym, u)
         PROVE  Before(i) \in Below(sym, u) \/ \A k \in InLine' : Line(k)' \in Below(sym, u) => k = i
    <3> SUFFICES ASSUME Before(i) \notin Below(sym, u), NEW k \in InLine', Line(k)' \in Below(sym, u), k # i PROVE FALSE
      OBVIOUS
    <3>1. OfTop(i, m)  BY <2>7, <2>13
    <3>2. Line(i)' = u  BY <1>1, <1>4, <2>6, <2>13, <3>1, BelowOrTop
    <3>3. Line(k)' \in Below(sym, Line(k)')  BY <2>8, BelowItself
    <3> QED BY <2>12, <3>2, <3>3
  <2>14. ASSUME NEW u \in Supernode, NEW i \in InLine', NEW j \in InLine', NEW k \in InLine', i <= j, j <= k,
                Line(i)' \in Below(sym, u), Line(k)' \in Below(sym, u)
         PROVE  Line(j)' \in Below(sym, u)
    <3>1. CASE i = k
      <4>1. j = i  BY <2>2, <2>14, <3>1
      <4> QED BY <2>14, <4>1
    <3>2. CASE i # k
      <4>1. Before(i) \in Below(sym, u) /\ Before(k) \in Below(sym, u)  BY <2>13, <2>14, <3>2
      <4>2. Old(i, m) <= Old(j, m) /\ Old(j, m) <= Old(k, m)  BY <2>2, <2>4, <2>14
      <4>3. Before(j) \in Below(sym, u)  BY <2>1, <4>1, <4>2 DEF LineInv
      <4>4. Below(sym, Before(j)) \subseteq Below(sym, u)  BY <1>1, <4>3, BelowTransitive
      <4> QED BY <2>9, <4>4
    <3> QED BY <3>1, <3>2
  <2>15. ASSUME NEW c \in Supernode, Kids(sym, c) = {}
         PROVE  \E i \in InLine' : c \in Below(sym, Line(i)')
    <3>1. PICK i \in InLine : c \in Below(sym, Line(i))  BY <1>1, <2>15 DEF LineInv
    <3>2. CASE i # L + 1
      <4>1. PICK j \in InLine' : ~OfTop(j, m) /\ Old(j, m) = i  BY <2>1, <3>2
      <4> QED BY <2>7, <3>1, <4>1
    <3>3. CASE i = L + 1
      <4>1. c \in Below(sym, s)  BY <2>1, <3>1, <3>3
      <4>2. Childs[1] \in Kids(sym, s)  BY <1>5, <2>1 DEF Range
      <4>3. c # s  BY <2>15, <4>2
      <4>4. PICK d \in Kids(sym, s) : c \in Below(sym, d)
        <5>1. Below(sym, s) = {s} \cup UNION {Below(sym, d) : d \in Kids(sym, s)}  BY <1>1, <1>4, BelowKids
        <5> QED BY <4>1, <4>3, <5>1
      <4>5. PICK q \in 1..m : d = Childs[q]  BY <1>5, <4>4 DEF Range
      <4> QED BY <2>1, <4>4, <4>5
    <3> QED BY <3>2, <3>3
  <2>16. /\ \A i, j \in InLine' : i # j => Below(sym, Line(i)') \cap Below(sym, Line(j)') = {}
         /\ \A u \in Supernode : \A i, j, k \in InLine' :
              i <= j /\ j <= k /\ Line(i)' \in Below(sym, u) /\ Line(k)' \in Below(sym, u) => Line(j)' \in Below(sym, u)
         /\ \A c \in Supernode : Kids(sym, c) = {} => \E i \in InLine' : c \in Below(sym, Line(i)')
    BY <2>12, <2>14, <2>15
  <2>17. ~(at < n)  BY <1>1
  <2>18. \A i \in 1..Len(leaves) : Kids(sym, leaves[i]) = {}  BY DEF LineInv
  <2> QED BY <1>1, <1>2, <1>3, <2>1, <2>16, <2>17, <2>18 DEF LineInv
<1> QED BY <1>8, <1>9

LEMMA LineStep == TypeInv /\ LineInv /\ [ScheduleNext]_scheduleVars => LineInv'
<1> SUFFICES ASSUME TypeInv, LineInv, [ScheduleNext]_scheduleVars PROVE LineInv'
  OBVIOUS
<1>1. CASE FindRoots  BY <1>1, LineRoot
<1>2. CASE Visit  BY <1>2, LineVisit
<1>3. CASE ~FindRoots /\ ~Visit
  <2>1. sym' = sym /\ stack' = stack /\ leaves' = leaves
    BY <1>3 DEF ScheduleNext, scheduleVars, BuildRows, StartHits, NextUpdater, Hit, StartForest, Finish
  <2>2. InLine' = InLine /\ Supernode' = Supernode /\ \A i \in InLine : Line(i)' = Line(i)
    BY <2>1 DEF InLine, Line, Supernode
  <2>3. \A s \in Supernode : IsChild(s)' <=> IsChild(s)  BY <2>1 DEF IsChild, Supernode, Kids
  <2>4. CASE phase' \in {"rows", "hits"}
    <3>1. phase \in {"rows", "hits"}
      BY <1>3, <2>4 DEF ScheduleNext, scheduleVars, BuildRows, StartHits, NextUpdater, Hit, StartForest, Finish
    <3> QED BY <2>1, <2>2, <2>4, <3>1 DEF LineInv
  <2>5. CASE phase' = "forest" /\ phase # "forest"
    <3>1. phase = "hits" /\ at' = 0
      BY <1>3, <2>5 DEF ScheduleNext, scheduleVars, BuildRows, StartHits, NextUpdater, Hit, StartForest, Finish
    <3>2. leaves = <<>> /\ stack = <<>> /\ Len(<<>>) = 0 /\ Range(stack) = {}  BY <3>1 DEF LineInv, Range
    <3>3. sym.nsuper \in Nat /\ \A s \in Supernode : ~(s <= 0)  BY Shape DEF TypeInv, Supernode
    <3>4. 0 = sym.nsuper => Supernode = {}  BY DEF Supernode
    <3> QED BY <2>1, <2>2, <2>5, <3>1, <3>2, <3>3, <3>4 DEF LineInv
  <2>6. CASE phase' = phase /\ at' = at  BY <2>1, <2>2, <2>3, <2>6 DEF LineInv
  <2>7. CASE phase = "forest" /\ phase' = "done"
    <3>1. at' = at /\ at = sym.nsuper
      BY <1>3, <2>7 DEF ScheduleNext, scheduleVars, BuildRows, StartHits, NextUpdater, Hit, StartForest, Finish
    <3> QED BY <2>1, <2>2, <2>7, <3>1 DEF LineInv
  <2>8. phase' \in {"rows", "hits"} \/ (phase' = "forest" /\ phase # "forest") \/ (phase' = phase /\ at' = at)
          \/ (phase = "forest" /\ phase' = "done")
    BY <1>3 DEF ScheduleNext, scheduleVars, BuildRows, StartHits, NextUpdater, Hit, StartForest, Finish, TypeInv
  <2> QED BY <2>4, <2>5, <2>6, <2>7, <2>8
<1> QED BY <1>1, <1>2, <1>3

LEMMA LeavesInLine ==
  ASSUME TypeInv, ForestInv, LineInv
  PROVE  LeavesDepthFirst
<1> SUFFICES ASSUME phase = "done"
             PROVE  /\ Range(leaves) = {s \in Supernode : Kids(sym, s) = {}}
                    /\ IsInjective(leaves)
                    /\ \A s \in Supernode : \A i, j \in LeavesBelow(s) : i..j \subseteq LeavesBelow(s)
  BY DEF LeavesDepthFirst
<1>1. /\ stack = <<>> /\ at = sym.nsuper /\ leaves \in Seq(Supernode) /\ sym \in Analyses
  BY DEF TypeInv, ForestInv, LineInv
<1>2. Len(leaves) \in Nat /\ DOMAIN leaves = 1..Len(leaves)  BY <1>1
<1>3. InLine = DOMAIN leaves /\ \A i \in InLine : Line(i) = leaves[i]
  BY <1>1, <1>2 DEF InLine, Line
<1>4. \A i \in DOMAIN leaves : leaves[i] \in Supernode /\ Kids(sym, leaves[i]) = {} /\ Below(sym, leaves[i]) = {leaves[i]}
  BY <1>1, <1>2, LeafAlone DEF LineInv
<1>5. Range(leaves) = {s \in Supernode : Kids(sym, s) = {}}
  <2>1. ASSUME NEW c \in Supernode, Kids(sym, c) = {} PROVE c \in Range(leaves)
    <3>1. PICK i \in InLine : c \in Below(sym, Line(i))  BY <1>1, <2>1 DEF LineInv
    <3> QED BY <1>3, <1>4, <3>1 DEF Range
  <2> QED BY <1>4, <2>1 DEF Range
<1>6. IsInjective(leaves)
  <2> SUFFICES ASSUME NEW i \in DOMAIN leaves, NEW j \in DOMAIN leaves, leaves[i] = leaves[j], i # j PROVE FALSE
    BY DEF IsInjective
  <2>1. Below(sym, Line(i)) \cap Below(sym, Line(j)) = {}  BY <1>3 DEF LineInv
  <2> QED BY <1>3, <1>4, <2>1
<1>7. ASSUME NEW s \in Supernode, NEW i \in LeavesBelow(s), NEW k \in LeavesBelow(s), NEW j \in i..k
      PROVE  j \in LeavesBelow(s)
  <2>1. i \in InLine /\ k \in InLine /\ i <= j /\ j <= k /\ j \in InLine
    BY <1>2, <1>3, <1>7 DEF LeavesBelow
  <2>2. Line(i) \in Below(sym, s) /\ Line(k) \in Below(sym, s)  BY <1>3, <1>7, <2>1 DEF LeavesBelow
  <2>3. Line(j) \in Below(sym, s)  BY <2>1, <2>2 DEF LineInv
  <2> QED BY <1>3, <2>1, <2>3 DEF LeavesBelow
<1> QED BY <1>5, <1>6, <1>7

-----------------------------------------------------------------------------
(***************************************************************************)
(* The theorems.                                                           *)
(***************************************************************************)
LEMMA Invariance == ScheduleSpec => []IInv
<1>1. ScheduleInit => IInv
  <2> SUFFICES ASSUME ScheduleInit PROVE IInv
    OBVIOUS
  <2>1. TypeInv /\ ForestInv
    BY TypeStart, ForestStart
  <2>2. /\ phase = "rows" /\ rows = <<>> /\ at = 0 /\ last = NONE
        /\ \A s \in Supernode : updaters[s] = <<>>
    BY DEF ScheduleInit
  <2>3. \A s \in Supernode : Range(updaters[s]) = {} /\ DOMAIN updaters[s] = {}
    BY <2>2 DEF Range
  <2>4. \A k \in Supernode : Walked(k) = {}
    BY <2>2 DEF Walked
  <2>5. RowsInv
    BY <2>2 DEF RowsInv
  <2>6. HitsInv
    BY <2>2, <2>3, <2>4 DEF HitsInv
  <2>7. OrderInv
    BY <2>2, <2>3 DEF OrderInv, UpdatersAscend
  <2> QED
    BY <2>1, <2>5, <2>6, <2>7 DEF IInv
<1>2. IInv /\ [ScheduleNext]_scheduleVars => IInv'
  BY TypeStep, RowsStep, HitsStep, OrderStep, ForestStep DEF IInv
<1> QED
  BY <1>1, <1>2, PTL DEF ScheduleSpec

(***************************************************************************)
(* An updater is listed once, and the lists ascend (LlSchedule::updaters). *)
(***************************************************************************)
THEOREM ListsAscend == ScheduleSpec => []UpdatersAscend
<1>1. IInv => UpdatersAscend
  BY DEF IInv, OrderInv
<1> QED
  BY <1>1, Invariance, PTL

(***************************************************************************)
(* The lists hold the supernodes whose rows hit, and no other              *)
(* (LlSchedule::build).                                                    *)
(***************************************************************************)
THEOREM ListsAreTheHits == ScheduleSpec => []UpdatersAreTheHits
<1>1. IInv => UpdatersAreTheHits
  <2> SUFFICES ASSUME IInv, phase \in {"forest", "done"}, NEW s \in Supernode
               PROVE  Range(updaters[s]) = {k \in Supernode : rows[k] \cap Columns(sym, s) # {}}
    BY DEF UpdatersAreTheHits
  <2>1. updaters[s] \in Seq(Supernode)
    BY DEF IInv, TypeInv
  <2>2. Range(updaters[s]) \subseteq Supernode
    BY <2>1 DEF Range
  <2>3. \A k \in Supernode : Walked(k) = rows[k]
    BY DEF Walked
  <2> QED
    BY <2>2, <2>3 DEF IInv, HitsInv
<1> QED
  BY <1>1, Invariance, PTL

\* A child that the traversal has not found has a parent that it has not found.
LEMMA AllFound ==
  ASSUME IInv, phase = "done"
  PROVE  \A p \in Supernode : \A c \in Kids(sym, p) : parent[c] = p
<1>0. /\ sym \in Analyses /\ sym.nsuper \in Nat /\ stack = <<>> /\ at = sym.nsuper
      /\ \A s \in Supernode : s \in Nat /\ s <= sym.nsuper
  BY Shape DEF IInv, TypeInv, ForestInv, Supernode
<1>1. \A s \in Supernode : Found(s) => \A c \in Kids(sym, s) : parent[c] = s
  BY <1>0 DEF IInv, ForestInv, Range
<1> DEFINE Lost == {s \in Supernode : ~Found(s)}
           Depths == {sym.nsuper - s : s \in Lost}
<1>2. Lost = {}
  <2> SUFFICES ASSUME Lost # {} PROVE FALSE
    OBVIOUS
  <2>1. Depths \in SUBSET Nat /\ Depths # {}
    BY <1>0
  <2>2. PICK s \in Lost : \A t \in Lost : sym.nsuper - s <= sym.nsuper - t
    <3>1. PICK d \in Depths : \A e \in Depths : d <= e
      BY <2>1, LeastNumber
    <3>2. PICK s \in Lost : d = sym.nsuper - s
      BY <3>1
    <3> QED
      BY <3>1, <3>2
  <2>3. \A t \in Lost : t <= s
    BY <1>0, <2>2
  <2>4. IsChild(s) /\ parent[s] = NONE
    BY <1>0, <2>2 DEF Found
  <2>5. PICK p \in Supernode : s \in Kids(sym, p)
    BY <2>4 DEF IsChild
  <2>6. s < p
    BY <1>0, <2>5, Kin
  <2>7. p \notin Lost
    BY <1>0, <2>2, <2>3, <2>6
  <2>8. parent[s] = p
    BY <1>1, <2>5, <2>7
  <2> QED
    BY <1>0, <2>4, <2>8 DEF NONE, Supernode
<1> QED
  BY <1>1, <1>2

\* An updater comes before the supernode it updates, and its parent updates
\* that supernode as well or is it.
LEMMA UpdaterAbove ==
  ASSUME IInv, phase = "done", NEW s \in Supernode, NEW k \in Range(updaters[s])
  PROVE  k \in Supernode /\ k < s /\ parent[k] \in Range(updaters[s]) \cup {s}
<1>a. sym \in Analyses
  BY DEF IInv, TypeInv
<1>b. \A u \in Supernode : Columns(sym, u) \subseteq 1..sym.n /\ Columns(sym, u) # {}
  BY <1>a, Shape
<1>0. /\ sym \in Analyses /\ updaters[s] \in Seq(Supernode) /\ Len(rows) = sym.nsuper
      /\ \A u \in Supernode : u \in Int
      /\ \A u \in Supernode : Columns(sym, u) \subseteq Int /\ Columns(sym, u) # {}
  BY <1>a, <1>b DEF IInv, TypeInv, Supernode
<1>1. k \in Supernode
  BY <1>0 DEF Range
<1>2. \A u \in Supernode : Walked(u) = rows[u]
  BY DEF Walked
<1>3. \A u \in Supernode : u \in Range(updaters[s]) <=> rows[u] \cap Columns(sym, s) # {}
  BY <1>2 DEF IInv, HitsInv
<1>4. PICK r \in rows[k] : r \in Columns(sym, s)
  BY <1>1, <1>3
<1>5. \A u \in Supernode :
        /\ rows[u] \subseteq sym.left[u]
        /\ \A c \in Kids(sym, u) : Beyond(u, rows[c]) \subseteq rows[u]
  BY <1>0 DEF IInv, RowsInv, Supernode
<1>6. r \in Int /\ \A c \in Columns(sym, k) : c < r
  BY <1>0, <1>1, <1>4, <1>5, LeftBeyond
<1>7. k <= s /\ k # s
  <2>1. PICK c \in Columns(sym, k) : TRUE
    BY <1>0, <1>1
  <2>2. c <= r
    BY <1>0, <1>1, <1>6, <2>1
  <2>3. k <= s
    BY <1>0, <1>1, <1>4, <2>1, <2>2, ColumnOrder
  <2>4. k = s => r < r
    BY <1>4, <1>6
  <2> QED
    BY <1>6, <2>3, <2>4
<1>8. PICK p \in Supernode : k \in Kids(sym, p)
  BY <1>0, <1>1, <1>4, <1>5, LeftBeyond
<1>9. parent[k] = p
  BY <1>8, AllFound
<1>10. r \in Columns(sym, p) \cup sym.left[p]
  BY <1>0, <1>1, <1>4, <1>5, <1>8, Kin
<1>11. CASE r \in Columns(sym, p)
  <2>1. p <= s /\ s <= p
    BY <1>0, <1>4, <1>6, <1>11, ColumnOrder
  <2> QED
    BY <1>0, <1>1, <1>7, <1>9, <2>1
<1>12. CASE r \in sym.left[p]
  <2>1. \A c \in Columns(sym, p) : c < r
    BY <1>0, <1>12, LeftBeyond
  <2>2. r \in rows[p]
    BY <1>4, <1>5, <1>8, <2>1 DEF Beyond
  <2>3. p \in Range(updaters[s])
    BY <1>3, <1>4, <2>2
  <2> QED
    BY <1>0, <1>1, <1>7, <1>9, <2>3
<1> QED
  BY <1>10, <1>11, <1>12

(***************************************************************************)
(* The finished schedule satisfies what the forest driver is proved under  *)
(* (LlSchedule::build, forest; ForestSchedule!ScheduleAssumption).         *)
(***************************************************************************)
THEOREM ScheduleFitsForest == ScheduleSpec => []FitsForest
<1>1. IInv => FitsForest
  <2> SUFFICES ASSUME IInv, phase = "done"
               PROVE  IsSchedule(sym.nsuper, parent, UpdaterSets)
    BY DEF FitsForest
  <2>1. /\ sym \in Analyses /\ sym.nsuper \in Nat
        /\ parent \in [Supernode -> Supernode \cup {NONE}]
    BY Shape DEF IInv, TypeInv
  <2>2. ASSUME NEW c \in Supernode, parent[c] # NONE
        PROVE  c < parent[c]
    <3>1. parent[c] \in Supernode /\ c \in Kids(sym, parent[c])
      BY <2>1, <2>2 DEF IInv, ForestInv
    <3> QED
      BY <2>1, <3>1, Kin
  <2>3. \A s \in Supernode : \A k \in Range(updaters[s]) :
          k \in Supernode /\ k < s /\ parent[k] \in Range(updaters[s]) \cup {s}
    BY UpdaterAbove
  <2> QED
    BY <2>1, <2>2, <2>3 DEF IsSchedule, UpdaterSets, Supernode
<1> QED
  BY <1>1, Invariance, PTL

\* Together: what the forest scheduler is handed.
THEOREM ScheduleSound == ScheduleSpec => []ScheduleIsSound
BY ListsAscend, ListsAreTheHits, ScheduleFitsForest, PTL DEF ScheduleIsSound

(***************************************************************************)
(* The rows are those the factor has, as many as the supernodes are sized  *)
(* for, and the leaves are the childless supernodes, each once and those   *)
(* below a supernode next to one another (LlSchedule::build, forest).      *)
(***************************************************************************)
THEOREM RowsAndLeavesHold == ScheduleSpec => []RowsAndLeaves
<1>1. IInv => RowsAreTheFactors
  <2> SUFFICES ASSUME IInv, NEW s \in 1..Len(rows)
               PROVE  rows[s] = sym.left[s] /\ sym.supernodes[s].nrow = sym.supernodes[s].ncol + Cardinality(rows[s])
    BY DEF RowsAreTheFactors
  <2>1. rows[s] = sym.left[s]
    BY DEF IInv, RowsInv
  <2>2. sym \in Analyses /\ Len(rows) \in Nat /\ Len(rows) <= sym.nsuper /\ sym.nsuper \in Nat
    BY Shape DEF IInv, TypeInv
  <2>3. s \in 1..sym.nsuper
    BY <2>2
  <2> QED
    BY <2>1, <2>2, <2>3, AnalysesHold DEF IsAnalysis
<1>2. IInv /\ LineInv => LeavesDepthFirst
  BY LeavesInLine DEF IInv
<1>3. IInv /\ LineInv /\ [ScheduleNext]_scheduleVars => LineInv'
  BY LineStep DEF IInv
<1> QED
  BY <1>1, <1>2, <1>3, LineStart, Invariance, PTL DEF ScheduleSpec, RowsAndLeaves

-----------------------------------------------------------------------------
(***************************************************************************)
(* The arena: the slots lie apart within the buffer, those of a lazy arena *)
(* below its cursor; while the panels are closed, what is closed lies      *)
(* below `place' and what has still to move at or above it.                *)
(***************************************************************************)
KeptSizes == [s \in Panels |-> KeptOf(s)]
End == IF lazy THEN Room(job) ELSE Total(job.slot)

ArenaTypes ==
  /\ job \in Jobs /\ lazy \in BOOLEAN /\ full \in BOOLEAN
  /\ cursor \in Nat /\ place \in Nat /\ claimed \subseteq Panels
  /\ stage \in {"fronts", "closing", "closed"}
  /\ stage # "fronts" => ~full

SlotsApart ==
  /\ DOMAIN slots \subseteq Panels /\ filled \subseteq DOMAIN slots
  /\ DOMAIN vals = 0..End - 1
  /\ \A s \in DOMAIN slots : slots[s] \in Nat /\ slots[s] + SizeOf(s) <= End
  /\ \A s, t \in DOMAIN slots :
       s # t => slots[s] + SizeOf(s) <= slots[t] \/ slots[t] + SizeOf(t) <= slots[s]

CursorInv ==
  /\ cursor = SumAt(job.front, claimed)
  /\ DOMAIN slots \subseteq claimed
  /\ \A s \in DOMAIN slots : slots[s] + SizeOf(s) <= cursor
  /\ full => cursor > Room(job) /\ DOMAIN slots # Panels
  /\ ~full => cursor <= Room(job)

FixedInv ==
  /\ ~full
  /\ \A s, t \in Panels : s < t => slots[s] + SizeOf(s) <= slots[t]

FrontsInv ==
  /\ moves = {} /\ place = 0 /\ DOMAIN offset = {}
  /\ \A s \in DOMAIN slots : \A i \in Slot(s) :
       vals[i] = IF s \in filled THEN <<s, i - slots[s]>> ELSE Zeroed

ClosingInv ==
  /\ DOMAIN slots = Panels /\ moves \subseteq Panels
  /\ DOMAIN offset \cap moves = {}
  /\ \A s \in moves :
       /\ KeptOf(s) > 0 /\ place <= slots[s]
       /\ \A i \in 0..KeptOf(s) - 1 : vals[slots[s] + i] = <<s, i>>

FactorInv ==
  /\ DOMAIN offset \subseteq Panels
  /\ place = SumAt(KeptSizes, DOMAIN offset)
  /\ \A s \in DOMAIN offset :
       /\ offset[s] \in Nat /\ offset[s] + KeptOf(s) <= place
       /\ \A i \in 0..KeptOf(s) - 1 : vals[offset[s] + i] = <<s, i>>

ArenaInv ==
  /\ ArenaTypes /\ FactorInv
  /\ stage # "closed" => SlotsApart /\ (IF lazy THEN CursorInv ELSE FixedInv)
  /\ stage = "fronts" => FrontsInv
  /\ stage = "closing" => ClosingInv

LEMMA MinOfTwo == ASSUME NEW a \in Int, NEW b \in Int
                  PROVE  Min({a, b}) = IF a <= b THEN a ELSE b
<1> DEFINE m == IF a <= b THEN a ELSE b
<1>1. m \in {a, b} /\ \A y \in {a, b} : m <= y
  OBVIOUS
<1>2. \A e \in {a, b} : (\A y \in {a, b} : e <= y) => e = m
  OBVIOUS
<1> QED
  BY <1>1, <1>2 DEF Min

\* What a job is: sizes of the same panels.
LEMMA JobSizes ==
  ASSUME NEW j \in Jobs
  PROVE  \E n \in Nat :
           /\ DOMAIN j.slot = 1..n /\ DOMAIN j.front = 1..n /\ DOMAIN j.kept = 1..n
           /\ \A s \in 1..n : j.slot[s] \in Nat /\ j.front[s] \in Nat /\ j.kept[s] \in Nat /\ j.kept[s] <= j.front[s]
           /\ IsFiniteSet(1..n) /\ j.delays \in BOOLEAN
<1>1. /\ j \in [delays : BOOLEAN, slot : Seq(Nat), front : Seq(Nat), kept : Seq(Nat)]
      /\ Len(j.front) = Len(j.slot) /\ Len(j.kept) = Len(j.slot)
      /\ \A s \in DOMAIN j.slot : j.kept[s] <= j.front[s]
  BY ArenaAssumption DEF IsJob
<1> DEFINE n == Len(j.slot)
<1>2. n \in Nat /\ DOMAIN j.slot = 1..n /\ DOMAIN j.front = 1..n /\ DOMAIN j.kept = 1..n
  BY <1>1
<1>3. \A s \in 1..n : j.slot[s] \in Nat /\ j.front[s] \in Nat /\ j.kept[s] \in Nat
  BY <1>1
<1>4. IsFiniteSet(1..n)  BY <1>2, FS_Interval
<1> QED BY <1>1, <1>2, <1>3, <1>4

LEMMA RoomIsNat == ASSUME NEW j \in Jobs PROVE Room(j) \in Nat /\ Total(j.slot) \in Nat
<1>1. PICK n \in Nat : /\ DOMAIN j.slot = 1..n /\ IsFiniteSet(1..n)
                       /\ \A s \in 1..n : j.slot[s] \in Nat
  BY JobSizes
<1>2. SumAt(j.slot, 1..n) \in Nat  BY <1>1, SumType
<1> QED BY <1>1, <1>2, ArenaAssumption DEF Room, Total

\* What a panel keeps fits its front.
LEMMA PanelSizes ==
  ASSUME ArenaTypes, NEW s \in Panels
  PROVE  SizeOf(s) \in Nat /\ KeptOf(s) \in Nat /\ KeptOf(s) <= SizeOf(s)
<1>1. /\ job.slot[s] \in Nat /\ job.front[s] \in Nat /\ job.kept[s] \in Nat /\ job.kept[s] <= job.front[s]
  BY JobSizes DEF ArenaTypes, Panels
<1>2. Min({job.kept[s], job.slot[s]}) = IF job.kept[s] <= job.slot[s] THEN job.kept[s] ELSE job.slot[s]
  BY <1>1, MinOfTwo
<1> QED BY <1>1, <1>2 DEF SizeOf, KeptOf

\* The slots of the analysis lie one behind the other, up to their total.
LEMMA FixedSlotsApart ==
  ASSUME NEW j \in Jobs, NEW s \in DOMAIN j.slot
  PROVE  /\ FixedSlots(j)[s] \in Nat /\ j.slot[s] \in Nat
         /\ FixedSlots(j)[s] + j.slot[s] <= Total(j.slot)
         /\ \A t \in DOMAIN j.slot : s < t => FixedSlots(j)[s] + j.slot[s] <= FixedSlots(j)[t]
<1>1. PICK n \in Nat : DOMAIN j.slot = 1..n /\ \A t \in 1..n : j.slot[t] \in Nat
  BY JobSizes
<1>2. \A t \in 1..n : FixedSlots(j)[t] = SumAt(j.slot, 1..t - 1)
  BY <1>1 DEF FixedSlots
<1>3. \A t \in 0..n : IsFiniteSet(1..t) /\ \A e \in 1..t : j.slot[e] \in Nat
  BY <1>1, FS_Interval
<1>4. s \in 1..n /\ s - 1 \in 0..n /\ s \notin 1..s - 1 /\ (1..s - 1) \cup {s} = 1..s
  BY <1>1
<1>5. SumAt(j.slot, 1..s) = SumAt(j.slot, 1..s - 1) + j.slot[s]
  <2>1. \A e \in (1..s - 1) \cup {s} : j.slot[e] \in Nat  BY <1>3, <1>4
  <2>2. IsFiniteSet(1..s - 1)  BY <1>3, <1>4
  <2>3. SumAt(j.slot, (1..s - 1) \cup {s}) = SumAt(j.slot, 1..s - 1) + j.slot[s]
    BY <1>4, <2>1, <2>2, SumAdds
  <2> QED BY <1>4, <2>3
<1>6. SumAt(j.slot, 1..s - 1) \in Nat
  BY <1>3, <1>4, SumType
<1>7. ASSUME NEW m \in s..n PROVE SumAt(j.slot, 1..s) <= SumAt(j.slot, 1..m)
  <2>1. m \in 0..n /\ 1..s \in SUBSET (1..m)  BY <1>4, <1>7
  <2>2. IsFiniteSet(1..m) /\ \A e \in 1..m : j.slot[e] \in Nat  BY <1>3, <2>1
  <2> QED BY <2>1, <2>2, SumGrows
<1>8. SumAt(j.slot, 1..s) <= Total(j.slot)
  BY <1>1, <1>4, <1>7 DEF Total
<1>9. ASSUME NEW t \in DOMAIN j.slot, s < t PROVE FixedSlots(j)[s] + j.slot[s] <= FixedSlots(j)[t]
  <2>1. t - 1 \in s..n  BY <1>1, <1>4, <1>9
  <2> QED BY <1>1, <1>2, <1>4, <1>5, <1>7, <2>1
<1> QED BY <1>1, <1>2, <1>4, <1>5, <1>6, <1>8, <1>9

LEMMA OpenKeeps ==
  ASSUME NEW j \in Jobs, NEW d \in BOOLEAN, Opened(j, d)
  PROVE  ArenaInv'
<1>1. /\ job' = j /\ cursor' = 0 /\ claimed' = {} /\ full' = FALSE /\ filled' = {}
      /\ moves' = {} /\ place' = 0 /\ offset' = EmptyMap /\ stage' = "fronts"
      /\ lazy' = d
  BY DEF Opened, OpenLazy, OpenFixed
<1>2. DOMAIN offset' = {}  BY <1>1 DEF EmptyMap
<1>3. ArenaTypes'  BY <1>1 DEF ArenaTypes
<1>4. FactorInv'  BY <1>1, <1>2, SumEmpty DEF FactorInv
<1>5. CASE d
  <2>1. slots' = EmptyMap /\ DOMAIN slots' = {} /\ DOMAIN vals' = 0..Room(j) - 1
    BY <1>5 DEF Opened, OpenLazy, EmptyMap
  <2>2. SlotsApart'  BY <1>1, <1>5, <2>1 DEF SlotsApart, End
  <2>3. CursorInv'
    <3>1. SumAt(job'.front, {}) = 0  BY SumEmpty
    <3> QED BY <1>1, <1>5, <2>1, <3>1, RoomIsNat DEF CursorInv
  <2>4. FrontsInv'  BY <1>1, <1>2, <2>1 DEF FrontsInv
  <2> QED BY <1>1, <1>3, <1>4, <1>5, <2>2, <2>3, <2>4 DEF ArenaInv
<1>6. CASE ~d
  <2>1. slots' = FixedSlots(j) /\ DOMAIN slots' = DOMAIN j.slot
        /\ vals' = [i \in 0..Total(j.slot) - 1 |-> Zeroed]
    BY <1>6 DEF Opened, OpenFixed, FixedSlots
  <2>2. \A s : SizeOf(s)' = j.slot[s]
    BY <1>1, <1>6 DEF SizeOf
  <2>3. \A s \in DOMAIN j.slot :
          /\ slots'[s] \in Nat /\ j.slot[s] \in Nat /\ slots'[s] + j.slot[s] <= Total(j.slot)
          /\ \A t \in DOMAIN j.slot : s < t => slots'[s] + j.slot[s] <= slots'[t]
    BY <2>1, FixedSlotsApart
  <2>4. Panels' = DOMAIN j.slot /\ End' = Total(j.slot) /\ Total(j.slot) \in Nat
    BY <1>1, <1>6, RoomIsNat DEF Panels, End
  <2>5. \A s, t \in DOMAIN j.slot : s # t => s < t \/ t < s
    BY JobSizes
  <2>6. SlotsApart'
    BY <1>1, <2>1, <2>2, <2>3, <2>4, <2>5 DEF SlotsApart
  <2>7. FixedInv'
    BY <1>1, <2>2, <2>3, <2>4 DEF FixedInv
  <2>8. FrontsInv'
    <3>1. ASSUME NEW s \in DOMAIN slots', NEW i \in Slot(s)' PROVE vals'[i] = Zeroed
      <4>1. i \in slots'[s]..slots'[s] + j.slot[s] - 1  BY <2>2, <3>1 DEF Slot
      <4>2. slots'[s] \in Nat /\ j.slot[s] \in Nat /\ slots'[s] + j.slot[s] <= Total(j.slot)
        BY <2>1, <2>3, <3>1
      <4>3. i \in 0..Total(j.slot) - 1  BY <2>4, <4>1, <4>2
      <4> QED BY <2>1, <4>3
    <3> QED BY <1>1, <1>2, <3>1 DEF FrontsInv
  <2> QED BY <1>1, <1>3, <1>4, <1>6, <2>6, <2>7, <2>8 DEF ArenaInv
<1> QED BY <1>5, <1>6

LEMMA ClaimKeeps ==
  ASSUME ArenaInv, NEW s \in Panels, Claim(s)
  PROVE  ArenaInv'
<1> USE DEF ArenaInv
<1> DEFINE size == SizeOf(s)
<1>1. /\ stage = "fronts" /\ lazy /\ s \notin claimed
      /\ claimed' = claimed \cup {s} /\ cursor' = cursor + size
      /\ UNCHANGED <<job, lazy, filled, moves, place, offset, stage>>
  BY DEF Claim
<1>2. ArenaTypes /\ SlotsApart /\ CursorInv /\ FrontsInv /\ FactorInv
  BY <1>1
<1>3. size \in Nat /\ size = job.front[s] /\ cursor \in Nat /\ Room(job) \in Nat
  BY <1>1, <1>2, PanelSizes, RoomIsNat DEF SizeOf, ArenaTypes
<1>4. Panels' = Panels /\ End' = End /\ End = Room(job) /\ KeptSizes' = KeptSizes
      /\ (\A t : SizeOf(t)' = SizeOf(t) /\ KeptOf(t)' = KeptOf(t))
  BY <1>1 DEF Panels, End, KeptSizes, SizeOf, KeptOf
<1>5. cursor' = SumAt(job.front, claimed')
  <2>1. PICK n \in Nat : DOMAIN job.slot = 1..n /\ IsFiniteSet(1..n) /\ \A t \in 1..n : job.front[t] \in Nat
    BY <1>2, JobSizes DEF ArenaTypes
  <2>2. claimed \subseteq 1..n /\ s \in 1..n  BY <1>2, <2>1 DEF ArenaTypes, Panels
  <2>3. IsFiniteSet(claimed) /\ \A t \in claimed \cup {s} : job.front[t] \in Nat
    BY <2>1, <2>2, FS_Subset
  <2>4. SumAt(job.front, claimed \cup {s}) = SumAt(job.front, claimed) + job.front[s]
    BY <1>1, <2>3, SumAdds
  <2> QED BY <1>1, <1>2, <1>3, <2>4 DEF CursorInv
<1> HIDE DEF size
<1>6. cursor' \in Nat /\ claimed' \subseteq Panels /\ cursor <= cursor'
  BY <1>1, <1>2, <1>3 DEF ArenaTypes
<1>7. DOMAIN offset = {}  BY <1>2 DEF FrontsInv
<1>8. FactorInv'
  BY <1>1, <1>2, <1>4, <1>7 DEF FactorInv
<1>9. s \notin DOMAIN slots /\ s \notin filled
  BY <1>1, <1>2 DEF CursorInv, SlotsApart
<1>10. CASE cursor + size <= Room(job)
  <2>1. /\ slots' = [t \in DOMAIN slots \cup {s} |-> IF t = s THEN cursor ELSE slots[t]]
        /\ vals' = [i \in DOMAIN vals |-> IF i \in cursor..cursor + size - 1 THEN Zeroed ELSE vals[i]]
        /\ full' = full
    BY <1>10 DEF Claim, Fits, size
  <2>2. ~full  BY <1>2, <1>3, <1>10 DEF CursorInv, ArenaTypes
  <2>3. ArenaTypes'  BY <1>1, <1>2, <1>4, <1>6, <2>1 DEF ArenaTypes
  <2>4. /\ DOMAIN slots' = DOMAIN slots \cup {s} /\ DOMAIN vals' = DOMAIN vals
        /\ slots'[s] = cursor /\ \A t \in DOMAIN slots : slots'[t] = slots[t]
    BY <1>9, <2>1
  <2>5. \A t \in DOMAIN slots : slots[t] \in Nat /\ SizeOf(t) \in Nat /\ slots[t] + SizeOf(t) <= cursor
    BY <1>2, PanelSizes DEF SlotsApart, CursorInv
  <2>6. SlotsApart'
    <3>1. DOMAIN slots' \subseteq Panels /\ filled' \subseteq DOMAIN slots' /\ DOMAIN vals' = 0..End - 1
      BY <1>1, <1>2, <2>4 DEF SlotsApart
    <3>2. \A t \in DOMAIN slots' : slots'[t] \in Nat /\ slots'[t] + SizeOf(t) <= End
      BY <1>2, <1>3, <1>4, <1>10, <2>4 DEF SlotsApart, size
    <3>3. ASSUME NEW t \in DOMAIN slots', NEW u \in DOMAIN slots', t # u
          PROVE slots'[t] + SizeOf(t) <= slots'[u] \/ slots'[u] + SizeOf(u) <= slots'[t]
      <4>1. CASE t = s
        BY <2>4, <2>5, <3>3, <4>1
      <4>2. CASE u = s
        BY <2>4, <2>5, <3>3, <4>2
      <4>3. CASE t # s /\ u # s
        BY <1>2, <2>4, <3>3, <4>3 DEF SlotsApart
      <4> QED BY <4>1, <4>2, <4>3
    <3> QED BY <1>4, <3>1, <3>2, <3>3 DEF SlotsApart
  <2>7. CursorInv'
    <3>1. \A t \in DOMAIN slots' : slots'[t] + SizeOf(t) <= cursor'
      <4> TAKE t \in DOMAIN slots'
      <4>1. CASE t = s  BY <1>1, <1>3, <2>4, <4>1 DEF size
      <4>2. CASE t # s
        <5>1. t \in DOMAIN slots  BY <2>4, <4>2
        <5>2. slots[t] + SizeOf(t) <= cursor /\ slots'[t] = slots[t] /\ slots[t] \in Nat /\ SizeOf(t) \in Nat
          BY <2>4, <2>5, <5>1
        <5> QED BY <1>3, <1>6, <5>2
      <4> QED BY <4>1, <4>2
    <3>2. DOMAIN slots' \subseteq claimed'  BY <1>1, <1>2, <2>4 DEF CursorInv
    <3>3. Room(job)' = Room(job)  BY <1>1
    <3>4. job'.front = job.front  BY <1>1
    <3>5. ~full' /\ cursor' <= Room(job)'  BY <1>1, <1>10, <2>1, <2>2, <3>3
    <3> QED BY <1>4, <1>5, <3>1, <3>2, <3>4, <3>5 DEF CursorInv
  <2>8. FrontsInv'
    <3>1. ASSUME NEW t \in DOMAIN slots', NEW i \in Slot(t)'
          PROVE  vals'[i] = IF t \in filled THEN <<t, i - slots'[t]>> ELSE Zeroed
      <4>1. i \in slots'[t]..slots'[t] + SizeOf(t) - 1  BY <1>4, <3>1 DEF Slot
      <4>2. CASE t = s
        <5>1. i \in cursor..cursor + size - 1  BY <2>4, <4>1, <4>2 DEF size
        <5>2. i \in DOMAIN vals
          BY <1>2, <1>3, <1>4, <1>10, <5>1 DEF SlotsApart
        <5> QED BY <1>9, <2>1, <4>2, <5>1, <5>2
      <4>3. CASE t # s
        <5>1. t \in DOMAIN slots /\ slots'[t] = slots[t]  BY <2>4, <4>3
        <5>2. slots[t] \in Nat /\ SizeOf(t) \in Nat /\ slots[t] + SizeOf(t) <= cursor /\ slots[t] + SizeOf(t) <= End
          BY <1>2, <2>5, <5>1 DEF SlotsApart
        <5>3. i \in Slot(t) /\ i \notin cursor..cursor + size - 1  BY <1>3, <4>1, <5>1, <5>2 DEF Slot
        <5>4. i \in DOMAIN vals  BY <1>2, <1>3, <1>4, <4>1, <5>1, <5>2 DEF SlotsApart
        <5>5. vals'[i] = vals[i]  BY <2>1, <5>3, <5>4
        <5> QED BY <1>2, <5>1, <5>3, <5>5 DEF FrontsInv
      <4> QED BY <4>2, <4>3
    <3> QED BY <1>1, <1>2, <3>1 DEF FrontsInv
  <2> QED BY <1>1, <1>8, <2>3, <2>6, <2>7, <2>8
<1>11. CASE ~(cursor + size <= Room(job))
  <2>1. full' = TRUE /\ UNCHANGED <<slots, vals>>
    BY <1>11 DEF Claim, Fits, size
  <2>2. ArenaTypes'  BY <1>1, <1>2, <1>4, <1>6, <2>1 DEF ArenaTypes
  <2>3. SlotsApart'  BY <1>1, <1>2, <1>4, <2>1 DEF SlotsApart
  <2>4. CursorInv'
    <3>1. \A t \in DOMAIN slots : slots[t] + SizeOf(t) <= cursor'
      <4> TAKE t \in DOMAIN slots
      <4>1. slots[t] + SizeOf(t) <= cursor /\ slots[t] \in Nat /\ SizeOf(t) \in Nat
        BY <1>2, PanelSizes DEF CursorInv, SlotsApart
      <4> QED BY <1>3, <1>6, <4>1
    <3>2. DOMAIN slots \subseteq claimed'  BY <1>1, <1>2 DEF CursorInv
    <3>3. cursor' > Room(job) /\ DOMAIN slots # Panels  BY <1>1, <1>3, <1>9, <1>11
    <3>4. Room(job)' = Room(job) /\ job'.front = job.front  BY <1>1
    <3> QED BY <1>4, <1>5, <2>1, <3>1, <3>2, <3>3, <3>4 DEF CursorInv
  <2>5. FrontsInv'  BY <1>1, <1>2, <1>4, <2>1 DEF FrontsInv, Slot
  <2> QED BY <1>1, <1>8, <2>2, <2>3, <2>4, <2>5
<1> QED BY <1>10, <1>11

LEMMA FillKeeps ==
  ASSUME ArenaInv, NEW s \in Panels, FillSlot(s)
  PROVE  ArenaInv'
<1> USE DEF ArenaInv
<1>1. /\ stage = "fronts" /\ s \in DOMAIN slots /\ s \notin filled
      /\ filled' = filled \cup {s}
      /\ vals' = [i \in DOMAIN vals |-> IF i \in Slot(s) THEN <<s, i - slots[s]>> ELSE vals[i]]
      /\ UNCHANGED <<job, lazy, slots, cursor, claimed, full, moves, place, offset, stage>>
  BY DEF FillSlot
<1>2. ArenaTypes /\ SlotsApart /\ FrontsInv /\ FactorInv /\ (IF lazy THEN CursorInv ELSE FixedInv)
  BY <1>1
<1>3. Panels' = Panels /\ End' = End /\ KeptSizes' = KeptSizes
      /\ (\A t : SizeOf(t)' = SizeOf(t) /\ KeptOf(t)' = KeptOf(t) /\ Slot(t)' = Slot(t))
  BY <1>1 DEF Panels, End, KeptSizes, SizeOf, KeptOf, Slot
<1>4. ArenaTypes'  BY <1>1, <1>2, <1>3 DEF ArenaTypes
<1>5. SlotsApart'  BY <1>1, <1>2, <1>3 DEF SlotsApart
<1>6. IF lazy' THEN CursorInv' ELSE FixedInv'
  <2>1. Room(job)' = Room(job)  BY <1>1
  <2> QED BY <1>1, <1>2, <1>3, <2>1 DEF CursorInv, FixedInv
<1>7. DOMAIN offset = {}  BY <1>2 DEF FrontsInv
<1>8. FactorInv'  BY <1>1, <1>2, <1>3, <1>7 DEF FactorInv
<1>9. FrontsInv'
  <2>1. ASSUME NEW t \in DOMAIN slots, NEW i \in Slot(t)
        PROVE  vals'[i] = IF t \in filled' THEN <<t, i - slots[t]>> ELSE Zeroed
    <3>1. slots[t] \in Nat /\ SizeOf(t) \in Nat /\ slots[t] + SizeOf(t) <= End
          /\ slots[s] \in Nat /\ SizeOf(s) \in Nat
      BY <1>1, <1>2, PanelSizes DEF SlotsApart
    <3>2. i \in slots[t]..slots[t] + SizeOf(t) - 1  BY <2>1 DEF Slot
    <3>3. End \in Nat  BY <1>2, RoomIsNat DEF End, ArenaTypes
    <3>4. i \in DOMAIN vals  BY <1>2, <3>1, <3>2, <3>3 DEF SlotsApart
    <3>5. CASE t = s  BY <1>1, <2>1, <3>4, <3>5
    <3>6. CASE t # s
      <4>1. i \notin Slot(s)
        <5>1. slots[s] + SizeOf(s) <= slots[t] \/ slots[t] + SizeOf(t) <= slots[s]
          BY <1>1, <1>2, <2>1, <3>6 DEF SlotsApart
        <5> QED BY <3>1, <3>2, <5>1 DEF Slot
      <4> QED BY <1>1, <1>2, <2>1, <3>4, <3>6, <4>1 DEF FrontsInv
    <3> QED BY <3>5, <3>6
  <2> QED BY <1>1, <1>2, <1>3, <2>1 DEF FrontsInv
<1> QED BY <1>1, <1>4, <1>5, <1>6, <1>8, <1>9

LEMMA StartClosingKeeps ==
  ASSUME ArenaInv, StartClosing
  PROVE  ArenaInv'
<1> USE DEF ArenaInv
<1>1. /\ stage = "fronts" /\ filled = Panels
      /\ moves' = {s \in Panels : KeptOf(s) > 0} /\ stage' = "closing"
      /\ UNCHANGED <<job, lazy, vals, slots, cursor, claimed, full, filled, place, offset>>
  BY DEF StartClosing
<1>2. ArenaTypes /\ SlotsApart /\ FrontsInv /\ FactorInv /\ (IF lazy THEN CursorInv ELSE FixedInv)
  BY <1>1
<1>3. Panels' = Panels /\ End' = End /\ KeptSizes' = KeptSizes
      /\ (\A t : SizeOf(t)' = SizeOf(t) /\ KeptOf(t)' = KeptOf(t) /\ Slot(t)' = Slot(t))
  BY <1>1 DEF Panels, End, KeptSizes, SizeOf, KeptOf, Slot
<1>4. DOMAIN slots = Panels  BY <1>1, <1>2 DEF SlotsApart
<1>5. ~full  BY <1>2, <1>4 DEF CursorInv, FixedInv
<1>6. ArenaTypes'  BY <1>1, <1>2, <1>3, <1>5 DEF ArenaTypes
<1>7. SlotsApart'  BY <1>1, <1>2, <1>3 DEF SlotsApart
<1>8. IF lazy' THEN CursorInv' ELSE FixedInv'
  <2>1. Room(job)' = Room(job)  BY <1>1
  <2> QED BY <1>1, <1>2, <1>3, <2>1 DEF CursorInv, FixedInv
<1>9. FactorInv'  BY <1>1, <1>2, <1>3 DEF FactorInv
<1>10. ClosingInv'
  <2>1. ASSUME NEW s \in Panels, KeptOf(s) > 0, NEW i \in 0..KeptOf(s) - 1
        PROVE  vals[slots[s] + i] = <<s, i>>
    <3>1. slots[s] \in Nat /\ SizeOf(s) \in Nat /\ KeptOf(s) \in Nat /\ KeptOf(s) <= SizeOf(s)
      BY <1>2, <1>4, PanelSizes DEF SlotsApart
    <3>2. slots[s] + i \in Slot(s) /\ (slots[s] + i) - slots[s] = i  BY <2>1, <3>1 DEF Slot
    <3> QED BY <1>1, <1>2, <1>4, <3>2 DEF FrontsInv
  <2>2. \A s \in Panels : 0 <= slots[s]  BY <1>2, <1>4 DEF SlotsApart
  <2>3. place = 0 /\ DOMAIN offset = {}  BY <1>2 DEF FrontsInv
  <2> QED BY <1>1, <1>3, <1>4, <2>1, <2>2, <2>3 DEF ClosingInv
<1> QED BY <1>1, <1>6, <1>7, <1>8, <1>9, <1>10

\* The panel that moves lies before every other one that has still to move.
LEMMA MovesFirst ==
  ASSUME ArenaInv, NEW s \in Panels, MoveDown(s), NEW t \in moves \ {s}
  PROVE  slots[s] + SizeOf(s) <= slots[t]
<1>1. stage = "closing" /\ s \in moves /\ Precedes(s, t)
  BY DEF MoveDown
<1>2. ArenaTypes /\ SlotsApart /\ ClosingInv /\ (IF lazy THEN CursorInv ELSE FixedInv)
  BY <1>1 DEF ArenaInv
<1>3. s \in DOMAIN slots /\ t \in DOMAIN slots /\ t \in Panels /\ s # t
  BY <1>1, <1>2 DEF ClosingInv
<1>4. slots[s] \in Nat /\ slots[t] \in Nat /\ SizeOf(s) \in Nat /\ SizeOf(t) \in Nat
  BY <1>2, <1>3, PanelSizes DEF SlotsApart
<1>5. CASE lazy
  <2>1. slots[s] < slots[t]  BY <1>1, <1>5 DEF Precedes, InSlotOrder
  <2>2. slots[s] + SizeOf(s) <= slots[t] \/ slots[t] + SizeOf(t) <= slots[s]
    BY <1>2, <1>3 DEF SlotsApart
  <2> QED BY <1>4, <2>1, <2>2
<1>6. CASE ~lazy
  <2>1. s < t  BY <1>1, <1>6 DEF Precedes, InNumberOrder
  <2> QED BY <1>2, <1>3, <1>6, <2>1 DEF FixedInv
<1> QED BY <1>5, <1>6

LEMMA MoveKeeps ==
  ASSUME ArenaInv, NEW s \in Panels, MoveDown(s)
  PROVE  ArenaInv'
<1> DEFINE len == KeptOf(s)
           run == place..place + len - 1
<1>1. /\ stage = "closing" /\ s \in moves
      /\ vals' = [i \in DOMAIN vals |-> IF i \in run THEN vals[slots[s] + i - place] ELSE vals[i]]
      /\ offset' = [t \in DOMAIN offset \cup {s} |-> IF t = s THEN place ELSE offset[t]]
      /\ place' = place + len /\ moves' = moves \ {s}
      /\ UNCHANGED <<job, lazy, slots, cursor, claimed, full, filled, stage>>
  BY DEF MoveDown
<1>2. ArenaTypes /\ SlotsApart /\ ClosingInv /\ FactorInv /\ (IF lazy THEN CursorInv ELSE FixedInv)
  BY <1>1 DEF ArenaInv
<1>3. Panels' = Panels /\ End' = End /\ KeptSizes' = KeptSizes
      /\ (\A t : SizeOf(t)' = SizeOf(t) /\ KeptOf(t)' = KeptOf(t))
  BY <1>1 DEF Panels, End, KeptSizes, SizeOf, KeptOf
<1>4. \A t \in Panels : /\ slots[t] \in Nat /\ slots[t] + SizeOf(t) <= End
                        /\ SizeOf(t) \in Nat /\ KeptOf(t) \in Nat /\ KeptOf(t) <= SizeOf(t)
  BY <1>2, PanelSizes DEF SlotsApart, ClosingInv
<1>5. place \in Nat /\ len \in Nat /\ place <= slots[s] /\ s \notin DOMAIN offset /\ End \in Nat
  BY <1>1, <1>2, <1>4, RoomIsNat DEF ClosingInv, ArenaTypes, End
<1> HIDE DEF len
<1>6. place' \in Nat  BY <1>1, <1>5
<1>7. ArenaTypes'  BY <1>1, <1>2, <1>3, <1>6 DEF ArenaTypes
<1>8. DOMAIN vals' = DOMAIN vals  BY <1>1
<1>9. SlotsApart'  BY <1>1, <1>2, <1>3, <1>8 DEF SlotsApart
<1>10. IF lazy' THEN CursorInv' ELSE FixedInv'
  <2>1. Room(job)' = Room(job)  BY <1>1
  <2> QED BY <1>1, <1>2, <1>3, <2>1 DEF CursorInv, FixedInv
<1>11. ASSUME NEW i \in Int, i >= place + len, i < End PROVE vals'[i] = vals[i]
  BY <1>1, <1>2, <1>5, <1>11 DEF SlotsApart
<1>12. ASSUME NEW i \in Nat, i < place PROVE vals'[i] = vals[i]
  <2>1. i \in 0..End - 1  BY <1>4, <1>5, <1>12
  <2> QED BY <1>1, <1>2, <1>5, <1>12, <2>1 DEF SlotsApart
<1>13. ClosingInv'
  <2>1. ASSUME NEW t \in moves \ {s}
        PROVE  /\ KeptOf(t) > 0 /\ place' <= slots[t]
               /\ \A i \in 0..KeptOf(t) - 1 : vals'[slots[t] + i] = <<t, i>>
    <3>1. t \in moves /\ t \in Panels  BY <1>2 DEF ClosingInv
    <3>2. slots[s] + SizeOf(s) <= slots[t]  BY MovesFirst
    <3>3. place' <= slots[t]  BY <1>1, <1>4, <1>5, <3>1, <3>2 DEF len
    <3>4. ASSUME NEW i \in 0..KeptOf(t) - 1 PROVE vals'[slots[t] + i] = <<t, i>>
      <4>1. vals[slots[t] + i] = <<t, i>>  BY <1>2, <3>1 DEF ClosingInv
      <4>2. slots[t] + i \in Int /\ slots[t] + i >= place + len /\ slots[t] + i < End
        <5>1. slots[t] \in Nat /\ KeptOf(t) \in Nat /\ KeptOf(t) <= SizeOf(t) /\ SizeOf(t) \in Nat
              /\ slots[t] + SizeOf(t) <= End
          BY <1>4, <3>1
        <5>2. i \in Int /\ 0 <= i /\ i < KeptOf(t)  BY <5>1
        <5>3. place + len <= slots[t]  BY <1>1, <3>3
        <5> QED BY <1>5, <5>1, <5>2, <5>3
      <4> QED BY <1>11, <4>1, <4>2
    <3> QED BY <1>2, <3>1, <3>3, <3>4 DEF ClosingInv
  <2>2. DOMAIN offset' = DOMAIN offset \cup {s}  BY <1>1
  <2>3. DOMAIN offset' \cap moves' = {}  BY <1>1, <1>2, <2>2 DEF ClosingInv
  <2>4. moves' \subseteq Panels /\ DOMAIN slots = Panels  BY <1>1, <1>2 DEF ClosingInv
  <2> QED BY <1>1, <1>3, <2>1, <2>3, <2>4 DEF ClosingInv
<1>14. FactorInv'
  <2>1. DOMAIN offset' = DOMAIN offset \cup {s} /\ offset'[s] = place
        /\ \A t \in DOMAIN offset : offset'[t] = offset[t]
    BY <1>1, <1>5
  <2>2. DOMAIN offset' \subseteq Panels  BY <1>2, <2>1 DEF FactorInv
  <2>3. place' = SumAt(KeptSizes, DOMAIN offset')
    <3>1. PICK n \in Nat : Panels = 1..n /\ IsFiniteSet(1..n)
      BY <1>2, JobSizes DEF ArenaTypes, Panels
    <3>2. IsFiniteSet(DOMAIN offset)  BY <1>2, <3>1, FS_Subset DEF FactorInv
    <3>3. \A t \in DOMAIN offset \cup {s} : KeptSizes[t] \in Nat
      BY <1>2, <1>4 DEF FactorInv, KeptSizes
    <3>4. SumAt(KeptSizes, DOMAIN offset \cup {s}) = SumAt(KeptSizes, DOMAIN offset) + KeptSizes[s]
      BY <1>5, <3>2, <3>3, SumAdds
    <3>5. KeptSizes[s] = len  BY DEF KeptSizes, len
    <3> QED BY <1>1, <1>2, <2>1, <3>4, <3>5 DEF FactorInv
  <2>4. ASSUME NEW t \in DOMAIN offset'
        PROVE  /\ offset'[t] \in Nat /\ offset'[t] + KeptOf(t) <= place'
               /\ \A i \in 0..KeptOf(t) - 1 : vals'[offset'[t] + i] = <<t, i>>
    <3>1. CASE t = s
      <4>1. ASSUME NEW i \in 0..len - 1 PROVE vals'[place + i] = <<s, i>>
        <5>1. place + i \in run /\ place + i \in 0..End - 1
          BY <1>4, <1>5, <4>1 DEF len
        <5>2. vals'[place + i] = vals[slots[s] + (place + i) - place]
          BY <1>1, <1>2, <5>1 DEF SlotsApart
        <5>3. slots[s] + (place + i) - place = slots[s] + i  BY <1>4, <1>5
        <5>4. vals[slots[s] + i] = <<s, i>>  BY <1>1, <1>2, <4>1 DEF ClosingInv, len
        <5> QED BY <5>2, <5>3, <5>4
      <4>2. offset'[t] = place /\ KeptOf(t) = len  BY <2>1, <3>1 DEF len
      <4>3. place \in Nat /\ place + len <= place'  BY <1>1, <1>5
      <4> QED BY <3>1, <4>1, <4>2, <4>3
    <3>2. CASE t # s
      <4>1. t \in DOMAIN offset /\ t \in Panels  BY <1>2, <2>1, <3>2 DEF FactorInv
      <4>2. offset[t] \in Nat /\ offset[t] + KeptOf(t) <= place  BY <1>2, <4>1 DEF FactorInv
      <4>3. KeptOf(t) \in Nat  BY <1>4, <4>1
      <4>4. ASSUME NEW i \in 0..KeptOf(t) - 1 PROVE vals'[offset[t] + i] = <<t, i>>
        <5>1. offset[t] + i \in Nat /\ offset[t] + i < place  BY <1>5, <4>2, <4>3, <4>4
        <5> QED BY <1>2, <1>12, <4>1, <5>1 DEF FactorInv
      <4>5. offset[t] + KeptOf(t) <= place'  BY <1>1, <1>5, <4>2, <4>3
      <4> QED BY <2>1, <4>1, <4>2, <4>4, <4>5
    <3> QED BY <3>1, <3>2
  <2> QED BY <1>3, <2>2, <2>3, <2>4 DEF FactorInv
<1> QED BY <1>1, <1>7, <1>9, <1>10, <1>13, <1>14 DEF ArenaInv

LEMMA ArenaStep == ArenaInv /\ [ArenaNext]_arenaVars => ArenaInv'
<1> SUFFICES ASSUME ArenaInv, [ArenaNext]_arenaVars PROVE ArenaInv'
  OBVIOUS
<1>1. ASSUME NEW j \in Jobs, Factorize(j) PROVE ArenaInv'
  <2>1. j.delays \in BOOLEAN  BY JobSizes
  <2> QED BY <1>1, <2>1, OpenKeeps DEF Factorize
<1>2. CASE RunAgain
  <2>1. job \in Jobs  BY DEF ArenaInv, ArenaTypes
  <2> QED BY <1>2, <2>1, OpenKeeps DEF RunAgain
<1>3. CASE Close
  <2>1. stage = "closing" /\ stage' = "closed" /\ UNCHANGED <<job, lazy, vals, slots, cursor, claimed, full, filled, moves, place, offset>>
    BY <1>3 DEF Close
  <2>2. ArenaTypes'  BY <2>1 DEF ArenaInv, ArenaTypes, Panels
  <2>3. FactorInv'  BY <2>1 DEF ArenaInv, FactorInv, Panels, KeptSizes, KeptOf
  <2> QED BY <2>1, <2>2, <2>3 DEF ArenaInv
<1>4. CASE UNCHANGED arenaVars
  BY <1>4 DEF arenaVars, ArenaInv, ArenaTypes, FactorInv, SlotsApart, CursorInv, FixedInv, FrontsInv, ClosingInv,
              Panels, KeptSizes, KeptOf, SizeOf, Slot, End
<1> QED BY <1>1, <1>2, <1>3, <1>4, ClaimKeeps, FillKeeps, MoveKeeps, StartClosingKeeps DEF ArenaNext

LEMMA ArenaStart == ArenaInit => ArenaInv
<1> SUFFICES ASSUME ArenaInit PROVE ArenaInv
  OBVIOUS
<1>1. DOMAIN offset = {} /\ place = 0 /\ stage = "closed"  BY DEF ArenaInit, EmptyMap
<1>2. FactorInv  BY <1>1, SumEmpty DEF FactorInv
<1>3. ArenaTypes  BY DEF ArenaInit, ArenaTypes
<1> QED BY <1>1, <1>2, <1>3 DEF ArenaInv

LEMMA ArenaInvShows == ArenaInv => PanelsAreKept
<1> SUFFICES ASSUME ArenaInv PROVE PanelsAreKept
  OBVIOUS
<1> USE DEF ArenaInv
<1>1. PanelsSurviveClosing
  <2>1. stage = "closed" => place = SumAt([s \in Panels |-> KeptOf(s)], DOMAIN offset)
    BY DEF FactorInv, KeptSizes
  <2> QED BY <2>1 DEF PanelsSurviveClosing, FrontsInv, FactorInv
<1>2. OverflowIsTheTotal
  <2>1. PICK n \in Nat : /\ Panels = 1..n /\ DOMAIN job.front = 1..n /\ IsFiniteSet(1..n)
                         /\ \A s \in 1..n : job.front[s] \in Nat
    BY JobSizes DEF ArenaTypes, Panels
  <2>2. Total(job.front) \in Nat /\ claimed \in SUBSET (1..n)
    BY <2>1, SumType DEF Total, ArenaTypes
  <2>3. SumAt(job.front, claimed) <= Total(job.front)
    BY <2>1, <2>2, SumGrows DEF Total
  <2>4. Room(job) \in Nat /\ cursor \in Nat  BY RoomIsNat DEF ArenaTypes
  <2>5. ASSUME full PROVE Total(job.front) > Room(job)
    <3>1. stage = "fronts"  BY <2>5 DEF ArenaTypes
    <3>2. CursorInv  BY <2>5, <3>1 DEF FixedInv
    <3> QED BY <2>2, <2>3, <2>4, <2>5, <3>2 DEF CursorInv
  <2>6. ASSUME lazy, stage = "closing" PROVE Total(job.front) <= Room(job)
    <3>1. CursorInv /\ ~full  BY <2>6 DEF ArenaTypes
    <3>2. claimed = Panels  BY <2>6, <3>1 DEF CursorInv, ClosingInv, ArenaTypes
    <3> QED BY <2>1, <3>1, <3>2 DEF CursorInv, Total
  <2> QED BY <2>5, <2>6 DEF OverflowIsTheTotal
<1> QED BY <1>1, <1>2 DEF PanelsAreKept

(***************************************************************************)
(* Whatever the sizes, and in whichever order the fronts claim their slots *)
(* and fill them: no panel is written over before it is closed into the    *)
(* factor, and the delays are given up exactly where the fronts together   *)
(* need more than the room (PanelArena and LlEmit).                        *)
(***************************************************************************)
THEOREM PanelsStay == ArenaSpec => []PanelsAreKept
BY ArenaStart, ArenaStep, ArenaInvShows, PTL DEF ArenaSpec

-----------------------------------------------------------------------------
(***************************************************************************)
(* LuFronts.  The inductive invariant: a front leaves, parted, what it     *)
(* took in; its rows and columns lie in its own and earlier fronts, or     *)
(* where its supernode updates; and every row and every column of the      *)
(* factored fronts is held by one of them, that has pivoted it or keeps    *)
(* it for a parent yet to come.                                            *)
(***************************************************************************)
AllColumns == UNION Range(lu.cols)
Upto(s) == UNION {lu.cols[t] : t \in {f \in Fronts : f <= s}}

\* What a factored front leaves is what it took in, parted.
RecordKept(s) ==
  /\ s \in Fronts /\ ChildrenOf(s) \subseteq DOMAIN record
  /\ record[s].pivotRows \cup record[s].rows = SummedRows(s) /\ record[s].pivotRows \cap record[s].rows = {}
  /\ record[s].pivotCols \cup record[s].cols = SummedCols(s) /\ record[s].pivotCols \cap record[s].cols = {}
  /\ record[s].rows = {} <=> record[s].cols = {}
  /\ lu.parent[s] = 0 => record[s].rows = {}
  /\ record[s].offL = FrontOffL(s) /\ record[s].offU = FrontOffU(s)
  /\ record[s].extras <=> FrontOffL(s) # lu.st[s].l \/ FrontOffU(s) # lu.st[s].u

\* Where its indices lie.
PlacesKept(s) ==
  /\ SummedRows(s) \cup SummedCols(s) \subseteq Upto(s)
  /\ FrontOffL(s) \cup FrontOffU(s) \subseteq AllColumns
  /\ \A t \in Fronts : Hits(FrontOffL(s) \cup FrontOffU(s), lu.cols[t]) => s \in lu.updaters[t]

\* The rows, and the columns, a front has pivoted, or keeps for its parent.
Waits(s) == lu.parent[s] \notin DOMAIN record
RowsHeld == [s \in DOMAIN record |-> record[s].pivotRows \cup (IF Waits(s) THEN record[s].rows ELSE {})]
ColsHeld == [s \in DOMAIN record |-> record[s].pivotCols \cup (IF Waits(s) THEN record[s].cols ELSE {})]
\* Those of the fronts D are each held by one of them.
HeldOnce(held, D, cols) ==
  /\ \A t \in D : \A g \in cols[t] : \E s \in D : g \in held[s]
  /\ \A s, t \in D : \A g \in held[s] : g \in held[t] => s = t
  /\ \A s \in D : \A g \in held[s] : \E t \in D : g \in cols[t]

LuInv ==
  /\ IsAnalyzed(lu)
  /\ \A s \in DOMAIN record : RecordKept(s) /\ PlacesKept(s)
  /\ HeldOnce(RowsHeld, DOMAIN record, lu.cols) /\ HeldOnce(ColsHeld, DOMAIN record, lu.cols)

-----------------------------------------------------------------------------
(***************************************************************************)
(* The columns of the fronts.                                              *)
(***************************************************************************)
LEMMA ColumnRuns ==
  ASSUME IsAnalyzed(lu)
  PROVE  /\ Len(lu.cols) \in Nat /\ Fronts = 1..Len(lu.cols) /\ AllColumns \subseteq Nat
         /\ \A s \in Fronts : lu.cols[s] \subseteq AllColumns /\ lu.cols[s] # {}
         /\ \A g \in AllColumns : \E s \in Fronts : g \in lu.cols[s]
         /\ \A s, t \in Fronts : s < t => \A g \in lu.cols[s], h \in lu.cols[t] : g < h
         /\ \A s, t \in Fronts : \A g \in lu.cols[s] : g \in lu.cols[t] => s = t
<1>1. Fronts = 1..Len(lu.cols) /\ AllColumns = 1..Cardinality(AllColumns) /\ IsFiniteSet(AllColumns)
  BY DEF IsAnalyzed, Fronts, AllColumns
<1>8. Len(lu.cols) \in Nat  BY DEF IsAnalyzed
<1>2. Cardinality(AllColumns) \in Nat  BY <1>1, FS_CardinalityType
<1>3. AllColumns \subseteq Nat  BY <1>1, <1>2
<1>4. \A s \in Fronts : lu.cols[s] \subseteq AllColumns /\ lu.cols[s] # {}
  BY DEF IsAnalyzed, Fronts, AllColumns, Range
<1>5. \A g \in AllColumns : \E s \in Fronts : g \in lu.cols[s]
  BY DEF Fronts, AllColumns, Range
<1>6. \A s, t \in Fronts : s < t => \A g \in lu.cols[s], h \in lu.cols[t] : g < h
  BY DEF IsAnalyzed, Fronts
<1>7. \A s, t \in Fronts : \A g \in lu.cols[s] : g \in lu.cols[t] => s = t
  <2> SUFFICES ASSUME NEW s \in Fronts, NEW t \in Fronts, NEW g \in lu.cols[s], g \in lu.cols[t], s # t PROVE FALSE
    OBVIOUS
  <2>b. g \in Nat  BY <1>3, <1>4
  <2>1. s \in Int /\ t \in Int /\ g \in Int  BY <1>1, <1>8, <2>b
  <2>2. s < t \/ t < s  BY <2>1
  <2>3. g < g  BY <1>6, <2>2
  <2> QED BY <2>1, <2>3
<1> QED BY <1>1, <1>3, <1>4, <1>5, <1>6, <1>7, <1>8

\* Where an index of a later or of this front stands by its columns.
LEMMA ByColumns ==
  ASSUME IsAnalyzed(lu), NEW s \in Fronts, NEW t \in Fronts, NEW g \in lu.cols[t]
  PROVE  /\ g >= Min(lu.cols[s]) <=> s <= t
         /\ g > Max(lu.cols[s]) <=> s < t
<1>0. /\ Len(lu.cols) \in Nat /\ s \in Int /\ t \in Int /\ AllColumns \subseteq Nat
      /\ lu.cols[s] \subseteq AllColumns /\ lu.cols[s] # {} /\ g \in Nat
  BY ColumnRuns
<1> DEFINE lo == Min(lu.cols[s])
           hi == Max(lu.cols[s])
<1>1. lo \in lu.cols[s] /\ \A h \in lu.cols[s] : lo <= h
  <2>1. lu.cols[s] \in SUBSET Nat  BY <1>0
  <2> QED BY <1>0, <2>1, LeastNumber
<1>2. hi \in lu.cols[s] /\ \A h \in lu.cols[s] : h <= hi
  <2>1. AllColumns = 1..Cardinality(AllColumns) /\ IsFiniteSet(AllColumns)  BY DEF IsAnalyzed, AllColumns
  <2>2. Cardinality(AllColumns) \in Nat  BY <2>1, FS_CardinalityType
  <2>3. lu.cols[s] \in SUBSET (1..Cardinality(AllColumns))  BY <1>0, <2>1
  <2>4. \E m \in lu.cols[s] : \A h \in lu.cols[s] : h <= m  BY <1>0, <2>2, <2>3, GreatestNumber
  <2>5. \E m \in lu.cols[s] : \A h \in lu.cols[s] : m >= h
    <3>1. \A a, b \in lu.cols[s] : a <= b => b >= a  BY <1>0
    <3> QED BY <2>4, <3>1
  <2>6. hi \in lu.cols[s] /\ \A h \in lu.cols[s] : hi >= h  BY <2>5 DEF Max
  <2> QED BY <1>0, <2>6
<1> HIDE DEF lo, hi
<1>3. lo \in Nat /\ hi \in Nat  BY <1>0, <1>1, <1>2
<1>4. CASE s = t
  <2>1. g \in lu.cols[s]  BY <1>4
  <2> QED BY <1>0, <1>1, <1>2, <1>3, <1>4, <2>1 DEF lo, hi
<1>5. CASE s < t
  <2>1. lo < g /\ hi < g  BY <1>1, <1>2, <1>5, ColumnRuns
  <2> QED BY <1>0, <1>3, <1>5, <2>1 DEF lo, hi
<1>6. CASE t < s
  <2>1. g < lo /\ g < hi  BY <1>1, <1>2, <1>6, ColumnRuns
  <2> QED BY <1>0, <1>3, <1>6, <2>1 DEF lo, hi
<1> QED BY <1>0, <1>4, <1>5, <1>6

\* A past index belongs to a later front.
LEMMA PastColumns ==
  ASSUME IsAnalyzed(lu), NEW s \in Fronts, NEW list
  PROVE  /\ \A t \in Fronts : \A g \in lu.cols[t] : g \in Past(list, lu.cols[s]) <=> g \in list /\ s < t
         /\ \A t \in Fronts : \A g \in lu.cols[t] : g \in From(list, lu.cols[s]) <=> g \in list /\ s <= t
<1>1. ASSUME NEW t \in Fronts, NEW g \in lu.cols[t]
      PROVE  (g \in Past(list, lu.cols[s]) <=> g \in list /\ s < t) /\ (g \in From(list, lu.cols[s]) <=> g \in list /\ s <= t)
  BY ByColumns DEF Past, From
<1> QED BY <1>1

\* The parents of an updater lead up to the front it lands in, through every
\* front in between that it lands in.
LEMMA UpdaterFacts ==
  ASSUME IsAnalyzed(lu), NEW s \in Fronts, NEW k \in lu.updaters[s]
  PROVE  /\ k \in Fronts /\ k < s /\ lu.parent[k] \in Fronts /\ k < lu.parent[k]
         /\ lu.parent[k] \in lu.updaters[s] \/ lu.parent[k] = s
<1>1. k \in Fronts /\ k < s /\ (lu.parent[k] \in lu.updaters[s] \/ lu.parent[k] = s)
  BY DEF IsAnalyzed, Fronts
<1>2. lu.parent[k] \in Fronts
  BY <1>1 DEF IsAnalyzed, Fronts
<1>3. lu.parent[k] # 0
  BY <1>2, ColumnRuns
<1>4. k < lu.parent[k]
  BY <1>1, <1>3 DEF IsAnalyzed, Fronts
<1> QED BY <1>1, <1>2, <1>4

LEMMA OnTheWay ==
  ASSUME IsAnalyzed(lu), NEW s \in Fronts, NEW t \in Fronts, s < t, NEW k \in lu.updaters[s], k \in lu.updaters[t]
  PROVE  s \in lu.updaters[t]
<1> DEFINE Both == lu.updaters[s] \cap lu.updaters[t]
<1>0. Len(lu.cols) \in Nat /\ Fronts = 1..Len(lu.cols)  BY ColumnRuns
<1>1. Both \in SUBSET (1..Len(lu.cols)) /\ k \in Both
  BY <1>0, UpdaterFacts
<1>2. PICK m \in Both : \A x \in Both : x <= m
  <2> HIDE DEF Both
  <2> QED BY <1>0, <1>1, GreatestNumber
<1>3. CASE lu.parent[m] = s
  <2>1. s # t  BY <1>0
  <2> QED BY <1>2, <1>3, <2>1, UpdaterFacts
<1>4. CASE lu.parent[m] # s
  <2>1. lu.parent[m] \in lu.updaters[s]  BY <1>2, <1>4, UpdaterFacts
  <2>2. lu.parent[m] < s /\ lu.parent[m] \in Fronts /\ m < lu.parent[m]  BY <1>2, <2>1, UpdaterFacts
  <2>3. lu.parent[m] # t  BY <1>0, <2>2
  <2>4. lu.parent[m] \in lu.updaters[t]  BY <1>2, <2>3, UpdaterFacts
  <2>5. lu.parent[m] <= m  BY <1>2, <2>1, <2>4
  <2> QED BY <1>0, <1>1, <1>2, <2>2, <2>5
<1> QED BY <1>3, <1>4

-----------------------------------------------------------------------------
(***************************************************************************)
(* The fronts factored so far.                                             *)
(***************************************************************************)
\* What an updater of a front left is there when the front takes it in.
LEMMA UpdatersDone ==
  ASSUME LuInv, NEW s \in Fronts, ChildrenOf(s) \subseteq DOMAIN record
  PROVE  lu.updaters[s] \subseteq DOMAIN record
<1> DEFINE Missing == lu.updaters[s] \ DOMAIN record
<1>0. IsAnalyzed(lu) /\ Len(lu.cols) \in Nat /\ Fronts = 1..Len(lu.cols)  BY ColumnRuns DEF LuInv
<1> SUFFICES ASSUME Missing # {} PROVE FALSE
  OBVIOUS
<1>1. Missing \in SUBSET (1..Len(lu.cols))  BY <1>0, UpdaterFacts
<1>2. PICK m \in Missing : \A x \in Missing : x <= m
  <2> HIDE DEF Missing
  <2> QED BY <1>0, <1>1, GreatestNumber
<1>3. m \in Fronts /\ lu.parent[m] \in Fronts /\ m < lu.parent[m]  BY <1>0, <1>2, UpdaterFacts
<1>4. CASE lu.parent[m] = s  BY <1>2, <1>3, <1>4 DEF ChildrenOf
<1>5. CASE lu.parent[m] # s
  <2>1. lu.parent[m] \in lu.updaters[s]  BY <1>0, <1>2, <1>5, UpdaterFacts
  <2>2. lu.parent[m] \in DOMAIN record  BY <1>0, <1>2, <1>3, <2>1
  <2>3. m \in ChildrenOf(lu.parent[m])  BY <1>3 DEF ChildrenOf
  <2> QED BY <1>2, <2>2, <2>3 DEF LuInv, RecordKept
<1> QED BY <1>4, <1>5

\* The lists past the pivots, whether or not the structure's are kept for them.
LEMMA OffIs ==
  ASSUME LuInv, NEW k \in DOMAIN record
  PROVE  /\ OffL(k) = record[k].rows \cup FrontOffL(k)
         /\ OffU(k) = record[k].cols \cup FrontOffU(k)
         /\ ~record[k].extras => FrontOffL(k) = lu.st[k].l /\ FrontOffU(k) = lu.st[k].u
BY DEF LuInv, RecordKept, OffL, OffU, Passed

\* What the passed pivots and the extended updaters bring a front.
LEMMA ExtrasAre ==
  ASSUME NEW s, NEW g
  PROVE  /\ g \in ExtraL(s) <=> \/ \E c \in Passing(s) : g \in OffL(c)
                                \/ \E k \in Extended(s) : Hits(OffU(k), lu.cols[s]) /\ g \in OffL(k)
         /\ g \in ExtraU(s) <=> \/ \E c \in Passing(s) : g \in OffU(c)
                                \/ \E k \in Extended(s) : Hits(OffL(k), lu.cols[s]) /\ g \in OffU(k)
<1> DEFINE PassedL == UNION {OffL(c) : c \in Passing(s)}
           PassedU == UNION {OffU(c) : c \in Passing(s)}
           HitL == UNION {OffL(k) : k \in {u \in Extended(s) : Hits(OffU(u), lu.cols[s])}}
           HitU == UNION {OffU(k) : k \in {u \in Extended(s) : Hits(OffL(u), lu.cols[s])}}
<1>1. g \in PassedL <=> \E c \in Passing(s) : g \in OffL(c)  OBVIOUS
<1>2. g \in PassedU <=> \E c \in Passing(s) : g \in OffU(c)  OBVIOUS
<1>3. g \in HitL <=> \E k \in Extended(s) : Hits(OffU(k), lu.cols[s]) /\ g \in OffL(k)  OBVIOUS
<1>4. g \in HitU <=> \E k \in Extended(s) : Hits(OffL(k), lu.cols[s]) /\ g \in OffU(k)  OBVIOUS
<1>5. ExtraL(s) = PassedL \cup HitL  BY Zenon DEF ExtraL
<1>6. ExtraU(s) = PassedU \cup HitU  BY Zenon DEF ExtraU
<1> HIDE DEF PassedL, PassedU, HitL, HitU
<1> QED BY <1>1, <1>2, <1>3, <1>4, <1>5, <1>6

LEMMA OffListed ==
  ASSUME LuInv, NEW k \in DOMAIN record
  PROVE  OffL(k) \cup OffU(k) \subseteq AllColumns
<1>1. RecordKept(k) /\ PlacesKept(k)  BY DEF LuInv
<1>2. Upto(k) \subseteq AllColumns  BY ColumnRuns DEF Upto, LuInv
<1> QED BY <1>1, <1>2, OffIs DEF RecordKept, PlacesKept

\* What a front takes in, and leaves past its pivots, lies where its
\* supernode's structure says: at its columns and before, and in fronts it
\* is an updater of.
LEMMA PlacesHold ==
  ASSUME LuInv, NEW s \in Fronts, ChildrenOf(s) \subseteq DOMAIN record
  PROVE  PlacesKept(s)
<1>0. IsAnalyzed(lu)  BY DEF LuInv
<1>n. Len(lu.cols) \in Nat /\ Fronts = 1..Len(lu.cols) /\ AllColumns \subseteq Nat
  BY <1>0, ColumnRuns
<1>a. \A c \in ChildrenOf(s) : c \in DOMAIN record /\ c \in Fronts /\ c < s /\ RecordKept(c) /\ PlacesKept(c)
  <2>1. \A c \in Fronts : lu.parent[c] = s => c < s  BY <1>0, <1>n DEF IsAnalyzed, Fronts
  <2> QED BY <2>1 DEF LuInv, ChildrenOf
<1>b. \A c \in Passing(s) : c \in ChildrenOf(s)  BY DEF Passing
<1>1. SummedRows(s) \cup SummedCols(s) \subseteq Upto(s)
  <2>1. lu.cols[s] \subseteq Upto(s)  BY <1>n DEF Upto
  <2>2. ASSUME NEW c \in Passing(s) PROVE record[c].rows \cup record[c].cols \subseteq Upto(s)
    <3>1. c \in Fronts /\ c < s /\ RecordKept(c) /\ PlacesKept(c)  BY <1>a, <1>b
    <3>2. Upto(c) \subseteq Upto(s)  BY <1>n, <3>1 DEF Upto
    <3>3. record[c].rows \cup record[c].cols \subseteq Upto(c)  BY <3>1 DEF RecordKept, PlacesKept
    <3> QED BY <3>2, <3>3
  <2> QED BY <2>1, <2>2 DEF SummedRows, SummedCols
\* An index of an updater or of a child, in a later front.
<1>2. ASSUME NEW k \in DOMAIN record, lu.parent[k] = s \/ k \in lu.updaters[s],
             NEW t \in Fronts, s < t, NEW g \in lu.cols[t], g \in OffL(k) \cup OffU(k)
      PROVE  s \in lu.updaters[t]
  <2>1. k \in Fronts /\ k < s
    BY <1>0, <1>2, <1>a, UpdaterFacts DEF LuInv, RecordKept, ChildrenOf
  <2>2. RecordKept(k) /\ PlacesKept(k)  BY DEF LuInv
  <2>3. g \notin record[k].rows \cup record[k].cols
    <3>1. record[k].rows \cup record[k].cols \subseteq Upto(k)  BY <2>2 DEF RecordKept, PlacesKept
    <3>2. ASSUME g \in Upto(k) PROVE FALSE
      <4>1. PICK f \in Fronts : f <= k /\ g \in lu.cols[f]  BY <3>2 DEF Upto
      <4>2. f = t  BY <1>0, <1>2, <4>1, ColumnRuns
      <4> QED BY <1>n, <1>2, <2>1, <4>1, <4>2
    <3> QED BY <3>1, <3>2
  <2>4. g \in FrontOffL(k) \cup FrontOffU(k)  BY <1>2, <2>3, OffIs
  <2>5. k \in lu.updaters[t]  BY <1>2, <2>2, <2>4 DEF PlacesKept, Hits
  <2>6. CASE lu.parent[k] = s
    <3>1. s # t  BY <1>n, <1>2
    <3> QED BY <1>0, <1>2, <2>5, <2>6, <3>1, UpdaterFacts
  <2>7. CASE k \in lu.updaters[s]  BY <1>0, <1>2, <2>5, <2>7, OnTheWay
  <2> QED BY <1>2, <2>6, <2>7
<1>3. ASSUME NEW g \in ExtraL(s) \cup ExtraU(s)
      PROVE  \E k \in DOMAIN record : (lu.parent[k] = s \/ k \in lu.updaters[s]) /\ g \in OffL(k) \cup OffU(k)
  <2>1. \A c \in Passing(s) : c \in DOMAIN record /\ lu.parent[c] = s  BY <1>a, <1>b DEF ChildrenOf
  <2>2. \A k \in Extended(s) : k \in DOMAIN record /\ k \in lu.updaters[s]
    BY UpdatersDone DEF Extended
  <2>3. (\E c \in Passing(s) : g \in OffL(c) \cup OffU(c)) \/ (\E k \in Extended(s) : g \in OffL(k) \cup OffU(k))
    BY <1>3, ExtrasAre
  <2>4. CASE \E c \in Passing(s) : g \in OffL(c) \cup OffU(c)  BY <2>1, <2>4
  <2>5. CASE \E k \in Extended(s) : g \in OffL(k) \cup OffU(k)  BY <2>2, <2>5
  <2> QED BY <2>3, <2>4, <2>5
<1>4. \A k \in DOMAIN record : OffL(k) \cup OffU(k) \subseteq AllColumns  BY OffListed
<1>5. lu.st[s].l \cup lu.st[s].u \subseteq AllColumns  BY <1>0 DEF IsAnalyzed, Fronts, AllColumns
<1>6. FrontOffL(s) \cup FrontOffU(s) \subseteq AllColumns
  BY <1>3, <1>4, <1>5 DEF FrontOffL, FrontOffU, Past
<1>7. ASSUME NEW t \in Fronts, NEW g \in lu.cols[t], g \in FrontOffL(s) \cup FrontOffU(s)
      PROVE  s \in lu.updaters[t]
  <2>1. CASE g \in lu.st[s].l \cup lu.st[s].u
    BY <1>0, <2>1 DEF IsAnalyzed, Fronts, Hits
  <2>2. CASE g \in Past(ExtraL(s), lu.cols[s]) \cup Past(ExtraU(s), lu.cols[s])
    <3>1. g \in ExtraL(s) \cup ExtraU(s) /\ s < t  BY <1>0, <2>2, PastColumns
    <3> QED BY <1>2, <1>3, <3>1
  <2> QED BY <1>7, <2>1, <2>2 DEF FrontOffL, FrontOffU
<1> QED BY <1>1, <1>6, <1>7 DEF PlacesKept, Hits

\* Past the pivots of a front, in the columns of a later one, only what its
\* structure and its extras list.
LEMMA BeyondPivots ==
  ASSUME LuInv, NEW k \in DOMAIN record, NEW t \in Fronts, k < t, NEW g \in lu.cols[t]
  PROVE  /\ g \notin record[k].rows \cup record[k].cols
         /\ g \in OffL(k) <=> g \in FrontOffL(k)
         /\ g \in OffU(k) <=> g \in FrontOffU(k)
         /\ g \in OffL(k) \cup OffU(k) => k \in lu.updaters[t]
<1>0. IsAnalyzed(lu) /\ Len(lu.cols) \in Nat /\ Fronts = 1..Len(lu.cols)  BY ColumnRuns DEF LuInv
<1>1. RecordKept(k) /\ PlacesKept(k)  BY DEF LuInv
<1>2. k \in Fronts  BY <1>1 DEF RecordKept
<1>3. g \notin Upto(k)
  <2> SUFFICES ASSUME g \in Upto(k) PROVE FALSE
    OBVIOUS
  <2>1. PICK f \in Fronts : f <= k /\ g \in lu.cols[f]  BY DEF Upto
  <2>2. f = t  BY <1>0, <2>1, ColumnRuns
  <2> QED BY <1>0, <1>2, <2>1, <2>2
<1>4. record[k].rows \cup record[k].cols \subseteq Upto(k)  BY <1>1 DEF RecordKept, PlacesKept
<1>5. g \notin record[k].rows \cup record[k].cols  BY <1>3, <1>4
<1>6. (g \in OffL(k) <=> g \in FrontOffL(k)) /\ (g \in OffU(k) <=> g \in FrontOffU(k))  BY <1>5, OffIs
<1>7. g \in FrontOffL(k) \cup FrontOffU(k) => k \in lu.updaters[t]  BY <1>1 DEF PlacesKept, Hits
<1> QED BY <1>5, <1>6, <1>7

-----------------------------------------------------------------------------
(***************************************************************************)
(* What a front takes in lies in it.                                       *)
(***************************************************************************)
LEMMA EntriesLand ==
  ASSUME LuInv, NEW s \in Fronts, NEW e \in lu.entries
  PROVE  (e[2] \in lu.cols[s] /\ e[1] >= Min(lu.cols[s])) \/ (e[1] \in lu.cols[s] /\ e[2] >= Min(lu.cols[s])) => InFront(s, e)
<1>0. IsAnalyzed(lu)  BY DEF LuInv
<1>1. e \in AllColumns \X AllColumns  BY <1>0 DEF IsAnalyzed, AllColumns
<1>2. lu.cols[s] \subseteq SummedRows(s) /\ lu.cols[s] \subseteq SummedCols(s)  BY DEF SummedRows, SummedCols
<1>n. Len(lu.cols) \in Nat /\ Fronts = 1..Len(lu.cols)  BY <1>0, ColumnRuns
<1>3. ASSUME e[2] \in lu.cols[s], e[1] >= Min(lu.cols[s]) PROVE InFront(s, e)
  <2>1. PICK t \in Fronts : e[1] \in lu.cols[t]  BY <1>0, <1>1, ColumnRuns
  <2>2. s <= t  BY <1>0, <1>3, <2>1, ByColumns
  <2>3. CASE s = t  BY <1>2, <1>3, <2>1, <2>3 DEF InFront
  <2>4. CASE s < t
    <3>1. e[1] \in Past({e[1]}, lu.cols[s])  BY <1>0, <2>1, <2>4, PastColumns
    <3>2. e[1] \in lu.st[s].l  BY <1>0, <1>3, <3>1 DEF IsAnalyzed, Fronts
    <3> QED BY <1>2, <1>3, <3>2 DEF InFront, FrontOffL
  <2> QED BY <1>n, <2>2, <2>3, <2>4
<1>4. ASSUME e[1] \in lu.cols[s], e[2] >= Min(lu.cols[s]) PROVE InFront(s, e)
  <2>1. PICK t \in Fronts : e[2] \in lu.cols[t]  BY <1>0, <1>1, ColumnRuns
  <2>2. s <= t  BY <1>0, <1>4, <2>1, ByColumns
  <2>3. CASE s = t  BY <1>2, <1>4, <2>1, <2>3 DEF InFront
  <2>4. CASE s < t
    <3>1. e[2] \in Past({e[2]}, lu.cols[s])  BY <1>0, <2>1, <2>4, PastColumns
    <3>2. e[2] \in lu.st[s].u  BY <1>0, <1>4, <3>1 DEF IsAnalyzed, Fronts
    <3> QED BY <1>2, <1>4, <3>2 DEF InFront, FrontOffU
  <2> QED BY <1>n, <2>2, <2>3, <2>4
<1> QED BY <1>3, <1>4

\* An updater that lands in a front: its rows past the front's columns are
\* the front's, from the structure or by the extras; so are its columns.
LEMMA UpdaterPasses ==
  ASSUME LuInv, NEW s \in Fronts, ChildrenOf(s) \subseteq DOMAIN record, NEW k \in lu.updaters[s],
         NEW t \in Fronts, s < t, NEW g \in lu.cols[t]
  PROVE  /\ Hits(OffU(k), lu.cols[s]) /\ g \in OffL(k) => g \in FrontOffL(s)
         /\ Hits(OffL(k), lu.cols[s]) /\ g \in OffU(k) => g \in FrontOffU(s)
<1>0. IsAnalyzed(lu) /\ Len(lu.cols) \in Nat /\ Fronts = 1..Len(lu.cols)  BY ColumnRuns DEF LuInv
<1>1. k \in DOMAIN record  BY UpdatersDone
<1>2. k \in Fronts /\ k < s  BY <1>0, UpdaterFacts
<1>3. k < t  BY <1>0, <1>2
<1>4. CASE k \in Extended(s)
  <2>1. Hits(OffU(k), lu.cols[s]) /\ g \in OffL(k) => g \in ExtraL(s)  BY <1>4, ExtrasAre
  <2>2. Hits(OffL(k), lu.cols[s]) /\ g \in OffU(k) => g \in ExtraU(s)  BY <1>4, ExtrasAre
  <2>3. g \in ExtraL(s) => g \in Past(ExtraL(s), lu.cols[s])  BY <1>0, PastColumns
  <2>4. g \in ExtraU(s) => g \in Past(ExtraU(s), lu.cols[s])  BY <1>0, PastColumns
  <2> QED BY <2>1, <2>2, <2>3, <2>4 DEF FrontOffL, FrontOffU
<1>5. CASE k \notin Extended(s)
  <2>1. FrontOffL(k) = lu.st[k].l /\ FrontOffU(k) = lu.st[k].u  BY <1>1, <1>5, OffIs DEF Extended
  <2>2. (g \in OffL(k) => g \in lu.st[k].l) /\ (g \in OffU(k) => g \in lu.st[k].u)
    BY <1>1, <1>3, <2>1, BeyondPivots
  <2>3. Hits(OffU(k), lu.cols[s]) => Hits(lu.st[k].u, lu.cols[s])
    BY <1>1, <1>2, <2>1, BeyondPivots DEF Hits
  <2>4. Hits(OffL(k), lu.cols[s]) => Hits(lu.st[k].l, lu.cols[s])
    BY <1>1, <1>2, <2>1, BeyondPivots DEF Hits
  <2>5. g \in lu.st[k].l => g \in Past(lu.st[k].l, lu.cols[s])  BY <1>0, PastColumns
  <2>6. g \in lu.st[k].u => g \in Past(lu.st[k].u, lu.cols[s])  BY <1>0, PastColumns
  <2>7. Hits(lu.st[k].u, lu.cols[s]) => Past(lu.st[k].l, lu.cols[s]) \subseteq lu.st[s].l
    BY <1>0 DEF IsAnalyzed, Fronts
  <2>8. Hits(lu.st[k].l, lu.cols[s]) => Past(lu.st[k].u, lu.cols[s]) \subseteq lu.st[s].u
    BY <1>0 DEF IsAnalyzed, Fronts
  <2>9. Hits(OffU(k), lu.cols[s]) /\ g \in OffL(k) => g \in lu.st[s].l  BY <2>2, <2>3, <2>5, <2>7
  <2>10. Hits(OffL(k), lu.cols[s]) /\ g \in OffU(k) => g \in lu.st[s].u  BY <2>2, <2>4, <2>6, <2>8
  <2> QED BY <2>9, <2>10 DEF FrontOffL, FrontOffU
<1> QED BY <1>4, <1>5

LEMMA UpdatesLand ==
  ASSUME LuInv, NEW s \in Fronts, ChildrenOf(s) \subseteq DOMAIN record, NEW k \in lu.updaters[s], NEW e \in UpdatesOf(k, s)
  PROVE  InFront(s, e)
<1>0. IsAnalyzed(lu) /\ Len(lu.cols) \in Nat /\ Fronts = 1..Len(lu.cols)  BY ColumnRuns DEF LuInv
<1>1. k \in DOMAIN record  BY UpdatersDone
<1>2. OffL(k) \cup OffU(k) \subseteq AllColumns  BY <1>1, OffListed
<1>3. lu.cols[s] \subseteq SummedRows(s) /\ lu.cols[s] \subseteq SummedCols(s)  BY DEF SummedRows, SummedCols
<1>4. CASE e \in From(OffL(k), lu.cols[s]) \X (OffU(k) \cap lu.cols[s])
  <2>1. e[1] \in OffL(k) /\ e[1] \in From(OffL(k), lu.cols[s]) /\ e[2] \in OffU(k) /\ e[2] \in lu.cols[s]
    BY <1>4 DEF From
  <2>2. PICK t \in Fronts : e[1] \in lu.cols[t]  BY <1>0, <1>2, <2>1, ColumnRuns
  <2>3. s <= t  BY <1>0, <2>1, <2>2, PastColumns
  <2>4. CASE s = t  BY <1>3, <2>1, <2>2, <2>4 DEF InFront
  <2>5. CASE s < t
    <3>1. e[1] \in FrontOffL(s)  BY <2>1, <2>2, <2>5, UpdaterPasses DEF Hits
    <3> QED BY <1>3, <2>1, <3>1 DEF InFront
  <2> QED BY <1>0, <2>3, <2>4, <2>5
<1>5. CASE e \in (OffL(k) \cap lu.cols[s]) \X Past(OffU(k), lu.cols[s])
  <2>1. e[1] \in OffL(k) /\ e[1] \in lu.cols[s] /\ e[2] \in OffU(k) /\ e[2] \in Past(OffU(k), lu.cols[s])
    BY <1>5 DEF Past
  <2>2. PICK t \in Fronts : e[2] \in lu.cols[t]  BY <1>0, <1>2, <2>1, ColumnRuns
  <2>3. s < t  BY <1>0, <2>1, <2>2, PastColumns
  <2>4. e[2] \in FrontOffU(s)  BY <2>1, <2>2, <2>3, UpdaterPasses DEF Hits
  <2> QED BY <1>3, <2>1, <2>4 DEF InFront
<1> QED BY <1>4, <1>5 DEF UpdatesOf

\* A front that passes pivots on lands in its parent whole.
LEMMA CarriedLands ==
  ASSUME LuInv, NEW s \in Fronts, ChildrenOf(s) \subseteq DOMAIN record, NEW c \in Passing(s)
  PROVE  /\ OffL(c) \subseteq SummedRows(s) \cup FrontOffL(s)
         /\ OffU(c) \subseteq SummedCols(s) \cup FrontOffU(s)
         /\ \A e \in CarriedFrom(c) : InFront(s, e)
<1>0. IsAnalyzed(lu) /\ Len(lu.cols) \in Nat /\ Fronts = 1..Len(lu.cols)  BY ColumnRuns DEF LuInv
<1>1. c \in DOMAIN record /\ lu.parent[c] = s /\ c \in Fronts  BY DEF Passing, ChildrenOf
<1>2. OffL(c) \cup OffU(c) \subseteq AllColumns  BY <1>1, OffListed
<1>3. record[c].rows \subseteq SummedRows(s) /\ record[c].cols \subseteq SummedCols(s)  BY DEF SummedRows, SummedCols
<1>4. OffL(c) \subseteq ExtraL(s) /\ OffU(c) \subseteq ExtraU(s)  BY DEF ExtraL, ExtraU
<1>5. ASSUME NEW g \in FrontOffL(c) \cup FrontOffU(c), NEW t \in Fronts, g \in lu.cols[t] PROVE s <= t
  <2>1. c \in lu.updaters[t]  BY <1>1, <1>5 DEF LuInv, PlacesKept, Hits
  <2>2. lu.parent[c] \in lu.updaters[t] \/ lu.parent[c] = t  BY <1>0, <2>1, UpdaterFacts
  <2>3. CASE s \in lu.updaters[t]
    <3>1. s < t  BY <1>0, <2>3, UpdaterFacts
    <3> QED BY <1>0, <3>1
  <2>4. CASE s = t  BY <1>0, <2>4
  <2> QED BY <1>1, <2>2, <2>3, <2>4
<1>6. ASSUME NEW g \in OffL(c) PROVE g \in SummedRows(s) \cup FrontOffL(s)
  <2>1. CASE g \in record[c].rows  BY <1>3, <2>1
  <2>2. CASE g \in FrontOffL(c)
    <3>1. PICK t \in Fronts : g \in lu.cols[t]  BY <1>0, <1>2, <1>6, ColumnRuns
    <3>2. s <= t  BY <1>5, <2>2, <3>1
    <3>3. CASE s = t  BY <3>1, <3>3 DEF SummedRows
    <3>4. CASE s < t
      <4>1. g \in Past(ExtraL(s), lu.cols[s])  BY <1>0, <1>4, <1>6, <3>1, <3>4, PastColumns
      <4> QED BY <4>1 DEF FrontOffL
    <3> QED BY <1>0, <3>2, <3>3, <3>4
  <2> QED BY <1>1, <1>6, <2>1, <2>2, OffIs
<1>7. ASSUME NEW g \in OffU(c) PROVE g \in SummedCols(s) \cup FrontOffU(s)
  <2>1. CASE g \in record[c].cols  BY <1>3, <2>1
  <2>2. CASE g \in FrontOffU(c)
    <3>1. PICK t \in Fronts : g \in lu.cols[t]  BY <1>0, <1>2, <1>7, ColumnRuns
    <3>2. s <= t  BY <1>5, <2>2, <3>1
    <3>3. CASE s = t  BY <3>1, <3>3 DEF SummedCols
    <3>4. CASE s < t
      <4>1. g \in Past(ExtraU(s), lu.cols[s])  BY <1>0, <1>4, <1>7, <3>1, <3>4, PastColumns
      <4> QED BY <4>1 DEF FrontOffU
    <3> QED BY <1>0, <3>2, <3>3, <3>4
  <2> QED BY <1>1, <1>7, <2>1, <2>2, OffIs
<1>8. ASSUME NEW e \in CarriedFrom(c) PROVE InFront(s, e)
  <2>1. CASE e \in OffL(c) \X record[c].cols
    <3>1. e[1] \in OffL(c) /\ e[2] \in record[c].cols  BY <2>1
    <3> QED BY <1>3, <1>6, <3>1 DEF InFront
  <2>2. CASE e \in record[c].rows \X OffU(c)
    <3>1. e[1] \in record[c].rows /\ e[2] \in OffU(c)  BY <2>2
    <3> QED BY <1>3, <1>7, <3>1 DEF InFront
  <2> QED BY <1>8, <2>1, <2>2 DEF CarriedFrom
<1> QED BY <1>6, <1>7, <1>8

LEMMA AllLands == LuInv => UpdatesLandInTheFront
<1> SUFFICES ASSUME LuInv, NEW s \in Fronts, Ready(s)
             PROVE  /\ \A e \in lu.entries :
                         (e[2] \in lu.cols[s] /\ e[1] >= Min(lu.cols[s])) \/ (e[1] \in lu.cols[s] /\ e[2] >= Min(lu.cols[s])) => InFront(s, e)
                    /\ \A k \in lu.updaters[s] : \A e \in UpdatesOf(k, s) : InFront(s, e)
                    /\ \A c \in Passing(s) : \A e \in CarriedFrom(c) : InFront(s, e)
  BY DEF UpdatesLandInTheFront
<1>1. ChildrenOf(s) \subseteq DOMAIN record  BY DEF Ready
<1> QED BY <1>1, EntriesLand, UpdatesLand, CarriedLands

-----------------------------------------------------------------------------
(***************************************************************************)
(* A front is factored.                                                    *)
(***************************************************************************)
\* Nothing a factored front left, and nothing a front takes in once its
\* children are factored, changes.
LEMMA OthersStay ==
  ASSUME LuInv, NEW s \in Fronts, FactorFront(s)
  PROVE  /\ lu' = lu /\ s \notin DOMAIN record /\ ChildrenOf(s) \subseteq DOMAIN record
         /\ DOMAIN record' = DOMAIN record \cup {s}
         /\ \A k \in DOMAIN record : record'[k] = record[k] /\ OffL(k)' = OffL(k) /\ OffU(k)' = OffU(k)
         /\ \E left \in Left(s) : record'[s] = Leaves(s, left)
<1>1. lu' = lu /\ s \notin DOMAIN record /\ ChildrenOf(s) \subseteq DOMAIN record
  BY DEF FactorFront, Ready
<1>2. PICK left \in Left(s) :
        record' = [t \in DOMAIN record \cup {s} |-> IF t = s THEN Leaves(s, left) ELSE record[t]]
  BY DEF FactorFront
<1>3. DOMAIN record' = DOMAIN record \cup {s}  BY <1>2
<1>4. record'[s] = Leaves(s, left)  BY <1>2
<1>5. \A k \in DOMAIN record : record'[k] = record[k]  BY <1>1, <1>2
<1>6. \A k \in DOMAIN record : OffL(k)' = OffL(k) /\ OffU(k)' = OffU(k)
  BY <1>1, <1>5 DEF OffL, OffU, Passed
<1> QED BY <1>1, <1>3, <1>4, <1>5, <1>6

LEMMA FrontStays ==
  ASSUME LuInv, NEW s \in Fronts, FactorFront(s), NEW t \in Fronts, ChildrenOf(t) \subseteq DOMAIN record
  PROVE  /\ ChildrenOf(t)' = ChildrenOf(t) /\ Fronts' = Fronts
         /\ SummedRows(t)' = SummedRows(t) /\ SummedCols(t)' = SummedCols(t)
         /\ FrontOffL(t)' = FrontOffL(t) /\ FrontOffU(t)' = FrontOffU(t)
<1>1. lu' = lu /\ \A k \in DOMAIN record : record'[k] = record[k] /\ OffL(k)' = OffL(k) /\ OffU(k)' = OffU(k)
  BY OthersStay
<1>2. ChildrenOf(t)' = ChildrenOf(t) /\ Fronts' = Fronts  BY <1>1 DEF ChildrenOf, Fronts
<1>3. \A k \in DOMAIN record : Passed(k)' = Passed(k)  BY <1>1 DEF Passed
<1>4. Passing(t)' = Passing(t)  BY <1>2, <1>3 DEF Passing
<1>5. lu.updaters[t] \subseteq DOMAIN record  BY UpdatersDone
<1>6. Extended(t)' = Extended(t)  BY <1>1, <1>5 DEF Extended
<1>7. \A c \in Passing(t) : c \in DOMAIN record  BY DEF Passing
<1>8. \A k \in Extended(t) : k \in DOMAIN record  BY <1>5 DEF Extended
<1>9. SummedRows(t)' = SummedRows(t) /\ SummedCols(t)' = SummedCols(t)
  BY <1>1, <1>4, <1>7 DEF SummedRows, SummedCols
<1>10. ExtraL(t)' = ExtraL(t)
  <2>1. \A k \in Extended(t) : Hits(OffU(k)', lu'.cols[t]) <=> Hits(OffU(k), lu.cols[t])  BY <1>1, <1>8
  <2> QED BY <1>1, <1>4, <1>6, <1>7, <1>8, <2>1 DEF ExtraL
<1>11. ExtraU(t)' = ExtraU(t)
  <2>1. \A k \in Extended(t) : Hits(OffL(k)', lu'.cols[t]) <=> Hits(OffL(k), lu.cols[t])  BY <1>1, <1>8
  <2> QED BY <1>1, <1>4, <1>6, <1>7, <1>8, <2>1 DEF ExtraU
<1> QED BY <1>1, <1>2, <1>9, <1>10, <1>11 DEF FrontOffL, FrontOffU

LEMMA WithinColumns ==
  ASSUME LuInv, NEW s \in Fronts, ChildrenOf(s) \subseteq DOMAIN record
  PROVE  IsFiniteSet(SummedRows(s)) /\ IsFiniteSet(SummedCols(s))
<1>0. IsAnalyzed(lu) /\ IsFiniteSet(AllColumns)  BY DEF LuInv, IsAnalyzed, AllColumns
<1>1. Upto(s) \subseteq AllColumns  BY <1>0, ColumnRuns DEF Upto
<1>2. PlacesKept(s)  BY PlacesHold
<1>3. SummedRows(s) \subseteq AllColumns /\ SummedCols(s) \subseteq AllColumns  BY <1>1, <1>2 DEF PlacesKept
<1> QED BY <1>0, <1>3, FS_Subset

LEMMA FrontIsKept ==
  ASSUME LuInv, NEW s \in Fronts, FactorFront(s)
  PROVE  RecordKept(s)' /\ PlacesKept(s)'
<1>1. /\ lu' = lu /\ ChildrenOf(s) \subseteq DOMAIN record /\ DOMAIN record' = DOMAIN record \cup {s}
  BY OthersStay
<1>2. PICK left \in Left(s) : record'[s] = Leaves(s, left)  BY OthersStay
<1>3. /\ ChildrenOf(s)' = ChildrenOf(s) /\ Fronts' = Fronts
      /\ SummedRows(s)' = SummedRows(s) /\ SummedCols(s)' = SummedCols(s)
      /\ FrontOffL(s)' = FrontOffL(s) /\ FrontOffU(s)' = FrontOffU(s)
  BY <1>1, FrontStays
<1>4. /\ left[1] \subseteq SummedRows(s) /\ left[2] \subseteq SummedCols(s)
      /\ Cardinality(left[1]) = Cardinality(left[2]) /\ (MayDelay(s) \/ left[1] = {})
  BY DEF Left
<1>5. left[1] = {} <=> left[2] = {}
  <2>1. IsFiniteSet(left[1]) /\ IsFiniteSet(left[2])  BY <1>1, <1>4, WithinColumns, FS_Subset
  <2>2. (left[1] = {} <=> Cardinality(left[1]) = 0) /\ (left[2] = {} <=> Cardinality(left[2]) = 0)
    BY <2>1, FS_EmptySet
  <2> QED BY <1>4, <2>2
<1>6. /\ record'[s].pivotRows = SummedRows(s) \ left[1] /\ record'[s].rows = left[1]
      /\ record'[s].pivotCols = SummedCols(s) \ left[2] /\ record'[s].cols = left[2]
      /\ record'[s].offL = FrontOffL(s) /\ record'[s].offU = FrontOffU(s)
      /\ record'[s].extras = (FrontOffL(s) # lu.st[s].l \/ FrontOffU(s) # lu.st[s].u)
  BY <1>2 DEF Leaves
<1>7. lu.parent[s] = 0 => left[1] = {}  BY <1>4 DEF MayDelay
<1>8. RecordKept(s)'  BY <1>1, <1>3, <1>4, <1>5, <1>6, <1>7 DEF RecordKept
<1>9. PlacesKept(s)  BY <1>1, PlacesHold
<1>10. Upto(s)' = Upto(s) /\ AllColumns' = AllColumns  BY <1>1 DEF Upto, AllColumns, Fronts
<1>11. PlacesKept(s)'  BY <1>1, <1>3, <1>9, <1>10 DEF PlacesKept
<1> QED BY <1>8, <1>11

LEMMA OthersKept ==
  ASSUME LuInv, NEW s \in Fronts, FactorFront(s), NEW t \in DOMAIN record
  PROVE  RecordKept(t)' /\ PlacesKept(t)'
<1>1. /\ lu' = lu /\ DOMAIN record' = DOMAIN record \cup {s} /\ record'[t] = record[t]
  BY OthersStay
<1>2. RecordKept(t) /\ PlacesKept(t)  BY DEF LuInv
<1>3. t \in Fronts /\ ChildrenOf(t) \subseteq DOMAIN record  BY <1>2 DEF RecordKept
<1>4. /\ ChildrenOf(t)' = ChildrenOf(t) /\ Fronts' = Fronts
      /\ SummedRows(t)' = SummedRows(t) /\ SummedCols(t)' = SummedCols(t)
      /\ FrontOffL(t)' = FrontOffL(t) /\ FrontOffU(t)' = FrontOffU(t)
  BY <1>3, FrontStays
<1>5. RecordKept(t)'  BY <1>1, <1>2, <1>3, <1>4 DEF RecordKept
<1>6. Upto(t)' = Upto(t) /\ AllColumns' = AllColumns  BY <1>1 DEF Upto, AllColumns, Fronts
<1>7. PlacesKept(t)'  BY <1>1, <1>2, <1>4, <1>6 DEF PlacesKept
<1> QED BY <1>5, <1>7

\* A front takes in what its children keep for it, and holds it then.
LEMMA HandsOver ==
  ASSUME NEW D, NEW s, s \notin D, NEW cols, NEW old, NEW new,
         HeldOnce(old, D, cols),
         \A t \in D : new[t] \subseteq old[t] /\ old[t] \subseteq new[t] \cup new[s],
         cols[s] \subseteq new[s],
         \A g \in new[s] : g \in cols[s] \/ \E c \in D : g \in old[c] /\ g \notin new[c],
         \A t \in D : \A g \in cols[t] : g \notin cols[s]
  PROVE  HeldOnce(new, D \cup {s}, cols)
<1>1. ASSUME NEW t \in D \cup {s}, NEW g \in cols[t] PROVE \E r \in D \cup {s} : g \in new[r]
  <2>1. CASE t = s  BY <1>1, <2>1
  <2>2. CASE t \in D
    <3>1. PICK r \in D : g \in old[r]  BY <1>1, <2>2 DEF HeldOnce
    <3> QED BY <3>1
  <2> QED BY <2>1, <2>2
<1>2. ASSUME NEW t \in D, NEW g \in new[s], g \in new[t] PROVE FALSE
  <2>0. g \in old[t]  BY <1>2
  <2>1. CASE g \in cols[s]
    <3>1. PICK r \in D : g \in cols[r]  BY <2>0 DEF HeldOnce
    <3> QED BY <2>1, <3>1
  <2>2. CASE \E c \in D : g \in old[c] /\ g \notin new[c]
    <3>1. PICK c \in D : g \in old[c] /\ g \notin new[c]  BY <2>2
    <3>2. c = t  BY <2>0, <3>1 DEF HeldOnce
    <3> QED BY <1>2, <3>1, <3>2
  <2> QED BY <2>1, <2>2
<1>3. ASSUME NEW r \in D \cup {s}, NEW t \in D \cup {s}, NEW g \in new[r], g \in new[t] PROVE r = t
  <2>1. CASE r = s \/ t = s  BY <1>2, <1>3, <2>1
  <2>2. CASE r \in D /\ t \in D
    <3>1. g \in old[r] /\ g \in old[t]  BY <1>3, <2>2
    <3> QED BY <2>2, <3>1 DEF HeldOnce
  <2> QED BY <2>1, <2>2
<1>4. ASSUME NEW r \in D \cup {s}, NEW g \in new[r] PROVE \E t \in D \cup {s} : g \in cols[t]
  <2>1. CASE r \in D
    <3>1. g \in old[r]  BY <1>4, <2>1
    <3> QED BY <2>1, <3>1 DEF HeldOnce
  <2>2. CASE g \in new[s]
    <3>1. CASE g \in cols[s]  BY <3>1
    <3>2. CASE \E c \in D : g \in old[c] /\ g \notin new[c]  BY <3>2 DEF HeldOnce
    <3> QED BY <2>2, <3>1, <3>2
  <2> QED BY <1>4, <2>1, <2>2
<1> QED BY <1>1, <1>3, <1>4 DEF HeldOnce

LEMMA HeldStays ==
  ASSUME LuInv, NEW s \in Fronts, FactorFront(s)
  PROVE  HeldOnce(RowsHeld, DOMAIN record, lu.cols)' /\ HeldOnce(ColsHeld, DOMAIN record, lu.cols)'
<1>0. IsAnalyzed(lu) /\ Len(lu.cols) \in Nat /\ Fronts = 1..Len(lu.cols)  BY ColumnRuns DEF LuInv
<1>1. /\ lu' = lu /\ s \notin DOMAIN record /\ ChildrenOf(s) \subseteq DOMAIN record
      /\ DOMAIN record' = DOMAIN record \cup {s} /\ \A k \in DOMAIN record : record'[k] = record[k]
  BY OthersStay
<1>2. \A t \in DOMAIN record : t \in Fronts /\ RecordKept(t)  BY DEF LuInv, RecordKept
<1>3. RecordKept(s)'  BY FrontIsKept
<1>4. SummedRows(s)' = SummedRows(s) /\ SummedCols(s)' = SummedCols(s)  BY <1>1, FrontStays
\* Its parent is not factored before it.
<1>5. lu.parent[s] \notin DOMAIN record'
  <2> SUFFICES ASSUME lu.parent[s] \in DOMAIN record' PROVE FALSE
    OBVIOUS
  <2>1. lu.parent[s] # s  BY <1>0 DEF IsAnalyzed, Fronts
  <2>2. lu.parent[s] \in DOMAIN record  BY <1>1, <2>1
  <2>3. s \in ChildrenOf(lu.parent[s])  BY DEF ChildrenOf
  <2> QED BY <1>1, <1>2, <2>2, <2>3 DEF RecordKept
<1>6. (RowsHeld')[s] = SummedRows(s) /\ (ColsHeld')[s] = SummedCols(s)
  <2>1. Waits(s)'  BY <1>1, <1>5 DEF Waits
  <2>2. /\ record'[s].pivotRows \cup record'[s].rows = SummedRows(s)
        /\ record'[s].pivotCols \cup record'[s].cols = SummedCols(s)
    BY <1>3, <1>4 DEF RecordKept
  <2> QED BY <1>1, <2>1, <2>2 DEF RowsHeld, ColsHeld
<1>7. ASSUME NEW t \in DOMAIN record, lu.parent[t] # s
      PROVE  (RowsHeld')[t] = RowsHeld[t] /\ (ColsHeld')[t] = ColsHeld[t]
  <2>1. Waits(t)' <=> Waits(t)  BY <1>1, <1>7 DEF Waits
  <2> QED BY <1>1, <1>7, <2>1 DEF RowsHeld, ColsHeld
<1>8. ASSUME NEW t \in DOMAIN record, lu.parent[t] = s
      PROVE  /\ (RowsHeld')[t] = record[t].pivotRows /\ RowsHeld[t] = record[t].pivotRows \cup record[t].rows
             /\ (ColsHeld')[t] = record[t].pivotCols /\ ColsHeld[t] = record[t].pivotCols \cup record[t].cols
  <2>1. ~Waits(t)' /\ Waits(t)  BY <1>1, <1>8 DEF Waits
  <2> QED BY <1>1, <1>8, <2>1 DEF RowsHeld, ColsHeld
<1>9. ASSUME NEW t \in DOMAIN record, lu.parent[t] = s
      PROVE  record[t].rows \subseteq SummedRows(s) /\ record[t].cols \subseteq SummedCols(s)
  <2>1. t \in ChildrenOf(s)  BY <1>2, <1>9 DEF ChildrenOf
  <2>2. CASE record[t].rows = {}  BY <1>2, <2>2 DEF RecordKept
  <2>3. CASE record[t].rows # {}
    <3>1. t \in Passing(s)  BY <2>1, <2>3 DEF Passing, Passed
    <3> QED BY <3>1 DEF SummedRows, SummedCols
  <2> QED BY <2>2, <2>3
<1>10. \A t \in DOMAIN record : \A g \in lu.cols[t] : g \notin lu.cols[s]
  BY <1>0, <1>1, <1>2, ColumnRuns
<1>11. lu.cols[s] \subseteq SummedRows(s) /\ lu.cols[s] \subseteq SummedCols(s)  BY DEF SummedRows, SummedCols
<1>12. \A c \in Passing(s) : c \in DOMAIN record /\ lu.parent[c] = s  BY <1>1 DEF Passing, ChildrenOf
<1>13. ASSUME NEW g \in SummedRows(s)
       PROVE  g \in lu.cols[s] \/ \E c \in DOMAIN record : g \in RowsHeld[c] /\ g \notin (RowsHeld')[c]
  <2>1. CASE g \in lu.cols[s]  BY <2>1
  <2>2. CASE \E c \in Passing(s) : g \in record[c].rows
    <3>1. PICK c \in Passing(s) : g \in record[c].rows  BY <2>2
    <3>2. record[c].pivotRows \cap record[c].rows = {}  BY <1>2, <1>12 DEF RecordKept
    <3> QED BY <1>8, <1>12, <3>1, <3>2
  <2> QED BY <1>13, <2>1, <2>2 DEF SummedRows
<1>14. ASSUME NEW g \in SummedCols(s)
       PROVE  g \in lu.cols[s] \/ \E c \in DOMAIN record : g \in ColsHeld[c] /\ g \notin (ColsHeld')[c]
  <2>1. CASE g \in lu.cols[s]  BY <2>1
  <2>2. CASE \E c \in Passing(s) : g \in record[c].cols
    <3>1. PICK c \in Passing(s) : g \in record[c].cols  BY <2>2
    <3>2. record[c].pivotCols \cap record[c].cols = {}  BY <1>2, <1>12 DEF RecordKept
    <3> QED BY <1>8, <1>12, <3>1, <3>2
  <2> QED BY <1>14, <2>1, <2>2 DEF SummedCols
<1>15. ASSUME NEW t \in DOMAIN record
       PROVE  /\ (RowsHeld')[t] \subseteq RowsHeld[t] /\ RowsHeld[t] \subseteq (RowsHeld')[t] \cup (RowsHeld')[s]
              /\ (ColsHeld')[t] \subseteq ColsHeld[t] /\ ColsHeld[t] \subseteq (ColsHeld')[t] \cup (ColsHeld')[s]
  BY <1>6, <1>7, <1>8, <1>9
<1>16. HeldOnce(RowsHeld, DOMAIN record, lu.cols) /\ HeldOnce(ColsHeld, DOMAIN record, lu.cols)  BY DEF LuInv
<1>17. HeldOnce(RowsHeld', DOMAIN record \cup {s}, lu.cols)
  <2> HIDE DEF RowsHeld
  <2> QED BY <1>1, <1>6, <1>10, <1>11, <1>13, <1>15, <1>16, HandsOver
<1>18. HeldOnce(ColsHeld', DOMAIN record \cup {s}, lu.cols)
  BY <1>1, <1>6, <1>10, <1>11, <1>14, <1>15, <1>16, HandsOver
<1> QED BY <1>1, <1>17, <1>18

\* A factored front takes its place among the others.
LEMMA FactorKeeps ==
  ASSUME LuInv, NEW s \in Fronts, FactorFront(s)
  PROVE  LuInv'
<1>1. lu' = lu /\ DOMAIN record' = DOMAIN record \cup {s}  BY OthersStay
<1>2. IsAnalyzed(lu)'  BY <1>1 DEF LuInv
<1>3. \A t \in DOMAIN record' : RecordKept(t)' /\ PlacesKept(t)'
  BY <1>1, FrontIsKept, OthersKept
<1>4. HeldOnce(RowsHeld, DOMAIN record, lu.cols)' /\ HeldOnce(ColsHeld, DOMAIN record, lu.cols)'
  BY HeldStays
<1> QED BY <1>2, <1>3, <1>4 DEF LuInv

LEMMA FrontStart == FrontInit => LuInv
<1> SUFFICES ASSUME FrontInit PROVE LuInv
  OBVIOUS
<1>1. IsAnalyzed(lu) /\ record = [s \in {} |-> 0]  BY FrontsAssumption DEF FrontInit
<1> QED BY <1>1 DEF LuInv, HeldOnce, RowsHeld, ColsHeld

LEMMA FrontStep == LuInv /\ [FrontNext]_frontVars => LuInv'
<1>1. ASSUME LuInv, Overflow PROVE LuInv'
  <2>1. IsAnalyzed(lu') /\ record' = [s \in {} |-> 0]  BY <1>1 DEF LuInv, Overflow
  <2> QED BY <2>1 DEF LuInv, HeldOnce, RowsHeld, ColsHeld
<1>2. ASSUME LuInv, NEW s \in Fronts, FactorFront(s) PROVE LuInv'
  BY <1>2, FactorKeeps
<1>3. ASSUME LuInv, UNCHANGED frontVars PROVE LuInv'
  <2>1. lu' = lu /\ record' = record  BY <1>3 DEF frontVars
  <2>2. IsAnalyzed(lu)' /\ DOMAIN record' = DOMAIN record  BY <1>3, <2>1 DEF LuInv
  <2>3. RowsHeld' = RowsHeld /\ ColsHeld' = ColsHeld  BY <2>1 DEF RowsHeld, ColsHeld, Waits
  <2>4. ASSUME NEW t \in DOMAIN record PROVE RecordKept(t)' /\ PlacesKept(t)'
    <3>1. RecordKept(t) /\ PlacesKept(t)  BY <1>3 DEF LuInv
    <3>2. Upto(t)' = Upto(t) /\ AllColumns' = AllColumns /\ Fronts' = Fronts /\ ChildrenOf(t)' = ChildrenOf(t)
      BY <2>1 DEF Upto, AllColumns, Fronts, ChildrenOf
    <3>3. /\ SummedRows(t)' = SummedRows(t) /\ SummedCols(t)' = SummedCols(t)
          /\ FrontOffL(t)' = FrontOffL(t) /\ FrontOffU(t)' = FrontOffU(t)
      BY <2>1, <3>2 DEF SummedRows, SummedCols, FrontOffL, FrontOffU, ExtraL, ExtraU, Passing, Extended, Passed, OffL, OffU
    <3> QED BY <2>1, <3>1, <3>2, <3>3 DEF RecordKept, PlacesKept
  <2> QED BY <1>3, <2>1, <2>2, <2>3, <2>4 DEF LuInv
<1> QED BY <1>1, <1>2, <1>3 DEF FrontNext

-----------------------------------------------------------------------------
(***************************************************************************)
(* The factor, once every front is factored.                               *)
(***************************************************************************)
Factored == LuInv /\ DOMAIN record = Fronts

LEMMA FactoredFacts ==
  ASSUME Factored
  PROVE  /\ IsAnalyzed(lu) /\ Len(lu.cols) \in Nat /\ Fronts = 1..Len(lu.cols) /\ AllColumns \subseteq Nat
         /\ \A s \in Fronts : RecordKept(s) /\ PlacesKept(s) /\ ChildrenOf(s) \subseteq DOMAIN record
         /\ \A s \in Fronts : RowsHeld[s] = record[s].pivotRows /\ ColsHeld[s] = record[s].pivotCols
         /\ \A s \in Fronts : record[s].rows \cup record[s].cols # {} =>
              lu.parent[s] \in Fronts /\ s < lu.parent[s] /\ s \in Passing(lu.parent[s])
<1>1. IsAnalyzed(lu) /\ Len(lu.cols) \in Nat /\ Fronts = 1..Len(lu.cols) /\ AllColumns \subseteq Nat
  BY ColumnRuns DEF Factored, LuInv
<1>2. \A s \in Fronts : RecordKept(s) /\ PlacesKept(s) /\ ChildrenOf(s) \subseteq DOMAIN record
  BY DEF Factored, LuInv, RecordKept
<1>3. \A s \in Fronts : lu.parent[s] = 0 \/ (lu.parent[s] \in Fronts /\ s < lu.parent[s])
  BY <1>1 DEF IsAnalyzed, Fronts
<1>4. ASSUME NEW s \in Fronts PROVE RowsHeld[s] = record[s].pivotRows /\ ColsHeld[s] = record[s].pivotCols
  <2>1. CASE lu.parent[s] \in Fronts
    <3>1. ~Waits(s)  BY <2>1 DEF Waits, Factored
    <3> QED BY <3>1 DEF RowsHeld, ColsHeld, Factored
  <2>2. CASE lu.parent[s] = 0
    <3>1. record[s].rows = {} /\ record[s].cols = {}  BY <1>2, <2>2 DEF RecordKept
    <3> QED BY <3>1 DEF RowsHeld, ColsHeld, Factored
  <2> QED BY <1>3, <2>1, <2>2
<1>5. ASSUME NEW s \in Fronts, record[s].rows \cup record[s].cols # {}
      PROVE  lu.parent[s] \in Fronts /\ s < lu.parent[s] /\ s \in Passing(lu.parent[s])
  <2>1. record[s].rows # {} /\ lu.parent[s] # 0  BY <1>2, <1>5 DEF RecordKept
  <2> QED BY <1>3, <2>1 DEF Passing, Passed, ChildrenOf
<1> QED BY <1>1, <1>2, <1>4, <1>5

LEMMA PivotedByOne ==
  ASSUME Factored
  PROVE  /\ \A g \in AllColumns : (\E s \in Fronts : g \in record[s].pivotRows) /\ (\E s \in Fronts : g \in record[s].pivotCols)
         /\ \A s, t \in Fronts : \A g \in record[s].pivotRows : g \in record[t].pivotRows => s = t
         /\ \A s, t \in Fronts : \A g \in record[s].pivotCols : g \in record[t].pivotCols => s = t
<1>1. IsAnalyzed(lu) /\ \A s \in Fronts : RowsHeld[s] = record[s].pivotRows /\ ColsHeld[s] = record[s].pivotCols
  BY FactoredFacts
<1>2. HeldOnce(RowsHeld, Fronts, lu.cols) /\ HeldOnce(ColsHeld, Fronts, lu.cols)  BY DEF Factored, LuInv
<1>3. ASSUME NEW g \in AllColumns
      PROVE  (\E s \in Fronts : g \in record[s].pivotRows) /\ (\E s \in Fronts : g \in record[s].pivotCols)
  <2>1. PICK t \in Fronts : g \in lu.cols[t]  BY <1>1, ColumnRuns
  <2> QED BY <1>1, <1>2, <2>1 DEF HeldOnce
<1>4. \A s, t \in Fronts : \A g \in record[s].pivotRows : g \in record[t].pivotRows => s = t
  BY <1>1, <1>2 DEF HeldOnce
<1>5. \A s, t \in Fronts : \A g \in record[s].pivotCols : g \in record[t].pivotCols => s = t
  BY <1>1, <1>2 DEF HeldOnce
<1> QED BY <1>3, <1>4, <1>5

\* What a front takes in is pivoted there or above.
LEMMA PivotedAbove ==
  ASSUME Factored, NEW s \in Fronts, NEW g
  PROVE  /\ g \in SummedRows(s) => \E t \in Fronts : s <= t /\ g \in record[t].pivotRows
         /\ g \in SummedCols(s) => \E t \in Fronts : s <= t /\ g \in record[t].pivotCols
<1>0. Len(lu.cols) \in Nat /\ Fronts = 1..Len(lu.cols)  BY FactoredFacts
<1>1. ASSUME g \in SummedRows(s) PROVE \E t \in Fronts : s <= t /\ g \in record[t].pivotRows
  <2> DEFINE Above == {t \in Fronts : s <= t /\ g \in SummedRows(t)}
  <2>1. Above \in SUBSET (1..Len(lu.cols)) /\ s \in Above  BY <1>0, <1>1
  <2>2. PICK m \in Above : \A t \in Above : t <= m
    <3> HIDE DEF Above
    <3> QED BY <1>0, <2>1, GreatestNumber
  <2>3. m \in Fronts /\ s <= m /\ g \in SummedRows(m)  OBVIOUS
  <2>4. ASSUME g \notin record[m].pivotRows PROVE FALSE
    <3>1. g \in record[m].rows  BY <2>3, <2>4, FactoredFacts DEF RecordKept
    <3>2. lu.parent[m] \in Fronts /\ m < lu.parent[m] /\ m \in Passing(lu.parent[m])  BY <2>3, <3>1, FactoredFacts
    <3>3. g \in SummedRows(lu.parent[m])  BY <3>1, <3>2 DEF SummedRows
    <3>4. lu.parent[m] \in Above  BY <1>0, <2>3, <3>2, <3>3
    <3> QED BY <1>0, <2>2, <2>3, <3>2, <3>4
  <2> QED BY <2>3, <2>4
<1>2. ASSUME g \in SummedCols(s) PROVE \E t \in Fronts : s <= t /\ g \in record[t].pivotCols
  <2> DEFINE Above == {t \in Fronts : s <= t /\ g \in SummedCols(t)}
  <2>1. Above \in SUBSET (1..Len(lu.cols)) /\ s \in Above  BY <1>0, <1>2
  <2>2. PICK m \in Above : \A t \in Above : t <= m
    <3> HIDE DEF Above
    <3> QED BY <1>0, <2>1, GreatestNumber
  <2>3. m \in Fronts /\ s <= m /\ g \in SummedCols(m)  OBVIOUS
  <2>4. ASSUME g \notin record[m].pivotCols PROVE FALSE
    <3>1. g \in record[m].cols  BY <2>3, <2>4, FactoredFacts DEF RecordKept
    <3>2. lu.parent[m] \in Fronts /\ m < lu.parent[m] /\ m \in Passing(lu.parent[m])  BY <2>3, <3>1, FactoredFacts
    <3>3. g \in SummedCols(lu.parent[m])  BY <3>1, <3>2 DEF SummedCols
    <3>4. lu.parent[m] \in Above  BY <1>0, <2>3, <3>2, <3>3
    <3> QED BY <1>0, <2>2, <2>3, <3>2, <3>4
  <2> QED BY <2>3, <2>4
<1> QED BY <1>1, <1>2

\* So what lies in a front was not pivoted before it.
LEMMA NotPivotedBefore ==
  ASSUME Factored, NEW s \in Fronts, NEW t \in Fronts, s < t, NEW g
  PROVE  /\ g \in SummedRows(t) \cup FrontOffL(t) => g \notin record[s].pivotRows
         /\ g \in SummedCols(t) \cup FrontOffU(t) => g \notin record[s].pivotCols
<1>0. IsAnalyzed(lu) /\ Len(lu.cols) \in Nat /\ Fronts = 1..Len(lu.cols)  BY FactoredFacts
<1>1. ASSUME NEW f \in Fronts, s < f PROVE (g \in SummedRows(f) => g \notin record[s].pivotRows) /\ (g \in SummedCols(f) => g \notin record[s].pivotCols)
  <2>1. ASSUME g \in SummedRows(f), g \in record[s].pivotRows PROVE FALSE
    <3>1. PICK x \in Fronts : f <= x /\ g \in record[x].pivotRows  BY <2>1, PivotedAbove
    <3>2. x = s  BY <2>1, <3>1, PivotedByOne
    <3> QED BY <1>0, <1>1, <3>1, <3>2
  <2>2. ASSUME g \in SummedCols(f), g \in record[s].pivotCols PROVE FALSE
    <3>1. PICK x \in Fronts : f <= x /\ g \in record[x].pivotCols  BY <2>2, PivotedAbove
    <3>2. x = s  BY <2>2, <3>1, PivotedByOne
    <3> QED BY <1>0, <1>1, <3>1, <3>2
  <2> QED BY <2>1, <2>2
<1>2. ASSUME g \in FrontOffL(t) \cup FrontOffU(t)
      PROVE  \E f \in Fronts : s < f /\ g \in SummedRows(f) /\ g \in SummedCols(f)
  <2>1. g \in AllColumns  BY <1>2, FactoredFacts DEF PlacesKept
  <2>2. PICK f \in Fronts : g \in lu.cols[f]  BY <1>0, <2>1, ColumnRuns
  <2>3. t \in lu.updaters[f]  BY <1>2, <2>2, FactoredFacts DEF PlacesKept, Hits
  <2>4. t < f  BY <1>0, <2>3, UpdaterFacts
  <2>5. s < f  BY <1>0, <2>4
  <2> QED BY <2>2, <2>5 DEF SummedRows, SummedCols
<1>3. ASSUME g \in SummedRows(t) \cup FrontOffL(t) PROVE g \notin record[s].pivotRows
  <2>1. CASE g \in SummedRows(t)  BY <1>1, <2>1
  <2>2. CASE g \in FrontOffL(t)  BY <1>1, <1>2, <2>2
  <2> QED BY <1>3, <2>1, <2>2
<1>4. ASSUME g \in SummedCols(t) \cup FrontOffU(t) PROVE g \notin record[s].pivotCols
  <2>1. CASE g \in SummedCols(t)  BY <1>1, <2>1
  <2>2. CASE g \in FrontOffU(t)  BY <1>1, <1>2, <2>2
  <2> QED BY <1>4, <2>1, <2>2
<1> QED BY <1>3, <1>4

\* An entry in a front goes up with the pivots passed on until the front
\* that pivots its row or its column.
LEMMA Settles ==
  ASSUME Factored, NEW s \in Fronts, NEW g, NEW h, InFront(s, <<g, h>>)
  PROVE  \E t \in Fronts : InFront(t, <<g, h>>) /\ (g \in record[t].pivotRows \/ h \in record[t].pivotCols)
<1>0. Len(lu.cols) \in Nat /\ Fronts = 1..Len(lu.cols)  BY FactoredFacts
<1> DEFINE Having == {t \in Fronts : InFront(t, <<g, h>>)}
<1>1. Having \in SUBSET (1..Len(lu.cols)) /\ s \in Having  BY <1>0
<1>2. PICK m \in Having : \A t \in Having : t <= m
  <2> HIDE DEF Having
  <2> QED BY <1>0, <1>1, GreatestNumber
<1>3. m \in Fronts /\ InFront(m, <<g, h>>)  OBVIOUS
<1>4. ASSUME g \notin record[m].pivotRows, h \notin record[m].pivotCols PROVE FALSE
  <2>1. RecordKept(m) /\ m \in DOMAIN record /\ LuInv  BY <1>3, FactoredFacts DEF Factored
  <2>2. OffL(m) = record[m].rows \cup FrontOffL(m) /\ OffU(m) = record[m].cols \cup FrontOffU(m)  BY <2>1, OffIs
  <2>3. (g \in SummedRows(m) => g \in record[m].rows) /\ (h \in SummedCols(m) => h \in record[m].cols)
    BY <1>4, <2>1 DEF RecordKept
  <2>4. \/ g \in SummedRows(m) \cup FrontOffL(m) /\ h \in SummedCols(m)
        \/ g \in SummedRows(m) /\ h \in SummedCols(m) \cup FrontOffU(m)
    BY <1>3 DEF InFront
  <2>5. <<g, h>> \in CarriedFrom(m)  BY <2>2, <2>3, <2>4 DEF CarriedFrom
  <2>6. record[m].rows \cup record[m].cols # {}  BY <2>3, <2>4
  <2>7. lu.parent[m] \in Fronts /\ m < lu.parent[m] /\ m \in Passing(lu.parent[m])  BY <1>3, <2>6, FactoredFacts
  <2>8. ChildrenOf(lu.parent[m]) \subseteq DOMAIN record  BY <2>7, FactoredFacts
  <2>9. InFront(lu.parent[m], <<g, h>>)  BY <2>1, <2>5, <2>7, <2>8, CarriedLands
  <2>10. lu.parent[m] \in Having  BY <2>7, <2>9
  <2> QED BY <1>0, <1>2, <1>3, <2>7, <2>10
<1> QED BY <1>3, <1>4

\* There, or above, the one pivoted first finds the other in its panel.
LEMMA PairFits ==
  ASSUME Factored, NEW f \in Fronts, NEW g, NEW h, InFront(f, <<g, h>>), NEW s \in Fronts
  PROVE  /\ h \in record[s].pivotCols /\ (\A k \in Fronts : k <= s => g \notin record[k].pivotRows) => g \in OffL(s)
         /\ g \in record[s].pivotRows /\ (\A k \in Fronts : k <= s => h \notin record[k].pivotCols) => h \in OffU(s)
<1>0. Len(lu.cols) \in Nat /\ Fronts = 1..Len(lu.cols)  BY FactoredFacts
<1>1. PICK t \in Fronts : InFront(t, <<g, h>>) /\ (g \in record[t].pivotRows \/ h \in record[t].pivotCols)
  BY Settles
<1>2. g \in SummedRows(t) \cup FrontOffL(t) /\ h \in SummedCols(t) \cup FrontOffU(t)  BY <1>1 DEF InFront
<1>3. RecordKept(t) /\ t \in DOMAIN record /\ LuInv  BY FactoredFacts DEF Factored
<1>4. OffL(t) = record[t].rows \cup FrontOffL(t) /\ OffU(t) = record[t].cols \cup FrontOffU(t)  BY <1>3, OffIs
<1>5. ASSUME h \in record[s].pivotCols, \A k \in Fronts : k <= s => g \notin record[k].pivotRows PROVE g \in OffL(s)
  <2>1. CASE h \in record[t].pivotCols
    <3>1. t = s  BY <1>5, <2>1, PivotedByOne
    <3>2. g \notin record[t].pivotRows  BY <1>0, <1>5, <3>1
    <3> QED BY <1>2, <1>3, <1>4, <3>1, <3>2 DEF RecordKept
  <2>2. CASE g \in record[t].pivotRows
    <3>1. s < t  BY <1>0, <1>5, <2>2
    <3> QED BY <1>2, <1>5, <3>1, NotPivotedBefore
  <2> QED BY <1>1, <2>1, <2>2
<1>6. ASSUME g \in record[s].pivotRows, \A k \in Fronts : k <= s => h \notin record[k].pivotCols PROVE h \in OffU(s)
  <2>1. CASE g \in record[t].pivotRows
    <3>1. t = s  BY <1>6, <2>1, PivotedByOne
    <3>2. h \notin record[t].pivotCols  BY <1>0, <1>6, <3>1
    <3> QED BY <1>2, <1>3, <1>4, <3>1, <3>2 DEF RecordKept
  <2>2. CASE h \in record[t].pivotCols
    <3>1. s < t  BY <1>0, <1>6, <2>2
    <3> QED BY <1>2, <1>6, <3>1, NotPivotedBefore
  <2> QED BY <1>1, <2>1, <2>2
<1> QED BY <1>5, <1>6

\* Every entry comes in at the front of its lower index.
LEMMA EntryLands ==
  ASSUME Factored, NEW e \in lu.entries
  PROVE  e = <<e[1], e[2]>> /\ \E t \in Fronts : InFront(t, e)
<1>0. IsAnalyzed(lu) /\ LuInv /\ Len(lu.cols) \in Nat /\ Fronts = 1..Len(lu.cols)  BY FactoredFacts DEF Factored
<1>1. e \in AllColumns \X AllColumns  BY <1>0 DEF IsAnalyzed, AllColumns
<1>2. PICK a \in Fronts : e[1] \in lu.cols[a]  BY <1>0, <1>1, ColumnRuns
<1>3. PICK b \in Fronts : e[2] \in lu.cols[b]  BY <1>0, <1>1, ColumnRuns
<1>4. CASE b <= a
  <2>1. e[1] >= Min(lu.cols[b])  BY <1>0, <1>2, <1>4, ByColumns
  <2> QED BY <1>0, <1>1, <1>3, <2>1, EntriesLand
<1>5. CASE a <= b
  <2>1. e[2] >= Min(lu.cols[a])  BY <1>0, <1>3, <1>5, ByColumns
  <2> QED BY <1>0, <1>1, <1>2, <2>1, EntriesLand
<1> QED BY <1>0, <1>4, <1>5

\* So does all a front's rows and columns past its pivots fill, at the parent
\* that takes pivots of it, or at the front of the lower index.
LEMMA FillLands ==
  ASSUME Factored, NEW k \in Fronts, NEW g \in OffL(k), NEW h \in OffU(k)
  PROVE  \E t \in Fronts : InFront(t, <<g, h>>)
<1>0. IsAnalyzed(lu) /\ LuInv /\ k \in DOMAIN record /\ Len(lu.cols) \in Nat /\ Fronts = 1..Len(lu.cols)
  BY FactoredFacts DEF Factored
<1>1. OffL(k) = record[k].rows \cup FrontOffL(k) /\ OffU(k) = record[k].cols \cup FrontOffU(k)  BY <1>0, OffIs
<1>2. CASE g \in record[k].rows \/ h \in record[k].cols
  <2>1. <<g, h>> \in CarriedFrom(k)  BY <1>2 DEF CarriedFrom
  <2>2. lu.parent[k] \in Fronts /\ k \in Passing(lu.parent[k])  BY <1>2, FactoredFacts
  <2>3. ChildrenOf(lu.parent[k]) \subseteq DOMAIN record  BY <2>2, FactoredFacts
  <2>4. InFront(lu.parent[k], <<g, h>>)  BY <1>0, <2>1, <2>2, <2>3, CarriedLands
  <2> QED BY <2>2, <2>4
<1>3. CASE g \in FrontOffL(k) /\ h \in FrontOffU(k)
  <2>1. g \in AllColumns /\ h \in AllColumns  BY <1>0, OffListed
  <2>2. PICK a \in Fronts : g \in lu.cols[a]  BY <1>0, <2>1, ColumnRuns
  <2>3. PICK b \in Fronts : h \in lu.cols[b]  BY <1>0, <2>1, ColumnRuns
  <2>4. k \in lu.updaters[a] /\ k \in lu.updaters[b]  BY <1>3, <2>2, <2>3, FactoredFacts DEF PlacesKept, Hits
  <2>5. ChildrenOf(a) \subseteq DOMAIN record /\ ChildrenOf(b) \subseteq DOMAIN record  BY FactoredFacts
  <2>6. CASE b <= a
    <3>1. g \in From(OffL(k), lu.cols[b])  BY <1>0, <2>2, <2>6, PastColumns
    <3>2. <<g, h>> \in UpdatesOf(k, b)  BY <2>3, <3>1 DEF UpdatesOf
    <3>3. InFront(b, <<g, h>>)  BY <1>0, <2>4, <2>5, <3>2, UpdatesLand
    <3> QED BY <3>3
  <2>7. CASE a < b
    <3>1. h \in Past(OffU(k), lu.cols[a])  BY <1>0, <2>3, <2>7, PastColumns
    <3>2. <<g, h>> \in UpdatesOf(k, a)  BY <2>2, <3>1 DEF UpdatesOf
    <3>3. InFront(a, <<g, h>>)  BY <1>0, <2>4, <2>5, <3>2, UpdatesLand
    <3> QED BY <3>3
  <2> QED BY <1>0, <2>6, <2>7
<1> QED BY <1>1, <1>2, <1>3

-----------------------------------------------------------------------------
(***************************************************************************)
(* What is left of the pattern.                                            *)
(***************************************************************************)
Reduced(f, s) == Fill(f[s - 1], s).pattern
Eliminates(n, f) == f = [s \in 0..n |-> IF s = 0 THEN lu.entries ELSE Reduced(f, s)]

LEMMA EliminationExists ==
  ASSUME NEW n \in Nat
  PROVE  \E f : Eliminates(n, f)
<1> DEFINE Lacking == {m \in Nat : ~ \E f : Eliminates(m, f)}
<1> SUFFICES ASSUME Lacking # {} PROVE FALSE
  OBVIOUS
<1>1. PICK m \in Lacking : \A k \in Lacking : m <= k
  <2>1. Lacking \in SUBSET Nat  OBVIOUS
  <2> HIDE DEF Lacking
  <2> QED BY <2>1, LeastNumber
<1>2. m \in Nat /\ ~ \E f : Eliminates(m, f)  OBVIOUS
<1>3. CASE m = 0
  <2> DEFINE f == [s \in 0..0 |-> lu.entries]
  <2>1. f = [s \in 0..0 |-> IF s = 0 THEN lu.entries ELSE Reduced(f, s)]  BY \A s \in 0..0 : s = 0
  <2> QED BY <1>2, <1>3, <2>1 DEF Eliminates
<1>4. CASE m # 0
  <2>1. m - 1 \in Nat /\ m - 1 \notin Lacking  BY <1>1, <1>2, <1>4
  <2>2. PICK g : Eliminates(m - 1, g)  BY <2>1
  <2> DEFINE f == [s \in 0..m |-> IF s = m THEN Reduced(g, m) ELSE g[s]]
  <2>3. ASSUME NEW s \in 0..m PROVE f[s] = IF s = 0 THEN lu.entries ELSE Reduced(f, s)
    <3>1. CASE s = m
      <4>1. f[s - 1] = g[s - 1]  BY <1>2, <1>4, <3>1
      <4>2. Reduced(f, s) = Reduced(g, s)  BY <4>1 DEF Reduced
      <4> QED BY <1>4, <3>1, <4>2
    <3>2. CASE s = 0
      <4>1. g[0] = lu.entries  BY <2>1, <2>2 DEF Eliminates
      <4> QED BY <1>4, <3>2, <4>1
    <3>3. CASE s # m /\ s # 0
      <4>1. s \in 0..m - 1 /\ s - 1 \in 0..m /\ s - 1 # m /\ f[s - 1] = g[s - 1]  BY <1>2, <3>3
      <4>2. Reduced(f, s) = Reduced(g, s)  BY <4>1 DEF Reduced
      <4>3. g[s] = Reduced(g, s)  BY <2>2, <3>3, <4>1 DEF Eliminates
      <4> QED BY <3>3, <4>2, <4>3
    <3> QED BY <3>1, <3>2, <3>3
  <2> HIDE DEF f
  <2>4. f = [s \in 0..m |-> f[s]]  BY DEF f
  <2>5. Eliminates(m, f)  BY <2>3, <2>4 DEF Eliminates
  <2> QED BY <1>2, <2>5
<1> QED BY <1>3, <1>4

LEMMA RemainingIs ==
  ASSUME Len(lu.cols) \in Nat
  PROVE  /\ Remaining[0] = lu.entries
         /\ \A s \in 1..Len(lu.cols) : Remaining[s] = Fill(Remaining[s - 1], s).pattern
<1>1. \E f : Eliminates(Len(lu.cols), f)  BY EliminationExists
<1>2. Remaining = CHOOSE f : Eliminates(Len(lu.cols), f)  BY DEF Remaining, Eliminates, Reduced
<1>3. Eliminates(Len(lu.cols), Remaining)  BY <1>1, <1>2
<1>4. 0 \in 0..Len(lu.cols) /\ \A s \in 1..Len(lu.cols) : s \in 0..Len(lu.cols) /\ s # 0  OBVIOUS
<1>5. Remaining[0] = lu.entries  BY <1>3, <1>4 DEF Eliminates
<1>6. \A s \in 1..Len(lu.cols) : Remaining[s] = Reduced(Remaining, s)  BY <1>3, <1>4 DEF Eliminates
<1> QED BY <1>5, <1>6 DEF Reduced

\* What eliminating a front's pivots fills.
FillRows(s) == Fill(Remaining[s - 1], s).rows
FillCols(s) == Fill(Remaining[s - 1], s).cols

\* What is left after the first fronts was there, or one of them filled it,
\* and none of them pivoted its row or its column.
Unpivoted(s, e) == \A k \in Fronts : k <= s => e[1] \notin record[k].pivotRows /\ e[2] \notin record[k].pivotCols
Comes(s, e) == e \in lu.entries \/ \E k \in Fronts : k <= s /\ e \in FillRows(k) \X FillCols(k)
Known(s) == \A e \in Remaining[s] : Comes(s, e) /\ Unpivoted(s, e)

LEMMA Eliminated ==
  ASSUME Len(lu.cols) \in Nat, Fronts = 1..Len(lu.cols), NEW s \in Fronts, Known(s - 1)
  PROVE  Known(s)
<1> DEFINE before == Remaining[s - 1]
<1>1. s \in 1..Len(lu.cols) /\ s - 1 \in Int /\ s \in Int /\ \A k \in Fronts : k \in Int  OBVIOUS
<1>2. Remaining[s] = {e \in before : e[1] \notin record[s].pivotRows /\ e[2] \notin record[s].pivotCols}
                       \cup (FillRows(s) \X FillCols(s))
  BY <1>1, RemainingIs DEF Fill, FillRows, FillCols
<1>3. \A g \in FillRows(s) : g \notin record[s].pivotRows /\ \E x \in before : x[1] = g
  BY DEF Fill, FillRows
<1>4. \A h \in FillCols(s) : h \notin record[s].pivotCols /\ \E x \in before : x[2] = h
  BY DEF Fill, FillCols
<1> SUFFICES ASSUME NEW e \in Remaining[s] PROVE Comes(s, e) /\ Unpivoted(s, e)
  BY DEF Known
<1>5. \A k \in Fronts : k <= s <=> k <= s - 1 \/ k = s  BY <1>1
<1>6. CASE e \in before /\ e[1] \notin record[s].pivotRows /\ e[2] \notin record[s].pivotCols
  <2>1. Comes(s - 1, e) /\ Unpivoted(s - 1, e)  BY <1>6 DEF Known
  <2>2. Comes(s, e)  BY <1>5, <2>1 DEF Comes
  <2>3. Unpivoted(s, e)  BY <1>5, <1>6, <2>1 DEF Unpivoted
  <2> QED BY <2>2, <2>3
<1>7. CASE e \in FillRows(s) \X FillCols(s)
  <2>1. e[1] \in FillRows(s) /\ e[2] \in FillCols(s)  BY <1>7
  <2>2. PICK x \in before : x[1] = e[1]  BY <1>3, <2>1
  <2>3. PICK y \in before : y[2] = e[2]  BY <1>4, <2>1
  <2>4. Unpivoted(s - 1, x) /\ Unpivoted(s - 1, y)  BY DEF Known
  <2>5. Unpivoted(s, e)  BY <1>3, <1>4, <1>5, <2>1, <2>2, <2>3, <2>4 DEF Unpivoted
  <2>6. Comes(s, e)  BY <1>5, <1>7 DEF Comes
  <2> QED BY <2>5, <2>6
<1> QED BY <1>2, <1>6, <1>7

LEMMA Origins ==
  ASSUME Factored, NEW s \in 0..Len(lu.cols)
  PROVE  Known(s)
<1>0. Len(lu.cols) \in Nat /\ Fronts = 1..Len(lu.cols)  BY FactoredFacts
<1> DEFINE Unknown == {t \in 0..Len(lu.cols) : ~Known(t)}
<1> SUFFICES ASSUME Unknown # {} PROVE FALSE
  OBVIOUS
<1>1. PICK m \in Unknown : \A t \in Unknown : m <= t
  <2>1. Unknown \in SUBSET Nat  BY <1>0
  <2> HIDE DEF Unknown
  <2> QED BY <2>1, LeastNumber
<1>2. m \in 0..Len(lu.cols) /\ ~Known(m)  OBVIOUS
<1>3. CASE m = 0
  <2>1. Remaining[0] = lu.entries  BY <1>0, RemainingIs
  <2>2. \A k \in Fronts : ~(k <= 0)  BY <1>0
  <2> QED BY <1>2, <1>3, <2>1, <2>2 DEF Known, Comes, Unpivoted
<1>4. CASE m # 0
  <2>1. m \in Fronts /\ m - 1 \in 0..Len(lu.cols) /\ ~(m <= m - 1)  BY <1>0, <1>2, <1>4
  <2>2. Known(m - 1)  BY <1>1, <2>1
  <2> QED BY <1>0, <1>2, <2>1, <2>2, Eliminated
<1> QED BY <1>3, <1>4

LEMMA FillFits ==
  ASSUME Factored, NEW f \in Fronts
  PROVE  FillRows(f) \subseteq OffL(f) /\ FillCols(f) \subseteq OffU(f)
<1>0. Len(lu.cols) \in Nat /\ Fronts = 1..Len(lu.cols)  BY FactoredFacts
<1> DEFINE Holds(t) == FillRows(t) \subseteq OffL(t) /\ FillCols(t) \subseteq OffU(t)
           Short == {t \in Fronts : ~Holds(t)}
<1> SUFFICES ASSUME Short # {} PROVE FALSE
  OBVIOUS
<1>1. PICK s \in Short : \A t \in Short : s <= t
  <2>1. Short \in SUBSET Nat  BY <1>0
  <2> HIDE DEF Short
  <2> QED BY <2>1, LeastNumber
<1>2. s \in Fronts /\ ~Holds(s) /\ \A k \in Fronts : k <= s - 1 => Holds(k)
  <2>1. s \in Int /\ \A k \in Fronts : k \in Int  BY <1>0
  <2>2. \A k \in Fronts : k <= s - 1 => ~(s <= k)  BY <2>1
  <2> QED BY <1>1, <2>2
<1>3. s - 1 \in 0..Len(lu.cols)  BY <1>0, <1>2
<1>4. Known(s - 1)  BY <1>3, Origins
<1>5. ASSUME NEW e \in Remaining[s - 1] PROVE e = <<e[1], e[2]>> /\ \E t \in Fronts : InFront(t, <<e[1], e[2]>>)
  <2>1. Comes(s - 1, e)  BY <1>4 DEF Known
  <2>2. CASE e \in lu.entries  BY <2>2, EntryLands
  <2>3. ASSUME NEW k \in Fronts, k <= s - 1, e \in FillRows(k) \X FillCols(k)
        PROVE  e = <<e[1], e[2]>> /\ \E t \in Fronts : InFront(t, <<e[1], e[2]>>)
    <3>1. e = <<e[1], e[2]>> /\ e[1] \in FillRows(k) /\ e[2] \in FillCols(k)  BY <2>3
    <3>2. e[1] \in OffL(k) /\ e[2] \in OffU(k)  BY <1>2, <2>3, <3>1
    <3> QED BY <3>1, <3>2, FillLands
  <2> QED BY <2>1, <2>2, <2>3 DEF Comes
<1>6. \A k \in Fronts : k <= s <=> k <= s - 1 \/ k = s  BY <1>0, <1>2
<1>7. ASSUME NEW g \in FillRows(s) PROVE g \in OffL(s)
  <2>1. PICK x \in Remaining[s - 1] : x[2] \in record[s].pivotCols /\ x[1] = g  BY DEF FillRows, Fill
  <2>2. g \notin record[s].pivotRows  BY DEF FillRows, Fill
  <2>3. Unpivoted(s - 1, x)  BY <1>4 DEF Known
  <2>4. \A k \in Fronts : k <= s => g \notin record[k].pivotRows  BY <1>6, <2>1, <2>2, <2>3 DEF Unpivoted
  <2>5. PICK t \in Fronts : InFront(t, <<g, x[2]>>)  BY <1>5, <2>1
  <2> QED BY <1>2, <2>1, <2>4, <2>5, PairFits
<1>8. ASSUME NEW h \in FillCols(s) PROVE h \in OffU(s)
  <2>1. PICK x \in Remaining[s - 1] : x[1] \in record[s].pivotRows /\ x[2] = h  BY DEF FillCols, Fill
  <2>2. h \notin record[s].pivotCols  BY DEF FillCols, Fill
  <2>3. Unpivoted(s - 1, x)  BY <1>4 DEF Known
  <2>4. \A k \in Fronts : k <= s => h \notin record[k].pivotCols  BY <1>6, <2>1, <2>2, <2>3 DEF Unpivoted
  <2>5. PICK t \in Fronts : InFront(t, <<x[1], h>>)  BY <1>5, <2>1
  <2> QED BY <1>2, <2>1, <2>4, <2>5, PairFits
<1> QED BY <1>2, <1>7, <1>8

LEMMA AllFits == LuInv => PanelsHoldTheFill
<1> SUFFICES ASSUME LuInv, DOMAIN record = Fronts
             PROVE  /\ \A g \in UNION Range(lu.cols) :
                         /\ Cardinality({s \in Fronts : g \in record[s].pivotRows}) = 1
                         /\ Cardinality({s \in Fronts : g \in record[s].pivotCols}) = 1
                    /\ \A s \in Fronts :
                         LET fill == Fill(Remaining[s - 1], s) IN
                         fill.rows \subseteq OffL(s) /\ fill.cols \subseteq OffU(s)
  BY DEF PanelsHoldTheFill
<1>1. Factored  BY DEF Factored
<1>2. ASSUME NEW g \in AllColumns
      PROVE  /\ Cardinality({s \in Fronts : g \in record[s].pivotRows}) = 1
             /\ Cardinality({s \in Fronts : g \in record[s].pivotCols}) = 1
  <2>1. PICK s \in Fronts : g \in record[s].pivotRows  BY <1>1, PivotedByOne
  <2>2. {t \in Fronts : g \in record[t].pivotRows} = {s}  BY <1>1, <2>1, PivotedByOne
  <2>3. PICK t \in Fronts : g \in record[t].pivotCols  BY <1>1, PivotedByOne
  <2>4. {x \in Fronts : g \in record[x].pivotCols} = {t}  BY <1>1, <2>3, PivotedByOne
  <2> QED BY <2>2, <2>4, FS_Singleton
<1>3. \A s \in Fronts : FillRows(s) \subseteq OffL(s) /\ FillCols(s) \subseteq OffU(s)  BY <1>1, FillFits
<1> QED BY <1>2, <1>3 DEF AllColumns, FillRows, FillCols

\* Delayed pivots never leave the structure the schedule was made for: what
\* updaters and children bring a front lies in it, and once all are factored
\* every row and column was pivoted once, and the panels have a place for all
\* that elimination fills, whichever pivots were delayed where.
THEOREM FrontsClosed == FrontSpec => []FrontsAreClosed
<1>1. LuInv => FrontsAreClosed  BY AllLands, AllFits DEF FrontsAreClosed
<1> QED BY <1>1, FrontStart, FrontStep, PTL DEF FrontSpec
====

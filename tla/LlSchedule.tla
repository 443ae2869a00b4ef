------------------------------ MODULE LlSchedule ------------------------------
(***************************************************************************)
(* The left-looking schedule (LlSchedule::build and forest of              *)
(* src/src/numeric/supernodal/schedule.rs): the rows of every supernode    *)
(* bottom-up, then the updater lists from the rows, then the parents and   *)
(* leaves of the assembly forest.                                          *)
(*                                                                         *)
(* Columns and supernodes count from 1.  A supernode's below-diagonal rows *)
(* are a sorted list without duplicates in the code, a set walked in       *)
(* ascending order here; the counting pass that sizes the flat updater     *)
(* lists is left out.                                                      *)
(***************************************************************************)
EXTENDS AssemblyForest, Sequences, SequencesExt, FiniteSets, FiniteSetsExt

CONSTANT Analyses  \* the analyses to schedule

Columns(a, s) == a.supernodes[s].first..(a.supernodes[s].first + a.supernodes[s].ncol - 1)
Kids(a, s) == {a.supernodes[s].children[i] : i \in DOMAIN a.supernodes[s].children}

(***************************************************************************)
(* What the symbolic analysis guarantees (SymbolicAnalysis checks it):     *)
(* consecutive columns, children before their one parent, each listed      *)
(* once, and a factor structure `left', not kept by the code: the rows     *)
(* that a supernode's columns have in the pattern or its children leave    *)
(* beyond it, as many as it is sized for, and none at a root.  cols is the *)
(* pattern as it is ordered, column by column.                             *)
(***************************************************************************)
IsAnalysis(a) ==
  LET Supernode == 1..a.nsuper
      Left(s) == a.left[s]
  IN
  /\ a.n \in Nat /\ a.nsuper \in Nat
  /\ a.supernodes \in [Supernode -> [first : Nat, ncol : Nat \ {0}, nrow : Nat, children : Seq(Supernode)]]
  /\ a.cols \in [1..a.n -> SUBSET (1..a.n)]
  /\ a.left \in [Supernode -> SUBSET (1..a.n)]
  /\ \A s \in Supernode : Columns(a, s) \subseteq 1..a.n
  /\ \A c \in 1..a.n : \E s \in Supernode : c \in Columns(a, s)
  /\ \A s, t \in Supernode : s < t => \A c \in Columns(a, s), d \in Columns(a, t) : c < d
  /\ \A p \in Supernode : \A c \in Kids(a, p) : c < p
  /\ \A p, q \in Supernode : p # q => Kids(a, p) \cap Kids(a, q) = {}
  /\ \A p \in Supernode : IsInjective(a.supernodes[p].children)
  /\ \A s \in Supernode : \A c \in Columns(a, s) : \A r \in a.cols[c] :
       r \in Left(s) \/ \E d \in Columns(a, s) : r <= d
  /\ \A s \in Supernode : \A r \in Left(s) : \A c \in Columns(a, s) : c < r
  /\ \A p \in Supernode : \A c \in Kids(a, p) : Left(c) \subseteq Columns(a, p) \cup Left(p)
  /\ \A s \in Supernode : (\A p \in Supernode : s \notin Kids(a, p)) => Left(s) = {}
  /\ \A s \in Supernode : \A r \in Left(s) :
       (\E c \in Columns(a, s) : r \in a.cols[c]) \/ \E c \in Kids(a, s) : r \in Left(c)
  /\ \A s \in Supernode : a.supernodes[s].nrow = a.supernodes[s].ncol + Cardinality(Left(s))

ASSUME AnalysesHold == \A a \in Analyses : IsAnalysis(a)

-----------------------------------------------------------------------------
VARIABLES
  sym,       \* the analysis
  phase,     \* "rows", "hits", "forest" or "done"
  rows,      \* the below-diagonal rows of the supernodes so far
  at,        \* the supernode whose rows are walked; the roots found so far
  rest,      \* its rows still to walk
  last,      \* the supernode the last row walked lies in
  updaters,  \* the updater lists
  stack, parent, leaves  \* forest

scheduleVars == <<sym, phase, rows, at, rest, last, updaters, stack, parent, leaves>>

Supernode == 1..sym.nsuper

ScheduleInit ==
  /\ sym \in Analyses
  /\ phase = "rows" /\ rows = <<>>
  /\ at = 0 /\ rest = {} /\ last = NONE /\ updaters = [s \in Supernode |-> <<>>]
  /\ stack = <<>> /\ parent = [s \in Supernode |-> NONE] /\ leaves = <<>>

\* `r >= own_last'.
Beyond(s, R) == {r \in R : \A c \in Columns(sym, s) : c < r}

OfColumns(s) == Beyond(s, UNION {sym.cols[c] : c \in Columns(sym, s)})
Trailing(s) == OfColumns(s) \cup Beyond(s, UNION {rows[c] : c \in Kids(sym, s)})

BuildRows ==
  /\ phase = "rows" /\ Len(rows) < sym.nsuper
  /\ rows' = Append(rows, Trailing(Len(rows) + 1))
  /\ UNCHANGED <<sym, phase, at, rest, last, updaters, stack, parent, leaves>>

StartHits ==
  /\ phase = "rows" /\ Len(rows) = sym.nsuper
  /\ phase' = "hits"
  /\ UNCHANGED <<sym, rows, at, rest, last, updaters, stack, parent, leaves>>

-----------------------------------------------------------------------------
(***************************************************************************)
(* each_hit: the rows of supernode `at', ascending; every supernode they   *)
(* enter gets `at' as an updater.                                          *)
(***************************************************************************)
KeptLast == last
ResetLast == NONE

NextUpdater ==
  /\ phase = "hits" /\ rest = {} /\ at < sym.nsuper
  /\ at' = at + 1
  /\ rest' = rows[at + 1]
  /\ last' = ResetLast
  /\ UNCHANGED <<sym, phase, rows, updaters, stack, parent, leaves>>

SnodeOf(r) == CHOOSE s \in Supernode : r \in Columns(sym, s)

Enters(s) == s # last

Hit ==
  /\ phase = "hits" /\ rest # {}
  /\ LET r == Min(rest)
         s == SnodeOf(r)
     IN /\ rest' = rest \ {r}
        /\ last' = s
        /\ updaters' = IF Enters(s) THEN [updaters EXCEPT ![s] = Append(@, at)] ELSE updaters
  /\ UNCHANGED <<sym, phase, rows, at, stack, parent, leaves>>

StartForest ==
  /\ phase = "hits" /\ rest = {} /\ at = sym.nsuper
  /\ phase' = "forest" /\ at' = 0
  /\ UNCHANGED <<sym, rows, rest, last, updaters, stack, parent, leaves>>

-----------------------------------------------------------------------------
(***************************************************************************)
(* forest: the roots, ascending, are the first stack.                      *)
(***************************************************************************)
IsChild(s) == \E p \in Supernode : s \in Kids(sym, p)

FindRoots ==
  /\ phase = "forest" /\ at < sym.nsuper
  /\ at' = at + 1
  /\ stack' = IF IsChild(at + 1) THEN stack ELSE Append(stack, at + 1)
  /\ UNCHANGED <<sym, phase, rows, rest, last, updaters, parent, leaves>>

Adopt(s) == [c \in Supernode |-> IF c \in Kids(sym, s) THEN s ELSE parent[c]]

Visit ==
  /\ phase = "forest" /\ at = sym.nsuper /\ stack # <<>>
  /\ LET s == stack[Len(stack)] IN
       /\ leaves' = IF sym.supernodes[s].children = <<>> THEN Append(leaves, s) ELSE leaves
       /\ parent' = Adopt(s)
       /\ stack' = SubSeq(stack, 1, Len(stack) - 1) \o sym.supernodes[s].children
  /\ UNCHANGED <<sym, phase, rows, at, rest, last, updaters>>

Finish ==
  /\ phase = "forest" /\ at = sym.nsuper /\ stack = <<>>
  /\ phase' = "done"
  /\ UNCHANGED <<sym, rows, at, rest, last, updaters, stack, parent, leaves>>

ScheduleNext ==
  \/ BuildRows \/ StartHits \/ NextUpdater \/ Hit
  \/ StartForest \/ FindRoots \/ Visit \/ Finish

ScheduleSpec == ScheduleInit /\ [][ScheduleNext]_scheduleVars

-----------------------------------------------------------------------------
(***************************************************************************)
(* The rows built from the pattern and the children's rows are the rows    *)
(* the factor has, as many as the analysis sized the supernode for (the    *)
(* panel's allocation and the scatter of updates index by them).           *)
(***************************************************************************)
RowsAreTheFactors ==
  \A s \in 1..Len(rows) :
    /\ rows[s] = sym.left[s]
    /\ sym.supernodes[s].nrow = sym.supernodes[s].ncol + Cardinality(rows[s])

(***************************************************************************)
(* "every factored k whose off-diagonal rows hit s's column run (each      *)
(* exactly once, ascending)".                                              *)
(***************************************************************************)
UpdatersAscend ==
  \A s \in Supernode : \A i, j \in DOMAIN updaters[s] : i < j => updaters[s][i] < updaters[s][j]

UpdatersAreTheHits ==
  phase \in {"forest", "done"} =>
    \A s \in Supernode : Range(updaters[s]) = {k \in Supernode : rows[k] \cap Columns(sym, s) # {}}

(***************************************************************************)
(* The leaves: every childless supernode once (the driver starts each of   *)
(* them), the leaves below a supernode next to one another ("depth first   *)
(* from the roots").                                                       *)
(***************************************************************************)
\* s, its children, theirs, and so on.
Closed(a, set) == \A p \in set : Kids(a, p) \subseteq set
Below(a, s) ==
  {d \in 1..a.nsuper : \A set \in SUBSET (1..a.nsuper) : s \in set /\ Closed(a, set) => d \in set}

LeavesBelow(s) == {i \in DOMAIN leaves : leaves[i] \in Below(sym, s)}

LeavesDepthFirst ==
  phase = "done" =>
    /\ Range(leaves) = {s \in Supernode : Kids(sym, s) = {}}
    /\ IsInjective(leaves)
    /\ \A s \in Supernode : \A i, j \in LeavesBelow(s) : i..j \subseteq LeavesBelow(s)

(***************************************************************************)
(* The finished schedule is one the forest driver can run: what            *)
(* ForestSchedule assumes.                                                 *)
(***************************************************************************)
UpdaterSets == [s \in Supernode |-> Range(updaters[s])]

FitsForest == phase = "done" => IsSchedule(sym.nsuper, parent, UpdaterSets)

\* The lists are the reads there are, each once, and fit the forest scheduler.
ScheduleIsSound == UpdatersAscend /\ UpdatersAreTheHits /\ FitsForest

\* The structure the lists are made from and the order the leaves start in.
RowsAndLeaves == RowsAreTheFactors /\ LeavesDepthFirst
=============================================================================

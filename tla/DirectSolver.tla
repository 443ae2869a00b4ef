----------------------------- MODULE DirectSolver -----------------------------
(***************************************************************************)
(* The life of an LU or LDLT solver object (lu/solver.rs, ldlt/solver.rs   *)
(* and direct.rs of src/src/numeric): factored once over an analysis, then *)
(* again and again in place, with solves in between that share a pool of   *)
(* works.  An LDLT solver has one solve plan, an LU solver two, refilled   *)
(* one after the other; the plan here is either.                           *)
(*                                                                         *)
(* What the numeric work makes of a value set is given: whether it factors *)
(* (RegularSets), and the rows pivoting leaves the factor with (RowsOf).   *)
(***************************************************************************)
EXTENDS Integers, FiniteSets

CONSTANTS
  ValueSets,
  RegularSets,    \* those that factor
  RowsOf,         \* the supernodes and rows of their factors
  Callers,        \* the threads that solve
  NOTHING

ASSUME DirectAssumption ==
  /\ IsFiniteSet(Callers)
  /\ RegularSets \subseteq ValueSets /\ NOTHING \notin ValueSets

VARIABLES
  object,     \* [factored, pivots, panels, reciprocals, schedule]; NOTHING: none yet
  latest,     \* history: the value set the object was last factored for
  calls,      \* what each caller is at, and the work it holds
  works,      \* the pool
  worksMade   \* the works made so far
directVars == <<object, latest, calls, works, worksMade>>

Idle == [at |-> "idle", work |-> 0, used |-> NOTHING]
With(w) == [at |-> "solve", work |-> w, used |-> NOTHING]

DirectInit ==
  /\ object = NOTHING /\ latest = NOTHING
  /\ calls = [c \in Callers |-> Idle]
  /\ works = {} /\ worksMade = 0

\* `&mut self': nobody solves meanwhile.
Exclusive == \A c \in Callers : calls[c].at = "idle"

\* SolvePlan::from_panels and the pivots, scaling and counters next to it.
FromPanelsOf(v) ==
  [factored |-> TRUE, pivots |-> v, panels |-> v, reciprocals |-> v, schedule |-> RowsOf[v]]

\* LuSymbolic::factor, LdltSymbolic::factor: an object of its own, none on error.
Factor(v) ==
  /\ Exclusive
  /\ object' = IF v \in RegularSets THEN FromPanelsOf(v) ELSE NOTHING
  /\ latest' = IF v \in RegularSets THEN v ELSE NOTHING
  /\ works' = {} /\ worksMade' = 0
  /\ UNCHANGED calls

\* refactor: the object refuses, its panels go to the numeric work; on success
\* refill keeps the schedule where the rows are the same.
Taken(o) == [o EXCEPT !.factored = FALSE, !.panels = NOTHING]
\* (slip) The schedule is kept whatever the rows.
AlwaysSame(o, v) == TRUE
SameRows(o, v) == o.schedule = RowsOf[v]
Refilled(o, v) ==
  IF SameRows(o, v)
    THEN [o EXCEPT !.factored = TRUE, !.pivots = v, !.panels = v, !.reciprocals = v]
    ELSE FromPanelsOf(v)
RefactorInPlace(v) ==
  /\ Exclusive /\ object # NOTHING
  /\ object' = IF v \in RegularSets THEN Refilled(Taken(object), v) ELSE Taken(object)
  /\ latest' = IF v \in RegularSets THEN v ELSE NOTHING
  /\ UNCHANGED <<calls, works, worksMade>>

\* #[derive(Clone)]: the factor, and a pool of its own.
CloneObject ==
  /\ Exclusive /\ object # NOTHING
  /\ works' = {} /\ worksMade' = 0
  /\ UNCHANGED <<object, latest, calls>>

-----------------------------------------------------------------------------
\* (slip) The work stays in the pool.
Shared(w) == works
\* WorkPool::with: a work of the pool, popped, or a fresh one.
Popped(w) == works \ {w}
TakeWork(c) ==
  /\ object # NOTHING /\ calls[c].at = "idle"
  /\ IF works = {}
       THEN /\ worksMade' = worksMade + 1 /\ works' = works
            /\ calls' = [calls EXCEPT ![c] = With(worksMade + 1)]
       ELSE \E w \in works :
            /\ works' = Popped(w) /\ worksMade' = worksMade
            /\ calls' = [calls EXCEPT ![c] = With(w)]
  /\ UNCHANGED <<object, latest>>

\* solve_raw_into, log_det_raw: refused without a factor; else the pivots'
\* permutations and scalings around the sweeps over the panels, the diagonal by
\* its reciprocals, in the order of the schedule.
Uses(o) == [pivots |-> o.pivots, panels |-> o.panels, reciprocals |-> o.reciprocals, schedule |-> o.schedule]
SolveRaw(c) ==
  /\ calls[c].at = "solve"
  /\ calls' = [calls EXCEPT ![c].at = "return", ![c].used = IF object.factored THEN Uses(object) ELSE NOTHING]
  /\ UNCHANGED <<object, latest, works, worksMade>>

\* The work goes back, whatever came of the solve.
GiveBack(c) ==
  /\ calls[c].at = "return"
  /\ works' = works \cup {calls[c].work}
  /\ calls' = [calls EXCEPT ![c] = Idle]
  /\ UNCHANGED <<object, latest, worksMade>>

DirectNext ==
  \/ \E v \in ValueSets : Factor(v) \/ RefactorInPlace(v)
  \/ CloneObject
  \/ \E c \in Callers : TakeWork(c) \/ SolveRaw(c) \/ GiveBack(c)
DirectSpec == DirectInit /\ [][DirectNext]_directVars

-----------------------------------------------------------------------------
\* A solve that is not refused uses the pivots, the panels, the reciprocals and
\* a schedule of one and the same value set, the one factored last; after a
\* refactorization that failed every solve is refused ("refuses to solve until a
\* refactorization succeeds"), however many come in between.
SolvesUseTheLatest ==
  \A c \in Callers : calls[c].at = "return" =>
    calls[c].used =
      IF latest = NOTHING THEN NOTHING
      ELSE [pivots |-> latest, panels |-> latest, reciprocals |-> latest, schedule |-> RowsOf[latest]]

\* Two solves at once never share a work, none is in the pool while it is in
\* use, and there are never more than calls at once.
WorksAreExclusive ==
  /\ \A c, d \in Callers : c # d /\ calls[c].work # 0 => calls[c].work # calls[d].work
  /\ \A c \in Callers : calls[c].work \notin works
  /\ worksMade <= Cardinality(Callers)

ObjectIsConsistent == SolvesUseTheLatest /\ WorksAreExclusive
===============================================================================

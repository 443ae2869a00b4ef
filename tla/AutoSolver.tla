----------------------------- MODULE AutoSolver -----------------------------
(***************************************************************************)
(* The automatic path (src/numeric/auto.rs): solvers over one shared       *)
(* analysis, each factoring one value set after another by the path the    *)
(* analysis chose, in place of what it factored before.  The analysis      *)
(* reads values, so it is made once, by the first solver to need it or     *)
(* ahead of them all.  Solvers run on threads of their own and meet only   *)
(* in the two cells of the shared analysis.                                *)
(*                                                                         *)
(* What the numeric work makes of a value set is given by constants.  A    *)
(* NaN, which makes a value set unequal to itself, is left out: it only    *)
(* has a factor made again.                                                *)
(***************************************************************************)
EXTENDS Naturals

CONSTANTS
  Solvers,      \* the solvers there may be
  Values,       \* the value sets of the pattern
  Zeros,        \* the one a new solver holds
  Reference,    \* analyzed on it ahead (AutoSymbolic::analyze); or NONE (::new)
  RouteOf,      \* the path the analysis of a value set chooses
  Analyzable,   \* the value sets an analysis succeeds on
  Regular,      \* those that factor afresh, by KLU or by LU
  Symmetric,    \* those LDLT is tried on
  Definite,     \* those of them LDLT factors
  Replayable,   \* <<o, v>>: the pivot order of a fresh factor of o replays on v
  NONE

Paths == {"klu", "supernodal"}

ASSUME AutoAssumption ==
  /\ Zeros \in Values
  /\ Reference \in Analyzable \cup {NONE}
  /\ RouteOf \in [Values -> Paths]
  /\ Analyzable \subseteq Values /\ Regular \subseteq Values
  /\ Replayable \subseteq Values \X Values
  /\ \A v \in Regular : <<v, v>> \in Replayable
  /\ NONE \notin Values

\* A factor of the value set `of' (NONE: the last refactor of it failed, and
\* left it unfit to solve with).  A KLU factor's pivot order is the one
\* pivoting found on the value set `order'.
Orders == [analysis : Values, order : Values, of : Values \cup {NONE}]
LdltFactors == [of : Values \cup {NONE}]
LuFactors == [analysis : Values, of : Values \cup {NONE}]
Backends == {"klu", "ldlt", "lu"}
Routes == [path : Paths, from : Values]
Origins == [klu : Values \cup {NONE}, lu : Values \cup {NONE}]

\* NONE is none of what an Option may hold.
ASSUME NoneAssumption ==
  NONE \notin Orders \cup LdltFactors \cup LuFactors \cup Backends \cup Routes \cup Origins

VARIABLES
  route,   \* AutoSymbolic.route: the path chosen, and on which value set
  luCell,  \* Route::Supernodal.lu: the value set its analysis was made on
  solver,  \* the fields of each AutoSolver
  at,      \* where each solver is
  made,    \* the value set of an analysis made and not yet shared
  up,      \* whether the interrupt flag is up during the call
  origin   \* history: what a fork was forked from

vars == <<route, luCell, solver, at, made, up, origin>>

Fields ==
  [loaded : Values, klu : Orders \cup {NONE}, ldlt : LdltFactors \cup {NONE},
   lu : LuFactors \cup {NONE}, active : Backends \cup {NONE}, prev : Values \cup {NONE},
   pinned : BOOLEAN, own : Orders \cup {NONE}]

\* AutoSolver::over
New == [loaded |-> Zeros, klu |-> NONE, ldlt |-> NONE, lu |-> NONE, active |-> NONE,
        prev |-> NONE, pinned |-> FALSE, own |-> NONE]

RouteFrom(v) == [path |-> RouteOf[v], from |-> v]

\* AutoSymbolic::analyze makes the LU analysis with the route; new neither.
Ahead == IF Reference # NONE /\ RouteOf[Reference] = "supernodal" THEN Reference ELSE NONE

Init ==
  /\ route = IF Reference = NONE THEN NONE ELSE RouteFrom(Reference)
  /\ luCell = Ahead
  /\ solver = [s \in Solvers |-> New]
  /\ at = [s \in Solvers |-> "absent"]
  /\ made = [s \in Solvers |-> NONE]
  /\ up = [s \in Solvers |-> FALSE]
  /\ origin = [s \in Solvers |-> NONE]

Go(s, place) == at' = [at EXCEPT ![s] = place]
Set(s, fields) == solver' = [solver EXCEPT ![s] = fields]

-----------------------------------------------------------------------------
Create(s) ==
  /\ at[s] = "absent" /\ Go(s, "idle")
  /\ UNCHANGED <<route, luCell, solver, made, up, origin>>

\* What a fork's factors may depend on beside the value set.
OriginOf(s) ==
  IF solver[s].pinned /\ origin[s] # NONE
    THEN [origin[s] EXCEPT !.lu = luCell]
    ELSE IF solver[s].active = NONE THEN NONE
    ELSE [klu |-> IF solver[s].klu = NONE THEN NONE ELSE solver[s].klu.order, lu |-> luCell]

\* fork(): a copy that keeps the pivot order.  Where the factor in use is the
\* solver's own, the order's factor is not of the last value set.
KeepsActive(f) == [f EXCEPT !.pinned = TRUE, !.own = NONE]
Forked(f) ==
  IF f.own = NONE
    THEN [f EXCEPT !.pinned = TRUE]
    ELSE [f EXCEPT !.pinned = TRUE, !.own = NONE, !.active = NONE, !.prev = NONE]
Fork(s, t) ==
  /\ at[s] = "idle" /\ at[t] = "absent" /\ Go(t, "idle")
  /\ Set(t, Forked(solver[s]))
  /\ origin' = [origin EXCEPT ![t] = OriginOf(s)]
  /\ UNCHANGED <<route, luCell, made, up>>

\* #[derive(Clone)]
Clone(s, t) ==
  /\ at[s] = "idle" /\ at[t] = "absent" /\ Go(t, "idle")
  /\ Set(t, solver[s])
  /\ origin' = [origin EXCEPT ![t] = origin[s]]
  /\ UNCHANGED <<route, luCell, made, up>>

Drop(s) ==
  /\ at[s] = "idle" /\ Go(s, "absent")
  /\ Set(s, New)
  /\ origin' = [origin EXCEPT ![s] = NONE]
  /\ UNCHANGED <<route, luCell, made, up>>

\* values_mut, assemble, assemble_scaled
Load(s, v) ==
  /\ at[s] = "idle" /\ v # solver[s].loaded
  /\ Set(s, [solver[s] EXCEPT !.loaded = v])
  /\ UNCHANGED <<route, luCell, at, made, up, origin>>

\* refactor(): the value set factored last keeps its factor; for any other,
\* no factor is held until one is made.
Keeps(f) == f.active # NONE /\ f.prev = f.loaded
Released(f) == [f EXCEPT !.active = NONE, !.prev = NONE]
Refactor(s, flag) ==
  /\ at[s] = "idle" /\ ~Keeps(solver[s]) /\ Go(s, "route")
  /\ Set(s, Released(solver[s]))
  /\ up' = [up EXCEPT ![s] = flag]
  /\ UNCHANGED <<route, luCell, made, origin>>

Finished(f, b) == [f EXCEPT !.active = b, !.prev = f.loaded]
Finish(s, f, b) == Set(s, Finished(f, b)) /\ Go(s, "idle")
Fail(s, f) == Set(s, f) /\ Go(s, "idle")

\* The route, read, or analyzed on the values at hand and offered to the cell.
ReadRoute(s) ==
  /\ at[s] = "route"
  /\ \/ route # NONE /\ Go(s, "factor") /\ made' = made
     \/ /\ route = NONE /\ solver[s].loaded \in Analyzable
        /\ Go(s, "setroute") /\ made' = [made EXCEPT ![s] = solver[s].loaded]
     \/ /\ route = NONE /\ solver[s].loaded \notin Analyzable
        /\ Go(s, "idle") /\ made' = made
  /\ UNCHANGED <<route, luCell, solver, up, origin>>

\* OnceLock::get_or_init: the first to come sets the cell for all.
GetOrInit(cell, value) == IF cell = NONE THEN value ELSE cell
SetRoute(s) ==
  /\ at[s] = "setroute" /\ Go(s, "factor")
  /\ route' = GetOrInit(route, RouteFrom(made[s]))
  /\ made' = [made EXCEPT ![s] = NONE]
  /\ UNCHANGED <<luCell, solver, up, origin>>

-----------------------------------------------------------------------------
\* The KLU path.
OnKlu(s) == at[s] = "factor" /\ route.path = "klu"
Replays(s) ==
  LET f == solver[s] IN
  f.klu # NONE /\ ~up[s] /\ <<f.klu.order, f.loaded>> \in Replayable
FactorsAfresh(s) == ~up[s] /\ solver[s].loaded \in Regular
FreshKlu(v) == [analysis |-> route.from, order |-> v, of |-> v]

\* The order replays on the values.
Replayed(f) == [f EXCEPT !.klu.of = f.loaded, !.own = NONE]
ReplayKlu(s) ==
  /\ OnKlu(s) /\ Replays(s)
  /\ Finish(s, Replayed(solver[s]), "klu")
  /\ UNCHANGED <<route, luCell, made, up, origin>>

\* A fork keeps its order and factors this value set beside it.
HoldsNoOrder(f) == FALSE
HoldsOrder(f) == f.klu # NONE /\ f.pinned
WithFresh(f, fresh) ==
  IF HoldsOrder(f)
    THEN [f EXCEPT !.klu.of = NONE, !.own = fresh]
    ELSE [f EXCEPT !.klu = fresh]
FactorKlu(s) ==
  /\ OnKlu(s) /\ ~Replays(s) /\ FactorsAfresh(s)
  /\ Finish(s, WithFresh(solver[s], FreshKlu(solver[s].loaded)), "klu")
  /\ UNCHANGED <<route, luCell, made, up, origin>>
FailKlu(s) ==
  /\ OnKlu(s) /\ ~Replays(s) /\ ~FactorsAfresh(s)
  /\ Fail(s, WithFresh(solver[s], NONE))
  /\ UNCHANGED <<route, luCell, made, up, origin>>

-----------------------------------------------------------------------------
\* The supernodal paths.  in_place: a refactor that fails leaves the factor
\* in its slot, unfit; a fresh factorization that fails leaves the slot empty.
OnSupernodal(s) == at[s] = "factor" /\ route.path = "supernodal"
Unfit(slot) == IF slot = NONE THEN NONE ELSE [slot EXCEPT !.of = NONE]
FactorsLdlt(s) == ~up[s] /\ solver[s].loaded \in Symmetric \cap Definite

FactorLdlt(s) ==
  /\ OnSupernodal(s) /\ FactorsLdlt(s)
  /\ Finish(s, [solver[s] EXCEPT !.ldlt = [of |-> solver[s].loaded]], "ldlt")
  /\ UNCHANGED <<route, luCell, made, up, origin>>
\* LDLT fails, or is not tried: the LU takes the values.
PassToLu(s) ==
  /\ OnSupernodal(s) /\ ~FactorsLdlt(s) /\ Go(s, "lu")
  /\ Set(s, [solver[s] EXCEPT
               !.ldlt = IF solver[s].loaded \in Symmetric THEN Unfit(@) ELSE @])
  /\ UNCHANGED <<route, luCell, made, up, origin>>

ReadLu(s) ==
  /\ at[s] = "lu"
  /\ \/ luCell # NONE /\ Go(s, "factorlu") /\ made' = made
     \/ /\ luCell = NONE /\ solver[s].loaded \in Analyzable
        /\ Go(s, "setlu") /\ made' = [made EXCEPT ![s] = solver[s].loaded]
     \/ /\ luCell = NONE /\ solver[s].loaded \notin Analyzable
        /\ Go(s, "idle") /\ made' = made
  /\ UNCHANGED <<route, luCell, solver, up, origin>>
SetLu(s) ==
  /\ at[s] = "setlu" /\ Go(s, "factorlu")
  /\ luCell' = GetOrInit(luCell, made[s])
  /\ made' = [made EXCEPT ![s] = NONE]
  /\ UNCHANGED <<route, solver, up, origin>>

FactorLu(s) ==
  /\ at[s] = "factorlu" /\ FactorsAfresh(s)
  /\ Finish(s, [solver[s] EXCEPT !.lu = [analysis |-> luCell, of |-> solver[s].loaded]], "lu")
  /\ UNCHANGED <<route, luCell, made, up, origin>>
FailLu(s) ==
  /\ at[s] = "factorlu" /\ ~FactorsAfresh(s)
  /\ Fail(s, [solver[s] EXCEPT !.lu = Unfit(@)])
  /\ UNCHANGED <<route, luCell, made, up, origin>>

-----------------------------------------------------------------------------
Call(s) ==
  \/ ReadRoute(s) \/ SetRoute(s)
  \/ ReplayKlu(s) \/ FactorKlu(s) \/ FailKlu(s)
  \/ FactorLdlt(s) \/ PassToLu(s)
  \/ ReadLu(s) \/ SetLu(s) \/ FactorLu(s) \/ FailLu(s)

Next ==
  \E s \in Solvers :
    \/ Create(s) \/ Drop(s)
    \/ \E t \in Solvers : Fork(s, t) \/ Clone(s, t)
    \/ \E v \in Values : Load(s, v)
    \/ \E flag \in BOOLEAN : Refactor(s, flag)
    \/ Call(s)

Spec == Init /\ [][Next]_vars

-----------------------------------------------------------------------------
Places == {"absent", "idle", "route", "setroute", "factor", "lu", "setlu", "factorlu"}

\* Every variable has its type.
TypeOK ==
  /\ route \in Routes \cup {NONE}
  /\ luCell \in Values \cup {NONE}
  /\ solver \in [Solvers -> Fields]
  /\ at \in [Solvers -> Places]
  /\ made \in [Solvers -> Values \cup {NONE}]
  /\ up \in [Solvers -> BOOLEAN]
  /\ origin \in [Solvers -> Origins \cup {NONE}]

\* The factor the solves use.
Serving(f) ==
  IF f.active = "klu" THEN (IF f.own # NONE THEN f.own ELSE f.klu)
  ELSE IF f.active = "ldlt" THEN f.ldlt
  ELSE IF f.active = "lu" THEN f.lu
  ELSE NONE

\* The factor a solve uses is there, and is of the value set last factored
\* successfully: never one a failed refactor left behind, another path's, or
\* one of another value set; "after an error no factor is held".
ServesLastFactored ==
  \A s \in Solvers :
    LET f == solver[s] IN
    f.active # NONE => Serving(f) # NONE /\ Serving(f).of = f.prev /\ f.prev # NONE

\* Every factor a solver holds is over the shared analysis, whichever solver
\* made it and however many raced to: a refactor in place of a factor of
\* another analysis would read the wrong structure.
SharedAnalysis ==
  \A s \in Solvers :
    LET f == solver[s] IN
    /\ \A k \in {f.klu, f.own} \ {NONE} :
         route # NONE /\ route.path = "klu" /\ k.analysis = route.from
    /\ f.ldlt # NONE => route # NONE /\ route.path = "supernodal"
    /\ f.lu # NONE => f.lu.analysis = luCell

\* "what a fork makes of a value set depends on the value set and the origin
\* alone, never on what the fork factored before", on the KLU path: the
\* origin's order where it replays, a fresh factor's where it does not.
ForkReplaysItsOrigin ==
  \A s \in Solvers :
    LET f == solver[s] IN
    f.pinned /\ origin[s] # NONE /\ f.active = "klu" =>
      Serving(f).order =
        IF <<origin[s].klu, f.prev>> \in Replayable THEN origin[s].klu ELSE f.prev

\* The same on the LU path: its analysis is the one shared when the fork was
\* made, or else the one the value set itself makes.
ForkIgnoresItsPast ==
  \A s \in Solvers :
    LET f == solver[s] IN
    f.pinned /\ origin[s] # NONE /\ f.active = "lu" =>
      f.lu.analysis = IF origin[s].lu # NONE THEN origin[s].lu ELSE f.prev

\* Forks and clones work over the one analysis, and on the KLU path their
\* results are their origin's.
ForksAgree == ForkReplaysItsOrigin /\ SharedAnalysis
=============================================================================

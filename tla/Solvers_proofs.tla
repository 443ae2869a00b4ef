--------------------------- MODULE Solvers_proofs ---------------------------
(***************************************************************************)
(* The solver objects, for any number of solvers, threads and value sets.  *)
(*                                                                         *)
(* AutoSolver: whatever the outcome of the numeric work, a solve uses a    *)
(* factor of the value set last factored, every factor is over the shared  *)
(* analysis, and a fork replays the pivot order of its origin.             *)
(* DirectSolver: a solve reads one value set's factor, the latest, and     *)
(* works are never shared.                                                 *)
(* PythonHandles: what a Python thread reads off the interpreter lock stays *)
(* as it was, and a handle that answers is of one value set.               *)
(* Refinement: a certified iterate has the backward error it claims.       *)
(***************************************************************************)
EXTENDS AutoSolver, DirectSolver, Refinement, PythonHandles, FiniteSetTheorems, TLAPS

\* What the place of a solver says of its call and of the shared analysis.
CallInv(s) ==
  /\ at[s] = "absent" => solver[s] = New /\ origin[s] = NONE
  /\ at[s] \notin {"absent", "idle"} => solver[s].active = NONE
  /\ at[s] \in {"setroute", "setlu"} => made[s] # NONE
  /\ at[s] \in {"factor", "lu", "setlu", "factorlu"} => route # NONE
  /\ at[s] \in {"lu", "setlu", "factorlu"} => route.path = "supernodal"
  /\ at[s] = "factorlu" => luCell # NONE

\* The slots of a solver: of the shared analysis, the order in the KLU slot
\* one that replays on what it holds, and a factor of its own only beside it.
SlotInv(f) ==
  /\ f.klu # NONE =>
       /\ route # NONE /\ route.path = "klu" /\ f.klu.analysis = route.from
       /\ f.klu.of # NONE => <<f.klu.order, f.klu.of>> \in Replayable
  /\ f.own # NONE =>
       /\ route # NONE /\ route.path = "klu" /\ f.own.analysis = route.from
       /\ f.klu # NONE /\ f.pinned
  /\ f.ldlt # NONE => route # NONE /\ route.path = "supernodal"
  /\ f.lu # NONE => luCell # NONE /\ f.lu.analysis = luCell

\* The factor in use.
ActiveInv(f) ==
  f.active # NONE =>
    /\ route # NONE /\ (route.path = "klu" <=> f.active = "klu")
    /\ Serving(f) # NONE /\ Serving(f).of = f.prev /\ f.prev # NONE

\* A fork holds its origin's order, and serves what that order makes of a
\* value set.
ForkInv(f, o) ==
  f.pinned /\ o # NONE =>
    /\ route # NONE
    /\ route.path = "klu" => f.klu # NONE /\ f.klu.order = o.klu
    /\ f.own # NONE /\ f.active = "klu" =>
         f.own.order = f.prev /\ <<o.klu, f.prev>> \notin Replayable

SolverInv(s) ==
  CallInv(s) /\ SlotInv(solver[s]) /\ ActiveInv(solver[s]) /\ ForkInv(solver[s], origin[s])

IInv == TypeOK /\ \A s \in Solvers : SolverInv(s)

-----------------------------------------------------------------------------
\* Having no factor in use is not having the KLU factor in use.
LEMMA NoneIsNoBackend == NONE # "klu"
BY NoneAssumption DEF Backends

\* The shared analysis only ever goes from none to some: what a solver that
\* takes no part in a step holds stays sound.
LEMMA OthersKeep ==
  ASSUME NEW r \in Solvers, SolverInv(r),
         solver'[r] = solver[r], at'[r] = at[r], made'[r] = made[r], origin'[r] = origin[r],
         route' = route \/ route = NONE,
         luCell' = luCell \/ luCell = NONE
  PROVE  SolverInv(r)'
<1>1. CallInv(r)'  BY DEF SolverInv, CallInv
<1>2. SlotInv(solver[r])'  BY DEF SolverInv, SlotInv
<1>3. ActiveInv(solver[r])'  BY DEF SolverInv, ActiveInv, Serving
<1>4. ForkInv(solver[r], origin[r])'  BY DEF SolverInv, ForkInv
<1> QED  BY <1>1, <1>2, <1>3, <1>4 DEF SolverInv

\* Where every other solver is left alone, the one that acts remains.
LEMMA OneActs ==
  ASSUME IInv, NEW s \in Solvers, TypeOK',
         \A r \in Solvers \ {s} : /\ solver'[r] = solver[r] /\ at'[r] = at[r]
                                 /\ made'[r] = made[r] /\ origin'[r] = origin[r],
         route' = route \/ route = NONE,
         luCell' = luCell \/ luCell = NONE,
         SolverInv(s)'
  PROVE  IInv'
<1>1. ASSUME NEW r \in Solvers PROVE SolverInv(r)'
  <2>1. CASE r = s  BY <2>1
  <2>2. CASE r # s  BY <2>2, OthersKeep DEF IInv
  <2> QED  BY <2>1, <2>2
<1> QED  BY <1>1 DEF IInv

\* What fork() and the start of a refactorization leave of a solver's fields.
LEMMA ForkedFields ==
  ASSUME NEW f \in Fields
  PROVE  /\ Forked(f) \in Fields
         /\ Forked(f).klu = f.klu /\ Forked(f).ldlt = f.ldlt /\ Forked(f).lu = f.lu
         /\ Forked(f).own = NONE /\ Forked(f).pinned = TRUE
         /\ f.own = NONE => Forked(f).active = f.active /\ Forked(f).prev = f.prev
         /\ f.own # NONE => Forked(f).active = NONE
<1>1. CASE f.own = NONE  BY <1>1 DEF Forked, Fields
<1>2. CASE f.own # NONE  BY <1>2 DEF Forked, Fields
<1> QED  BY <1>1, <1>2

LEMMA ReleasedFields ==
  ASSUME NEW f \in Fields
  PROVE  /\ Released(f) \in Fields /\ Released(f).active = NONE
         /\ Released(f).klu = f.klu /\ Released(f).ldlt = f.ldlt /\ Released(f).lu = f.lu
         /\ Released(f).own = f.own /\ Released(f).pinned = f.pinned
         /\ Released(f).loaded = f.loaded
  BY DEF Released, Fields

\* The invariant holds in every initial state.
LEMMA InitHolds == Init => IInv
<1> SUFFICES ASSUME Init PROVE IInv  OBVIOUS
<1> USE AutoAssumption, NoneAssumption DEF Init
<1>1. New \in Fields  BY DEF New, Fields
<1>2. TypeOK
  <2>1. route \in Routes \cup {NONE} /\ luCell \in Values \cup {NONE}
    BY DEF Routes, RouteFrom, Ahead
  <2> QED  BY <1>1, <2>1 DEF TypeOK, Places
<1>3. ASSUME NEW s \in Solvers PROVE SolverInv(s)
  BY DEF SolverInv, CallInv, SlotInv, ActiveInv, ForkInv, New
<1> QED  BY <1>2, <1>3 DEF IInv

\* Every step keeps the invariant.
LEMMA StepKeeps == IInv /\ [Next]_vars => IInv'
<1> SUFFICES ASSUME IInv, [Next]_vars PROVE IInv'  OBVIOUS
<1> USE AutoAssumption, NoneAssumption
<1>0. TypeOK /\ \A s \in Solvers : SolverInv(s)  BY DEF IInv
<1>1. ASSUME NEW s \in Solvers, Create(s) PROVE IInv'
  <2> USE <1>1 DEF Create, Go
  <2>1. TypeOK'  BY <1>0 DEF TypeOK, Places
  <2>2. SolverInv(s)'
    BY <1>0 DEF SolverInv, CallInv, SlotInv, ActiveInv, ForkInv, New, TypeOK, Serving
  <2> QED  BY <2>1, <2>2, OneActs DEF TypeOK, IInv
<1>2. ASSUME NEW s \in Solvers, Drop(s) PROVE IInv'
  <2> USE <1>2 DEF Drop, Go, Set
  <2>1. TypeOK'
    <3>1. New \in Fields  BY DEF New, Fields
    <3> QED  BY <3>1, <1>0 DEF TypeOK, Places
  <2>2. solver'[s] = New /\ origin'[s] = NONE /\ at'[s] = "absent"
    BY <1>0 DEF TypeOK
  <2>3. SolverInv(s)'
    BY <2>2 DEF SolverInv, CallInv, SlotInv, ActiveInv, ForkInv, New
  <2> QED  BY <2>1, <2>3, <1>0, OneActs DEF TypeOK
<1>3. ASSUME NEW s \in Solvers, NEW t \in Solvers, Fork(s, t) PROVE IInv'
  <2> DEFINE f == solver[s]
  <2> USE <1>3 DEF Fork, Go, Set
  <2>1. f \in Fields /\ SolverInv(s)  BY <1>0 DEF TypeOK
  <2>2. Forked(f) \in Fields  BY <2>1, ForkedFields
  <2>3. OriginOf(s) \in Origins \cup {NONE}
    <3>1. luCell \in Values \cup {NONE} /\ origin[s] \in Origins \cup {NONE}
      BY <1>0 DEF TypeOK
    <3>2. f.klu # NONE => f.klu.order \in Values  BY <2>1 DEF Fields, Orders
    <3> QED  BY <3>1, <3>2 DEF OriginOf, Origins
  <2>4. TypeOK'  BY <2>2, <2>3, <1>0 DEF TypeOK, Places
  <2>5. solver'[t] = Forked(f) /\ origin'[t] = OriginOf(s) /\ at'[t] = "idle"
    BY <1>0 DEF TypeOK
  <2>6. CallInv(t)'  BY <2>5 DEF CallInv
  <2>7. SlotInv(solver[t])'
    <3>1. SlotInv(Forked(f))  BY <2>1, ForkedFields DEF SolverInv, SlotInv
    <3> QED  BY <3>1, <2>5 DEF SlotInv
  <2>8. ActiveInv(solver[t])'
    <3>1. CASE f.own # NONE
      <4>1. ActiveInv(Forked(f))  BY <3>1, <2>1, ForkedFields DEF ActiveInv
      <4> QED  BY <4>1, <2>5 DEF ActiveInv, Serving
    <3>2. CASE f.own = NONE
      <4>1. Serving(Forked(f)) = Serving(f)  BY <3>2, <2>1, ForkedFields DEF Serving
      <4>2. ActiveInv(Forked(f))
        BY <3>2, <4>1, <2>1, ForkedFields DEF SolverInv, ActiveInv
      <4> QED  BY <4>2, <2>5 DEF ActiveInv, Serving
    <3> QED  BY <3>1, <3>2
  <2>9. ForkInv(solver[t], origin[t])'
    <3>1. CASE f.pinned /\ origin[s] # NONE
      <4>1. OriginOf(s).klu = origin[s].klu
        <5>1. origin[s] \in Origins  BY <3>1, <1>0 DEF TypeOK
        <5> QED  BY <5>1, <3>1 DEF OriginOf, Origins
      <4>2. ForkInv(Forked(f), OriginOf(s))
        BY <2>1, <3>1, <4>1, ForkedFields DEF SolverInv, ForkInv
      <4> QED  BY <4>2, <2>5 DEF ForkInv
    <3>2. CASE ~(f.pinned /\ origin[s] # NONE) /\ f.active = NONE
      BY <3>2, <2>5 DEF OriginOf, ForkInv
    <3>3. CASE ~(f.pinned /\ origin[s] # NONE) /\ f.active # NONE
      <4>1. OriginOf(s).klu = IF f.klu = NONE THEN NONE ELSE f.klu.order
        BY <3>3 DEF OriginOf
      <4>2. route # NONE /\ (route.path = "klu" => f.klu # NONE)
        BY <3>3, <2>1 DEF SolverInv, ActiveInv, SlotInv, Serving
      <4>3. Forked(f).klu = f.klu /\ Forked(f).own = NONE
        BY <2>1, ForkedFields
      <4> QED  BY <4>1, <4>2, <4>3, <2>5 DEF ForkInv
    <3> QED  BY <3>1, <3>2, <3>3
  <2> QED  BY <2>4, <2>6, <2>7, <2>8, <2>9, <1>0, OneActs DEF TypeOK, SolverInv, IInv
<1>4. ASSUME NEW s \in Solvers, NEW t \in Solvers, Clone(s, t) PROVE IInv'
  <2> USE <1>4 DEF Clone, Go, Set
  <2>1. TypeOK'  BY <1>0 DEF TypeOK, Places
  <2>2. solver'[t] = solver[s] /\ origin'[t] = origin[s] /\ at'[t] = "idle"
    BY <1>0 DEF TypeOK
  <2>3. SolverInv(t)'
    BY <1>0, <2>2 DEF SolverInv, CallInv, SlotInv, ActiveInv, ForkInv, Serving
  <2> QED  BY <2>1, <2>3, <1>0, OneActs DEF TypeOK
<1>5. ASSUME NEW s \in Solvers, NEW v \in Values, Load(s, v) PROVE IInv'
  <2> DEFINE f == solver[s]
  <2> USE <1>5 DEF Load, Set
  <2>1. f \in Fields /\ SolverInv(s)  BY <1>0 DEF TypeOK
  <2>2. solver'[s] = [f EXCEPT !.loaded = v] /\ [f EXCEPT !.loaded = v] \in Fields
    BY <1>0, <2>1 DEF TypeOK, Fields
  <2>3. TypeOK'  BY <2>2, <1>0 DEF TypeOK
  <2>4. SolverInv(s)'
    BY <2>1, <2>2 DEF SolverInv, CallInv, SlotInv, ActiveInv, ForkInv, Serving, Fields
  <2> QED  BY <2>3, <2>4, <1>0, OneActs DEF TypeOK
<1>6. ASSUME NEW s \in Solvers, NEW flag \in BOOLEAN, Refactor(s, flag) PROVE IInv'
  <2> DEFINE f == solver[s]
  <2> USE <1>6 DEF Refactor, Set, Go
  <2>1. f \in Fields /\ SolverInv(s)  BY <1>0 DEF TypeOK
  <2>2. Released(f) \in Fields  BY <2>1, ReleasedFields
  <2>3. solver'[s] = Released(f) /\ at'[s] = "route"  BY <1>0 DEF TypeOK
  <2>4. TypeOK'  BY <2>2, <1>0 DEF TypeOK, Places
  <2>5. SolverInv(s)'
    <3>1. CallInv(s)' /\ ActiveInv(solver[s])'
      BY <2>1, <2>3, ReleasedFields DEF SolverInv, CallInv, ActiveInv
    <3>2. SlotInv(solver[s])'
      <4>1. SlotInv(Released(f))  BY <2>1, ReleasedFields DEF SolverInv, SlotInv
      <4> QED  BY <4>1, <2>3 DEF SlotInv
    <3>3. ForkInv(solver[s], origin[s])'
      <4>1. ForkInv(Released(f), origin[s])
        BY <2>1, ReleasedFields, NoneIsNoBackend DEF SolverInv, ForkInv
      <4> QED  BY <4>1, <2>3 DEF ForkInv
    <3> QED  BY <3>1, <3>2, <3>3 DEF SolverInv
  <2> QED  BY <2>4, <2>5, <1>0, OneActs DEF TypeOK
<1>7. ASSUME NEW s \in Solvers, ReadRoute(s) PROVE IInv'
  <2> USE <1>7 DEF ReadRoute, Go
  <2>1. solver[s] \in Fields /\ SolverInv(s)  BY <1>0 DEF TypeOK
  <2>2. solver[s].loaded \in Values  BY <2>1 DEF Fields
  <2>3. TypeOK'  BY <2>2, <1>0 DEF TypeOK, Places
  <2>4. CallInv(s)'
    BY <2>1, <2>2, <1>0 DEF SolverInv, CallInv, TypeOK
  <2>5. SlotInv(solver[s])' /\ ActiveInv(solver[s])' /\ ForkInv(solver[s], origin[s])'
    BY <2>1 DEF SolverInv, SlotInv, ActiveInv, ForkInv, Serving
  <2> QED  BY <2>3, <2>4, <2>5, <1>0, OneActs DEF TypeOK, SolverInv
<1>8. ASSUME NEW s \in Solvers, SetRoute(s) PROVE IInv'
  <2> USE <1>8 DEF SetRoute, Go
  <2>1. SolverInv(s) /\ made[s] \in Values
    BY <1>0 DEF TypeOK, SolverInv, CallInv
  <2>2. RouteFrom(made[s]) \in Routes /\ RouteFrom(made[s]) # NONE
    BY <2>1 DEF RouteFrom, Routes
  <2>3. route' # NONE /\ route' \in Routes /\ (route' = route \/ route = NONE)
    BY <2>2, <1>0 DEF GetOrInit, TypeOK
  <2>4. TypeOK'  BY <2>3, <1>0 DEF TypeOK, Places
  <2>5. CallInv(s)'
    BY <2>1, <2>3, <1>0 DEF SolverInv, CallInv, TypeOK
  <2>6. SlotInv(solver[s])' /\ ActiveInv(solver[s])' /\ ForkInv(solver[s], origin[s])'
    BY <2>1, <2>3 DEF SolverInv, SlotInv, ActiveInv, ForkInv, Serving
  <2> QED  BY <2>3, <2>4, <2>5, <2>6, <1>0, OneActs DEF TypeOK, SolverInv
<1> DEFINE Recovered(s, f) ==
      /\ UNCHANGED <<route, luCell, made, up, origin>>
      /\ solver' = [solver EXCEPT ![s] = f] /\ at' = [at EXCEPT ![s] = "idle"]
<1>9. ASSUME NEW s \in Solvers, NEW f \in Fields, Recovered(s, f),
             SlotInv(f), ActiveInv(f), ForkInv(f, origin[s])
      PROVE  IInv'
  <2> USE <1>9
  <2>1. TypeOK'  BY <1>0 DEF TypeOK, Places
  <2>2. solver'[s] = f /\ at'[s] = "idle" /\ origin'[s] = origin[s]  BY <1>0 DEF TypeOK
  <2>3. CallInv(s)'  BY <2>2 DEF CallInv
  <2>4. SlotInv(solver[s])' /\ ActiveInv(solver[s])' /\ ForkInv(solver[s], origin[s])'
    BY <2>2 DEF SlotInv, ActiveInv, ForkInv, Serving
  <2> QED  BY <2>1, <2>3, <2>4, <1>0, OneActs DEF TypeOK, SolverInv
\* A step that returns from a call needs only its new fields to be sound.
<1>10. ASSUME NEW s \in Solvers, ReplayKlu(s) PROVE IInv'
  <2> DEFINE f == solver[s]
             g == Finished(Replayed(f), "klu")
  <2>1. f \in Fields /\ SolverInv(s)  BY <1>0 DEF TypeOK
  <2>2. /\ route # NONE /\ route.path = "klu" /\ f.klu # NONE
        /\ <<f.klu.order, f.loaded>> \in Replayable
    BY <1>10, <2>1 DEF ReplayKlu, OnKlu, Replays, SolverInv, CallInv
  <2>3. f.klu \in Orders /\ f.loaded \in Values  BY <2>1, <2>2 DEF Fields
  <2>4. /\ g \in Fields /\ g.active = "klu" /\ g.prev = f.loaded /\ g.own = NONE
        /\ g.klu = [f.klu EXCEPT !.of = f.loaded] /\ g.klu \in Orders
        /\ g.ldlt = f.ldlt /\ g.lu = f.lu /\ g.pinned = f.pinned
    BY <2>1, <2>3 DEF Finished, Replayed, Fields, Orders, Backends
  <2>5. /\ g.klu # NONE /\ g.klu.of = f.loaded /\ g.klu.order = f.klu.order
        /\ g.klu.analysis = f.klu.analysis
    BY <2>3, <2>4 DEF Orders
  <2>6. SlotInv(g)
    BY <2>1, <2>2, <2>4, <2>5 DEF SolverInv, SlotInv
  <2>7. ActiveInv(g)
    BY <2>2, <2>3, <2>4, <2>5 DEF ActiveInv, Serving
  <2>8. ForkInv(g, origin[s])
    BY <2>1, <2>2, <2>4, <2>5 DEF SolverInv, ForkInv
  <2>9. Recovered(s, g)
    BY <1>10 DEF ReplayKlu, Finish, Set, Go
  <2> HIDE DEF f, g, Recovered
  <2> QED  BY <2>4, <2>6, <2>7, <2>8, <2>9, <1>9
<1>11. ASSUME NEW s \in Solvers, FactorKlu(s) PROVE IInv'
  <2> DEFINE f == solver[s]
             k == FreshKlu(f.loaded)
             g == Finished(WithFresh(f, k), "klu")
  <2>1. f \in Fields /\ SolverInv(s)  BY <1>0 DEF TypeOK
  <2>2. /\ route # NONE /\ route.path = "klu" /\ f.loaded \in Regular
        /\ f.klu # NONE => <<f.klu.order, f.loaded>> \notin Replayable
    BY <1>11, <2>1 DEF FactorKlu, OnKlu, Replays, FactorsAfresh, SolverInv, CallInv
  <2>3. f.loaded \in Values /\ route.from \in Values
    BY <2>1, <2>2, <1>0 DEF Fields, TypeOK, Routes
  <2>4. /\ k \in Orders /\ k # NONE /\ k.order = f.loaded /\ k.of = f.loaded
        /\ k.analysis = route.from
    BY <2>3 DEF FreshKlu, Orders
  <2>5. Recovered(s, g)
    BY <1>11 DEF FactorKlu, Finish, Set, Go
  <2>6. CASE HoldsOrder(f)
    <3>1. f.klu \in Orders  BY <2>1, <2>6 DEF Fields, HoldsOrder
    <3>2. /\ g \in Fields /\ g.active = "klu" /\ g.prev = f.loaded /\ g.own = k
          /\ g.klu = [f.klu EXCEPT !.of = NONE] /\ g.klu \in Orders
          /\ g.ldlt = f.ldlt /\ g.lu = f.lu /\ g.pinned = f.pinned
      BY <2>1, <2>3, <2>4, <2>6, <3>1 DEF Finished, WithFresh, Fields, Orders, Backends
    <3>3. /\ g.klu # NONE /\ g.klu.of = NONE /\ g.klu.order = f.klu.order
          /\ g.klu.analysis = f.klu.analysis
      BY <3>1, <3>2 DEF Orders
    <3>4. SlotInv(g)
      BY <2>1, <2>2, <2>4, <2>6, <3>2, <3>3 DEF SolverInv, SlotInv, HoldsOrder
    <3>5. ActiveInv(g)
      BY <2>2, <2>3, <2>4, <3>2 DEF ActiveInv, Serving
    <3>6. ForkInv(g, origin[s])
      BY <2>1, <2>2, <2>4, <2>6, <3>2, <3>3 DEF SolverInv, ForkInv, HoldsOrder
    <3> HIDE DEF f, g, k, Recovered
    <3> QED  BY <3>2, <3>4, <3>5, <3>6, <2>5, <1>9
  <2>7. CASE ~HoldsOrder(f)
    <3>1. f.own = NONE
      BY <2>1, <2>7 DEF SolverInv, SlotInv, HoldsOrder
    <3>2. /\ g \in Fields /\ g.active = "klu" /\ g.prev = f.loaded /\ g.own = NONE
          /\ g.klu = k /\ g.ldlt = f.ldlt /\ g.lu = f.lu /\ g.pinned = f.pinned
      BY <2>1, <2>3, <2>4, <2>7, <3>1 DEF Finished, WithFresh, Fields, Backends
    <3>3. SlotInv(g)
      BY <2>1, <2>2, <2>4, <3>2 DEF SolverInv, SlotInv
    <3>4. ActiveInv(g)
      BY <2>2, <2>3, <2>4, <3>2 DEF ActiveInv, Serving
    <3>5. ~(f.pinned /\ origin[s] # NONE)
      BY <2>1, <2>2, <2>7 DEF SolverInv, ForkInv, HoldsOrder
    <3>6. ForkInv(g, origin[s])
      BY <3>2, <3>5 DEF ForkInv
    <3> HIDE DEF f, g, k, Recovered
    <3> QED  BY <3>2, <3>3, <3>4, <3>6, <2>5, <1>9
  <2> QED  BY <2>6, <2>7
<1>12. ASSUME NEW s \in Solvers, FailKlu(s) PROVE IInv'
  <2> DEFINE f == solver[s]
             g == WithFresh(f, NONE)
  <2>1. f \in Fields /\ SolverInv(s)  BY <1>0 DEF TypeOK
  <2>2. route # NONE /\ route.path = "klu" /\ f.active = NONE
    BY <1>12, <2>1 DEF FailKlu, OnKlu, SolverInv, CallInv
  <2>3. Recovered(s, g)
    BY <1>12 DEF FailKlu, Fail, Set, Go
  <2>4. CASE HoldsOrder(f)
    <3>1. f.klu \in Orders  BY <2>1, <2>4 DEF Fields, HoldsOrder
    <3>2. /\ g \in Fields /\ g.active = NONE /\ g.own = NONE
          /\ g.klu = [f.klu EXCEPT !.of = NONE] /\ g.klu \in Orders
          /\ g.ldlt = f.ldlt /\ g.lu = f.lu /\ g.pinned = f.pinned
      <4> DEFINE k == [f.klu EXCEPT !.of = NONE]
      <4>1. k \in Orders  BY <3>1 DEF Orders
      <4>2. g = [f EXCEPT !.klu = k, !.own = NONE]
        BY <2>1, <2>4 DEF WithFresh, Fields
      <4> HIDE DEF f, g, k
      <4>3. g \in Fields  BY <2>1, <4>1, <4>2 DEF Fields
      <4>4. /\ g.active = f.active /\ g.own = NONE /\ g.klu = k
            /\ g.ldlt = f.ldlt /\ g.lu = f.lu /\ g.pinned = f.pinned
        BY <2>1, <4>2 DEF Fields
      <4> QED  BY <2>2, <4>1, <4>3, <4>4 DEF k
    <3>3. /\ g.klu # NONE /\ g.klu.of = NONE /\ g.klu.order = f.klu.order
          /\ g.klu.analysis = f.klu.analysis
      BY <3>1, <3>2 DEF Orders
    <3>4. SlotInv(g)
      BY <2>1, <2>2, <2>4, <3>2, <3>3 DEF SolverInv, SlotInv, HoldsOrder
    <3>5. ActiveInv(g)  BY <3>2 DEF ActiveInv
    <3>6. ForkInv(g, origin[s])
      BY <2>1, <2>2, <3>2, <3>3, NoneIsNoBackend DEF SolverInv, ForkInv
    <3> HIDE DEF f, g, Recovered
    <3> QED  BY <3>2, <3>4, <3>5, <3>6, <2>3, <1>9
  <2>5. CASE ~HoldsOrder(f)
    <3>1. f.own = NONE
      BY <2>1, <2>5 DEF SolverInv, SlotInv, HoldsOrder
    <3>2. /\ g \in Fields /\ g.active = NONE /\ g.own = NONE /\ g.klu = NONE
          /\ g.ldlt = f.ldlt /\ g.lu = f.lu /\ g.pinned = f.pinned
      BY <2>1, <2>2, <2>5, <3>1 DEF WithFresh, Fields
    <3>3. SlotInv(g)
      BY <2>1, <3>2 DEF SolverInv, SlotInv
    <3>4. ActiveInv(g)  BY <3>2 DEF ActiveInv
    <3>5. ~(f.pinned /\ origin[s] # NONE)
      BY <2>1, <2>2, <2>5 DEF SolverInv, ForkInv, HoldsOrder
    <3>6. ForkInv(g, origin[s])
      BY <3>2, <3>5 DEF ForkInv
    <3> HIDE DEF f, g, Recovered
    <3> QED  BY <3>2, <3>3, <3>4, <3>6, <2>3, <1>9
  <2> QED  BY <2>4, <2>5
<1>13. ASSUME NEW s \in Solvers, FactorLdlt(s) PROVE IInv'
  <2> DEFINE f == solver[s]
             k == [of |-> f.loaded]
             g == Finished([f EXCEPT !.ldlt = k], "ldlt")
  <2>1. f \in Fields /\ SolverInv(s)  BY <1>0 DEF TypeOK
  <2>2. route # NONE /\ route.path = "supernodal" /\ f.loaded \in Values
    BY <1>13, <2>1 DEF FactorLdlt, OnSupernodal, SolverInv, CallInv, Fields
  <2>3. k \in LdltFactors /\ k # NONE /\ k.of = f.loaded  BY <2>2 DEF LdltFactors
  <2>4. /\ g \in Fields /\ g.active = "ldlt" /\ g.prev = f.loaded /\ g.ldlt = k
        /\ g.klu = f.klu /\ g.own = f.own /\ g.lu = f.lu /\ g.pinned = f.pinned
    BY <2>1, <2>2, <2>3 DEF Finished, Fields, Backends
  <2>5. SlotInv(g)  BY <2>1, <2>2, <2>4 DEF SolverInv, SlotInv
  <2>6. ActiveInv(g)  BY <2>2, <2>3, <2>4 DEF ActiveInv, Serving
  <2>7. ForkInv(g, origin[s])  BY <2>1, <2>4 DEF SolverInv, ForkInv
  <2>8. Recovered(s, g)  BY <1>13 DEF FactorLdlt, Finish, Set, Go
  <2> HIDE DEF f, g, k, Recovered
  <2> QED  BY <2>4, <2>5, <2>6, <2>7, <2>8, <1>9
<1>14. ASSUME NEW s \in Solvers, PassToLu(s) PROVE IInv'
  <2> DEFINE f == solver[s]
             g == [f EXCEPT !.ldlt = IF f.loaded \in Symmetric THEN Unfit(f.ldlt) ELSE f.ldlt]
  <2>1. f \in Fields /\ SolverInv(s)  BY <1>0 DEF TypeOK
  <2>2. route # NONE /\ route.path = "supernodal" /\ f.active = NONE
    BY <1>14, <2>1 DEF PassToLu, OnSupernodal, SolverInv, CallInv
  <2>3. Unfit(f.ldlt) \in LdltFactors \cup {NONE} /\ f.ldlt \in LdltFactors \cup {NONE}
    BY <2>1 DEF Unfit, Fields, LdltFactors
  <2>4. /\ g \in Fields /\ g.active = NONE
        /\ g.klu = f.klu /\ g.own = f.own /\ g.lu = f.lu /\ g.pinned = f.pinned
    BY <2>1, <2>2, <2>3 DEF Fields
  <2>5. solver' = [solver EXCEPT ![s] = g]
    BY <1>14 DEF PassToLu, Set
  <2>6. solver'[s] = g /\ at'[s] = "lu" /\ UNCHANGED <<route, luCell, made, up, origin>>
    BY <2>5, <1>0, <1>14 DEF PassToLu, Go, TypeOK
  <2>7. TypeOK'
    BY <2>4, <2>5, <1>0, <1>14 DEF PassToLu, Go, TypeOK, Places
  <2>8. CallInv(s)'  BY <2>2, <2>4, <2>6 DEF CallInv
  <2>9. SlotInv(g) /\ ActiveInv(g) /\ ForkInv(g, origin[s])
    BY <2>1, <2>2, <2>4 DEF SolverInv, SlotInv, ActiveInv, ForkInv
  <2>10. SlotInv(solver[s])' /\ ActiveInv(solver[s])' /\ ForkInv(solver[s], origin[s])'
    BY <2>6, <2>9 DEF SlotInv, ActiveInv, ForkInv, Serving
  <2> QED  BY <2>5, <2>7, <2>8, <2>10, <1>0, <1>14, OneActs DEF TypeOK, SolverInv, PassToLu, Go
<1>15. ASSUME NEW s \in Solvers, ReadLu(s) PROVE IInv'
  <2> USE <1>15 DEF ReadLu, Go
  <2>1. solver[s] \in Fields /\ SolverInv(s)  BY <1>0 DEF TypeOK
  <2>2. solver[s].loaded \in Values  BY <2>1 DEF Fields
  <2>3. TypeOK'  BY <2>2, <1>0 DEF TypeOK, Places
  <2>4. CallInv(s)'
    BY <2>1, <2>2, <1>0 DEF SolverInv, CallInv, TypeOK
  <2>5. SlotInv(solver[s])' /\ ActiveInv(solver[s])' /\ ForkInv(solver[s], origin[s])'
    BY <2>1 DEF SolverInv, SlotInv, ActiveInv, ForkInv, Serving
  <2> QED  BY <2>3, <2>4, <2>5, <1>0, OneActs DEF TypeOK, SolverInv
<1>16. ASSUME NEW s \in Solvers, SetLu(s) PROVE IInv'
  <2> USE <1>16 DEF SetLu, Go
  <2>1. SolverInv(s) /\ made[s] \in Values
    BY <1>0 DEF TypeOK, SolverInv, CallInv
  <2>2. luCell' # NONE /\ luCell' \in Values /\ (luCell' = luCell \/ luCell = NONE)
    BY <2>1, <1>0 DEF GetOrInit, TypeOK
  <2>3. TypeOK'  BY <2>2, <1>0 DEF TypeOK, Places
  <2>4. CallInv(s)'
    BY <2>1, <2>2, <1>0 DEF SolverInv, CallInv, TypeOK
  <2>5. SlotInv(solver[s])' /\ ActiveInv(solver[s])' /\ ForkInv(solver[s], origin[s])'
    BY <2>1, <2>2 DEF SolverInv, SlotInv, ActiveInv, ForkInv, Serving
  <2> QED  BY <2>2, <2>3, <2>4, <2>5, <1>0, OneActs DEF TypeOK, SolverInv
<1>17. ASSUME NEW s \in Solvers, FactorLu(s) PROVE IInv'
  <2> DEFINE f == solver[s]
             k == [analysis |-> luCell, of |-> f.loaded]
             g == Finished([f EXCEPT !.lu = k], "lu")
  <2>1. f \in Fields /\ SolverInv(s)  BY <1>0 DEF TypeOK
  <2>2. route # NONE /\ route.path = "supernodal" /\ f.loaded \in Values /\ luCell \in Values
    BY <1>17, <2>1, <1>0 DEF FactorLu, SolverInv, CallInv, Fields, TypeOK
  <2>3. k \in LuFactors /\ k # NONE /\ k.of = f.loaded /\ k.analysis = luCell
    BY <2>2 DEF LuFactors
  <2>4. /\ g \in Fields /\ g.active = "lu" /\ g.prev = f.loaded /\ g.lu = k
        /\ g.klu = f.klu /\ g.own = f.own /\ g.ldlt = f.ldlt /\ g.pinned = f.pinned
    BY <2>1, <2>2, <2>3 DEF Finished, Fields, Backends
  <2>5. SlotInv(g)  BY <2>1, <2>2, <2>3, <2>4 DEF SolverInv, SlotInv
  <2>6. ActiveInv(g)  BY <2>2, <2>3, <2>4 DEF ActiveInv, Serving
  <2>7. ForkInv(g, origin[s])  BY <2>1, <2>4 DEF SolverInv, ForkInv
  <2>8. Recovered(s, g)  BY <1>17 DEF FactorLu, Finish, Set, Go
  <2> HIDE DEF f, g, k, Recovered
  <2> QED  BY <2>4, <2>5, <2>6, <2>7, <2>8, <1>9
<1>18. ASSUME NEW s \in Solvers, FailLu(s) PROVE IInv'
  <2> DEFINE f == solver[s]
             g == [f EXCEPT !.lu = Unfit(f.lu)]
  <2>1. f \in Fields /\ SolverInv(s)  BY <1>0 DEF TypeOK
  <2>2. f.active = NONE  BY <1>18, <2>1 DEF FailLu, SolverInv, CallInv
  <2>3. /\ Unfit(f.lu) \in LuFactors \cup {NONE}
        /\ Unfit(f.lu) # NONE => f.lu # NONE /\ Unfit(f.lu).analysis = f.lu.analysis
    BY <2>1 DEF Unfit, Fields, LuFactors
  <2>4. /\ g \in Fields /\ g.active = NONE /\ g.lu = Unfit(f.lu)
        /\ g.klu = f.klu /\ g.own = f.own /\ g.ldlt = f.ldlt /\ g.pinned = f.pinned
    BY <2>1, <2>2, <2>3 DEF Fields
  <2>5. SlotInv(g)  BY <2>1, <2>3, <2>4 DEF SolverInv, SlotInv
  <2>6. ActiveInv(g)  BY <2>4 DEF ActiveInv
  <2>7. ForkInv(g, origin[s])  BY <2>1, <2>4 DEF SolverInv, ForkInv
  <2>8. Recovered(s, g)  BY <1>18 DEF FailLu, Fail, Set, Go
  <2> HIDE DEF f, g, Recovered
  <2> QED  BY <2>4, <2>5, <2>6, <2>7, <2>8, <1>9
<1>19. CASE UNCHANGED vars
  <2> USE <1>19 DEF vars
  <2>1. TypeOK'  BY <1>0 DEF TypeOK
  <2>2. ASSUME NEW s \in Solvers PROVE SolverInv(s)'
    BY <1>0, OthersKeep
  <2> QED  BY <2>1, <2>2 DEF IInv
<1> QED
  BY <1>1, <1>2, <1>3, <1>4, <1>5, <1>6, <1>7, <1>8, <1>10, <1>11, <1>12, <1>13, <1>14,
     <1>15, <1>16, <1>17, <1>18, <1>19
  DEF Next, Call

\* IInv is an invariant.
LEMMA InvariantHolds == Spec => []IInv
<1>1. Init => IInv  BY InitHolds
<1>2. IInv /\ [Next]_vars => IInv'  BY StepKeeps
<1> QED  BY <1>1, <1>2, PTL DEF Spec

\* Type correctness.
THEOREM TypeCorrect == Spec => []TypeOK
<1>1. IInv => TypeOK  BY DEF IInv
<1> QED  BY <1>1, InvariantHolds, PTL

\* A solve never uses a factor that a failed refactorization left behind, of
\* another path, or of other values than the last ones factored.
THEOREM SolvesServeLastFactored == Spec => []ServesLastFactored
<1>1. IInv => ServesLastFactored
  BY DEF IInv, SolverInv, ActiveInv, ServesLastFactored
<1> QED  BY <1>1, InvariantHolds, PTL

\* However many solvers race to make an analysis, they factor over one.
THEOREM AnalysisIsShared == Spec => []SharedAnalysis
<1>1. IInv => SharedAnalysis
  BY DEF IInv, SolverInv, SlotInv, SharedAnalysis
<1> QED  BY <1>1, InvariantHolds, PTL

\* What a fork makes of a value set on the KLU path depends on its origin's
\* pivot order and the value set alone.
THEOREM ForksReplayTheirOrigin == Spec => []ForkReplaysItsOrigin
<1>1. IInv => ForkReplaysItsOrigin
  <2> SUFFICES ASSUME IInv, NEW s \in Solvers,
                      solver[s].pinned, origin[s] # NONE, solver[s].active = "klu"
               PROVE  Serving(solver[s]).order =
                        IF <<origin[s].klu, solver[s].prev>> \in Replayable
                          THEN origin[s].klu ELSE solver[s].prev
    BY DEF ForkReplaysItsOrigin
  <2>1. SlotInv(solver[s]) /\ ActiveInv(solver[s]) /\ ForkInv(solver[s], origin[s])
    BY DEF IInv, SolverInv
  <2>2. solver[s].active # NONE  BY NoneIsNoBackend
  <2>3. /\ route # NONE /\ route.path = "klu"
        /\ solver[s].klu # NONE /\ solver[s].klu.order = origin[s].klu
        /\ Serving(solver[s]).of = solver[s].prev /\ solver[s].prev # NONE
    BY <2>1, <2>2 DEF ActiveInv, ForkInv
  <2>4. CASE solver[s].own # NONE
    BY <2>1, <2>4 DEF ForkInv, Serving
  <2>5. CASE solver[s].own = NONE
    BY <2>1, <2>3, <2>5 DEF SlotInv, Serving
  <2> QED  BY <2>4, <2>5
<1> QED  BY <1>1, InvariantHolds, PTL

\* Both: the shared analysis, and the origin's order on the KLU path.
THEOREM ForksAgreeAlways == Spec => []ForksAgree
BY AnalysisIsShared, ForksReplayTheirOrigin, PTL DEF ForksAgree

-----------------------------------------------------------------------------
\* The best iterate so far is one that was measured, or none was yet; a step
\* taken is one of the budget, and refinement ends right after a measure.
RefineInv ==
  /\ policy \in [max_steps : 0..MaxSteps, target : Targets]
  /\ iterate \in Iterates /\ best \in Iterates
  /\ steps = it /\ it \in 0..policy.max_steps
  /\ refining \in {"measure", "solve", "done", "failed"}
  /\ refining = "solve" => it < policy.max_steps
  /\ best_omega \in {INFINITY, best.err}
  /\ refining = "done" => best_omega = best.err

\* f64::INFINITY is a number of the model, above every error.
LEMMA InfinityIsNat == INFINITY \in Nat
BY SMT DEF INFINITY

\* A measure of what the factor made of the residual, or a correction, keeps it.
LEMMA RefineStep == RefineInv /\ [RefineNext]_refineVars => RefineInv'
<1> SUFFICES ASSUME RefineInv, [RefineNext]_refineVars PROVE RefineInv'
  OBVIOUS
<1> USE DEF RefineInv
<1>0. iterate.err \in Nat /\ iterate.err < INFINITY /\ best.err \in Nat /\ INFINITY \in Nat
  BY ErrorsAssumption, InfinityIsNat DEF Iterates
<1>1. CASE Measure
  <2>1. best_omega' = best'.err
    BY <1>0, <1>1 DEF Measure, Measured, Better
  <2>2. best' \in Iterates
    BY <1>1 DEF Measure
  <2>3. it # policy.max_steps => it < policy.max_steps
    BY ErrorsAssumption
  <2> QED  BY <1>1, <2>1, <2>2, <2>3 DEF Measure
<1>2. CASE Correct
  <2>1. iterate' \in Iterates  BY <1>2 DEF Correct, Corrected
  <2>2. it + 1 \in 0..policy.max_steps  BY <1>2, ErrorsAssumption DEF Correct
  <2> QED  BY <1>2, <2>1, <2>2 DEF Correct
<1>3. CASE SolveFails
  BY <1>3 DEF SolveFails
<1>4. CASE UNCHANGED refineVars
  BY <1>4 DEF refineVars
<1> QED  BY <1>1, <1>2, <1>3, <1>4 DEF RefineNext

\* What refine_against certifies is achieved: for any errors, targets and budget,
\* and whatever a correction makes of the iterate.
THEOREM Certification == RefineSpec => []CertifiedIsAchieved
<1>1. RefineInit => RefineInv
  BY ErrorsAssumption DEF RefineInit, RefineInv
<1>2. RefineInv => CertifiedIsAchieved
  BY ErrorsAssumption DEF RefineInv, CertifiedIsAchieved, Certified
<1> QED  BY <1>1, <1>2, RefineStep, PTL DEF RefineSpec

-----------------------------------------------------------------------------
\* A solver object is NOTHING or has all its parts; one that is factored has them
\* of the value set it was factored for last.
Schedules == {RowsOf[v] : v \in ValueSets}
Objects ==
  [factored : BOOLEAN, pivots : ValueSets, panels : ValueSets \cup {NOTHING},
   reciprocals : ValueSets, schedule : Schedules]
Users == [pivots : ValueSets, panels : ValueSets \cup {NOTHING}, reciprocals : ValueSets, schedule : Schedules]

CallsType ==
  calls \in [Callers -> [at : {"idle", "solve", "return"}, work : Nat, used : Users \cup {NOTHING}]]
IsFor(o, v) == o.factored /\ o.pivots = v /\ o.panels = v /\ o.reciprocals = v /\ o.schedule = RowsOf[v]
ObjectInv ==
  /\ latest \in ValueSets \cup {NOTHING}
  /\ object # NOTHING => object \in Objects
  /\ latest # NOTHING => object \in Objects /\ IsFor(object, latest)
  /\ object # NOTHING /\ latest = NOTHING => ~object.factored
\* The works made so far are those of the pool and those of the calls that are
\* on their way, one each.
Busy == {c \in Callers : calls[c].at # "idle"}
WorksInv ==
  /\ worksMade \in Nat /\ worksMade <= Cardinality(Callers)
  /\ works \subseteq 1..worksMade
  /\ \A c \in Callers \ Busy : calls[c].work = 0
  /\ \A c \in Busy : calls[c].work \in 1..worksMade \ works
  /\ \A c, d \in Busy : calls[c].work = calls[d].work => c = d
  /\ \A w \in 1..worksMade \ works : \E c \in Busy : calls[c].work = w
\* Solving needs an object, and it is not replaced meanwhile.
DirectInv ==
  /\ CallsType /\ ObjectInv /\ WorksInv /\ SolvesUseTheLatest
  /\ Busy # {} => object # NOTHING

\* from_panels makes an object of one value set.
LEMMA FactorObject ==
  ASSUME NEW v \in RegularSets PROVE FromPanelsOf(v) \in Objects /\ IsFor(FromPanelsOf(v), v)
BY DirectAssumption DEF FromPanelsOf, Objects, IsFor, Schedules

\* So does refill, be the schedule kept or made anew.
LEMMA RefilledObject ==
  ASSUME NEW v \in RegularSets, NEW o \in Objects
  PROVE Refilled(Taken(o), v) \in Objects /\ IsFor(Refilled(Taken(o), v), v)
<1>1. Taken(o) \in Objects /\ Taken(o).schedule = o.schedule
  BY DEF Taken, Objects
<1>2. CASE SameRows(Taken(o), v)
  BY <1>1, <1>2, DirectAssumption DEF Refilled, SameRows, Objects, IsFor
<1>3. CASE ~SameRows(Taken(o), v)
  BY <1>3, FactorObject DEF Refilled
<1> QED BY <1>2, <1>3

\* Only a caller that finds the pool empty makes a work: all made are held by
\* the others.
LEMMA RoomForOneMore ==
  ASSUME DirectInv, NEW c \in Callers, c \notin Busy, works = {}
  PROVE worksMade + 1 <= Cardinality(Callers)
<1> DEFINE f == [d \in Busy |-> calls[d].work]
<1>1. IsFiniteSet(Busy) /\ IsFiniteSet(Callers \ {c}) /\ Cardinality(Callers \ {c}) = Cardinality(Callers) - 1
  BY DirectAssumption, FS_Subset, FS_RemoveElement DEF Busy
<1>2. Cardinality(Busy) <= Cardinality(Callers \ {c})
  BY <1>1, FS_Subset DEF Busy
<1>3. f \in Surjection(Busy, 1..worksMade)
  BY DEF DirectInv, WorksInv, Surjection
<1>4. Cardinality(1..worksMade) <= Cardinality(Busy)
  BY <1>1, <1>3, FS_Surjection
<1>5. Cardinality(1..worksMade) = worksMade
  <2>1. worksMade \in Nat  BY DEF DirectInv, WorksInv
  <2> QED BY <2>1, FS_Interval
<1> QED BY <1>1, <1>2, <1>4, <1>5, FS_CardinalityType, DirectAssumption DEF DirectInv, WorksInv

\* Every call of the object and every move of a solving thread keeps it.
LEMMA DirectStep == DirectInv /\ [DirectNext]_directVars => DirectInv'
<1> SUFFICES ASSUME DirectInv, [DirectNext]_directVars PROVE DirectInv'
  OBVIOUS
<1>0. CallsType /\ ObjectInv /\ WorksInv /\ SolvesUseTheLatest /\ (Busy # {} => object # NOTHING)
  BY DEF DirectInv
<1>1. ASSUME Exclusive, UNCHANGED calls
      PROVE Busy = {} /\ Busy' = {} /\ CallsType' /\ SolvesUseTheLatest'
  BY <1>0, <1>1 DEF Exclusive, Busy, CallsType, SolvesUseTheLatest
<1>2. ASSUME Exclusive, UNCHANGED calls, works' = {}, worksMade' = 0
      PROVE WorksInv'
  <2>1. 0 <= Cardinality(Callers)  BY DirectAssumption, FS_CardinalityType
  <2> QED  BY <1>0, <1>1, <1>2, <2>1 DEF WorksInv, Exclusive, Busy
<1>3. ASSUME NEW v \in ValueSets, Factor(v) PROVE DirectInv'
  <2>1. ObjectInv'
    <3>1. CASE v \in RegularSets  BY <1>3, <3>1, FactorObject, DirectAssumption DEF Factor, ObjectInv
    <3>2. CASE v \notin RegularSets  BY <1>3, <3>2 DEF Factor, ObjectInv
    <3> QED BY <3>1, <3>2
  <2> QED BY <1>1, <1>2, <1>3, <2>1 DEF Factor, DirectInv
<1>4. ASSUME NEW v \in ValueSets, RefactorInPlace(v) PROVE DirectInv'
  <2>1. object \in Objects  BY <1>0, <1>4 DEF RefactorInPlace, ObjectInv
  <2>2. ObjectInv'
    <3>1. CASE v \in RegularSets
      BY <1>4, <2>1, <3>1, RefilledObject, DirectAssumption DEF RefactorInPlace, ObjectInv
    <3>2. CASE v \notin RegularSets
      <4>1. Taken(object) \in Objects /\ ~Taken(object).factored  BY <2>1 DEF Taken, Objects
      <4> QED BY <1>4, <3>2, <4>1 DEF RefactorInPlace, ObjectInv
    <3> QED BY <3>1, <3>2
  <2>3. WorksInv'
    BY <1>0, <1>4 DEF RefactorInPlace, WorksInv, Busy
  <2> QED BY <1>1, <1>4, <2>2, <2>3 DEF RefactorInPlace, DirectInv
<1>5. CASE CloneObject
  <2>1. ObjectInv'  BY <1>0, <1>5 DEF CloneObject, ObjectInv
  <2> QED BY <1>1, <1>2, <1>5, <2>1 DEF CloneObject, DirectInv
<1>6. ASSUME NEW c \in Callers, TakeWork(c) PROVE DirectInv'
  <2>0. c \notin Busy /\ object # NOTHING /\ UNCHANGED <<object, latest>>
    BY <1>6 DEF TakeWork, Busy
  <2>1. PICK w \in Nat :
          /\ calls' = [calls EXCEPT ![c] = With(w)]
          /\ \/ works = {} /\ works' = {} /\ w = worksMade + 1 /\ worksMade' = worksMade + 1
             \/ w \in works /\ works' = works \ {w} /\ worksMade' = worksMade
    <3>1. worksMade + 1 \in Nat /\ works \subseteq Nat  BY <1>0 DEF WorksInv
    <3>2. CASE works = {}  BY <1>6, <3>1, <3>2 DEF TakeWork
    <3>3. CASE works # {}  BY <1>6, <3>1, <3>3 DEF TakeWork, Popped
    <3> QED BY <3>2, <3>3
  <2>3. CallsType' /\ calls'[c] = With(w) /\ With(w).at = "solve" /\ With(w).work = w
    BY <1>0, <2>1 DEF CallsType, With
  <2>4. \A d \in Callers \ {c} : calls'[d] = calls[d]
    BY <1>0, <2>1 DEF CallsType
  <2>5. Busy' = Busy \cup {c}
    BY <2>3, <2>4 DEF Busy
  <2>6. WorksInv'
    <3>1. CASE works = {} /\ works' = {} /\ w = worksMade + 1 /\ worksMade' = worksMade + 1
      <4>1. worksMade + 1 <= Cardinality(Callers)  BY <2>0, <3>1, RoomForOneMore
      <4>2. \A d \in Busy : calls'[d].work = calls[d].work /\ calls[d].work \in 1..worksMade
        BY <1>0, <2>0, <2>4 DEF WorksInv, Busy
      <4>3. calls'[c].work = worksMade + 1  BY <2>3, <3>1
      <4>4. \A d \in Callers \ Busy' : calls'[d].work = 0  BY <1>0, <2>4, <2>5 DEF WorksInv
      <4>5. \A d, e \in Busy' : calls'[d].work = calls'[e].work => d = e
        BY <1>0, <2>5, <4>2, <4>3 DEF WorksInv
      <4>6. \A v \in 1..worksMade + 1 : \E d \in Busy' : calls'[d].work = v
        <5> TAKE v \in 1..worksMade + 1
        <5>1. CASE v = worksMade + 1  BY <2>5, <4>3, <5>1
        <5>2. CASE v # worksMade + 1
          <6>1. v \in (1..worksMade) \ works  BY <1>0, <3>1, <5>2 DEF WorksInv
          <6> QED BY <1>0, <2>5, <4>2, <6>1 DEF WorksInv
        <5> QED BY <5>1, <5>2
      <4>7. \A d \in Busy' : calls'[d].work \in 1..worksMade + 1
        BY <1>0, <2>5, <4>2, <4>3 DEF WorksInv
      <4> QED BY <1>0, <3>1, <4>1, <4>4, <4>5, <4>6, <4>7 DEF WorksInv
    <3>2. CASE w \in works /\ works' = works \ {w} /\ worksMade' = worksMade
      <4>2. \A d \in Busy : calls'[d].work = calls[d].work /\ calls[d].work \in (1..worksMade) \ works
        BY <1>0, <2>0, <2>4 DEF WorksInv, Busy
      <4>3. calls'[c].work = w /\ w \in 1..worksMade  BY <1>0, <2>3, <3>2 DEF WorksInv
      <4>4. \A d \in Callers \ Busy' : calls'[d].work = 0  BY <1>0, <2>4, <2>5 DEF WorksInv
      <4>5. \A d, e \in Busy' : calls'[d].work = calls'[e].work => d = e
        BY <1>0, <2>5, <3>2, <4>2, <4>3 DEF WorksInv
      <4>6. \A v \in (1..worksMade) \ works' : \E d \in Busy' : calls'[d].work = v
        BY <1>0, <2>5, <3>2, <4>2, <4>3 DEF WorksInv
      <4>7. \A d \in Busy' : calls'[d].work \in (1..worksMade) \ works'
        BY <2>5, <3>2, <4>2, <4>3
      <4> QED BY <1>0, <3>2, <4>4, <4>5, <4>6, <4>7 DEF WorksInv
    <3> QED BY <2>1, <3>1, <3>2
  <2>7. SolvesUseTheLatest'
    BY <1>0, <2>0, <2>3, <2>4 DEF SolvesUseTheLatest
  <2>8. ObjectInv'  BY <1>0, <2>0 DEF ObjectInv
  <2> QED BY <2>0, <2>3, <2>6, <2>7, <2>8 DEF DirectInv
<1>7. ASSUME NEW c \in Callers, SolveRaw(c) PROVE DirectInv'
  <2> DEFINE u == IF object.factored THEN Uses(object) ELSE NOTHING
  <2>0. c \in Busy /\ object \in Objects /\ object # NOTHING
    BY <1>0, <1>7 DEF SolveRaw, Busy, ObjectInv
  <2>1. u \in Users \cup {NOTHING}
    BY <2>0 DEF Uses, Users, Objects
  <2>2. CallsType' /\ calls'[c].at = "return" /\ calls'[c].used = u /\ calls'[c].work = calls[c].work
    BY <1>0, <1>7, <2>1 DEF SolveRaw, CallsType
  <2>3. \A d \in Callers \ {c} : calls'[d] = calls[d]
    BY <1>0, <1>7 DEF CallsType, SolveRaw
  <2>4. Busy' = Busy
    BY <2>0, <2>2, <2>3 DEF Busy
  <2>5. WorksInv'
    <3>1. \A d \in Callers : calls'[d].work = calls[d].work  BY <2>2, <2>3
    <3>2. \A d \in Busy : d \in Callers  BY DEF Busy
    <3>3. UNCHANGED <<works, worksMade>>  BY <1>7 DEF SolveRaw
    <3> QED BY <1>0, <2>4, <3>1, <3>2, <3>3 DEF WorksInv
  <2>6. u = IF latest = NOTHING THEN NOTHING
            ELSE [pivots |-> latest, panels |-> latest, reciprocals |-> latest, schedule |-> RowsOf[latest]]
    BY <1>0, <2>0 DEF ObjectInv, IsFor, Uses
  <2>7. SolvesUseTheLatest'
    BY <1>0, <1>7, <2>2, <2>3, <2>6 DEF SolvesUseTheLatest, SolveRaw
  <2>8. ObjectInv'  BY <1>0, <1>7 DEF ObjectInv, SolveRaw
  <2> QED BY <1>7, <2>0, <2>2, <2>5, <2>7, <2>8 DEF DirectInv, SolveRaw
<1>8. ASSUME NEW c \in Callers, GiveBack(c) PROVE DirectInv'
  <2>0. c \in Busy /\ object # NOTHING  BY <1>0, <1>8 DEF GiveBack, Busy
  <2>1. CallsType' /\ calls'[c] = Idle /\ Idle \in [at : {"idle", "solve", "return"}, work : Nat, used : Users \cup {NOTHING}]
    BY <1>0, <1>8 DEF GiveBack, CallsType, Idle
  <2>2. \A d \in Callers \ {c} : calls'[d] = calls[d]
    BY <1>0, <1>8 DEF CallsType, GiveBack
  <2>3. Busy' = Busy \ {c}
    BY <2>1, <2>2 DEF Busy, Idle
  <2>4. WorksInv'
    <3>1. calls[c].work \in (1..worksMade) \ works /\ works' = works \cup {calls[c].work} /\ worksMade' = worksMade
      BY <1>0, <1>8, <2>0 DEF WorksInv, GiveBack
    <3>2. \A d \in Busy' : d \in Busy /\ d # c /\ calls'[d].work = calls[d].work  BY <2>2, <2>3 DEF Busy
    <3>3. \A d \in Callers \ Busy' : calls'[d].work = 0  BY <1>0, <2>1, <2>2, <2>3 DEF WorksInv, Idle
    <3>4. \A d \in Busy' : calls'[d].work \in (1..worksMade') \ works'
      BY <1>0, <2>0, <3>1, <3>2 DEF WorksInv
    <3>5. \A w \in (1..worksMade') \ works' : \E d \in Busy' : calls'[d].work = w
      BY <1>0, <2>2, <2>3, <3>1 DEF WorksInv, Busy
    <3>6. \A d, e \in Busy' : calls'[d].work = calls'[e].work => d = e
      BY <1>0, <3>2 DEF WorksInv
    <3> QED BY <1>0, <3>1, <3>3, <3>4, <3>5, <3>6 DEF WorksInv
  <2>5. SolvesUseTheLatest'
    BY <1>0, <1>8, <2>1, <2>2 DEF SolvesUseTheLatest, GiveBack, Idle
  <2>6. ObjectInv'  BY <1>0, <1>8 DEF ObjectInv, GiveBack
  <2> QED BY <1>8, <2>0, <2>1, <2>4, <2>5, <2>6 DEF DirectInv, GiveBack
<1>9. CASE UNCHANGED directVars
  BY <1>9 DEF directVars, DirectInv, CallsType, ObjectInv, WorksInv, SolvesUseTheLatest, Busy
<1> QED BY <1>3, <1>4, <1>5, <1>6, <1>7, <1>8, <1>9 DEF DirectNext

\* A solve reads one value set's factor, the latest, or is refused, and works
\* are never shared: for any value sets, row patterns and number of threads.
THEOREM ObjectConsistent == DirectSpec => []ObjectIsConsistent
<1>1. DirectInit => DirectInv
  <2>1. 0 <= Cardinality(Callers)  BY DirectAssumption, FS_CardinalityType
  <2> QED BY <2>1 DEF DirectInit, DirectInv, CallsType, ObjectInv, WorksInv, SolvesUseTheLatest, Busy, Idle
<1>2. DirectInv => ObjectIsConsistent
  BY DEF DirectInv, WorksInv, ObjectIsConsistent, WorksAreExclusive, Busy
<1> QED BY <1>1, <1>2, DirectStep, PTL DEF DirectSpec

-----------------------------------------------------------------------------
(***************************************************************************)
(* PythonHandles.  Which thread borrows which handle, and what a handle    *)
(* keeps from one refactor to the next.                                    *)
(***************************************************************************)
Borrows == {"use", "convert", "refactor"}
\* A factorization that may be started: its dtype is one that may be asked for.
MayFactor(c) == c.dtype \in ArgDtypes /\ c.lower \in FactorsIn(c.dtype) /\ c.data \in Data
CallOf(t) ==
  LET c == call[t]
      p == handle[c.h]
  IN /\ c.at = "factor" => MayFactor(c)
     /\ c.at = "analyze" => c.then = NIL \/ (c.then.at = "factor" /\ c.then.dtype \in ArgDtypes /\ c.then.data \in Data)
     /\ c.at \in Borrows => c.h \in OpenHandles
     /\ c.at = "use" =>
          /\ t \in p.readers /\ c.own \in BOOLEAN /\ c.recycled \in BOOLEAN
          /\ p.factor = c.saw.factor /\ p.a = c.saw.a /\ p.served = c.saw.served
          /\ IF c.saw.served = NIL THEN path = "klu" ELSE c.saw.factor = c.saw.served /\ c.saw.a = c.saw.served
     /\ c.at \in {"convert", "refactor"} => p.writer = t /\ path \in {"klu", "auto"}
Replaying(h) == handle[h].writer # NIL /\ call[handle[h].writer].at = "refactor"
HandleOf(h) ==
  LET p == handle[h]
  IN /\ p.factor_dtype \in FactorsIn(p.dtype)
     /\ \A u \in p.readers : call[u].at = "use" /\ call[u].h = h
     /\ p.writer # NIL =>
          p.readers = {} /\ call[p.writer].at \in {"convert", "refactor"} /\ call[p.writer].h = h
     /\ path = "auto" => p.loaded = p.a
     /\ p.served = NIL => path \in {"klu", "auto"}
     /\ ~Replaying(h) =>
          /\ p.served # NIL => p.factor = p.served /\ p.a = p.served
          /\ p.served = NIL /\ path = "auto" => p.factor = NIL
InRecycled(t) == call[t].at = "use" /\ call[t].recycled
SpaceUsers ==
  \A t \in Threads :
    /\ InRecycled(t) <=> subspace # NIL /\ subspace.user = t
    /\ InRecycled(t) => handle[call[t].h].dtype = subspace.dtype

PyTypes ==
  /\ path \in AllPaths
  /\ handle \in [Handles -> Pairs \cup {NIL}]
  /\ subspace \in Spaces \cup {NIL}
  /\ call = [t \in Threads |-> call[t]]
PyInv ==
  /\ PyTypes /\ SpaceUsers
  /\ \A t \in Threads : CallOf(t)
  /\ \A h \in OpenHandles : HandleOf(h)

LEMMA PyStarts == ASSUME HandlesAssumption PROVE PyInit => PyInv
<1> SUFFICES ASSUME PyInit PROVE PyInv
  OBVIOUS
<1>1. PyTypes
  BY DEF PyInit, PyTypes, HandlesAssumption
<1>2. OpenHandles = {}
  BY DEF PyInit, OpenHandles
<1>3. \A t \in Threads : call[t].at = "idle"
  BY DEF PyInit, Resting
<1>4. SpaceUsers
  BY <1>3 DEF PyInit, SpaceUsers, InRecycled
<1>5. \A t \in Threads : CallOf(t)
  BY <1>3 DEF CallOf, Borrows
<1> QED
  BY <1>1, <1>2, <1>4, <1>5 DEF PyInv

\* The invariant in the parts its corrections use.
LEMMA Parts ==
  ASSUME PyInv
  PROVE  /\ path \in AllPaths /\ subspace \in Spaces \cup {NIL}
         /\ handle \in [Handles -> Pairs \cup {NIL}] /\ call = [t \in Threads |-> call[t]]
         /\ OpenHandles \subseteq Handles /\ \A h \in OpenHandles : handle[h] \in Pairs /\ HandleOf(h)
         /\ SpaceUsers /\ \A t \in Threads : CallOf(t)
  BY DEF PyInv, PyTypes, OpenHandles

\* A thread's step that no other is concerned with.
LEMMA StepAside ==
  ASSUME PyInv, NEW t \in Threads, NEW c, call[t].at \notin Borrows, c.at \notin Borrows,
         Goes(t, c), UNCHANGED <<path, handle, subspace>>,
         c.at = "factor" => MayFactor(c),
         c.at = "analyze" => c.then = NIL \/ (c.then.at = "factor" /\ c.then.dtype \in ArgDtypes /\ c.then.data \in Data)
  PROVE  PyInv'
<1>1. /\ call' = [u \in Threads |-> call'[u]] /\ call'[t] = c
      /\ \A u \in Threads : u # t => call'[u] = call[u]
  BY Parts DEF Goes
<1>2. PyTypes'
  BY <1>1 DEF PyTypes, PyInv
<1>3. \A u \in Threads : InRecycled(u)' <=> InRecycled(u)
  BY <1>1 DEF InRecycled, Borrows
<1>4. SpaceUsers'
  BY <1>1, <1>3, Parts DEF SpaceUsers, InRecycled, Borrows
<1>5. OpenHandles' = OpenHandles
  BY DEF OpenHandles
<1>6. ASSUME NEW u \in Threads PROVE CallOf(u)'
  <2>1. CASE u = t
    BY <1>1, <2>1 DEF CallOf, MayFactor, FactorsIn, Borrows
  <2>2. CASE u # t
    <3>1. CallOf(u)  BY Parts
    <3> QED
      BY <1>1, <1>5, <2>2, <3>1 DEF CallOf, MayFactor, FactorsIn, Borrows
  <2> QED
    BY <2>1, <2>2
<1>7. ASSUME NEW h \in OpenHandles PROVE HandleOf(h)'
  <2>1. HandleOf(h) /\ handle[h] \in Pairs
    BY Parts
  <2>2. \A u \in handle[h].readers : u # t /\ u \in Threads
    BY <2>1 DEF HandleOf, Borrows, Pairs
  <2>3. handle[h].writer # NIL => handle[h].writer # t /\ handle[h].writer \in Threads
    BY <2>1 DEF HandleOf, Borrows, Pairs
  <2>4. Replaying(h)' <=> Replaying(h)
    BY <1>1, <2>3 DEF Replaying
  <2> QED
    BY <1>1, <2>1, <2>2, <2>3, <2>4 DEF HandleOf, FactorsIn
<1> QED
  BY <1>2, <1>4, <1>5, <1>6, <1>7 DEF PyInv

\* What the other handles and threads keep when thread t moves on handle h, which
\* none of them borrows, or goes on with it: `p' is what the handle becomes.
LEMMA StepOnHandle ==
  ASSUME HandlesAssumption, PyInv, NEW t \in Threads, NEW h \in Handles, NEW c, NEW p \in Pairs,
         h \in OpenHandles \/ call[t].at \notin Borrows,
         call[t].at \in Borrows => call[t].h = h,
         h \notin OpenHandles \/ handle[h].readers \ {t} = {} \/
           (p = [handle[h] EXCEPT !.readers = p.readers] /\ p.readers \ {t} = handle[h].readers \ {t}),
         h \in OpenHandles => p.dtype = handle[h].dtype /\ handle[h].writer \in {t, NIL},
         Goes(t, c), UNCHANGED path, handle' = [handle EXCEPT ![h] = p],
         subspace' \in Spaces \cup {NIL}, SpaceUsers',
         CallOf(t)', HandleOf(h)'
  PROVE  PyInv'
<1>1. /\ call' = [u \in Threads |-> call'[u]] /\ call'[t] = c
      /\ \A u \in Threads : u # t => call'[u] = call[u]
  BY Parts DEF Goes
<1>2. /\ handle' \in [Handles -> Pairs \cup {NIL}] /\ handle'[h] = p
      /\ \A g \in Handles : g # h => handle'[g] = handle[g]
  BY Parts
<1>3. p # NIL
  BY DEF HandlesAssumption
<1>4. OpenHandles' = OpenHandles \cup {h}
  BY <1>2, <1>3 DEF OpenHandles
<1>5. PyTypes'
  BY <1>1, <1>2 DEF PyTypes, PyInv
<1>6. ASSUME NEW u \in Threads, u # t PROVE CallOf(u)'
  <2>1. CallOf(u) /\ call'[u] = call[u]
    BY <1>1, <1>6, Parts
  <2>2. CASE call[u].at \in Borrows /\ call[u].h = h
    <3>1. h \in OpenHandles /\ handle[h] \in Pairs /\ HandleOf(h)
      BY <2>1, <2>2, Parts DEF CallOf
    <3>2. call[u].at = "use" /\ u \in handle[h].readers
      BY <1>6, <2>1, <2>2, <3>1 DEF CallOf, Borrows, HandlesAssumption
    <3>3. p.factor = handle[h].factor /\ p.a = handle[h].a /\ p.served = handle[h].served /\ u \in p.readers
      BY <1>6, <3>1, <3>2 DEF Pairs
    <3> QED
      BY <1>2, <1>4, <2>1, <2>2, <3>2, <3>3 DEF CallOf, Borrows
  <2>3. CASE call[u].at \in Borrows /\ call[u].h # h
    <3>1. call[u].h \in OpenHandles /\ handle'[call[u].h] = handle[call[u].h]
      BY <1>2, <2>1, <2>3, Parts DEF CallOf
    <3> QED
      BY <1>4, <2>1, <2>3, <3>1 DEF CallOf, Borrows
  <2>4. CASE call[u].at \notin Borrows
    BY <2>1, <2>4 DEF CallOf, Borrows, MayFactor, FactorsIn
  <2> QED
    BY <2>2, <2>3, <2>4
<1>7. ASSUME NEW g \in OpenHandles, g # h PROVE HandleOf(g)'
  <2>1. HandleOf(g) /\ handle[g] \in Pairs /\ handle'[g] = handle[g]
    BY <1>2, <1>7, Parts
  <2>2. \A u \in handle[g].readers : u # t /\ u \in Threads
    BY <1>7, <2>1 DEF HandleOf, Borrows, Pairs
  <2>3. handle[g].writer # NIL => handle[g].writer # t /\ handle[g].writer \in Threads
    BY <1>7, <2>1 DEF HandleOf, Borrows, Pairs
  <2>4. Replaying(g)' <=> Replaying(g)
    BY <1>1, <2>1, <2>3 DEF Replaying
  <2> QED
    BY <1>1, <2>1, <2>2, <2>3, <2>4 DEF HandleOf, FactorsIn
<1> QED
  BY <1>4, <1>5, <1>6, <1>7 DEF PyInv

\* A step that leaves the subspace and who uses it alone.
LEMMA SpaceAlone ==
  ASSUME HandlesAssumption, PyInv, NEW t \in Threads, NEW h \in Handles, NEW c, NEW p \in Pairs,
         h \in OpenHandles => p.dtype = handle[h].dtype,
         ~InRecycled(t), Goes(t, c), handle' = [handle EXCEPT ![h] = p], UNCHANGED subspace,
         c.at = "use" => c.recycled = FALSE
  PROVE  SpaceUsers'
<1>1. call'[t] = c /\ \A u \in Threads : u # t => call'[u] = call[u]
  BY Parts DEF Goes
<1>2. handle'[h] = p /\ \A g \in Handles : g # h => handle'[g] = handle[g]
  BY Parts
<1> SUFFICES ASSUME NEW u \in Threads
             PROVE  /\ InRecycled(u)' <=> subspace' # NIL /\ subspace'.user = u
                    /\ InRecycled(u)' => handle'[call'[u].h].dtype = subspace'.dtype
  BY DEF SpaceUsers
<1>3. InRecycled(u)' <=> InRecycled(u)
  BY <1>1 DEF InRecycled
<1>4. (InRecycled(u) <=> subspace # NIL /\ subspace.user = u) /\ (InRecycled(u) => handle[call[u].h].dtype = subspace.dtype)
  BY Parts DEF SpaceUsers
<1>5. InRecycled(u) => u # t /\ call'[u] = call[u] /\ call[u].h \in OpenHandles
  <2>1. CallOf(u)  BY Parts
  <2> QED  BY <1>1, <2>1 DEF CallOf, InRecycled, Borrows
<1> QED
  BY <1>2, <1>3, <1>4, <1>5, Parts

\* A handle is made of the value set just factored.
LEMMA MadeHandle ==
  ASSUME HandlesAssumption, PyInv, NEW t \in Threads, Factored(t)
  PROVE  PyInv'
<1>1. call[t].at = "factor" /\ MayFactor(call[t])
  BY Parts DEF Factored, CallOf
<1>2. PICK h \in Handles \ OpenHandles : handle' = [handle EXCEPT ![h] = Pair(call[t].dtype, call[t].lower, call[t].data)]
  BY DEF Factored, Made
<1> DEFINE p == Pair(call[t].dtype, call[t].lower, call[t].data)
<1>3. p \in Pairs
  <2>1. call[t].lower \in ArgDtypes \cup Dtypes
    BY <1>1 DEF MayFactor, FactorsIn, Twin, Dtypes
  <2> QED
    BY <1>1, <2>1 DEF MayFactor, Pair, Pairs
<1>4. Goes(t, Resting) /\ UNCHANGED <<path, subspace>>
  BY DEF Factored, Returns
<1>5. call'[t] = Resting /\ handle'[h] = p
  BY <1>2, <1>4, Parts DEF Goes
<1>6. SpaceUsers'
  BY <1>1, <1>2, <1>3, <1>4, SpaceAlone DEF InRecycled, Resting
<1>7. CallOf(t)'
  BY <1>5 DEF CallOf, Resting, Borrows
<1>8. HandleOf(h)'
  BY <1>1, <1>4, <1>5 DEF HandleOf, Pair, MayFactor, FactorsIn, HandlesAssumption, Replaying
<1> HIDE DEF p
<1> QED
  BY <1>1, <1>2, <1>3, <1>4, <1>6, <1>7, <1>8, Parts, StepOnHandle DEF Borrows, p

\* A handle that goes was in nobody's hands.
LEMMA DroppedHandle ==
  ASSUME HandlesAssumption, PyInv, NEW t \in Threads, NEW h \in OpenHandles, Dropped(t, h)
  PROVE  PyInv'
<1>1. handle[h].writer = NIL /\ handle[h].readers = {} /\ UNCHANGED <<path, subspace, call>>
  BY DEF Dropped, Takes
<1>2. /\ handle' \in [Handles -> Pairs \cup {NIL}]
      /\ \A g \in Handles : g # h => handle'[g] = handle[g]
      /\ handle'[h] = NIL
  BY Parts DEF Dropped
<1>3. OpenHandles' = OpenHandles \ {h}
  BY <1>2 DEF OpenHandles
<1>4. \A u \in Threads : call[u].at \in Borrows => call[u].h \in OpenHandles \ {h}
  BY <1>1, Parts DEF CallOf, Borrows, HandlesAssumption
<1>5. PyTypes'
  BY <1>1, <1>2 DEF PyTypes, PyInv
<1>6. SpaceUsers'
  BY <1>1, <1>2, <1>4, Parts DEF SpaceUsers, InRecycled, Borrows
<1>7. ASSUME NEW u \in Threads PROVE CallOf(u)'
  <2>1. CallOf(u)  BY Parts
  <2> QED
    BY <1>1, <1>2, <1>3, <1>4, <2>1, Parts DEF CallOf, Borrows, MayFactor, FactorsIn
<1>8. ASSUME NEW g \in OpenHandles \ {h} PROVE HandleOf(g)'
  BY <1>1, <1>2, <1>8, Parts DEF HandleOf, FactorsIn, Replaying
<1> QED
  BY <1>3, <1>5, <1>6, <1>7, <1>8 DEF PyInv

\* A solve or a Krylov method begins on a handle nobody writes.
LEMMA Entered ==
  ASSUME HandlesAssumption, PyInv, NEW t \in Threads, NEW h \in OpenHandles, NEW own \in BOOLEAN, NEW recycled \in BOOLEAN,
         Enters(t, h, own, recycled), UNCHANGED path,
         subspace' \in Spaces \cup {NIL},
         \/ ~recycled /\ UNCHANGED subspace
         \/ /\ recycled /\ subspace # NIL /\ subspace.user = NIL /\ subspace.dtype = handle[h].dtype
            /\ subspace' # NIL /\ subspace'.user = t /\ subspace'.dtype = subspace.dtype
  PROVE  PyInv'
<1> DEFINE p == [handle[h] EXCEPT !.readers = @ \cup {t}]
           c == Using(h, own, recycled)
<1>1. /\ h \in Handles /\ handle[h] \in Pairs /\ handle[h].writer = NIL /\ handle[h].factor # NIL
      /\ call[t].at = "idle" /\ HandleOf(h)
  BY Parts DEF Enters, Shares, Resting
<1>2. Goes(t, c) /\ handle' = [handle EXCEPT ![h] = p]
  BY <1>1, Parts DEF Enters
<1>3. p \in Pairs /\ p.readers = handle[h].readers \cup {t} /\ p.dtype = handle[h].dtype
  BY <1>1 DEF Pairs
<1>4. call'[t] = c /\ handle'[h] = p /\ \A g \in Handles : g # h => handle'[g] = handle[g]
  BY <1>2, Parts DEF Goes
<1>5. \A u \in Threads : u # t => call'[u] = call[u]
  BY <1>2, Parts DEF Goes
<1>6. h \in OpenHandles'
  BY <1>1, <1>3, <1>4 DEF OpenHandles, HandlesAssumption
<1>7. CallOf(t)'
  <2>1. ~Replaying(h)
    BY <1>1 DEF Replaying
  <2>2. handle[h].served # NIL => handle[h].factor = handle[h].served /\ handle[h].a = handle[h].served
    BY <1>1, <2>1 DEF HandleOf
  <2>3. handle[h].served = NIL => path = "klu"
    BY <1>1, <2>1 DEF HandleOf
  <2>4. /\ c.at = "use" /\ c.h = h /\ c.own = own /\ c.recycled = recycled /\ c.saw.factor = handle[h].factor
        /\ c.saw.a = handle[h].a /\ c.saw.served = handle[h].served
    BY DEF Using
  <2>5. /\ p.factor = handle[h].factor /\ p.a = handle[h].a /\ p.served = handle[h].served
    BY <1>1 DEF Pairs
  <2> HIDE DEF c, p
  <2> QED
    BY <1>3, <1>4, <1>6, <2>2, <2>3, <2>4, <2>5 DEF CallOf, Borrows
<1>8. HandleOf(h)'
  <2>1. c.at = "use" /\ c.h = h
    BY DEF Using
  <2>2. p = [handle[h] EXCEPT !.readers = p.readers] /\ p.writer = NIL
    BY <1>1, <1>3 DEF Pairs
  <2>3. \A u \in p.readers : u \in Threads /\ (u # t => u \in handle[h].readers)
    BY <1>3 DEF Pairs
  <2>4. \A u \in p.readers : call'[u].at = "use" /\ call'[u].h = h
    BY <1>1, <1>4, <1>5, <2>1, <2>3 DEF HandleOf
  <2>5. ~Replaying(h) /\ ~Replaying(h)'
    BY <1>1, <1>4, <2>2 DEF Replaying
  <2> HIDE DEF c, p
  <2> QED
    BY <1>1, <1>4, <2>2, <2>4, <2>5 DEF HandleOf, FactorsIn, Pairs
<1>9. SpaceUsers'
  <2>1. CASE ~recycled
    <3>1. c.recycled = FALSE /\ ~InRecycled(t)
      BY <1>1, <2>1 DEF Using, InRecycled
    <3> HIDE DEF c, p
    <3> QED
      BY <1>1, <1>2, <1>3, <2>1, <3>1, SpaceAlone
  <2>2. CASE recycled
    <3>1. \A u \in Threads : ~InRecycled(u)
      BY <2>2, Parts DEF SpaceUsers, HandlesAssumption
    <3>2. InRecycled(t)' /\ call'[t].h = h
      BY <1>4, <2>2 DEF InRecycled, Using
    <3>3. \A u \in Threads : u # t => ~InRecycled(u)'
      BY <1>5, <3>1 DEF InRecycled
    <3> HIDE DEF c, p
    <3> QED
      BY <1>1, <1>3, <1>4, <2>2, <3>2, <3>3 DEF SpaceUsers
  <2> QED
    BY <2>1, <2>2
<1>10. p = [handle[h] EXCEPT !.readers = p.readers] /\ p.readers \ {t} = handle[h].readers \ {t}
  BY <1>1, <1>3 DEF Pairs
<1> HIDE DEF c, p
<1> QED
  BY <1>1, <1>2, <1>3, <1>7, <1>8, <1>9, <1>10, StepOnHandle DEF Borrows

LEMMA SolveBegins ==
  ASSUME HandlesAssumption, PyInv, NEW t \in Threads, NEW h \in OpenHandles, SolveMethods(t, h) \/ KrylovMethods(t, h)
  PROVE  PyInv'
<1>1. ASSUME NEW own \in BOOLEAN, Enters(t, h, own, FALSE), UNCHANGED <<path, subspace>> PROVE PyInv'
  BY <1>1, Parts, Entered
<1>2. ASSUME Recycles(t, h), UNCHANGED path PROVE PyInv'
  <2>1. PICK op \in Operators : Enters(t, h, op = "own", TRUE)
    BY <1>2 DEF Recycles
  <2>2. /\ subspace # NIL /\ subspace.user = NIL /\ subspace.dtype = handle[h].dtype
        /\ subspace' = [subspace EXCEPT !.user = t]
    BY <1>2 DEF Recycles
  <2>3. subspace' \in Spaces /\ subspace'.user = t /\ subspace'.dtype = subspace.dtype
    BY <2>2, Parts DEF Spaces
  <2>4. subspace' # NIL
    BY <2>3 DEF HandlesAssumption
  <2> QED
    BY <1>2, <2>1, <2>2, <2>3, <2>4, Entered
<1>3. CASE SolveMethods(t, h)
  <2>1. CASE Solve(t, h)
    <3>1. PICK corrections \in 0..1 : Enters(t, h, Refines(corrections), FALSE)
      BY <2>1 DEF Solve
    <3>2. Refines(corrections) \in BOOLEAN
      BY DEF Refines
    <3>3. UNCHANGED <<path, subspace>>
      BY <2>1 DEF Solve
    <3> QED
      BY <1>1, <3>1, <3>2, <3>3
  <2>2. CASE SolveTranspose(t, h) \/ SolveMany(t, h) \/ InverseOf(t, h)
    BY <1>1, <2>2 DEF SolveTranspose, SolveMany, InverseOf
  <2> QED
    BY <1>3, <2>1, <2>2 DEF SolveMethods
<1>4. CASE KrylovMethods(t, h)
  BY <1>1, <1>2, <1>4 DEF KrylovMethods, PyGmres, GmresBlock, Cocg, Cocr, Krylov
<1> QED
  BY <1>3, <1>4

\* It ends, and the subspace it renewed is free again.
LEMMA SolveEnds ==
  ASSUME HandlesAssumption, PyInv, NEW t \in Threads, Ends(t)
  PROVE  PyInv'
<1>1. /\ call[t].at = "use" /\ CallOf(t) /\ UNCHANGED path /\ Goes(t, Resting) /\ Renewed(t)
      /\ handle' = [handle EXCEPT ![call[t].h].readers = @ \ {t}]
  BY Parts DEF Ends, Returns
<1>2. PICK h \in OpenHandles : h = call[t].h
  BY <1>1 DEF CallOf, Borrows
<1> DEFINE p == [handle[h] EXCEPT !.readers = @ \ {t}]
<1>0. h \in Handles /\ handle[h] \in Pairs /\ HandleOf(h) /\ t \in handle[h].readers
  BY <1>1, <1>2, Parts DEF CallOf, Borrows
<1>3. handle' = [handle EXCEPT ![h] = p] /\ handle[h].writer = NIL
  BY <1>1, <1>0, <1>2 DEF HandleOf
<1>4. p \in Pairs /\ p.readers = handle[h].readers \ {t} /\ p.dtype = handle[h].dtype /\ p.writer = NIL
  BY <1>0, <1>2, <1>3 DEF Pairs
<1>5. call'[t] = Resting /\ handle'[h] = p /\ \A u \in Threads : u # t => call'[u] = call[u]
  BY <1>1, <1>0, <1>2, <1>3, Parts DEF Goes
<1>6. CallOf(t)'
  BY <1>5 DEF CallOf, Resting, Borrows
<1>7. p = [handle[h] EXCEPT !.readers = p.readers] /\ p.readers \ {t} = handle[h].readers \ {t}
  BY <1>0, <1>2, <1>4 DEF Pairs
<1> HIDE DEF p
<1>8. HandleOf(h)'
  <2>1. \A u \in p.readers : u \in Threads /\ u # t /\ u \in handle[h].readers
    BY <1>0, <1>2, <1>4 DEF Pairs
  <2>2. \A u \in p.readers : call'[u].at = "use" /\ call'[u].h = h
    BY <1>0, <1>2, <1>5, <2>1 DEF HandleOf
  <2>3. ~Replaying(h) /\ ~Replaying(h)'
    BY <1>3, <1>4, <1>5 DEF Replaying
  <2>4. UNCHANGED path
    BY <1>1
  <2> QED
    BY <1>0, <1>2, <1>4, <1>5, <1>7, <2>2, <2>3, <2>4 DEF HandleOf, FactorsIn, Pairs
<1>9. SpaceUsers' /\ subspace' \in Spaces \cup {NIL}
  <2>1. CASE ~call[t].recycled
    <3>1. UNCHANGED subspace
      BY <1>1, <2>1 DEF Renewed
    <3>2. Resting.at # "use" /\ ~InRecycled(t)
      BY <2>1 DEF Resting, InRecycled
    <3>3. SpaceUsers'
      BY <1>1, <1>0, <1>3, <1>4, <3>1, <3>2, SpaceAlone
    <3> QED
      BY <3>1, <3>3, Parts
  <2>2. CASE call[t].recycled
    <3>1. PICK k \in 0..MaxRecycled : subspace' = [subspace EXCEPT !.active = k, !.user = NIL]
      BY <1>1, <2>2 DEF Renewed
    <3>2. InRecycled(t) /\ subspace # NIL /\ subspace.user = t /\ subspace \in Spaces
      BY <1>1, <2>2, Parts DEF InRecycled, SpaceUsers
    <3>3. \A u \in Threads : u # t => ~InRecycled(u)
      BY <3>2, Parts DEF SpaceUsers
    <3>4. \A u \in Threads : ~InRecycled(u)'
      BY <1>5, <3>3 DEF InRecycled, Resting
    <3>5. subspace' \in Spaces /\ subspace'.user = NIL
      BY <3>1, <3>2 DEF Spaces
    <3> QED
      BY <3>4, <3>5 DEF SpaceUsers, HandlesAssumption
  <2> QED
    BY <2>1, <2>2
<1> QED
  BY <1>1, <1>0, <1>2, <1>3, <1>4, <1>6, <1>7, <1>8, <1>9, StepOnHandle DEF Borrows

\* A refactor keeps its handle to itself, from the conversion of its argument to
\* the end of the replay.
LEMMA WriterStep ==
  ASSUME HandlesAssumption, PyInv, NEW t \in Threads, NEW h \in OpenHandles, NEW c, NEW p \in Pairs,
         \/ call[t].at = "idle" /\ Takes(h)
         \/ call[t].at \in {"convert", "refactor"} /\ call[t].h = h,
         path \in {"klu", "auto"},
         UNCHANGED <<path, subspace>>, Goes(t, c), handle' = [handle EXCEPT ![h] = p],
         p.dtype = handle[h].dtype, p.factor_dtype = handle[h].factor_dtype, p.readers = handle[h].readers,
         \/ c.at = "idle" /\ p.writer = NIL
         \/ c.at \in {"convert", "refactor"} /\ c.h = h /\ p.writer = t,
         path = "auto" => p.loaded = p.a,
         c.at # "refactor" =>
           /\ p.served # NIL => p.factor = p.served /\ p.a = p.served
           /\ p.served = NIL /\ path = "auto" => p.factor = NIL
  PROVE  PyInv'
<1>1. h \in Handles /\ handle[h] \in Pairs /\ HandleOf(h) /\ CallOf(t)
  BY Parts
<1>2. handle[h].writer \in {t, NIL} /\ handle[h].readers = {}
  BY <1>1 DEF Takes, CallOf, HandleOf, HandlesAssumption
<1>3. call'[t] = c /\ handle'[h] = p
  BY <1>1, Parts DEF Goes
<1>4. h \in OpenHandles'
  BY <1>1, <1>3 DEF OpenHandles, HandlesAssumption
<1>5. CallOf(t)'
  BY <1>3, <1>4 DEF CallOf, Borrows
<1>6. HandleOf(h)'
  BY <1>1, <1>2, <1>3 DEF HandleOf, FactorsIn, Replaying, HandlesAssumption
<1>7. ~InRecycled(t) /\ c.at # "use"
  BY DEF InRecycled
<1>8. SpaceUsers'
  BY <1>1, <1>7, SpaceAlone
<1>9. call[t].at \in Borrows => call[t].h = h
  BY DEF Borrows
<1> QED
  BY <1>1, <1>2, <1>5, <1>6, <1>8, <1>9, Parts, StepOnHandle

\* The values are read and the handle's are written over.
LEMMA LoadsStep ==
  ASSUME HandlesAssumption, PyInv, NEW t \in Threads, NEW h \in OpenHandles, Loads(t, h),
         path \in {"klu", "auto"},
         \/ call[t].at = "idle" /\ Takes(h)
         \/ call[t].at = "convert" /\ call[t].h = h
  PROVE  PyInv'
<1>1. handle[h] \in Pairs /\ h \in Handles
  BY Parts
<1>2. PICK arg \in Given :
        handle' = [handle EXCEPT ![h] = [IF path = "klu" THEN KluLoads(h, arg.data)
                                                         ELSE AutoLoads(h, arg.data) EXCEPT !.writer = t]]
  BY DEF Loads
<1>3. arg.data \in Data
  BY DEF Given
<1> DEFINE q == IF path = "klu" THEN KluLoads(h, arg.data) ELSE AutoLoads(h, arg.data)
           p == [q EXCEPT !.writer = t]
           c == [at |-> "refactor", h |-> h]
<1>4. /\ q \in Pairs /\ q.dtype = handle[h].dtype /\ q.factor_dtype = handle[h].factor_dtype
      /\ q.readers = handle[h].readers /\ (path = "auto" => q.loaded = q.a)
  BY <1>1, <1>3 DEF KluLoads, AutoLoads, Pairs
<1> HIDE DEF q
<1>5. /\ p \in Pairs /\ p.dtype = handle[h].dtype /\ p.factor_dtype = handle[h].factor_dtype
      /\ p.readers = handle[h].readers /\ p.writer = t /\ (path = "auto" => p.loaded = p.a)
  BY <1>4 DEF Pairs
<1>6. Goes(t, c) /\ UNCHANGED <<path, subspace>>
  BY DEF Loads
<1>7. handle' = [handle EXCEPT ![h] = p]
  BY <1>2 DEF q
<1>8. c.at = "refactor" /\ c.h = h
  OBVIOUS
<1> HIDE DEF p, c
<1> QED
  BY <1>5, <1>6, <1>7, <1>8, WriterStep

\* The step of a refactor that has a handle's writer only come or go.
LEMMA WriterAlone ==
  ASSUME HandlesAssumption, PyInv, NEW t \in Threads, NEW h \in OpenHandles, NEW c, NEW w \in Threads \cup {NIL},
         \/ call[t].at = "idle" /\ Takes(h)
         \/ call[t].at = "convert" /\ call[t].h = h,
         path \in {"klu", "auto"},
         UNCHANGED <<path, subspace>>, Goes(t, c), handle' = [handle EXCEPT ![h].writer = w],
         \/ c.at = "idle" /\ w = NIL
         \/ c.at = "convert" /\ c.h = h /\ w = t
  PROVE  PyInv'
<1>1. handle[h] \in Pairs /\ h \in Handles /\ HandleOf(h) /\ CallOf(t)
  BY Parts
<1> DEFINE p == [handle[h] EXCEPT !.writer = w]
<1>2. p \in Pairs /\ p.writer = w /\ p = [handle[h] EXCEPT !.writer = p.writer]
  BY <1>1 DEF Pairs
<1>3. handle' = [handle EXCEPT ![h] = p]
  BY <1>1
<1>4. ~Replaying(h)
  BY <1>1 DEF Replaying, Takes, CallOf
<1> HIDE DEF p
<1>5. /\ p.dtype = handle[h].dtype /\ p.factor_dtype = handle[h].factor_dtype /\ p.readers = handle[h].readers
      /\ p.loaded = handle[h].loaded /\ p.a = handle[h].a /\ p.served = handle[h].served /\ p.factor = handle[h].factor
  BY <1>1, <1>2 DEF Pairs
<1>6. /\ path = "auto" => p.loaded = p.a
      /\ p.served # NIL => p.factor = p.served /\ p.a = p.served
      /\ p.served = NIL /\ path = "auto" => p.factor = NIL
  BY <1>1, <1>4, <1>5 DEF HandleOf
<1> QED
  BY <1>2, <1>3, <1>5, <1>6, WriterStep

LEMMA RefactorBegins ==
  ASSUME HandlesAssumption, PyInv, NEW t \in Threads, NEW h \in OpenHandles, Refactors(t, h)
  PROVE  PyInv'
<1>1. path \in {"klu", "auto"} /\ RefactorOf(t, h)
  BY DEF Refactors, KluRefactor, AutoRefactor
<1>2. call[t].at = "idle" /\ Takes(h) /\ (Converts(t, h) \/ Loads(t, h))
  BY <1>1 DEF RefactorOf, Resting
<1>3. CASE Loads(t, h)
  BY <1>1, <1>2, <1>3, LoadsStep
<1>4. CASE Converts(t, h)
  <2> DEFINE c == [at |-> "convert", h |-> h]
  <2>1. c.at = "convert" /\ c.h = h
    OBVIOUS
  <2>2. Goes(t, c) /\ UNCHANGED <<path, subspace>> /\ handle' = [handle EXCEPT ![h].writer = t]
    BY <1>4 DEF Converts
  <2> HIDE DEF c
  <2> QED
    BY <1>1, <1>2, <2>1, <2>2, WriterAlone
<1> QED
  BY <1>2, <1>3, <1>4

LEMMA RefactorGoesOn ==
  ASSUME HandlesAssumption, PyInv, NEW t \in Threads, Converted(t) \/ Refactored(t) \/ NotRefactored(t)
  PROVE  PyInv'
<1>1. call[t].at \in {"convert", "refactor"} /\ CallOf(t)
  BY Parts DEF Converted, Refactored, NotRefactored
<1>2. PICK h \in OpenHandles : h = call[t].h
  BY <1>1 DEF CallOf, Borrows
<1>3. handle[h] \in Pairs /\ h \in Handles /\ HandleOf(h) /\ path \in {"klu", "auto"} /\ handle[h].writer = t
  BY <1>1, <1>2, Parts DEF CallOf
<1>4. CASE Converted(t) /\ Loads(t, h)
  BY <1>2, <1>3, <1>4, LoadsStep DEF Converted
<1>5. CASE Converted(t) /\ Refused(t, h)
  <2>1. Goes(t, Resting) /\ UNCHANGED <<path, subspace>> /\ handle' = [handle EXCEPT ![h].writer = NIL]
    BY <1>5 DEF Refused, Returns
  <2>2. Resting.at = "idle" /\ call[t].at = "convert"
    BY <1>5 DEF Resting, Converted
  <2> QED
    BY <1>2, <1>3, <2>1, <2>2, WriterAlone
<1>6. CASE Refactored(t)
  <2> DEFINE f == IF path = "klu" THEN handle[h].a ELSE handle[h].loaded
             p == [handle[h] EXCEPT !.factor = f, !.served = handle[h].a, !.writer = NIL]
  <2>1. handle' = [handle EXCEPT ![h] = p]
    BY <1>2, <1>3, <1>6 DEF Refactored
  <2>2. Goes(t, Resting) /\ UNCHANGED <<path, subspace>>
    BY <1>6 DEF Refactored, Returns
  <2>3. f = handle[h].a
    BY <1>3 DEF HandleOf
  <2> HIDE DEF f
  <2>4. /\ p \in Pairs /\ p.writer = NIL /\ p.factor = p.a /\ p.served = p.a
        /\ p.dtype = handle[h].dtype /\ p.factor_dtype = handle[h].factor_dtype /\ p.readers = handle[h].readers
        /\ p.loaded = handle[h].loaded /\ p.a = handle[h].a
    BY <1>3, <2>3 DEF Pairs
  <2> HIDE DEF p
  <2>5. p.a \in Data /\ Resting.at = "idle" /\ p.served # NIL
    BY <2>4 DEF Pairs, Resting, HandlesAssumption
  <2>6. path = "auto" => p.loaded = p.a
    BY <1>3, <2>4 DEF HandleOf
  <2> QED
    BY <1>1, <1>2, <1>3, <2>1, <2>2, <2>4, <2>5, <2>6, WriterStep
<1>7. CASE NotRefactored(t)
  <2> DEFINE p == [handle[h] EXCEPT !.factor = LeftBehind, !.served = NIL, !.writer = NIL]
  <2>1. handle' = [handle EXCEPT ![h] = p]
    BY <1>2, <1>3, <1>7 DEF NotRefactored
  <2>2. Goes(t, Resting) /\ UNCHANGED <<path, subspace>>
    BY <1>7 DEF NotRefactored, Returns
  <2>3. LeftBehind \in {SPOILED, NIL} /\ (path = "auto" => LeftBehind = NIL)
    BY DEF LeftBehind
  <2>4. /\ p \in Pairs /\ p.writer = NIL /\ p.factor = LeftBehind /\ p.served = NIL
        /\ p.dtype = handle[h].dtype /\ p.factor_dtype = handle[h].factor_dtype /\ p.readers = handle[h].readers
        /\ p.loaded = handle[h].loaded /\ p.a = handle[h].a
    BY <1>3, <2>3 DEF Pairs
  <2> HIDE DEF p
  <2>5. Resting.at = "idle"
    BY DEF Resting
  <2>6. path = "auto" => p.loaded = p.a
    BY <1>3, <2>4 DEF HandleOf
  <2> QED
    BY <1>1, <1>2, <1>3, <2>1, <2>2, <2>3, <2>4, <2>5, <2>6, WriterStep
<1> QED
  BY <1>2, <1>4, <1>5, <1>6, <1>7 DEF Converted

\* Calls that touch neither handle nor subspace.
LEMMA OtherCalls ==
  ASSUME HandlesAssumption, PyInv, NEW t \in Threads,
         Analyzes(t) \/ Factors(t) \/ OneShots(t) \/ Plain(t) \/ Analyzed(t) \/ NotFactored(t) \/ PlainEnds(t)
  PROVE  PyInv'
<1>1. CASE Analyzes(t)
  <2>1. Analyze(t)
    BY <1>1 DEF Analyzes, AnalyzeLdlt, AnalyzeLu, AnalyzeKlu, AnalyzeAuto
  <2> DEFINE c == [at |-> "analyze", then |-> NIL]
  <2>2. call[t].at = "idle" /\ Goes(t, c) /\ UNCHANGED <<path, handle, subspace>>
    BY <2>1 DEF Analyze, Resting
  <2>3. c.at = "analyze" /\ c.then = NIL
    OBVIOUS
  <2> HIDE DEF c
  <2> QED
    BY <2>2, <2>3, StepAside DEF Borrows
<1>2. ASSUME NEW arg \in Given, NEW lower \in FactorsIn(arg.dtype), call[t] = Resting,
             Goes(t, Factoring(arg, lower)), UNCHANGED <<path, handle, subspace>>
      PROVE  PyInv'
  <2>1. Factoring(arg, lower).at = "factor" /\ MayFactor(Factoring(arg, lower))
    BY DEF Factoring, MayFactor, Given
  <2>2. call[t].at = "idle"
    BY <1>2 DEF Resting
  <2> QED
    BY <1>2, <2>1, <2>2, StepAside DEF Borrows
<1>3. CASE Factors(t)
  <2>1. FactorOf(t)
    BY <1>3 DEF Factors, LdltFactor, LuFactor, KluFactor, AutoFactor
  <2> QED
    BY <1>2, <2>1 DEF FactorOf
<1>4. CASE OneShots(t)
  <2>1. CASE InOne(t)
    <3>1. \A arg \in Given : arg.dtype \in FactorsIn(arg.dtype)
      BY DEF FactorsIn
    <3> QED
      BY <1>2, <2>1, <3>1 DEF InOne
  <2>2. CASE InTwo(t)
    <3>1. PICK arg \in Given, lower \in ArgDtypes : Goes(t, [at |-> "analyze", then |-> Factoring(arg, lower)])
      BY <2>2 DEF InTwo
    <3> DEFINE c == [at |-> "analyze", then |-> Factoring(arg, lower)]
    <3>2. call[t].at = "idle" /\ Goes(t, c) /\ UNCHANGED <<path, handle, subspace>>
      BY <2>2, <3>1 DEF InTwo, Resting
    <3>3. c.at = "analyze" /\ c.then.at = "factor" /\ c.then.dtype \in ArgDtypes /\ c.then.data \in Data
      BY DEF Factoring, Given
    <3> HIDE DEF c
    <3> QED
      BY <3>2, <3>3, StepAside DEF Borrows
  <2> QED
    BY <1>4, <2>1, <2>2 DEF OneShots, LdltOneShot, LuOneShot, KluOneShot, AutoOneShot
<1>5. CASE Plain(t)
  <2> DEFINE c == [at |-> "plain"]
  <2>1. call[t].at = "idle" /\ Goes(t, c) /\ UNCHANGED <<path, handle, subspace>> /\ c.at = "plain"
    BY <1>5 DEF Plain, Resting
  <2> HIDE DEF c
  <2> QED
    BY <2>1, StepAside DEF Borrows
<1>6. ASSUME call[t].at \in {"analyze", "factor", "plain"}, Goes(t, Resting), UNCHANGED <<path, handle, subspace>>
      PROVE  PyInv'
  <2>1. Resting.at = "idle"
    BY DEF Resting
  <2> QED
    BY <1>6, <2>1, StepAside DEF Borrows
<1>7. CASE NotFactored(t) \/ PlainEnds(t)
  BY <1>6, <1>7 DEF NotFactored, PlainEnds, Returns
<1>8. CASE Analyzed(t)
  <2>1. call[t].at = "analyze" /\ CallOf(t) /\ UNCHANGED <<path, handle, subspace>>
    BY <1>8, Parts DEF Analyzed
  <2>2. CASE call[t].then = NIL
    BY <1>6, <1>8, <2>1, <2>2 DEF Analyzed, Returns
  <2>3. CASE call[t].then # NIL
    <3> DEFINE f == call[t].then
    <3>1. Goes(t, IF f.lower \in FactorsIn(f.dtype) THEN f ELSE Resting)
      BY <1>8, <2>3 DEF Analyzed
    <3>2. f.at = "factor" /\ f.dtype \in ArgDtypes /\ f.data \in Data
      BY <2>1, <2>3 DEF CallOf
    <3>3. CASE f.lower \in FactorsIn(f.dtype)
      <4>1. Goes(t, f) /\ MayFactor(f)
        BY <3>1, <3>2, <3>3 DEF MayFactor
      <4> HIDE DEF f
      <4> QED
        BY <2>1, <3>2, <4>1, StepAside DEF Borrows
    <3>4. CASE f.lower \notin FactorsIn(f.dtype)
      BY <1>6, <2>1, <3>1, <3>4
    <3> QED
      BY <3>3, <3>4
  <2> QED
    BY <2>2, <2>3
<1> QED
  BY <1>1, <1>3, <1>4, <1>5, <1>7, <1>8

\* A subspace is made, or emptied, in nobody's hands.
LEMMA SpaceCalls ==
  ASSUME HandlesAssumption, PyInv, NEW t \in Threads, Clear(t) \/ \E h \in OpenHandles : NewRecycle(t, h)
  PROVE  PyInv'
<1>1. UNCHANGED <<path, handle, call>>
  BY DEF Clear, NewRecycle
<1>2. subspace' \in Spaces /\ subspace'.user = NIL
  <2>1. CASE Clear(t)
    <3>1. subspace \in Spaces /\ subspace.user = NIL /\ subspace' = [subspace EXCEPT !.active = 0]
      BY <2>1, Parts DEF Clear
    <3>2. 0 \in 0..MaxRecycled
      BY DEF HandlesAssumption
    <3> QED
      BY <3>1, <3>2 DEF Spaces
  <2>2. ASSUME NEW h \in OpenHandles, NewRecycle(t, h) PROVE subspace' \in Spaces /\ subspace'.user = NIL
    <3>1. handle[h].dtype \in ArgDtypes
      BY Parts DEF Pairs
    <3>2. 0 \in 0..MaxRecycled
      BY DEF HandlesAssumption
    <3> QED
      BY <2>2, <3>1, <3>2 DEF NewRecycle, Spaces
  <2> QED
    BY <2>1, <2>2
<1>3. \A u \in Threads : ~InRecycled(u)
  BY Parts DEF SpaceUsers, HandlesAssumption, Clear, NewRecycle
<1>4. \A u \in Threads : ~InRecycled(u)'
  BY <1>1, <1>3 DEF InRecycled
<1>5. SpaceUsers'
  BY <1>2, <1>4 DEF SpaceUsers, HandlesAssumption
<1>6. PyTypes'
  BY <1>1, <1>2, Parts DEF PyTypes
<1>7. OpenHandles' = OpenHandles
  BY <1>1 DEF OpenHandles
<1>8. \A u \in Threads : CallOf(u)'
  BY <1>1, <1>7, Parts DEF CallOf, MayFactor, FactorsIn
<1>9. \A h \in OpenHandles : HandleOf(h)'
  BY <1>1, Parts DEF HandleOf, FactorsIn, Replaying
<1> QED
  BY <1>5, <1>6, <1>7, <1>8, <1>9 DEF PyInv

LEMMA PyStep == ASSUME HandlesAssumption PROVE PyInv /\ [PyNext]_pyVars => PyInv'
<1> SUFFICES ASSUME PyInv, [PyNext]_pyVars PROVE PyInv'
  OBVIOUS
<1>1. CASE PyNext
  <2> SUFFICES ASSUME NEW t \in Threads,
                      \/ Analyzes(t) \/ Factors(t) \/ OneShots(t) \/ Plain(t) \/ OffTheLock(t) \/ Clear(t)
                      \/ \E h \in OpenHandles : SolveMethods(t, h) \/ KrylovMethods(t, h) \/ Refactors(t, h)
                                          \/ NewRecycle(t, h) \/ Dropped(t, h)
               PROVE  PyInv'
    BY <1>1 DEF PyNext
  <2>1. CASE Analyzes(t) \/ Factors(t) \/ OneShots(t) \/ Plain(t)
    BY <2>1, OtherCalls
  <2>2. CASE OffTheLock(t)
    BY <2>2, OtherCalls, MadeHandle, RefactorGoesOn, SolveEnds DEF OffTheLock
  <2>3. CASE Clear(t)
    BY <2>3, SpaceCalls
  <2>4. ASSUME NEW h \in OpenHandles, SolveMethods(t, h) \/ KrylovMethods(t, h) \/ Refactors(t, h)
                                \/ NewRecycle(t, h) \/ Dropped(t, h)
        PROVE  PyInv'
    BY <2>4, SolveBegins, RefactorBegins, SpaceCalls, DroppedHandle
  <2> QED
    BY <2>1, <2>2, <2>3, <2>4
<1>2. CASE UNCHANGED pyVars
  <2>1. UNCHANGED <<path, handle, subspace, call>>
    BY <1>2 DEF pyVars
  <2>2. OpenHandles' = OpenHandles
    BY <2>1 DEF OpenHandles
  <2>3. PyTypes' /\ SpaceUsers'
    BY <2>1, Parts DEF PyTypes, SpaceUsers, InRecycled
  <2>4. \A u \in Threads : CallOf(u)'
    BY <2>1, <2>2, Parts DEF CallOf, MayFactor, FactorsIn
  <2>5. \A h \in OpenHandles : HandleOf(h)'
    BY <2>1, Parts DEF HandleOf, FactorsIn, Replaying
  <2> QED
    BY <2>2, <2>3, <2>4, <2>5 DEF PyInv
<1> QED
  BY <1>1, <1>2

LEMMA HandlesSound == ASSUME HandlesAssumption PROVE PyInv => HandlesAreSound
<1> SUFFICES ASSUME PyInv PROVE HandlesAreSound
  OBVIOUS
<1>1. AnswersAreOfOneMatrix
  <2> SUFFICES ASSUME NEW t \in Threads, call[t].at = "use"
               PROVE  LET h == handle[call[t].h]
                          saw == call[t].saw
                      IN /\ h.factor = saw.factor /\ h.served = saw.served
                         /\ IF saw.served = NIL THEN path = "klu"
                            ELSE saw.factor = saw.served /\ (call[t].own => h.a = saw.a /\ saw.a = saw.served)
    BY DEF AnswersAreOfOneMatrix
  <2> QED
    BY Parts DEF CallOf
<1>2. HandleIsWhole
  <2> SUFFICES ASSUME NEW h \in OpenHandles
               PROVE  LET p == handle[h] IN
                      /\ p.factor_dtype \in FactorsIn(p.dtype)
                      /\ p.writer = NIL =>
                           /\ p.served # NIL => Answer(h) = p.served /\ p.a = p.served
                           /\ p.served = NIL /\ path = "auto" => Det(h) = NIL /\ Backend(h) = NIL
                           /\ path = "auto" => p.loaded = p.a
                      /\ p.writer # NIL => p.readers = {} /\ LogDet(h) = NIL
    BY DEF HandleIsWhole
  <2>1. HandleOf(h)
    BY Parts
  <2> QED
    BY <2>1 DEF HandleOf, Replaying, Answer, LogDet, Det, Backend, Shares
<1>3. SubspaceHasOneUser
  <2> SUFFICES ASSUME subspace # NIL
               PROVE  LET users == {t \in Threads : call[t].at = "use" /\ call[t].recycled} IN
                      /\ users = {subspace.user} \ {NIL}
                      /\ \A t \in users : handle[call[t].h].dtype = subspace.dtype /\ Active = NIL
                      /\ subspace.active <= MaxRecycled
    BY DEF SubspaceHasOneUser
  <2>1. subspace \in Spaces
    BY Parts
  <2>2. subspace.user \in Threads \cup {NIL} /\ subspace.active <= MaxRecycled
    BY <2>1 DEF Spaces, HandlesAssumption
  <2> QED
    BY <2>2, Parts DEF SpaceUsers, InRecycled, Active, HandlesAssumption
<1> QED
  BY <1>1, <1>2, <1>3 DEF HandlesAreSound

\* Whatever the Python threads call and in whatever order the interpreter lock
\* passes among them: what a call reads off the lock stays, a handle that answers
\* is of one value set, and a subspace has one user.
THEOREM HandlesStaySound == ASSUME HandlesAssumption PROVE PySpec => []HandlesAreSound
<1>1. PyInit => PyInv  BY PyStarts
<1>2. PyInv /\ [PyNext]_pyVars => PyInv'  BY PyStep
<1>3. PyInv => HandlesAreSound  BY HandlesSound
<1> QED  BY <1>1, <1>2, <1>3, PTL DEF PySpec
=============================================================================

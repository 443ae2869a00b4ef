---------------------------- MODULE PythonHandles ----------------------------
(***************************************************************************)
(* The Python classes (python/src): an analysis, the factor handles made   *)
(* on it or in one call, and a recycled subspace, shared by Python threads.*)
(*                                                                         *)
(* A method runs under the interpreter lock (the GIL) except where it      *)
(* gives it up: for the numeric work, on copies of its arguments, and in   *)
(* the Python code that brings a SciPy matrix into canonical form.  What   *)
(* runs between is one step.  A method borrows its object for the whole    *)
(* call, shared or (refactor) exclusively; a borrow that cannot be had is  *)
(* an error at once, nobody waits.                                         *)
(*                                                                         *)
(* A call that is refused before it changed anything is no step: its       *)
(* checks are guards.  Numbers, shapes and settings are abstracted; a      *)
(* factor is named by the value set it is of.                              *)
(***************************************************************************)
EXTENDS Naturals

CONSTANTS
  Threads,     \* Python threads
  Path,        \* the classes in use: one of AllPaths
  ArgDtypes,   \* the dtypes of the arrays passed in
  Data,        \* value sets of the pattern
  Factorable,  \* those a fresh factorization succeeds on
  OrderServes, \* <<o, v>>: KLU's pivot order of o replays on v
  Handles,     \* the handles there may be at a time (a bound of the model)
  MaxRecycled, \* the dimension of the recycled subspace
  NIL, SPOILED

AllPaths == {"ldlt", "lu", "klu", "auto"}
Dtypes == {"float64", "float32", "complex128", "complex64"}

VARIABLES
  path,      \* the path of this behaviour, fixed
  analyzed,  \* whether there is an analysis
  handle,    \* the handles a name of which is left, or NIL
  subspace,  \* PyRecycle, or NIL
  call       \* what each thread is doing

\* A handle's fields and the subspace's (Pair, NewRecycle).
Pairs ==
  [dtype : ArgDtypes, factor_dtype : ArgDtypes \cup Dtypes, a : Data, loaded : Data,
   factor : Data \cup {NIL, SPOILED}, order : Data, served : Data \cup {NIL},
   readers : SUBSET Threads, writer : Threads \cup {NIL}]
Spaces == [dtype : ArgDtypes, active : 0..MaxRecycled, user : Threads \cup {NIL}]

\* NIL and SPOILED are none of the values of the model.
HandlesAssumption ==
  /\ Path \subseteq AllPaths /\ MaxRecycled \in Nat
  /\ NIL \notin Pairs \cup Spaces \cup Threads \cup Data \cup {SPOILED}
  /\ SPOILED \notin Data

pyVars == <<path, analyzed, handle, subspace, call>>

Resting == [at |-> "idle"]

PyInit ==
  /\ path \in Path
  /\ analyzed = FALSE /\ handle = [h \in Handles |-> NIL] /\ subspace = NIL
  /\ call = [t \in Threads |-> Resting]

Goes(t, c) == call' = [call EXCEPT ![t] = c]
Returns(t) == Goes(t, Resting)

-----------------------------------------------------------------------------
(***************************************************************************)
(* Arguments.                                                              *)
(***************************************************************************)
Supported(dtype) == dtype \in Dtypes
Twin(dtype) ==
  CASE dtype = "float64" -> {"float32"} [] dtype = "complex128" -> {"complex64"} [] OTHER -> {}
\* What factor_dtype may ask for (no_twin refuses the rest).
FactorsIn(dtype) == {dtype} \cup (IF path \in {"ldlt", "lu"} THEN Twin(dtype) ELSE {})

\* Values come as an array, read at once, or as a SciPy matrix, whose canonical
\* form is Python's to make: other threads run meanwhile.
Forms == {"array", "matrix"}
ThroughPython(form) == form = "matrix"

\* The values read in `dtype': of that dtype, and of the pattern (a matrix) or of
\* its length (an array).
Reads(given, dtype) == given.dtype = dtype /\ given.fits
Given == [dtype : ArgDtypes, fits : BOOLEAN, data : Data]

\* A right-hand side, or a block of them, is copied out; a start of other shape
\* is refused.
Copied(given, dtype) == given = dtype
Starts == {"none", "fits", "other"}
CopiedBlock(given, start, dtype) == Copied(given, dtype) /\ start # "other"

-----------------------------------------------------------------------------
(***************************************************************************)
(* Handles.                                                                *)
(***************************************************************************)
\* Pair::new.  `a' is the matrix kept for residuals and as the operator,
\* `loaded' the solver's own values (AutoSolver's), `order' what KLU's pivot
\* order was found on.  History: `served', the value set last factored with
\* success, NIL after a refactor that raised.
Pair(dtype, lower, data) ==
  [dtype |-> dtype, factor_dtype |-> lower, a |-> data, loaded |-> data, factor |-> data,
   order |-> data, served |-> data, readers |-> {}, writer |-> NIL]

Shares(h) == handle[h].writer = NIL
\* Of a mutant: a refactor through a shared borrow.
TakesShared(h) == handle[h].writer = NIL
Takes(h) == handle[h].writer = NIL /\ handle[h].readers = {}

OpenHandles == {h \in Handles : handle[h] # NIL}
Made(dtype, lower, data) ==
  \E h \in Handles \ OpenHandles : handle' = [handle EXCEPT ![h] = Pair(dtype, lower, data)]

\* The last name of a handle goes: nobody is in a call of it.
Dropped(t, h) ==
  /\ call[t] = Resting /\ Takes(h)
  /\ handle' = [handle EXCEPT ![h] = NIL]
  /\ UNCHANGED <<path, analyzed, subspace, call>>

\* What a method that keeps the GIL finds in the factor: NIL where it raises.
Answer(h) == IF Shares(h) THEN handle[h].factor ELSE NIL
LogDet(h) == Answer(h)
Det(h) == LogDet(h)
Backend(h) == IF path = "auto" THEN Answer(h) ELSE NIL

-----------------------------------------------------------------------------
(***************************************************************************)
(* Analyses and factorizations.                                            *)
(***************************************************************************)
\* The analysis reads the pattern, of LDL^T the lower triangle's; on the automatic
\* path the values too.
Analyze(t) ==
  /\ call[t] = Resting /\ ~analyzed /\ \E given \in Given : Supported(given.dtype) /\ given.fits
  /\ Goes(t, [at |-> "analyze", then |-> NIL])
  /\ UNCHANGED <<path, analyzed, handle, subspace>>
AnalyzeLdlt(t) == path = "ldlt" /\ Analyze(t)
AnalyzeLu(t) == path = "lu" /\ Analyze(t)
AnalyzeKlu(t) == path = "klu" /\ Analyze(t)
AnalyzeAuto(t) == path = "auto" /\ Analyze(t)

\* A factorization of `data' off the GIL, to be kept in `lower'.
Factoring(given, lower) == [at |-> "factor", dtype |-> given.dtype, lower |-> lower, data |-> given.data]

\* factor on the analysis, which every thread may read: where Python code makes
\* the canonical form it changes nothing that is shared.
FactorOf(t) ==
  /\ call[t] = Resting /\ analyzed
  /\ \E given \in Given : \E lower \in FactorsIn(given.dtype) :
       Supported(given.dtype) /\ Reads(given, given.dtype) /\ Goes(t, Factoring(given, lower))
  /\ UNCHANGED <<path, analyzed, handle, subspace>>
LdltFactor(t) == path = "ldlt" /\ FactorOf(t)
LuFactor(t) == path = "lu" /\ FactorOf(t)
KluFactor(t) == path = "klu" /\ FactorOf(t)
AutoFactor(t) == path = "auto" /\ FactorOf(t)

\* The one-shot functions.  LDL^T and LU analyze and factor in two runs off the
\* GIL, factor_dtype looked at between; KLU and the automatic path in one.
InTwo(t) ==
  /\ call[t] = Resting
  /\ \E given \in Given, lower \in ArgDtypes :
       Supported(given.dtype) /\ given.fits
       /\ Goes(t, [at |-> "analyze", then |-> Factoring(given, lower)])
  /\ UNCHANGED <<path, analyzed, handle, subspace>>
InOne(t) ==
  /\ call[t] = Resting
  /\ \E given \in Given : Supported(given.dtype) /\ given.fits /\ Goes(t, Factoring(given, given.dtype))
  /\ UNCHANGED <<path, analyzed, handle, subspace>>
LdltOneShot(t) == path = "ldlt" /\ InTwo(t)
LuOneShot(t) == path = "lu" /\ InTwo(t)
KluOneShot(t) == path = "klu" /\ InOne(t)
AutoOneShot(t) == path = "auto" /\ InOne(t)

Analyzed(t) ==
  /\ call[t].at = "analyze"
  /\ IF call[t].then = NIL THEN analyzed' = TRUE /\ Returns(t)
     ELSE LET f == call[t].then IN
          /\ Goes(t, IF f.lower \in FactorsIn(f.dtype) THEN f ELSE Resting)
          /\ UNCHANGED analyzed
  /\ UNCHANGED <<path, handle, subspace>>

Factored(t) ==
  /\ call[t].at = "factor" /\ call[t].data \in Factorable
  /\ Made(call[t].dtype, call[t].lower, call[t].data)
  /\ Returns(t) /\ UNCHANGED <<path, analyzed, subspace>>

\* The factorization fails: on its values, or as the interrupt flag it polls was
\* raised, which may happen to any.
NotFactored(t) ==
  /\ call[t].at = "factor"
  /\ Returns(t) /\ UNCHANGED <<path, analyzed, handle, subspace>>

-----------------------------------------------------------------------------
(***************************************************************************)
(* refactor, of Klu and Auto: the borrow is held over the conversion, the  *)
(* checks, the copy of the values and the replay.                          *)
(***************************************************************************)
\* A value set equal to the last one factored keeps its factor on the automatic
\* path; any other is written over from here on.
OrderKept(h, data) == path = "auto" /\ handle[h].factor = data
KluLoads(h, data) == [handle[h] EXCEPT !.a = data, !.factor = SPOILED]
AutoLoads(h, data) ==
  [handle[h] EXCEPT !.a = data, !.loaded = data, !.factor = IF OrderKept(h, data) THEN data ELSE SPOILED]

Loads(t, h) ==
  /\ \E given \in Given :
       /\ Reads(given, handle[h].dtype)
       /\ handle' = [handle EXCEPT ![h] = [IF path = "klu" THEN KluLoads(h, given.data)
                                                            ELSE AutoLoads(h, given.data) EXCEPT !.writer = t]]
  /\ Goes(t, [at |-> "refactor", h |-> h])
  /\ UNCHANGED <<path, analyzed, subspace>>

Converts(t, h) ==
  /\ handle' = [handle EXCEPT ![h].writer = t]
  /\ Goes(t, [at |-> "convert", h |-> h])
  /\ UNCHANGED <<path, analyzed, subspace>>
RefactorOf(t, h) ==
  /\ call[t] = Resting /\ Takes(h)
  /\ \E form \in Forms : IF ThroughPython(form) THEN Converts(t, h) ELSE Loads(t, h)
KluRefactor(t, h) == path = "klu" /\ RefactorOf(t, h)
AutoRefactor(t, h) == path = "auto" /\ RefactorOf(t, h)

\* Values that are refused leave the handle as it was.
Refused(t, h) ==
  /\ \E given \in Given : ~Reads(given, handle[h].dtype)
  /\ handle' = [handle EXCEPT ![h].writer = NIL]
  /\ Returns(t) /\ UNCHANGED <<path, analyzed, subspace>>
Converted(t) ==
  /\ call[t].at = "convert"
  /\ LET h == call[t].h IN Loads(t, h) \/ Refused(t, h)

\* KLU keeps its pivot order; the automatic path factors afresh where the order
\* does not serve.
Succeeds(h) ==
  IF path = "klu" THEN <<handle[h].order, handle[h].a>> \in OrderServes
  ELSE handle[h].factor = handle[h].loaded \/ handle[h].loaded \in Factorable
Refactored(t) ==
  /\ call[t].at = "refactor"
  /\ LET h == call[t].h IN
     /\ Succeeds(h)
     /\ handle' = [handle EXCEPT ![h].factor = IF path = "klu" THEN handle[h].a ELSE handle[h].loaded,
                                 ![h].served = handle[h].a, ![h].writer = NIL]
  /\ Returns(t) /\ UNCHANGED <<path, analyzed, subspace>>

\* KLU's factor stays behind as far as it was replayed, and nothing tells it from
\* a whole one; an automatic solver holds none.
LeftBehind == IF path = "klu" THEN SPOILED ELSE NIL
NotRefactored(t) ==
  /\ call[t].at = "refactor"
  /\ LET h == call[t].h IN
     /\ handle[h].factor = SPOILED
     /\ handle' = [handle EXCEPT ![h].factor = LeftBehind, ![h].served = NIL, ![h].writer = NIL]
  /\ Returns(t) /\ UNCHANGED <<path, analyzed, subspace>>

-----------------------------------------------------------------------------
(***************************************************************************)
(* Solves and Krylov methods, off the GIL on the handle's own factor: `own'*)
(* says that the call reads the handle's matrix as well, `recycled' that it*)
(* holds the subspace.  `saw' is what they find when they begin.           *)
(***************************************************************************)
Using(h, own, recycled) ==
  [at |-> "use", h |-> h, own |-> own, recycled |-> recycled,
   saw |-> [factor |-> handle[h].factor, a |-> handle[h].a, served |-> handle[h].served]]

\* A solver that holds no factor refuses.
Enters(t, h, own, recycled) ==
  /\ call[t] = Resting /\ Shares(h) /\ handle[h].factor # NIL
  /\ \E rhs \in ArgDtypes : Copied(rhs, handle[h].dtype)
  /\ Goes(t, Using(h, own, recycled))
  /\ handle' = [handle EXCEPT ![h].readers = @ \cup {t}]

Refines(steps) == steps > 0
Solve(t, h) ==
  /\ \E steps \in 0..1 : Enters(t, h, Refines(steps), FALSE)
  /\ UNCHANGED <<path, analyzed, subspace>>
SolveTranspose(t, h) == Enters(t, h, FALSE, FALSE) /\ UNCHANGED <<path, analyzed, subspace>>
SolveMany(t, h) == Enters(t, h, FALSE, FALSE) /\ UNCHANGED <<path, analyzed, subspace>>
InverseOf(t, h) == Enters(t, h, FALSE, FALSE) /\ UNCHANGED <<path, analyzed, subspace>>

\* The operator is the handle's matrix unless another is given, which is checked.
Operators == {"own", "given"}
Krylov(t, h) == \E op \in Operators : Enters(t, h, op = "own", FALSE)
Cocg(t, h) == Krylov(t, h) /\ UNCHANGED <<path, analyzed, subspace>>
Cocr(t, h) == Krylov(t, h) /\ UNCHANGED <<path, analyzed, subspace>>
GmresBlock(t, h) ==
  /\ \E rhs \in ArgDtypes, start \in Starts : CopiedBlock(rhs, start, handle[h].dtype)
  /\ Krylov(t, h) /\ UNCHANGED <<path, analyzed, subspace>>

\* With a subspace: nobody else may hold it, and its field is the handle's.
Recycles(t, h) ==
  /\ subspace # NIL /\ subspace.user = NIL /\ subspace.dtype = handle[h].dtype
  /\ \E op \in Operators : Enters(t, h, op = "own", TRUE)
  /\ subspace' = [subspace EXCEPT !.user = t]
PyGmres(t, h) ==
  /\ Recycles(t, h) \/ (Krylov(t, h) /\ UNCHANGED subspace)
  /\ UNCHANGED <<path, analyzed>>

\* The module's own functions: a matrix passed in, no handle and no factor.
Plain(t) ==
  /\ call[t] = Resting /\ \E given \in Given : Supported(given.dtype) /\ given.fits
  /\ Goes(t, [at |-> "plain"])
  /\ UNCHANGED <<path, analyzed, handle, subspace>>
PlainEnds(t) == call[t].at = "plain" /\ Returns(t) /\ UNCHANGED <<path, analyzed, handle, subspace>>

\* The subspace is renewed by a solve that returns, and emptied by a zero
\* right-hand side; one that fails leaves it.
Renewed(t) ==
  \/ ~call[t].recycled /\ UNCHANGED subspace
  \/ call[t].recycled /\ \E k \in 0..MaxRecycled : subspace' = [subspace EXCEPT !.active = k, !.user = NIL]
Ends(t) ==
  /\ call[t].at = "use"
  /\ Renewed(t)
  /\ handle' = [handle EXCEPT ![call[t].h].readers = @ \ {t}]
  /\ Returns(t) /\ UNCHANGED <<path, analyzed>>

-----------------------------------------------------------------------------
(***************************************************************************)
(* The subspace.                                                           *)
(***************************************************************************)
NewRecycle(t, h) ==
  /\ call[t] = Resting /\ Shares(h) /\ subspace = NIL
  /\ subspace' = [dtype |-> handle[h].dtype, active |-> 0, user |-> NIL]
  /\ UNCHANGED <<path, analyzed, handle, call>>

\* k, active and dtype: a subspace that is lent panics.
Active == IF subspace.user = NIL THEN subspace.active ELSE NIL

Clear(t) ==
  /\ call[t] = Resting /\ subspace # NIL /\ subspace.user = NIL
  /\ subspace' = [subspace EXCEPT !.active = 0]
  /\ UNCHANGED <<path, analyzed, handle, call>>

-----------------------------------------------------------------------------
Analyzes(t) == AnalyzeLdlt(t) \/ AnalyzeLu(t) \/ AnalyzeKlu(t) \/ AnalyzeAuto(t)
Factors(t) == LdltFactor(t) \/ LuFactor(t) \/ KluFactor(t) \/ AutoFactor(t)
OneShots(t) == LdltOneShot(t) \/ LuOneShot(t) \/ KluOneShot(t) \/ AutoOneShot(t)
SolveMethods(t, h) == Solve(t, h) \/ SolveTranspose(t, h) \/ SolveMany(t, h) \/ InverseOf(t, h)
KrylovMethods(t, h) == PyGmres(t, h) \/ GmresBlock(t, h) \/ Cocg(t, h) \/ Cocr(t, h)
Refactors(t, h) == KluRefactor(t, h) \/ AutoRefactor(t, h)
OffTheLock(t) ==
  Analyzed(t) \/ Factored(t) \/ NotFactored(t) \/ Converted(t) \/ Refactored(t) \/ NotRefactored(t)
  \/ Ends(t) \/ PlainEnds(t)

PyNext ==
  \E t \in Threads :
    \/ Analyzes(t) \/ Factors(t) \/ OneShots(t) \/ Plain(t) \/ OffTheLock(t) \/ Clear(t)
    \/ \E h \in OpenHandles : SolveMethods(t, h) \/ KrylovMethods(t, h) \/ Refactors(t, h) \/ NewRecycle(t, h)
                        \/ Dropped(t, h)
PySpec == PyInit /\ [][PyNext]_pyVars

-----------------------------------------------------------------------------
(***************************************************************************)
(* Properties.                                                             *)
(***************************************************************************)
\* What a call reads off the GIL stays what it was when the call began, for the
\* factor and for the matrix refinement and the Krylov methods multiply by; and
\* where the last refactor did not raise, both are of the value set it factored.
\* Only a Klu handle may be used after one that did.
AnswersAreOfOneMatrix ==
  \A t \in Threads : call[t].at = "use" =>
    LET h == handle[call[t].h]
        saw == call[t].saw
    IN /\ h.factor = saw.factor /\ h.served = saw.served
       /\ IF saw.served = NIL THEN path = "klu"
          ELSE saw.factor = saw.served /\ (call[t].own => h.a = saw.a /\ saw.a = saw.served)

\* A handle nobody refactors is whole: its matrix, its solver's values and its
\* factor are of the value set last factored, whatever was refused since, and in
\* the dtype that was asked for; after a refactor that raised the automatic path
\* answers nothing, under the GIL or off it.
HandleIsWhole ==
  \A h \in OpenHandles :
    LET p == handle[h] IN
    /\ p.factor_dtype \in FactorsIn(p.dtype)
    /\ p.writer = NIL =>
         /\ p.served # NIL => Answer(h) = p.served /\ p.a = p.served
         /\ p.served = NIL /\ path = "auto" => Det(h) = NIL /\ Backend(h) = NIL
         /\ path = "auto" => p.loaded = p.a
    /\ p.writer # NIL => p.readers = {} /\ LogDet(h) = NIL

\* A subspace is in one call's hands at a time, one of its own field, and is read
\* by nobody meanwhile.
SubspaceHasOneUser ==
  subspace # NIL =>
    LET users == {t \in Threads : call[t].at = "use" /\ call[t].recycled} IN
    /\ users = {subspace.user} \ {NIL}
    /\ \A t \in users : handle[call[t].h].dtype = subspace.dtype /\ Active = NIL
    /\ subspace.active <= MaxRecycled

\* The three together.
HandlesAreSound == AnswersAreOfOneMatrix /\ HandleIsWhole /\ SubspaceHasOneUser
=============================================================================

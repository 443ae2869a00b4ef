------------------------------- MODULE BlockGmres -------------------------------
(***************************************************************************)
(* A block GMRES solve that can be continued: BlockGmres in                *)
(* src/src/numeric/krylov/block.rs.                                        *)
(*                                                                         *)
(* A residual is a level, level 0 below every tolerance; a solution is the *)
(* level of its true residual.  What a step does to an estimate, and how   *)
(* far the true residual of a cycle with steps lies above it (the rounding *)
(* of the preconditioner and of the stored bases), is open.  A vector of a *)
(* basis is two units of memory, one in single precision.  Counts that are *)
(* only reported (iters, deepest, closed, lowered) are left out, so are    *)
(* residuals that are not finite or vanish exactly.                        *)
(***************************************************************************)
EXTENDS Integers, Sums, SequencesExt

CONSTANTS
  Cols,       \* the right-hand sides, 1..s
  Worst,      \* the highest residual level
  Tols,       \* tolerances of the solves, levels
  SingleTol,  \* the tolerance from which single_for lets the bases be rounded
  Setups,     \* how a solve is set up
  MaxSolves    \* bound on the solves

IsSetup(s) ==
  /\ s.m \in Nat \ {0} /\ s.max_iter \in Nat /\ s.room \in Nat
  /\ \A flag \in {s.probed, s.downgrade, s.deflating, s.cut} : flag \in BOOLEAN
  /\ s.basis \in [flexible : BOOLEAN, single : BOOLEAN]
  /\ s.zero \subseteq Cols

ASSUME GmresAssumption ==
  /\ IsFiniteSet(Cols) /\ Cols \subseteq Nat
  /\ Worst \in Nat /\ Tols \subseteq 0..Worst
  /\ \A s \in Setups : IsSetup(s)

Unchecked == -1
NoCycle == -1
NoBound == 1000000

VARIABLES
  setup,       \* [m, max_iter, room, probed, downgrade, deflating, basis, zero, cut]
  solves, tol,  \* of the call under way or last made
  stage, result,
  basis,       \* [flexible, single]
  col,         \* Column: the cycle's estimate stands for g
  x, out, res,
  act, chk,
  carried      \* history: the columns whose cycle was open when the call began

M == setup.m               \* the restart
MaxIter == setup.max_iter   \* steps of a column in one call

gmresVars == <<setup, solves, tol, stage, result, basis, col, x, out, res, act, chk, carried>>

NewColumn == [steps |-> NoCycle, stepped |-> 0, est |-> Worst, written |-> 0, waits |-> FALSE, evict |-> FALSE]

\* A zero right-hand side is solved by zero exactly, whatever the start.
GmresInit ==
  /\ setup \in Setups
  /\ solves = 0
  /\ tol = Worst
  /\ stage = "idle"
  /\ result = "none"
  /\ basis = setup.basis
  /\ col = [c \in Cols |-> NewColumn]
  /\ x = [c \in Cols |-> IF c \in setup.zero THEN 0 ELSE Worst]
  /\ out = x
  /\ res = [c \in Cols |-> IF c \in setup.zero THEN 0 ELSE Unchecked]
  /\ act = {}
  /\ chk = {}
  /\ carried = {}

-----------------------------------------------------------------------------
(***************************************************************************)
(* The memory of the bases.  The layers that a cycle wrote stay when       *)
(* another opens on them.                                                  *)
(***************************************************************************)
Unit(b) == IF b.single THEN 1 ELSE 2
Layer(b) == Unit(b) * (IF b.flexible THEN 2 ELSE 1)
Holds(c) == col[c].written > 0
Bytes(c, b) == IF Holds(c) THEN Unit(b) + (col[c].written - 1) * Layer(b) ELSE 0
BasisBytes(b) == SumAt([c \in Cols |-> Bytes(c, b)], Cols)
Growth(c, to, b) ==
  LET written == Max({col[c].written - 1, col[c].steps})
  IN Layer(b) * (IF to > written THEN to - written ELSE 0)
StepBytes(cols, b) == SumAt([c \in cols |-> Growth(c, col[c].steps + 1, b)], cols)

\* The representations that lower may reach, the present one first.
CanRound(b) == ~b.single /\ tol >= SingleTol
Representations ==
  LET fixed == [basis EXCEPT !.flexible = FALSE]
      single == [fixed EXCEPT !.single = TRUE]
  IN <<basis>> \o (IF setup.downgrade /\ basis.flexible THEN <<fixed>> ELSE <<>>)
               \o (IF setup.downgrade /\ CanRound(fixed) THEN <<single>> ELSE <<>>)

-----------------------------------------------------------------------------
(***************************************************************************)
(* close: the column's cycle ends on the solution formed (x <- out).       *)
(***************************************************************************)
Released(k) == [k EXCEPT !.steps = NoCycle, !.est = Worst, !.written = 0]
XOfClosed(S) == [c \in Cols |-> IF c \in S THEN out[c] ELSE x[c]]

(***************************************************************************)
(* A call.  A column that an earlier one left closed above this tolerance  *)
(* starts again.                                                           *)
(***************************************************************************)
StartsAgain(c, t) == col[c].steps = NoCycle /\ ~col[c].waits /\ res[c] > t

SolveWatched(t) ==
  /\ stage = "idle"
  /\ solves < MaxSolves
  /\ solves' = solves + 1
  /\ tol' = t
  /\ col' = [c \in Cols |-> [col[c] EXCEPT !.stepped = 0]]
  /\ res' = [c \in Cols |-> IF StartsAgain(c, t) THEN Unchecked ELSE res[c]]
  /\ stage' = "select"
  /\ result' = "none"
  /\ carried' = {c \in Cols : col[c].steps # NoCycle}
  /\ UNCHANGED <<setup, basis, x, out, act, chk>>

\* restart, between solves: every open cycle closes on the solution handed out.
Restart ==
  /\ stage = "idle"
  /\ solves < MaxSolves
  /\ LET closed == {c \in Cols : col[c].steps # NoCycle /\ res[c] # Unchecked} IN
     /\ closed # {}
     /\ x' = XOfClosed(closed)
     /\ col' = [c \in Cols |-> IF c \in closed THEN Released(col[c]) ELSE col[c]]
     /\ res' = [c \in Cols |-> IF c \in closed THEN Unchecked ELSE res[c]]
  /\ UNCHANGED <<setup, solves, tol, stage, result, basis, out, act, chk, carried>>

-----------------------------------------------------------------------------
(***************************************************************************)
(* select_active, and admit where no column steps.                         *)
(***************************************************************************)
CanStep(c) ==
  /\ col[c].steps # NoCycle
  /\ col[c].steps < M
  /\ col[c].stepped < MaxIter
  /\ col[c].est > tol

Select ==
  /\ stage = "select"
  /\ act' = {c \in Cols : CanStep(c)}
  /\ LET full == \E c \in Cols : col[c].steps = M /\ res[c] = Unchecked
         admitted == IF act' = {} /\ ~full THEN {c \in Cols : col[c].waits} ELSE {}
     IN /\ col' = [c \in Cols |-> IF c \in admitted THEN [col[c] EXCEPT !.waits = FALSE] ELSE col[c]]
        /\ res' = [c \in Cols |-> IF c \in admitted THEN Unchecked ELSE res[c]]
  /\ stage' = "evict"
  /\ UNCHANGED <<setup, solves, tol, result, basis, x, out, chk, carried>>

(***************************************************************************)
(* evict: where the next step does not fit, the bases are lowered; where   *)
(* it still does not, the columns not stepping give theirs up, then the    *)
(* stepping ones from the worst estimate on, until the rest can reach the  *)
(* restart.  What the probe reports as free is open.                       *)
(***************************************************************************)
ByEstimate(a, b) == col[a].est > col[b].est \/ (col[a].est = col[b].est /\ a < b)

\* The stepping columns that close before c, and the others: with the memory of
\* the one the closing stops at c if the others fit up to the restart, or if c is
\* the last and its next step fits, or would be its first.
Worse(c) == {d \in act : ByEstimate(d, c)}
LeftAt(c) == act \ Worse(c)
StopsAt(c, free, b) ==
  LET had == free + SumAt([d \in act |-> Bytes(d, b)], Worse(c))
  IN \/ had >= SumAt([d \in act |-> Growth(d, M, b)], LeftAt(c))
     \/ /\ LeftAt(c) = {c}
        /\ col[c].steps = 0 \/ had >= Growth(c, col[c].steps + 1, b)

\* (slip) Only the columns not stepping give up theirs.
ClosesNoStepping(free, b) == {}
\* The stepping columns that close, `free' to be had at first in representation b.
ClosedForRoom(free, b) == {c \in act : \A d \in Worse(c) \cup {c} : ~StopsAt(d, free, b)}

\* The columns `going' close: those checked at once, the others at the next
\* check; those out of the step wait.
MakeRoom(to, going, out_of) ==
  LET now == {c \in going : res[c] # Unchecked} IN
  /\ basis' = to
  /\ x' = XOfClosed(now)
  /\ col' = [c \in Cols |->
       IF c \in now THEN [Released(col[c]) EXCEPT !.waits = IF c \in out_of THEN TRUE ELSE @]
       ELSE IF c \in going THEN [col[c] EXCEPT !.evict = TRUE]
       ELSE col[c]]
  /\ act' = act \ out_of

\* What the room and the probe leave.
FreeOf(live) ==
  LET left == setup.room - BasisBytes(basis) IN Min({IF left > 0 THEN left ELSE 0, live})
NotStepping == {c \in Cols \ act : Holds(c)}

EvictWithin(free) ==
  LET Free(b) == (free + BasisBytes(basis)) - BasisBytes(b)
      fitting == SelectSeq(Representations, LAMBDA b : Free(b) >= StepBytes(act, b))
      to == IF fitting = <<>> THEN Last(Representations) ELSE Head(fitting)
      given == SumAt([c \in Cols |-> Bytes(c, to)], NotStepping)
      out_of == ClosedForRoom(Free(to) + given, to)
  IN IF Free(to) >= StepBytes(act, to)
     THEN MakeRoom(to, {}, {})
     ELSE MakeRoom(to, NotStepping \cup out_of, out_of)

Evict ==
  /\ stage = "evict"
  /\ \E live \in (IF setup.probed THEN {0, Layer(basis), NoBound} ELSE {NoBound}) :
       EvictWithin(FreeOf(live))
  /\ stage' = "check"
  /\ UNCHANGED <<setup, solves, tol, result, out, res, chk, carried>>

-----------------------------------------------------------------------------
(***************************************************************************)
(* check: forms the solutions of the unchecked columns and their true      *)
(* residuals: of all columns, or (while others step) of those whose cycle  *)
(* is full, closes for room or is still to open.  Without the second basis *)
(* it applies the preconditioner, which may fail.                          *)
(***************************************************************************)
ToCheck(all) ==
  {c \in Cols : res[c] = Unchecked /\ (all \/ col[c].evict \/ col[c].steps \in {M, NoCycle})}

TrueResiduals(c) ==
  IF col[c].steps = NoCycle THEN {x[c]}
  ELSE IF col[c].steps = 0 THEN {col[c].est}
  ELSE col[c].est..Worst

Form(S) ==
  \E formed \in [S -> 0..Worst] :
    /\ \A c \in S : formed[c] \in TrueResiduals(c)
    /\ out' = [c \in Cols |-> IF c \in S THEN formed[c] ELSE out[c]]
    /\ res' = [c \in Cols |-> IF c \in S THEN formed[c] ELSE res[c]]

Check ==
  /\ stage = "check"
  /\ chk' = ToCheck(act = {})
  /\ Form(chk')
  /\ stage' = IF chk' # {} THEN "checked" ELSE IF act # {} THEN "step" ELSE "final"
  /\ UNCHANGED <<setup, solves, tol, result, basis, col, x, act, carried>>

\* The monitor cancels: the last check, then the hand-out.
Cancel ==
  /\ setup.cut
  /\ stage = "checked"
  /\ stage' = "final"
  /\ result' = "stalled"
  /\ UNCHANGED <<setup, solves, tol, basis, col, x, out, res, act, chk, carried>>

HandOut ==
  /\ stage = "final"
  /\ Form(ToCheck(TRUE))
  /\ chk' = {}
  /\ act' = {}
  /\ stage' = "idle"
  /\ result' = IF result = "none" THEN "ran" ELSE result
  /\ UNCHANGED <<setup, solves, tol, basis, col, x, carried>>

PreconditionerFails ==
  /\ setup.cut
  /\ \/ stage = "step"
     \/ ~basis.flexible /\ stage = "check" /\ ToCheck(act = {}) # {}
     \/ ~basis.flexible /\ stage = "final" /\ ToCheck(TRUE) # {}
  /\ stage' = "idle"
  /\ result' = "failed"
  /\ act' = {}
  /\ chk' = {}
  /\ UNCHANGED <<setup, solves, tol, basis, col, x, out, res, carried>>

(***************************************************************************)
(* restart_above: a column that closes for room waits unless it is done;   *)
(* another left above the tolerance opens a cycle on its true residual, of *)
(* which a deflated subspace first takes its part, the solution with it.   *)
(***************************************************************************)
Finished(c) == res[c] <= tol \/ col[c].stepped >= MaxIter

Opened(k, e) == [k EXCEPT !.steps = 0, !.est = e, !.written = IF @ = 0 THEN 1 ELSE @]

RestartAbove ==
  /\ stage = "checked"
  /\ LET evicted == {c \in chk : col[c].evict}
         again == {c \in chk \ evicted : ~Finished(c)}
     IN \E start \in [again -> 0..Worst] :
        /\ \A c \in again : IF setup.deflating THEN start[c] <= res[c] ELSE start[c] = res[c]
        /\ out' = [c \in Cols |-> IF c \in again THEN start[c] ELSE out[c]]
        /\ x' = [c \in Cols |-> IF c \in again THEN start[c] ELSE IF c \in evicted THEN out[c] ELSE x[c]]
        /\ res' = [c \in Cols |-> IF c \in again /\ setup.deflating THEN Unchecked ELSE res[c]]
        /\ col' = [c \in Cols |->
             IF c \in evicted THEN [Released(col[c]) EXCEPT !.evict = FALSE, !.waits = ~Finished(c)]
             ELSE IF c \in again THEN Opened(col[c], start[c])
             ELSE col[c]]
  /\ chk' = {}
  /\ stage' = "select"
  /\ UNCHANGED <<setup, solves, tol, result, basis, act, carried>>

(***************************************************************************)
(* One block step of the active columns: their estimates never rise.  The  *)
(* step monitor goes on or cancels.                                        *)
(***************************************************************************)
Step ==
  /\ stage = "step"
  /\ \E est \in [act -> 0..Worst] :
     /\ \A c \in act : est[c] <= col[c].est
     /\ col' = [c \in Cols |->
          IF c \in act
          THEN [col[c] EXCEPT !.steps = @ + 1, !.stepped = @ + 1, !.est = est[c],
                              !.written = Max({@, col[c].steps + 2})]
          ELSE col[c]]
  /\ res' = [c \in Cols |-> IF c \in act THEN Unchecked ELSE res[c]]
  /\ \/ stage' = "select" /\ UNCHANGED result
     \/ setup.cut /\ stage' = "final" /\ result' = "stalled"
  /\ UNCHANGED <<setup, solves, tol, basis, x, out, act, chk, carried>>

InSolve == Select \/ Evict \/ Check \/ Cancel \/ RestartAbove \/ Step \/ PreconditionerFails \/ HandOut

GmresNext == Restart \/ InSolve \/ \E t \in Tols : SolveWatched(t)

GmresSpec == GmresInit /\ [][GmresNext]_gmresVars /\ WF_gmresVars(InSolve)

-----------------------------------------------------------------------------
(***************************************************************************)
(* A residual that the solve holds is the true one of the solution that it *)
(* would hand out, and a column without a cycle starts from just that.     *)
(***************************************************************************)
ResidualIsOfTheSolution ==
  \A c \in Cols : res[c] # Unchecked => res[c] = out[c] /\ (col[c].steps = NoCycle => x[c] = out[c])

(***************************************************************************)
(* A block step that follows makes the bases no larger than the room, or   *)
(* than they were before room was made where they had outgrown it already  *)
(* (opening a cycle is checked against nothing).  Beyond that only a       *)
(* column steps that is alone, at the start of its cycle, so that the      *)
(* solve always moves.                                                     *)
(***************************************************************************)
StepIsNext == act # {} /\ ToCheck(FALSE) = {}
RoomIsMade ==
  stage = "evict" /\ stage' = "check" /\ StepIsNext' =>
    \/ \E c \in act' : act' = {c} /\ col'[c].steps = 0
    \/ (BasisBytes(basis) + StepBytes(act, basis))' <= Max({setup.room, BasisBytes(basis)})

(***************************************************************************)
(* A call that nothing cut short leaves no column above the tolerance that *)
(* has steps left and none waiting for memory, except as it found it: a    *)
(* column that an earlier call left with its cycle open and this one did   *)
(* not step, or all, their cycles closed for memory before the first step. *)
(***************************************************************************)
AtHandOut == stage = "idle" /\ result = "ran"
Unserved(c) == res[c] > tol /\ col[c].stepped < MaxIter
NothingStepped == \A c \in Cols : col[c].stepped = 0
ColumnsAreServed ==
  AtHandOut => \A c \in Cols :
    /\ col[c].waits => NothingStepped
    /\ Unserved(c) => (c \in carried /\ col[c].stepped = 0) \/ col[c].waits

(***************************************************************************)
(* What a run of calls keeps: residuals are of the solutions handed out,   *)
(* no column is left out, and a step keeps to the room.                    *)
(***************************************************************************)
BooksAreKept == []ResidualIsOfTheSolution /\ []ColumnsAreServed /\ [][RoomIsMade]_gmresVars

(***************************************************************************)
(* `Run every right-hand side to the relative residual tol (or the         *)
(* iteration budget, or a cancel from mon)': what solve promises of every  *)
(* call.                                                                   *)
(***************************************************************************)
RunsToTolerance == AtHandOut => \A c \in Cols : ~Unserved(c)

(***************************************************************************)
(* Every call returns: waves of columns closing for memory and restarts on *)
(* true residuals above their estimates come to an end.                    *)
(***************************************************************************)
CallsReturn == []<>(stage = "idle")
=============================================================================

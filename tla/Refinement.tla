------------------------------ MODULE Refinement ------------------------------
(***************************************************************************)
(* Iterative refinement (src/src/refine.rs): refine_against on the system  *)
(* the policy names, as the direct solvers and KLU run it.                 *)
(*                                                                         *)
(* An iterate is its worst row's backward error, and whether every         *)
(* component is finite.  The measures skip a row whose denominator is not  *)
(* above zero, and f64::max passes over a NaN: a row that reads a NaN      *)
(* component does not count.  So what they report of an iterate that is    *)
(* not finite is the worst of the rows left, any value, zero if none is.   *)
(***************************************************************************)
EXTENDS Integers

CONSTANTS
  Errors,     \* the backward errors there are: 0..e
  MaxSteps, Targets

VARIABLES
  policy,     \* [max_steps, target]
  given,      \* history: the iterate refinement started from
  iterate, best, best_omega, steps, it, refining
refineVars == <<policy, given, iterate, best, best_omega, steps, it, refining>>

INFINITY == 1000000   \* f64::INFINITY, above every error
ASSUME ErrorsAssumption ==
  /\ Errors \subseteq {e \in Nat : e < INFINITY}
  /\ Targets \subseteq Nat /\ MaxSteps \in Nat

Iterates == [finite : BOOLEAN, err : Errors]

\* componentwise, normwise
Measured(i) == i.err

RefineInit ==
  /\ policy \in [max_steps : 0..MaxSteps, target : Targets]
  /\ iterate \in Iterates /\ given = iterate
  /\ best = iterate /\ best_omega = INFINITY
  /\ steps = 0 /\ it = 0 /\ refining = "measure"

\* The residual, and the best iterate so far.
Better(omega) == omega < best_omega
Measure ==
  /\ refining = "measure"
  /\ LET omega == Measured(iterate) IN
       /\ best_omega' = IF Better(omega) THEN omega ELSE best_omega
       /\ best' = IF Better(omega) THEN iterate ELSE best
       /\ refining' = IF (iterate.finite /\ omega <= policy.target) \/ it = policy.max_steps
                        THEN "done" ELSE "solve"
  /\ UNCHANGED <<policy, given, iterate, steps, it>>

\* A correction: whatever the factor makes of the residual.  A component that
\* is not finite stays so.
Corrected(i) == IF i.finite THEN Iterates ELSE {j \in Iterates : ~j.finite}
Correct ==
  /\ refining = "solve"
  /\ iterate' \in Corrected(iterate)
  /\ steps' = steps + 1 /\ it' = it + 1 /\ refining' = "measure"
  /\ UNCHANGED <<policy, given, best, best_omega>>

\* The solve refuses: the error, `x' left as it is.
SolveFails ==
  /\ refining = "solve" /\ refining' = "failed"
  /\ UNCHANGED <<policy, given, iterate, best, best_omega, steps, it>>

RefineNext == Measure \/ Correct \/ SolveFails
RefineSpec == RefineInit /\ [][RefineNext]_refineVars

\* (slip) A NaN measures nothing.
WithinTarget == best_omega <= policy.target
\* RefineOutcome::new's verdict.
Certified == best_omega <= policy.target /\ best.finite

-----------------------------------------------------------------------------
\* RefineOutcome.certified: the iterate returned is finite and its true
\* backward error, that of every row, is within the target, whatever the
\* measures made of the iterates in between; the steps are within the budget.
CertifiedIsAchieved ==
  refining = "done" =>
    /\ Certified => best.finite /\ best.err <= policy.target /\ best_omega = best.err
    /\ steps <= policy.max_steps

\* "The iterate returned is the best one seen ... returning a worse vector than
\* the one already computed would be a regression the caller cannot detect":
\* one that is not finite is never returned for one that was.
ReturnsNothingWorse == refining = "done" /\ given.finite => best.finite /\ best.err <= given.err
===============================================================================

---------------------------- MODULE MC_AutoSolver ----------------------------
(***************************************************************************)
(* Instances of AutoSolver.  Of the value sets,                            *)
(*   z (the zeros) is symmetric and singular; its analysis fails,          *)
(*   a is symmetric, and factors by every path; it analyzes to KLU,        *)
(*   b is unsymmetric, and analyzes to the supernodal paths; the order of  *)
(*     a does not replay on it,                                            *)
(*   c is unsymmetric as well.                                             *)
(***************************************************************************)
EXTENDS AutoSolver, TLC

CONSTANTS z, a, b, c

ThreeValues == {z, a, b}
FourValues == {z, a, b, c}
MixedRoutes == (z :> "supernodal") @@ (a :> "klu") @@ (b :> "supernodal")
AllSupernodal == [v \in Values |-> "supernodal"]
NonZero == Values \ {z}
MCSymmetric == {z, a}
MCDefinite == {a}
OrderOfAFailsOnB == {<<a, a>>, <<b, b>>, <<b, a>>, <<c, c>>} \cap (Values \X Values)
Symmetry == Permutations(Solvers)

\* One thread: a call returns before another begins.
OneCallAtATime ==
  \A s, t \in Solvers : s # t => {at'[s], at'[t]} \cap {"absent", "idle"} # {}
SequentialSpec == Init /\ [][Next /\ OneCallAtATime]_vars
=============================================================================

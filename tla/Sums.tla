--------------------------------- MODULE Sums ---------------------------------
(***************************************************************************)
(* The sum of a function over a finite set of its arguments: sizes of      *)
(* panels, bytes of bases; and a finite set in order, as a sequence.       *)
(***************************************************************************)
EXTENDS Naturals, FiniteSetsExt

SumAt(f, S) == MapThenSumSet(LAMBDA s : f[s], S)

\* A finite set in a strict total order, by rank.
Sorted(S, Before(_, _)) ==
  [k \in 1..Cardinality(S) |->
     CHOOSE x \in S : Cardinality({y \in S : Before(y, x)}) = k - 1]

Ascending(S) == Sorted(S, <)
===============================================================================

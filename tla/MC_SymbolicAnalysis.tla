------------------------- MODULE MC_SymbolicAnalysis -------------------------
(***************************************************************************)
(* Instances of SymbolicAnalysis: all 64 patterns of four vertices, as     *)
(* they are numbered and in two other orders, and all 1024 patterns of     *)
(* five as they are numbered (an order of a pattern is the numbering of    *)
(* another pattern).                                                       *)
(***************************************************************************)
EXTENDS SymbolicAnalysis

\* Every symmetric pattern on n vertices, no diagonal.
GraphsOn(n) ==
  LET pairs == {<<i, j>> \in (1..n) \X (1..n) : i < j} IN
  {[v \in 1..n |-> Ascending({u \in 1..n : <<u, v>> \in e \/ <<v, u>> \in e})] : e \in SUBSET pairs}

Identity(n) == [k \in 1..n |-> k]
BothWays == UNION {{Identity(n), Reverse(Identity(n))} : n \in 1..6}

FourVertices == GraphsOn(4)
FiveVertices == GraphsOn(5)
AsNumbered == {Identity(n) : n \in 1..6}
SmallPatterns == FourVertices \cup FiveVertices
SomeOrders == {Identity(5), Identity(4), <<4, 3, 2, 1>>, <<2, 4, 1, 3>>}

S(strategy, nemin, relaxWidth, relaxRows, rootCap) ==
  [strategy |-> strategy, nemin |-> nemin, pathLike |-> <<1, 2>>,
   relaxWidth |-> relaxWidth, relaxRows |-> relaxRows, rootCap |-> rootCap]

AllSettings ==
  {S(st, nemin, 0, 0, cap) : st \in {"adjacency", "renumber", "auto"}, nemin \in 1..3, cap \in {0, 2}}
    \cup {S(st, 1, w, r, 0) : st \in {"adjacency", "renumber"}, w \in {3, 5}, r \in {0, 1}}
RelaxedOnly == {S("renumber", 1, 3, 0, 0)}
=============================================================================

------------------------------ MODULE PrimeField ------------------------------
(***************************************************************************)
(* Exact arithmetic for the factorizations (the field operations of        *)
(* src/src/scalar.rs): the numbers modulo a prime P.  What a factorization *)
(* computes is a chain of field operations, so where it is right over a    *)
(* field whose pivots may be any nonzero number, it is right over the      *)
(* reals up to rounding.                                                   *)
(***************************************************************************)
EXTENDS Integers, Sequences, FiniteSets, FiniteSetsExt, SequencesExt

CONSTANT P

ASSUME PIsPrime == P \in Nat \ {0, 1} /\ \A d \in 2..P - 1 : P % d # 0

Num == 0..P - 1
Minus(x, y) == (x - y) % P
Times(x, y) == (x * y) % P
Over(x, y) == Times(x, CHOOSE z \in Num : Times(y, z) = 1)

SumMod(f) == FoldSet(LAMBDA k, s : (s + f[k]) % P, 0, DOMAIN f)

\* w less x times the column: one axpy, over the rows the column has.
Axpy(w, x, column) ==
  [k \in DOMAIN w |-> IF k \in DOMAIN column THEN Minus(w[k], Times(x, column[k])) ELSE w[k]]

\* A linear combination of square columns that vanishes: cols is a function
\* from indices to vectors over the same rows.
Vanishes(cols, v) ==
  \A i \in DOMAIN cols[CHOOSE j \in DOMAIN cols : TRUE] :
    SumMod([j \in DOMAIN cols |-> Times(cols[j][i], v[j])]) = 0

\* Column j depends on the columns before it.
Dependent(cols, j) ==
  \E v \in [{i \in DOMAIN cols : i <= j} -> Num] :
    v[j] = 1 /\ Vanishes([i \in {k \in DOMAIN cols : k <= j} |-> cols[i]], v)
=============================================================================

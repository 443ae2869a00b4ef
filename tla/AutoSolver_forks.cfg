\* The supernodal paths, analyzed at the first use, on one thread.
CONSTANTS
  z = z
  a = a
  b = b
  c = c
  NONE = NONE
  Solvers = {s1, s2}
  Values <- FourValues
  Zeros = z
  Reference = NONE
  RouteOf <- AllSupernodal
  Analyzable <- NonZero
  Regular <- NonZero
  Symmetric <- MCSymmetric
  Definite <- MCDefinite
  Replayable <- OrderOfAFailsOnB

SPECIFICATION SequentialSpec
INVARIANTS
  ForkIgnoresItsPast
SYMMETRY Symmetry
CHECK_DEADLOCK FALSE

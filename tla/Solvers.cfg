\* The analysis of the automatic solver is made by whichever of two solvers
\* needs it first, on values that choose either path.
CONSTANTS
  z = z
  a = a
  b = b
  c = c
  NONE = NONE
  NOTHING = NOTHING
  t1 = t1
  t2 = t2
  Solvers = {s1, s2}
  Values <- ThreeValues
  Zeros = z
  Reference = NONE
  RouteOf <- MixedRoutes
  Analyzable <- NonZero
  Regular <- NonZero
  Symmetric <- MCSymmetric
  Definite <- MCDefinite
  Replayable <- OrderOfAFailsOnB
  ValueSets = {1, 2, 3, 4}
  RegularSets = {1, 2, 3}
  RowsOf <- RowsOfFour
  Callers = {1, 2, 3}
  Errors = {0, 1, 2}
  MaxSteps = 2
  Targets = {0, 1}
  Graphs <- SmallGraphs
  Tasks <- BothDegrees
  MaxMark = 20
  Scaled <- SmallScaled
  ZERO = 9999
  RINF = 1000
  DenseColDiv = 2
  DenseMinRows = 4
  InfNormMaxIter = 6
  Dissected <- SmallDissected
  AmdSwitch = 2
  NiParts = 2
  FmPasses = 2
  MoveLimit = 3
  ImbalancePct = 20
  TwoHopPct = 60
  OvershootPct = 400
  TwoHopMinVertices = 4
  CoarsenStallPct = 95
  FmNoImproveMax = 3
  UnbalancedPct = 90
  MaxHops = 8
  Threads = {t1, t2}
  Path = {"ldlt", "lu", "klu", "auto"}
  ArgDtypes = {"float64", "float32"}
  Data = {1, 2, 3}
  Factorable = {1, 2}
  OrderServes <- HandleOrders
  Handles = {1}
  MaxRecycled = 1
  NIL = NOTHING
  SPOILED = 0
SPECIFICATION MCSpec
INVARIANTS
  ServesLastFactored
  ForksAgree
  ObjectIsConsistent
  CertifiedIsAchieved
  OrderingIsTheElimination
  ScalingIsSound
  DissectionIsSound
  HandlesAreSound
SYMMETRY AlikeAll
CHECK_DEADLOCK FALSE

\* A further call continues where the last one stopped: BlockGmres moves, the
\* others rest.
CONSTANTS
  p1 = p1
  p2 = p2
  Loggers = {p1, p2}
  Environment = {1, NONE}
  SetLevels = {2, 5}
  RecordLevels = {2, 5}
  MaxInstalls = 2
  UNSET = NONE
  NOBODY = NONE
  MaxCalls = 3
  Asks <- ThreeNeeds
  Powers = {1, 2, 4}
  CORES = 2
  POOLS_KEPT = 2
  MaxNested = 2
  MaxBuilt = 4
  Loops <- SmallLoops
  Scopes <- SmallScopes
  PIECES_PER_WORKER = 2
  NumCandidates = 2
  Ensemble = 2
  Fills = {1, 2}
  NONE = NONE
  Factors <- SmallFactors
  LeafCounts = {1, 8}
  Cols = {1, 2, 3}
  Worst = 2
  Tols = {0, 1}
  SingleTol = 1
  Setups <- SmallSolves
  MaxSolves = 2
SPECIFICATION GmresAlone
INVARIANT RunsToTolerance
CHECK_DEADLOCK FALSE

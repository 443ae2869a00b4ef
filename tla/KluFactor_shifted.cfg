\* A matrix with the factored one's row indices and other column pointers:
\* KluFactor moves, the others rest.
CONSTANTS
  P = 3
  Systems <- ShiftedColumns
  Patterns <- SomePatterns
  BlockPtr <- TwoBlocks
  U <- TwoBlocksReads
  ColPerm <- Identity
  PipeRun = 1
  Pieces = 2
  Workers = 2
  EpochMod = 3
  BlockStart <- FourBlocks
  BlockWorkers = 2
  Targets = {1, 3, 4, 7}
  Modes = {"serial", "levels", "pipelined"}
SPECIFICATION FactorAlone
INVARIANT RefactorSolvesOrRejects
CHECK_DEADLOCK FALSE

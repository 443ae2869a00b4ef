CONSTANTS
  P = 3
  Systems <- SmallSystems
  Patterns <- SomePatterns
  BlockPtr <- TwoBlocks
  U <- TwoBlocksReads
  ColPerm <- Identity
  PipeRun = 1
  Pieces = 2
  Workers = 2
  EpochMod = 3
  BlockStart <- FourBlocks
  BlockWorkers = 2
  Targets = {1, 3, 4, 7}
  Modes = {"serial", "levels", "pipelined"}
SPECIFICATION MCSpec
INVARIANTS
  BlockFormIsSound
  FactorSolves
  FailsAtTheFirstDependentColumn
  RefactorSolvesOrRejects
  FillIsPredicted
  PieceViewsAreSound
  ReplayIsFaithful
  BlocksAsInOrder
  MatrixIsTheFile
  FormsAgree
PROPERTY RefactorsReturn

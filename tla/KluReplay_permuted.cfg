\* One block whose columns were permuted: KluReplay moves, the others rest.
CONSTANTS
  P = 3
  Systems <- SmallSystems
  Patterns <- SomePatterns
  BlockPtr <- OneBlock
  U <- OneBlockReads
  ColPerm <- Reversed
  PipeRun = 1
  Pieces = 2
  Workers = 2
  EpochMod = 3
  BlockStart <- FourBlocks
  BlockWorkers = 2
  Targets = {1, 3, 4, 7}
  Modes = {"serial", "pipelined"}
SPECIFICATION ReplaySpec
INVARIANT PipelineReportsSequentialError

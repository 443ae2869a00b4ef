CONSTANTS
  NSuper = 7
  Parent <- ForestParent
  Updaters <- ForestUpdaters
  FreeParMin = 3
  Analyses <- SmallAnalyses
  Matrices <- SmallMatrices
  Jobs <- SmallJobs
  ALLOWANCE = 2
  P = 5
  Systems <- SmallSystems
  Tunings <- SmallTunings
SPECIFICATION MCSpec
INVARIANTS
  PanelsAreHandedOver
  ScheduleIsSound
  RowsAndLeaves
  FrontsAreClosed
  PanelsAreKept
  LdltIsTheMatrix
PROPERTIES
  ForestReturns
  ImplementsPromise
CHECK_DEADLOCK FALSE

\* What refinement returns against what it was given.
CONSTANTS
  Errors = {0, 1, 2}
  MaxSteps = 2
  Targets = {0, 1}
SPECIFICATION RefineSpec
INVARIANT ReturnsNothingWorse
CHECK_DEADLOCK FALSE

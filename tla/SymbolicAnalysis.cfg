SPECIFICATION Spec
CONSTANTS
  Patterns <- SmallPatterns
  Orders <- SomeOrders
  Ties <- BothWays
  Settings <- AllSettings
INVARIANTS
  TreeIsTheFactors
  GroupsAreExact
  SupernodesAreSound
CHECK_DEADLOCK FALSE

SPECIFICATION Spec
CONSTANTS
  Patterns <- FourVertices
  Orders <- AsNumbered
  Ties <- AsNumbered
  Settings <- RelaxedOnly
PROPERTY RelaxedMergesAddFewRows
CHECK_DEADLOCK FALSE

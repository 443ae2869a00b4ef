\* A sink is installed while another thread's records go to the one before.
CONSTANTS
  Loggers = {p1, p2}
  Environment = {2}
  SetLevels = {3}
  RecordLevels = {2}
  MaxInstalls = 2
  UNSET = UNSET
  NOBODY = NOBODY
SPECIFICATION FairLog
PROPERTY SinkIsSet
CHECK_DEADLOCK FALSE

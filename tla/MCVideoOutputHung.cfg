SPECIFICATION FairSpec
CONSTANTS
  Procs = {p1, p2}
  None = None
  QueueSize = 1
PROPERTIES
  HungPlayerIsReplaced
CHECK_DEADLOCK FALSE

SPECIFICATION FairSpec
CONSTANTS
  Procs = {p1, p2}
  None = None
  QueueSize = 1
INVARIANTS
  OutputInv
PROPERTIES
  HdmiRecovers
CHECK_DEADLOCK FALSE

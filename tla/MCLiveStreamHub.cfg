SPECIFICATION FairSpec
CONSTANTS
  Viewers = {v1, v2}
  InputQueue = 1
  CLIENT_QUEUE = 2
  MAX_CLIENTS = 1
  MAX_GOP_FRAGMENTS = 2
  MaxUnits = 6
  MaxParameters = 2
INVARIANTS
  HubInv
PROPERTIES
  ResetEndsViewers
CHECK_DEADLOCK FALSE

SPECIFICATION MCSpec
CONSTANTS
  FrameMod = 3
  PartMod = 2
  MaxPartsC = 3
  MaxParts = 3
  MaxFrames = 4
  FrameLife = 2
  Procs = {p1, p2}
  None = None
  EventsSize = 2
  H264Size = 1
  MaxUnits = 2
INVARIANTS
  FrameInv
  AppInv
PROPERTIES
  AppFollowsSession
CHECK_DEADLOCK FALSE

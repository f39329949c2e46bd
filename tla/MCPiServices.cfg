SPECIFICATION MCSpec
CONSTANTS
  Callers = {"a", "b"}
  Commands = {"format"}
  NoCommand = "none"
  Destructive = {"format"}
  Numbers = 3
  HISTORY = 1
  Pace = 2
  MaxCalls = 5
  Bumps = 4
  MaxEvents = 3
  Procs = {"p1", "p2", "p3", "p4"}
  None = "no process"
  QueueSize = 1
  MaxFaults = 2
  Env = {2}
  Watched = {1, 2}
  Saved <- SavedFiles
  MaxSaves = 1
  MaxPlugs = 1
INVARIANTS
  RepliesInv
  UsbInv
  PreviewInv
  ProfileInv
PROPERTIES
  CallsReturn
  AccessoryIsReached
  PreviewLives
  SettingsReachTheScreen
CHECK_DEADLOCK FALSE

SPECIFICATION MCSpec
CONSTANTS
  Procs = {f1, f2}
  None = None
  Lease = 8
  Beat = 2
  WaitMax = 4
  Silent = 5
  Burst = 1
  MaxExits = 2
  MaxInterrupts = 2
  Links = {l1}
  Publishers = {}
  AskedLease = 7
  MinLease = 1
  MaxLease = 6
  DefaultLease = 4
  MaxDelay = 0
INVARIANTS
  LinkInv
  AccessoryStays
  WiredInv
PROPERTIES
  VideoReachesPlayer
CHECK_DEADLOCK FALSE

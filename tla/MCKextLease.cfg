SPECIFICATION KextSpec
CONSTANTS
  Links = {l1}
  Publishers = {p1}
  AskedLease = 7
  MinLease = 1
  MaxLease = 6
  DefaultLease = 4
  MaxDelay = 1
  Procs = {f1}
  None = None
  Lease = 1
  Beat = 1
  WaitMax = 1
  Silent = 1
  Burst = 1
  MaxExits = 0
  MaxInterrupts = 0
INVARIANTS
  KextInv
  LeaseSparesTheLiving
PROPERTIES
  KextHonoursContract
  DeadMeansStock
CHECK_DEADLOCK FALSE

SPECIFICATION FairSpec
CONSTANTS
  Readers = {r1, r2}
  Drivers = {d1, d2}
  None = None
  MaxTransports = 2
INVARIANTS
  PiInv
PROPERTIES
  SessionsKeptApart
  SessionHasWorkers
  UsbEventsAreServed
CHECK_DEADLOCK FALSE

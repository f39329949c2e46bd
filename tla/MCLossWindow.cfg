SPECIFICATION WindowSpec
CONSTANTS
  M = 20
  STALE = 3
  MAX_RESEND = 2
  MAX_STEPS = 6
  First = 15
  Seed = 0
  MaxSent = 9
  Lifetime = 9
  MaxLag = 8
  Clients = {"python"}
  Dests <- Wifi
  BindHost = None
  Boost = FALSE
  None = None
  MaxPartsC = 1
  TIMEOUT = 1
  HANDSHAKE = 1
  MaxVideo = 1
  MaxFlight = 1
INVARIANTS
  WindowInv
  ResendLeadsWithFirstHole
  WindowIsExact
PROPERTIES
  StartNeverRetreats
  GapsClose

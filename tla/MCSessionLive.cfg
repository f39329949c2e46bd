SPECIFICATION FairSessionSpec
CONSTANTS
  Clients = {"python", "c"}
  Dests <- Wired
  BindHost = "wired"
  Boost = TRUE
  None = None
  M = 12
  STALE = 2
  MAX_RESEND = 2
  MAX_STEPS = 3
  MaxPartsC = 2
  TIMEOUT = 1
  HANDSHAKE = 2
  MaxVideo = 1
  MaxFlight = 1
  First = 0
  Seed = 0
  MaxSent = 0
  Lifetime = 0
  MaxLag = 0
PROPERTIES
  KeepaliveFlows
  Relinks
  StallsAreNoticed
  HintKeepsFlowing

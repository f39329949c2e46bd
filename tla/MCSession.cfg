SPECIFICATION SessionSpec
CONSTANTS
  Clients = {"python", "c"}
  Dests <- Wifi
  BindHost = None
  Boost = FALSE
  None = None
  M = 12
  STALE = 2
  MAX_RESEND = 2
  MAX_STEPS = 3
  MaxPartsC = 2
  TIMEOUT = 1
  HANDSHAKE = 2
  MaxVideo = 3
  MaxFlight = 2
  First = 0
  Seed = 0
  MaxSent = 0
  Lifetime = 0
  MaxLag = 0
INVARIANTS
  SessionInv
  AckInv

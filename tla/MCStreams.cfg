SPECIFICATION MCSpec
CONSTANTS
  VideoPayloads <- VideoData
  ControlPayloads <- ControlData
  MaxItems = 3
  Garbage <- Remainders
  MAX_PAYLOAD = 2
  MinControl = 2
  MaxControl = 2
  MaxLink = 3
  RxSize = 13
  TransferSize = 8
  Sources <- Streams
  MaxChunk = 6
  MaxBuffer = 11
  MaxResets = 1
INVARIANTS
  FramingInv
  AnnexInv
CHECK_DEADLOCK FALSE

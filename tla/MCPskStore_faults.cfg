CONSTANTS
  Ssids <- FaultSsids
  Psks = {1, 2}
  InitFiles <- AllFiles
  MaxLines = 2
  ReadFails = TRUE
  PowerLosses = 1
  Page = 64
  Slack = 64
SPECIFICATION Spec
INVARIANTS
  TypeOK
  BufferAccounted
CHECK_DEADLOCK FALSE

CONSTANTS
  Ssids <- MCSsids
  Psks = {1, 2}
  InitFiles <- MCFiles
  MaxLines = 3
  ReadFails = FALSE
  PowerLosses = 0
  Page = 4096
  Slack = 1024
SPECIFICATION Spec
INVARIANTS
  NoDuplicates
PROPERTIES
  PskMapRefined

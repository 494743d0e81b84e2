\* A 30-byte SSID, and files whose last line lacks '\n'.
CONSTANTS
  Ssids <- EdgeSsids
  Psks = {1, 2}
  InitFiles <- EdgeFiles
  MaxLines = 3
  ReadFails = FALSE
  PowerLosses = 0
  Page = 64
  Slack = 64
SPECIFICATION Spec
PROPERTY PskMapRefined
CHECK_DEADLOCK FALSE

CONSTANTS
  MaxSessions = 2
  MaxRetries = 1
  MaxGtk = 2
  MaxForged = 0
  MaxUserStops = 1
  Faults = FALSE
  StrictLength = FALSE
SPECIFICATION Spec
CHECK_DEADLOCK FALSE
PROPERTIES
  Packet2NotPremature
  FreshHandshakeCompletes
  RekeyCompletes

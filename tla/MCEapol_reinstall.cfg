CONSTANTS
  MaxSessions = 1
  MaxRetries = 1
  MaxGtk = 2
  MaxForged = 0
  MaxUserStops = 0
  Faults = TRUE
  StrictLength = FALSE
SPECIFICATION Spec
CHECK_DEADLOCK FALSE
INVARIANT
  NoGtkReinstall

CONSTANTS
  MaxSessions = 1
  MaxRetries = 1
  MaxGtk = 3
  MaxForged = 1
  MaxUserStops = 0
  Faults = TRUE
  StrictLength = FALSE
SPECIFICATION Spec
CHECK_DEADLOCK FALSE
INVARIANTS
  TypeOK
  PtkAgrees
  GtkAuthentic
  NoGtkRollback
PROPERTIES
  AssociationRefined

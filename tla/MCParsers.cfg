\* Every prefix of the IE buffers and key data, and the control-message
\* streams, of MCParsers.
CONSTANTS
  Inputs <- MCInputs
SPECIFICATION ParsersSpec
INVARIANTS
  TypeOK
  ParsedAsReference
  KdeTypeOK
  GtkFetchedAsReference
  UcTypeOK
  DeliveredInOrder
  RfTypeOK
  RfkilledTracksAdopted
PROPERTIES
  Terminates
  AllDelivered
  UnkillBringsUp
\* parse_station_ies and fetch_gtk return: the walks stop once the buffer
\* is parsed.
CHECK_DEADLOCK FALSE

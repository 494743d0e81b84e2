\* One client connecting and one sending NEUTRAL, one SIGTERM.
CONSTANTS
  c1 = c1
  c2 = c2
  p1 = p1
  p2 = p2
  NoConn = NoConn
  Clients <- MCClients
  Pids <- MCPids
  NCONNS = 2
  ClientCmds = {"CONNECT", "NEUTRAL"}
  MaxSigterms = 1
  MaxScans = 1
SPECIFICATION Spec
PROPERTIES
  ExitRequestKept
CHECK_DEADLOCK FALSE

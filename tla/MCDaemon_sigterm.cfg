\* No clients: the daemon alone with its initial scan and one SIGTERM.
CONSTANTS
  c1 = c1
  c2 = c2
  p1 = p1
  p2 = p2
  NoConn = NoConn
  Clients = {}
  Pids <- MCPids
  NCONNS = 1
  ClientCmds = {"STATUS"}
  MaxSigterms = 1
  MaxScans = 2
SPECIFICATION Spec
PROPERTIES
  ShutdownCompletes
CHECK_DEADLOCK FALSE

\* One client connecting; the DHCP child may exit at any time.
CONSTANTS
  c1 = c1
  c2 = c2
  p1 = p1
  p2 = p2
  NoConn = NoConn
  Clients <- MCClients
  Pids <- MCPids
  NCONNS = 1
  ClientCmds = {"CONNECT"}
  MaxSigterms = 0
  MaxScans = 1
SPECIFICATION Spec
INVARIANTS
  DhcpPidLive
CHECK_DEADLOCK FALSE

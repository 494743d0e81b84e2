\* Two clients running any command against a conns table of one slot,
\* one SIGTERM, two DHCP pids, two routine scans.
CONSTANTS
  c1 = c1
  c2 = c2
  p1 = p1
  p2 = p2
  NoConn = NoConn
  Clients <- MCClients
  Pids <- MCPids
  NCONNS = 1
  ClientCmds = {"STATUS", "SCAN", "NEUTRAL", "CONNECT", "FORGET"}
  MaxSigterms = 1
  MaxScans = 2
SPECIFICATION Spec
INVARIANTS
  TypeOK
  ReplyFirst
PROPERTIES
  ReplyArrives
CHECK_DEADLOCK FALSE

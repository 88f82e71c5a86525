\* The limit per address that src/README.md:1472 documents.
SPECIFICATION Spec
CONSTANTS
  r1 = r1
  r2 = r2
  ip1 = ip1
  port1 = port1
  Requests <- MCRequests
  Ips <- MCIps
  Ports <- MCPorts
  MaxAttempts = 2
  Window = 2
  Horizon = 4
INVARIANT LimitPerAddress

\* The rate limiter of the login handler.
SPECIFICATION FairSpec
CONSTANTS
  r1 = r1
  r2 = r2
  ip1 = ip1
  port1 = port1
  Requests <- MCRequests
  Ips <- MCIps
  Ports <- MCPorts
  MaxAttempts = 2
  Window = 2
  Horizon = 3
INVARIANTS TypeOK WindowQuota SlidingQuota
PROPERTIES WindowIsNotExtended EveryRequestIsAnswered

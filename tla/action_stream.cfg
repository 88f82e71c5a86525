\* One WebSocket: a command that ends, one that does not, one not permitted.
SPECIFICATION FairSpec
CONSTANTS
  s1 = s1
  s2 = s2
  Sessions <- MCOne
  Asked = {"restore", "logs", "exec"}
  MaxChunks = 4
  PipeCap = 1
  SockCap = 1
INVARIANTS TypeOK OutputIsAPrefix VerdictIsTrue
PROPERTIES CommandRunsToItsEnd PumpEnds
CHECK_DEADLOCK FALSE

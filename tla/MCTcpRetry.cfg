CONSTANTS
  q1 = q1
  q2 = q2
  Queries = {q1}
  NServers = 1
  Tries = 2
  Timeout = 1
  UdpMaxQueries = 0
  Fds = {1, 2}
  Flags = {"USEVC"}
  OpenErrors = {}
  UdpWriteFails = FALSE
  Kinds = {"answer"}
  MaxBurst = 1
  IntBits = 16
  FdSets = FALSE
  Cancels = FALSE
SPECIFICATION Spec
PROPERTY TcpRetryAfterReconnect

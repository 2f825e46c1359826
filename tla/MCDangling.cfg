CONSTANTS
  q1 = q1
  q2 = q2
  Queries = {q1}
  NServers = 2
  Tries = 2
  Timeout = 1
  UdpMaxQueries = 2
  Fds = {1, 2}
  Flags = {}
  OpenErrors = {}
  UdpWriteFails = FALSE
  Kinds = {"answer", "servfail"}
  MaxBurst = 1
  IntBits = 16
  FdSets = FALSE
  Cancels = FALSE
SPECIFICATION Spec
INVARIANT LiveQueryConnValid

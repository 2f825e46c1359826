CONSTANTS
  q1 = q1
  q2 = q2
  Queries = {q1}
  NServers = 2
  Tries = 2
  Timeout = 1
  UdpMaxQueries = 2
  Fds = {1, 2}
  Flags = {"EDNS"}
  OpenErrors = {"ECONNREFUSED", "ENOMEM"}
  UdpWriteFails = TRUE
  Kinds = {"answer", "truncated", "refused", "formerr", "formerr_opt", "mismatch", "spoofed"}
  MaxBurst = 1
  IntBits = 16
  FdSets = TRUE
  Cancels = TRUE
SPECIFICATION Spec
INVARIANT TypeOK RegistryConsistent QueryOnConnMatchesServer SocketListFreed
PROPERTY ImplementsLifecycle

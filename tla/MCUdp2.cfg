CONSTANTS
  q1 = q1
  q2 = q2
  Queries <- MCQueries
  NServers = 2
  Tries = 2
  Timeout = 1
  UdpMaxQueries = 2
  Fds = {1, 2, 3}
  Flags = {}
  OpenErrors = {}
  UdpWriteFails = TRUE
  Kinds = {"answer", "servfail"}
  MaxBurst = 2
  IntBits = 16
  FdSets = FALSE
  Cancels = FALSE
SPECIFICATION Spec
INVARIANT RegistryConsistent QueryOnConnMatchesServer
PROPERTY ImplementsLifecycleSafety
SYMMETRY QuerySymmetry

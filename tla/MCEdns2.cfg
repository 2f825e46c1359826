CONSTANTS
  q1 = q1
  q2 = q2
  Queries <- MCQueries
  NServers = 2
  Tries = 1
  Timeout = 1
  UdpMaxQueries = 2
  Fds = {1, 2}
  Flags = {"EDNS"}
  OpenErrors = {}
  UdpWriteFails = FALSE
  Kinds = {"answer", "truncated", "servfail", "formerr"}
  MaxBurst = 1
  IntBits = 16
  FdSets = FALSE
  Cancels = FALSE
SPECIFICATION Spec
INVARIANT RegistryConsistent QueryOnConnMatchesServer
PROPERTY ImplementsLifecycleSafety
SYMMETRY QuerySymmetry

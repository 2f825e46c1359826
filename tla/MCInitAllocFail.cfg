CONSTANTS
  Options <- MCOptions
  LocalDomains <- MCLocalDomains
  ResOptions <- MCResOptions
  ResolvConfs <- MCResolvConfs
  LookupFiles <- MCLookupFiles
  HostDomains <- MCHostDomains
  SortStrings <- MCSortStrings
  AllocFails = TRUE
SPECIFICATION Spec
CHECK_DEADLOCK FALSE
INVARIANT InitResultUsable

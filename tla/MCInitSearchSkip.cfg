CONSTANTS
  Options <- MCOptions
  LocalDomains <- MCLocalDomains
  ResOptions <- MCResOptions
  ResolvConfs <- MCGoodConfs
  LookupFiles <- MCLookupFiles
  HostDomains <- MCHostDomains
  SortStrings <- MCSortStrings
  AllocFails = FALSE
SPECIFICATION Spec
CHECK_DEADLOCK FALSE
INVARIANT SearchFromResolvConf

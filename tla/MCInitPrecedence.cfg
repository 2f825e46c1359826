CONSTANTS
  Options <- MCOptions
  LocalDomains <- MCLocalDomains
  ResOptions <- MCResOptions
  ResolvConfs <- MCResolvConfs
  LookupFiles <- MCLookupFiles
  HostDomains <- MCHostDomains
  SortStrings <- MCSortStrings
  AllocFails = FALSE
SPECIFICATION Spec
CHECK_DEADLOCK FALSE
INVARIANT TypeOK
PROPERTY FillOnlyUnset

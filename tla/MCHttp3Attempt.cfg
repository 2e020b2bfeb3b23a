CONSTANTS
  Requests = {r1, r2}
  DnsTimeout = 1
  ConnectTimeout = 2
  OpenTimeout = 1
  UploadTimeout = 1
SPECIFICATION FairSpec
INVARIANTS
  TypeOK
  RouteBounded
PROPERTIES
  PhasesEnd
  ImplementsRoute

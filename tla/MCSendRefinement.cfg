CONSTANTS
  Requests = {r1, r2}
  a = a
  b = b
  Origins = {a, b}
  NoEntry = NoEntry
  NoTimeout = NoTimeout
  Http3Enabled = TRUE
  DefaultTimeout = 1
  NegativeDuration = 1
  Jobs <- MixedJobs
  MaxAges = {0, 2}
  Ttls = {1}
  MaxTime = 2
SPECIFICATION Spec
SYMMETRY Symmetry
INVARIANTS
  SendsBounded
  AdvertProvenance
PROPERTIES
  KeepsContract

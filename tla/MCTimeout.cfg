CONSTANTS
  Requests = {r1}
  a = a
  b = b
  Origins = {a}
  NoEntry = NoEntry
  NoTimeout = NoTimeout
  Http3Enabled = TRUE
  DefaultTimeout = NoTimeout
  NegativeDuration = 2
  Jobs <- H3Jobs
  MaxAges = {2}
  Ttls = {2}
  MaxTime = 3
SPECIFICATION TimedSpec
INVARIANTS
  ReturnsWithinTimeout

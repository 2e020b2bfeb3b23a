CONSTANTS
  Requests = {r1, r2}
  a = a
  b = b
  Origins = {a}
  NoEntry = NoEntry
  NoTimeout = NoTimeout
  Http3Enabled = TRUE
  DefaultTimeout = NoTimeout
  NegativeDuration = 2
  Jobs <- H3Jobs
  MaxAges = {1}
  Ttls = {1}
  MaxTime = 1
  LastInstants = {1, 2}
SPECIFICATION OverflowSpec
INVARIANTS
  PanicsOnce
  FailedAdvertsGone
PROPERTIES
  FallbackReached

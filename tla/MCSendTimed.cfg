CONSTANTS
  Requests = {r1, r2}
  a = a
  b = b
  Origins = {a}
  NoEntry = NoEntry
  NoTimeout = NoTimeout
  Http3Enabled = TRUE
  DefaultTimeout = 2
  NegativeDuration = 1
  Jobs <- TimedJobs
  MaxAges = {1}
  Ttls = {1}
  MaxTime = 3
SPECIFICATION FairSpec
INVARIANTS
  ReturnsWithinBudget
PROPERTIES
  TimedRequestsReturn

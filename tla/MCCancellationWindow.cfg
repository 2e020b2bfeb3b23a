CONSTANTS
  Requests = {r1, r2, r3}
  a = a
  b = b
  Origins = {a}
  NoEntry = NoEntry
  NoTimeout = NoTimeout
  Http3Enabled = TRUE
  DefaultTimeout = NoTimeout
  NegativeDuration = 2
  Jobs <- PlainJobs
  MaxAges = {1}
  Ttls = {1}
  MaxTime = 3
SPECIFICATION PenaltySpec
SYMMETRY Symmetry
INVARIANTS
  CancellationSuppresses

CONSTANTS
  Requests = {r1, r2}
  a = a
  b = b
  Origins = {a}
  NoEntry = NoEntry
  NoTimeout = NoTimeout
  Http3Enabled = TRUE
  DefaultTimeout = NoTimeout
  NegativeDuration = 2
  Jobs <- H3Jobs
  MaxAges = {1}
  Ttls = {1}
  MaxTime = 3
SPECIFICATION Spec
SYMMETRY Symmetry
INVARIANTS
  TypeOK
  SuppressedInSharedWindow
  RetiredStayOut
  AttemptsPenalised
PROPERTIES
  FreshEntriesKept

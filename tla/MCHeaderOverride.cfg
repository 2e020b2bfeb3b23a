CONSTANTS
  UA = UA
  CT = CT
  v = v
  d = d
  e = e
  fiveMinutes = fiveMinutes
  label = label
  Names = {UA, CT}
  USER_AGENT = UA
  CONTENT_TYPE = CT
  Values = {v, label}
  JsonLabel = label
  HeaderMaps <- MCHeaderMaps
  Durations = {d}
  FiveMinutes = fiveMinutes
  Invalid = Invalid
  None = None
  MaxCalls = 4
SPECIFICATION Spec
INVARIANTS
  RequestHeadersOverride

CONSTANTS
  Tokens = {"quote", ",", ";", ":", "=", "[", "]", "h3", "h3-29", "h2", "ma", "p",
            "clear", "alt", "a", "b", "x", "y", "soon",
            "443", "8443", "65536", "60", "0", "86400"}
  U16 = {"443", "8443", "60", "0"}
  U64 = {"443", "8443", "65536", "60", "0", "86400"}
  OriginPort = "443"
  DefaultAge = "86400"
  Opaque = "opaque"
  Headers <- MCHeaders
  Records <- MCRecords
SPECIFICATION Spec
INVARIANTS
  AltSvcAsMeant
  HttpsRrAsMeant

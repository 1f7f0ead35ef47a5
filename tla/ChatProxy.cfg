CONSTANTS
  Requests = {r1}
  MaxLines = 6
SPECIFICATION ProxyFairSpec
INVARIANTS
  ObservedIsHanded
  TraceIsWhole
  EndsLoudly
PROPERTIES
  ImplementsRequest
  DisconnectReleases
  RequestsEnd
CHECK_DEADLOCK FALSE

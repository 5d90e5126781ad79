CONSTANTS
  Pings = {p1, p2, p3}
  Waits = {w1, w2}
  OpaqueData = {d1, d2}
  Nothing = Nothing
SPECIFICATION FairSpec
INVARIANTS
  TypeOK
  ListenersTracked
  RoundTrip
PROPERTIES
  SoleWaitUnmasked
  WaitsEnd
  PingsAnswered
CHECK_DEADLOCK FALSE

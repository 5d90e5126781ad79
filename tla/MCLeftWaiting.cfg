CONSTANTS
  Pings = {p1}
  Waits = {w1, w2}
  OpaqueData = {d1}
  Nothing = Nothing
SPECIFICATION Spec
PROPERTY
  NobodyLeftWaiting
CHECK_DEADLOCK FALSE

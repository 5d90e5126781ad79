CONSTANTS
  r1 = r1
  r2 = r2
  r3 = r3
  Requests = {r1, r2, r3}
  BadRequests = {}
  DefaultMaxConcurrentStreams = 2
  AdvertisedMax = {}
  Nobody = Nobody
SPECIFICATION Spec
INVARIANTS
  WithinLimit
SYMMETRY MCSymmetry
CHECK_DEADLOCK FALSE

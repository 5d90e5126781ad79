CONSTANTS
  r1 = r1
  r2 = r2
  r3 = r3
  Requests = {r1, r2, r3}
  BadRequests = {r3}
  DefaultMaxConcurrentStreams = 1
  AdvertisedMax = {2}
  Nobody = Nobody
SPECIFICATION Spec
INVARIANTS
  NoIdleSlot
SYMMETRY MCSymmetry
CHECK_DEADLOCK FALSE

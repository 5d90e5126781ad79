CONSTANTS
  r1 = r1
  r2 = r2
  r3 = r3
  Requests = {r1, r2, r3}
  BadRequests = {r3}
  DefaultMaxConcurrentStreams = 2
  AdvertisedMax = {1, 3}
  Nobody = Nobody
SPECIFICATION FairSpec
INVARIANTS
  TypeOK
  InOnePlace
  ActiveTracksTable
  ClosedMeansEmpty
  GoawayMeansUnprocessed
  WaitersHaveAWaker
PROPERTIES
  ImplementsRequestService
CHECK_DEADLOCK FALSE

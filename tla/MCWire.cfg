CONSTANTS
  Absent = Absent
  Frames <- MCFrames
  MaxFrames = 3
  HeaderLength <- FrameHeaderLength
  Octets <- MCOctets
  Total <- FrameLength
  Parse <- ParseFrame
  Bad <- Malformed
  Texts <- MCTexts
  CodesOf <- MCCodesOf
  TextOf <- MCTextOf
  TableSizeLimit = 70
  Connections <- MCConnections
  HttpRequests <- MCRequests
  StaticIndices = {15, 61}
  Literals <- MCLiterals
  TableSizes = {0, 35}
  AcrossBlocks = FALSE
  MaxFields = 3
  MaxBlocks = 2
SPECIFICATION WireSpec
INVARIANTS
  ReaderTypeOK
  NothingLost
  PrefaceUnderstood
  RequestUnderstood
  HeadersUnderstood
  IndicesAgree
PROPERTY
  ImplementsFrameQueue
CHECK_DEADLOCK FALSE

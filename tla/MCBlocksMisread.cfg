CONSTANTS
  Absent = Absent
  Frames <- MCFrames
  MaxFrames = 0
  HeaderLength <- FrameHeaderLength
  Octets <- MCOctets
  Total <- FrameLength
  Parse <- ParseFrame
  Bad <- Malformed
  Texts <- MCTexts
  CodesOf <- MCCodesOf
  TextOf <- MCTextOf
  TableSizeLimit = 70
  Connections = {}
  HttpRequests = {}
  StaticIndices = {13, 15}
  Literals <- MCLiterals
  TableSizes = {0, 35}
  AcrossBlocks = TRUE
  MaxFields = 3
  MaxBlocks = 2
SPECIFICATION WireSpec
INVARIANT
  HeadersUnderstood
CHECK_DEADLOCK FALSE

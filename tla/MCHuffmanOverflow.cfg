CONSTANTS
  Absent = Absent
  Frames <- MCFrames
  MaxFrames = 0
  HeaderLength <- FrameHeaderLength
  Octets <- MCOctets
  Total <- FrameLength
  Parse <- ParseFrame
  Bad <- Malformed
  Texts <- MCTexts
  CodesOf <- MCCodesOf
  TextOf <- MCTextOf
  TableSizeLimit = 70
  Connections = {}
  HttpRequests <- MCUmlautRequests
  StaticIndices = {15, 61}
  Literals <- MCLiterals
  TableSizes = {0, 35}
  AcrossBlocks = FALSE
  MaxFields = 3
  MaxBlocks = 0
SPECIFICATION WireSpec
INVARIANT
  RequestUnderstood
CHECK_DEADLOCK FALSE

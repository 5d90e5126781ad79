CONSTANTS
  DefaultInitialWindowSize = 1
  DefaultMaxFrameSize = 1
  MinMaxFrameSize = 1
  MaxMaxFrameSize = 2
  SettingsFrames <- MCSettingsFrames
  Increments = {1, 2}
  MaxStreams = 2
  MaxBody = 2
  MaxGranted = 3
  MaxWindow = 2
  MaxSettings = 2
  MaxInFlight = 2
SPECIFICATION FlowFairSpec
INVARIANTS
  TypeOK
  StreamCredit
  ConnectionCredit
  NoIdleCredit
  NothingAfterEnd
  NoOverrun
  FramesFit
  WindowsAgree
  EndMeansWholeBody
PROPERTY
  ImplementsBodyTransfer
CHECK_DEADLOCK FALSE

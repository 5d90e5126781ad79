CONSTANTS
  ClientIds = {1, 3}
  PromisedIds = {2}
  Window = 1
  MaxBody = 2
  PadLengths = {0}
  Pieces = {1, 3}
  Features = {"endStreamBeforeContinuation", "trailers"}
SPECIFICATION ExchangeSpec
INVARIANT
  ResolvedInFull
CHECK_DEADLOCK FALSE

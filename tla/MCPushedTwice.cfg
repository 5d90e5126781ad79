CONSTANTS
  ClientIds = {1, 3}
  PromisedIds = {2}
  Window = 1
  MaxBody = 2
  PadLengths = {0}
  Pieces = {1, 3}
  Features = {"pushedContinuation"}
SPECIFICATION ExchangeSpec
INVARIANT
  PushedOnce
CHECK_DEADLOCK FALSE

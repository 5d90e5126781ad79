CONSTANTS
  ClientIds = {1, 3}
  PromisedIds = {2}
  Window = 1
  MaxBody = 1
  PadLengths = {0}
  Pieces = {1, 3}
  Features = {"undecodable", "pushedContinuation"}
SPECIFICATION ExchangeFairSpec
INVARIANTS
  ExchangeTypeOK
  TableIsPending
  BlocksInStep
  CreditConserved
  PromiseAnnounced
  ResolvedInFull
  Faithful
PROPERTY
  ImplementsResponseService
CHECK_DEADLOCK FALSE

\* Requests, replies and faults on the wire.
SPECIFICATION FairSpec
CONSTANTS
  MaxCalls = 4
  MaxStray = 2
  IdModulus = 3
  Replies <- FewForms
  ShortWrites = TRUE
  MissingIds = FALSE
INVARIANTS TypeOK OwnAnswer OneReplyPerCall InOrder
PROPERTIES ImplementsAtomicRpc CallReturns

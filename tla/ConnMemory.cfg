SPECIFICATION Spec
CONSTANTS
  MaxCalls = 2
  MaxStray = 1
  IdModulus = 2
  Replies <- EveryForm
  ShortWrites = FALSE
  MissingIds = TRUE
INVARIANTS MemoryOwned SuccessLeavesNoError

SPECIFICATION AtSpec
CONSTANTS
  EXE_STRING_DELTA = 2
  MaxValue = 3
  MaxItems = 2
  MaxCalls = 2
  MULTI_ALLOC = 2
  Defs <- MCDefs
  Texts <- MCTexts
INVARIANTS
  WritesInBuffer
  LeftIsRest
  AcceptsMeaning
  MemorySafe
  StringsAccountedFor

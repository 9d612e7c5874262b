SPECIFICATION MCSpec
CONSTANTS
  Strings <- MCStrings
  Parts <- MCParts
  Lexed <- MCLexed
  Text <- MCText
  MaxList = 2
INVARIANTS
  ReturnsMeaning
  NoStaleResult
  ComparesAddresses

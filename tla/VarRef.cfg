\* Every reference from every node, read, assigned and read again.
SPECIFICATION RefSpec
CONSTANTS
  Schema <- MCSchema
  Configs <- MCConfigs
  Starts <- MCStarts
  Uses <- MCUses
  Values <- MCValues
  MaxCalls = 3
INVARIANTS GivesMeaning PathPutBack WriteThenRead

SPECIFICATION Spec
CONSTANTS
  Names <- MCNames
  Special <- MCSpecial
  NoName = NoName
  Kind <- MCKind
  Running <- MCRunning
  FileNodes <- MCFileNodes
  ArgLists <- MCArgLists
  Commands = {"set", "delete"}
  LastWords = {"", "if"}
  OtherPaths <- MCOtherPaths
  MaxEscapes = 2
  Unset = Unset
INVARIANTS EditedExists CompletesBelow LevelMeansAsked QueriesUseLevel

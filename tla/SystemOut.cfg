\* A command and a daemon that write five chunks through a pipe of two.
SPECIFICATION FairSpec
CONSTANTS
  MaxWrites = 5
  PipeCap = 2
  ReadMax = 2
INVARIANTS OnlyLateOutputLost StatusIsChilds
PROPERTIES Returns
CHECK_DEADLOCK FALSE

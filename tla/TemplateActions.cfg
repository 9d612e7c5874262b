\* Every call of the program on lists of actions.
SPECIFICATION FairSpec
CONSTANTS
  Scripts <- MCScripts
  Nodes <- MCNodes
INVARIANTS ReturnsMeaning Connected
PROPERTIES Ends

SPECIFICATION BootSpec
CONSTANTS
  s1 = s1
  s2 = s2
  Savers <- Two
  Faults <- MostFaults
  MaxCrashes = 1
SYMMETRY Interchangeable
INVARIANTS SavedIsWhole DoneIsDurable BootRestores

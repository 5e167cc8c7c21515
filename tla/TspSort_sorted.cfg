\* Every input of up to five lines.
SPECIFICATION Spec
CONSTANTS
  IntMin <- MCIntMin
  IntMax = 3
  Distances <- MCDistances
  MaxLines = 5
INVARIANTS
  SortedOutput
CHECK_DEADLOCK FALSE

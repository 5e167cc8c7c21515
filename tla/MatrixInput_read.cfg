\* Every input of up to three lines of up to three numbers.
SPECIFICATION InputSpec
CONSTANTS
  Numbers <- MCNumbers
  MaxSize = 3
INVARIANTS
  SquareReadRight
CHECK_DEADLOCK FALSE

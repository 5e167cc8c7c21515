\* Four stages: the comparison that should refuse them is an assignment.
SPECIFICATION Spec
CONSTANTS
  Pid = {p1, p2}
  NoPid = NoPid
  NSlot = 3
  MaxCommands = 2
  Lines <- MCLines
INVARIANTS
  PipeSizeRefused
CHECK_DEADLOCK FALSE

\* Job control over every kind of line; two slots, so that lines of three
\* or more stages run out of them.
SPECIFICATION Spec
CONSTANTS
  Pid = {p1, p2}
  NoPid = NoPid
  NSlot = 2
  MaxCommands = 2
  Lines <- MCLines
SYMMETRY PidSymmetry
INVARIANTS
  ZombieCoveredIfHeld
  ForegroundOwned
  TableAccounts
PROPERTIES
  IdleInterruptHarmless
CHECK_DEADLOCK FALSE

\* Liveness: every line comes to its end, every dead child is collected.
SPECIFICATION FairSpec
CONSTANTS
  Pid = {p1, p2}
  NoPid = NoPid
  NSlot = 2
  MaxCommands = 2
  Lines <- LiveLines
PROPERTIES
  LineFinishes
  ZombiesCollected
CHECK_DEADLOCK FALSE

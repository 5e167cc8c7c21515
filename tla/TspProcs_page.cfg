\* The complete graph of three nodes has two tours per node, a region one line.
SPECIFICATION Spec
CONSTANTS
  N = 3
  Graphs <- CompleteGraph
  PageLines = 1
  Faulty = {}
INVARIANTS
  LinesAreTours
CHECK_DEADLOCK FALSE

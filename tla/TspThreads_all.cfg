\* Every directed graph of four nodes.
SPECIFICATION FairSpec
CONSTANTS
  N = 4
  Graphs <- AllGraphs
INVARIANTS
  CallsConsistent
  DepthBounded
  OutputSound
  RoundRobin
PROPERTIES
  PrintsAllTours
  Terminates
CHECK_DEADLOCK FALSE

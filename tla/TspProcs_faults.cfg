\* Every directed graph of three nodes; any searcher may fail; a region holds
\* one line, which is too small for the complete graph.
SPECIFICATION FairSpec
CONSTANTS
  N = 3
  Graphs <- AllGraphs
  PageLines = 1
  Faulty = {0, 1, 2}
INVARIANTS
  TypeOK
  ReadAfterAllEnded
  OutputSound
  HealthyNodesComplete
PROPERTIES
  PrintsAllTours
  Terminates
CHECK_DEADLOCK FALSE

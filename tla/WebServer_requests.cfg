\* Two browsers ask for files of every kind, or for plots.
SPECIFICATION FairSpec
CONSTANTS
  c1 = c1
  c2 = c2
  Client = {c1, c2}
  Request <- MCRequest
  Asks <- MCAsks
  Pieces <- MCPieces
  ProcLimit = {3, 7}
  Chunk = 2
  PlotSize = 3
INVARIANTS
  Isolated
  AnswerRight
  LengthHonoured
  OwnPlotShown
PROPERTIES
  ConnectionEnds
CHECK_DEADLOCK FALSE

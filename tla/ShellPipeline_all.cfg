\* Three pipelines in one session. From the second on a pipe() may find no
\* descriptor left, and numbers of earlier pipelines are used instead.
SPECIFICATION FairSpec
CONSTANTS
  Cap = 2
  MaxFd = 9
  MaxPipelines = 3
  Pipelines <- MCPipelines
INVARIANTS
  TypeOK
  TwoLeakedPerPipeline
  StagesConnected
  EndOfFileReachable
PROPERTIES
  LineEndsOrSticks
  SmallLineEnds
CHECK_DEADLOCK FALSE

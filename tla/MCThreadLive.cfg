CONSTANTS
  t1 = t1
  t2 = t2
  t3 = t3
  idle = idle
  dummy = dummy
  NULL = NULL
  Thread <- MCPair
  MaxPriority = 2
  Priority <- MCPeerPriority
  MaxNesting = 1
SPECIFICATION FairSpec
PROPERTIES
  TopReadyRuns

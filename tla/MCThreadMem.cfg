CONSTANTS
  Thread = {t1, t2}
  NULL = NULL
  HeapWords = 16
  SizeRange = 128
  Request <- MCRequest
  ThreadSize = 5
  StackSize = 9
SPECIFICATION ThreadSpec
INVARIANTS
  BlocksTileHeap
  FreeListExact
  PayloadsFit
  FailsOnlyWhenFull
  ThreadsKeepMemory
  NothingLeaked

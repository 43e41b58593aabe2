CONSTANTS
  t1 = t1
  t2 = t2
  t3 = t3
  idle = idle
  dummy = dummy
  NULL = NULL
  Thread <- MCThreads
  MaxPriority = 2
  Priority <- MCPriority
  MaxNesting = 2
SYMMETRY Symmetry
SPECIFICATION Spec
INVARIANTS
  IInv
  RunqConsistent
  PreemptionRequested
  CallerStateRestored
  JoinWakeupNotLost
PROPERTIES
  SectionsAreAtomic

CONSTANTS
  Thread = {t1, t2, t3, t4}
  NULL = NULL
SYMMETRY Symmetry
SPECIFICATION SignalsSpec
INVARIANTS
  MutualExclusion
  WaitersNotStranded
  SignalsReachWaiters
PROPERTIES
  ImplementsMonitor

CONSTANTS
  Thread = {t1}
  NULL = NULL
  HeapWords = 17
  SizeRange = 128
  Request <- MCLargeRequest
SPECIFICATION Spec
INVARIANT PayloadsFit

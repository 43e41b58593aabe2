CONSTANTS
  Byte = {a, b}
  Capacity = 2
  IndexRange = 4
  InitIndex = 3
  Thread = {t1, t2}
  NULL = NULL
  Lines = {0, 1, 4, 8, 10}
  Drivers = {10}
  Unsteady = {0, 10}
  MaxBytes = 3
  MaxRaised = 2
SPECIFICATION Spec
INVARIANTS
  ServiceEnded
  OnlyHandledInterrupts
  SleepsOnlyWhenEmpty
  StreamPreserved
PROPERTIES
  WaiterServed
  BytesAreTaken

CONSTANTS
  Timer = {a, b}
  timer_list = timer_list
  timer_thread = timer_thread
  Client = {c}
  NULL = NULL
  HalfRange = 4
  MaxDelay = 1
  MaxLate = 1
SPECIFICATION TimerSpec
INVARIANTS
  ListSorted
  InterruptView
PROPERTIES
  NeverEarly
  TimersFire

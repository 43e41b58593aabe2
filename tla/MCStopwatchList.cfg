CONSTANTS
  sw_timer = sw_timer
  shell = shell
  Timer <- MCTimer
  Client <- MCClient
  timer_list = timer_list
  timer_thread = timer_thread
  NULL = NULL
  HalfRange = 5
  MaxDelay = 2
  MaxLate = 1
  MaxWait = 2
SPECIFICATION Spec
PROPERTIES
  TakenIsRemoved

\* Two clients whose timers come, go and are called; a stop at any moment.
SPECIFICATION LiveSpec
CONSTANTS
  c1 = c1
  c2 = c2
  Clients = {c1, c2}
  Periods = {1}
  Results = {"Continue", "Disable", "Delete", "RescheduleOneShot", "RescheduleRecurring"}
  MAX_CATCHUP = 2
  MaxAllocs = 2
  MaxLate = 1
INVARIANTS
  SlotsAccounted
  OwnCallback
  QueuedOnce
PROPERTIES
  
  StopEnds

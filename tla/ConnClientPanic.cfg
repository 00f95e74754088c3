SPECIFICATION ConnSpec
CONSTANTS
  Calls = {k1}
  NotifyCap = 1
  MaxNotes = 2
INVARIANTS
  NoPanic
CHECK_DEADLOCK FALSE

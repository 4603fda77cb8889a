\* A change stopped before it was prepared.
CONSTANTS
  N = 2
  Unowned <- FirstUnowned
  Templates = 1
  MaxInodes = 2
  MaxEdits = 0
  MaxFaults = 1
SPECIFICATION Spec
INVARIANT InterruptedIsResumable
CHECK_DEADLOCK FALSE

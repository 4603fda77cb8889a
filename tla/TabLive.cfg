\* A tab of a strip, one viewer and a read or a wake that fails: what must end.
CONSTANTS
  MaxPages = 2
  Links <- FirstTab
  Stripped <- FirstTab
  Viewers = {v1}
  MaxEdits = 1
  MaxReads = 1
  MaxDrops = 0
  MaxFaults = 1
  SlowChrome = FALSE
SPECIFICATION FairSpec
PROPERTIES ViewersAreServed ClosesEnd UnusedPagesEnd AgentsWake
CHECK_DEADLOCK FALSE

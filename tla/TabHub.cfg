\* One tab and one viewer, an edit of anybody, a read or a wake that fails, and a
\* drop of the connection.
CONSTANTS
  MaxPages = 2
  Links <- FirstTab
  Stripped = {}
  Viewers = {v1}
  MaxEdits = 1
  MaxReads = 1
  MaxDrops = 1
  MaxFaults = 1
  SlowChrome = FALSE
SPECIFICATION Spec
INVARIANT TabsAgree
PROPERTIES TombstonesKept FallsStand
CHECK_DEADLOCK FALSE

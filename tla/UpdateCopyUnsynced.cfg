\* A first installation and a power loss.
CONSTANTS
  p1 = p1
  NoProc = NoProc
  Procs = {p1}
  Newest = 1
  Ops = {"install"}
  Supervised = TRUE
  MaxFaults = 1
  PowerLoss = TRUE
  SelectorLoss = FALSE
SPECIFICATION Spec
INVARIANT ActiveIntact
CHECK_DEADLOCK FALSE

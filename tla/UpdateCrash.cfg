\* Two commands, update and install, that fail and are killed anywhere.
CONSTANTS
  p1 = p1
  p2 = p2
  NoProc = NoProc
  Procs = {p1, p2}
  Newest = 2
  Ops = {"update", "install"}
  Supervised = TRUE
  MaxFaults = 2
  PowerLoss = FALSE
  SelectorLoss = TRUE
SPECIFICATION Spec
SYMMETRY Symmetry
INVARIANT UpdateInv
PROPERTY VersionsOnlyMoveForward
CHECK_DEADLOCK FALSE

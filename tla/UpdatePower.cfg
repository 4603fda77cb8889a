\* Two update commands on a Machine that may lose power, and what must end.
CONSTANTS
  p1 = p1
  p2 = p2
  NoProc = NoProc
  Procs = {p1, p2}
  Newest = 2
  Ops = {"update"}
  Supervised = TRUE
  MaxFaults = 1
  PowerLoss = TRUE
  SelectorLoss = FALSE
SPECIFICATION FairSpec
INVARIANTS ActiveIntact NoFaultWedges UpdatedIsServed
PROPERTIES MarkFollowsSwitch ProvenBeforeSwitch CommandsEnd NewestArrives
CHECK_DEADLOCK FALSE

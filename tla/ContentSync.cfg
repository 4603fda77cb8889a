CONSTANTS
  Modules = {m}
  Mounts = {d}
  Parent <- OneParent
  MaxPub = 2
  MaxEdits = 3
  MaxFaults = 1
SPECIFICATION FairSpec
INVARIANT ContentInv
PROPERTIES RemovedOnProofs WorkStays EndedCopiesLeave CopiesFollow
CHECK_DEADLOCK FALSE

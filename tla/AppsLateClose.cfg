\* A shutdown between a second preparation's admission and its operation.
CONSTANTS
  Owners = {o1}
  Apps = {a1}
  Nobody = Nobody
  MaxKills = 0
  LateRequests = FALSE
  LateCloses = TRUE
SPECIFICATION Spec
INVARIANTS DirtyIsRecorded

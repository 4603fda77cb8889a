\* Two processes on one tree, either of which may be killed, twice.
CONSTANTS
  Owners = {o1, o2}
  Apps = {a1}
  Nobody = Nobody
  MaxKills = 2
  LateRequests = FALSE
  LateCloses = FALSE
SPECIFICATION Spec
INVARIANTS TypeOK OneHolder DirtyIsRecorded NothingRunsBeneath StopIsConfirmed
SYMMETRY Alike

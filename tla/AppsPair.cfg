\* Two applications and the processes that operate them one after the other.
CONSTANTS
  Owners = {o1}
  Apps = {a1, a2}
  Nobody = Nobody
  MaxKills = 1
  LateRequests = FALSE
  LateCloses = FALSE
SPECIFICATION Spec
INVARIANTS LaunchesAfterCleanup
PROPERTIES TreesAreKept
SYMMETRY Alike

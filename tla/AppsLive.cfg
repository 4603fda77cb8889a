\* Every request is answered and every shutdown ends, late start requests included.
CONSTANTS
  Owners = {o1}
  Apps = {a1}
  Nobody = Nobody
  MaxKills = 1
  LateRequests = TRUE
  LateCloses = TRUE
SPECIFICATION FairSpec
PROPERTIES RequestsEnd ShutdownEnds

---- MODULE MCContentSync ----
EXTENDS ContentSync
OneParent == [d \in Mounts |-> CHOOSE m \in Modules : TRUE]
====

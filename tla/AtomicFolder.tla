---------------------------- MODULE AtomicFolder ----------------------------
(* What a change of the generated Folder promises: the Folder is a revision *)
(* that goes up by one with every change, as if the change were one write.  *)
(* A power loss may take back changes nobody was told of, nothing else.     *)
EXTENDS Naturals

VARIABLES
  value,  \* the revision of the Folder
  known   \* the highest revision a caller or a reader was told

vars == <<value, known>>

Init == value = 1 /\ known = 1

Change == value' = value + 1 /\ UNCHANGED known

Tell == known' = value /\ known' > known /\ UNCHANGED value

LosePower == value' \in known .. value /\ UNCHANGED known

Next == Change \/ Tell \/ LosePower

Spec == Init /\ [][Next]_vars
=============================================================================

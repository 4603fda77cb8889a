--------------------------- MODULE MCApplications ---------------------------
(* TLC instances of Applications: processes and applications are alike.     *)
EXTENDS Applications, TLC

Alike == Permutations(Owners) \cup Permutations(Apps)
=============================================================================

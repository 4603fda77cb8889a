------------------------------ MODULE MCUpdate ------------------------------
(* TLC instances of Update.                                                 *)
EXTENDS Update, TLC

\* Processes are interchangeable in the safety runs.
Symmetry == Permutations(Procs)
=============================================================================

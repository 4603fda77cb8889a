-------------------------- MODULE DependencyTrees --------------------------
(* What the applications of one Organization are promised about the trees   *)
(* their code runs from: an explicit preparation begins only while nothing  *)
(* of the Organization runs, nothing is launched on a tree that is being    *)
(* prepared, and a tree whose preparation was not confirmed stays closed    *)
(* until somebody recovers it.                                              *)
CONSTANT Apps

VARIABLES
  running,    \* the applications that have a process
  changing    \* the trees under an explicit preparation, or left by one

TypeOK == running \in SUBSET Apps /\ changing \in SUBSET Apps

Init == running = {} /\ changing = {}

Change(a) ==
  /\ running = {}
  /\ changing' = changing \cup {a} /\ UNCHANGED running

\* Confirmed by its owner, or recovered by a person.
Settle(a) == changing' = changing \ {a} /\ UNCHANGED running

Launch(a) ==
  /\ a \notin changing
  /\ running' = running \cup {a} /\ UNCHANGED changing

Leave(a) == running' = running \ {a} /\ UNCHANGED changing

Next == \E a \in Apps : Change(a) \/ Settle(a) \/ Launch(a) \/ Leave(a)

Spec == Init /\ [][Next]_<<running, changing>>
=============================================================================

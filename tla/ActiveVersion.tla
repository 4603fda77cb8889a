---------------------------- MODULE ActiveVersion ----------------------------
(* What the product updater promises about versions (docs/update.md,        *)
(* "Invariants"): the active version only moves forward and never below the *)
(* floor, and the high-water mark follows it.  Which command moves it, what *)
(* it downloads and where it is killed is not visible here.                 *)
EXTENDS Naturals

CONSTANT Newest

VARIABLES
  active,  \* the version the selector names, 0 when there is none
  mark     \* the high-water mark, 0 when there is none

vars == <<active, mark>>

Init == active \in 0 .. Newest /\ mark \in 0 .. Newest

\* A switch: strictly forward and never below the mark.
Activate ==
  /\ active' \in 1 .. Newest
  /\ active' > active /\ active' >= mark
  /\ UNCHANGED mark

\* The mark rises, to the version that is active (or was, until it was damaged).
Record ==
  /\ mark' \in 1 .. Newest /\ mark' > mark
  /\ active \in {0, mark'}
  /\ UNCHANGED active

\* Something outside the product removes the selector.
Damage ==
  /\ active # 0 /\ active' = 0
  /\ UNCHANGED mark

Next == Activate \/ Record \/ Damage

Spec == Init /\ [][Next]_vars
=============================================================================

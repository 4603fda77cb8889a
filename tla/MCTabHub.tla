------------------------------ MODULE MCTabHub ------------------------------
(* TLC instances of TabHub: one tab that can sleep, named by its first page. *)
EXTENDS TabHub

FirstTab == {1}
=============================================================================

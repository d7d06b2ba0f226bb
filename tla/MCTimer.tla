------------------------------ MODULE MCTimer ------------------------------
(* A timer for TLC, with base times before, at and after the current time.   *)
EXTENDS TimerProperties

Bases == {1, 7}
=============================================================================

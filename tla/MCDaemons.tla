------------------------------ MODULE MCDaemons ------------------------------
(* Two agents that take turns in the steward.  A task whose id is a number, a *)
(* task 0, and a task whose id is a string.                                   *)
EXTENDS Daemons
CONSTANTS a1, a2, t0, t1, ts
=============================================================================

-------------------------- MODULE MCTaskScheduler --------------------------
(* Three async tasks and a Think task on two slots. *)
EXTENDS TaskScheduler
CONSTANTS b1, b2, b3, think
=============================================================================

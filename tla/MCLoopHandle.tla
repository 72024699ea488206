---------------------------- MODULE MCLoopHandle ----------------------------
(* The main loop behind its channels, with two providers. *)
EXTENDS LoopHandle
CONSTANTS claude, ollama
=============================================================================

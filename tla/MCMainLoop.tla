----------------------------- MODULE MCMainLoop -----------------------------
(* The main loop with two providers; see the .cfg files for the bounds. *)
EXTENDS MainLoop
CONSTANTS claude, ollama
=============================================================================

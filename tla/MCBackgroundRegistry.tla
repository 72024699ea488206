------------------------ MODULE MCBackgroundRegistry ------------------------
(* Three background tasks, which are interchangeable. *)
EXTENDS BackgroundRegistry, TLC
CONSTANTS t1, t2, t3
IdSymmetry == Permutations({t1, t2, t3})
=============================================================================

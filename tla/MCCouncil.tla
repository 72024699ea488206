------------------------------ MODULE MCCouncil ------------------------------
(* Three councillors, two of them of equal weight, and two callers. *)
EXTENDS Council, TLC
CONSTANTS c1, c2, c3, k1, k2
MCWeight == c1 :> 7 @@ c2 :> 7 @@ c3 :> 12
=============================================================================

---------------------------- MODULE MCSovereigns ----------------------------
(* One agent in two roles, rhythm and one other principle; weights at and off *)
(* the floor.                                                                *)
EXTENDS Sovereigns
CONSTANTS resident, visitor, elder
MCInitialWeights == {[rhythm |-> 170, mentalism |-> 1000]}
MCPrinciples == {"rhythm", "mentalism"}
=============================================================================

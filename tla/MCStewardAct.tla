---------------------------- MODULE MCStewardAct ----------------------------
(* Instances of StewardAct: bash (irreversible, with a cooldown) and read.  *)
EXTENDS StewardAct

CONSTANTS bash, read

TwoTools == {bash, read}
OneIrreversible == {bash}
MCCooldown == [t \in Tools |-> IF t = bash THEN 1 ELSE 0]
MCToolCost == [t \in Tools |-> IF t = bash THEN 2 ELSE 1]
Both == {"act", "think"}
=============================================================================

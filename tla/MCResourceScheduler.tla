------------------------ MODULE MCResourceScheduler -------------------------
(* Three jobs: big and small both want the one GPU, big and late do not     *)
(* fit the cpu together, small and late run side by side.                   *)
EXTENDS ResourceScheduler

CONSTANTS big, small, late

MCJobs == {big, small, late}
MCResources == {"cpu", "gpu"}
MCNeed == [j \in Jobs |-> [r \in Resources |->
             IF r = "cpu" THEN (IF j = small THEN 1 ELSE 2)
             ELSE (IF j = late THEN 0 ELSE 1)]]
MCTotal == [r \in Resources |-> IF r = "cpu" THEN 3 ELSE 1]
MCPrio == [j \in Jobs |-> IF j = small THEN 2 ELSE 1]
MCEnqueuedAt == [j \in Jobs |-> IF j = late THEN 1 ELSE 0]
OwnSlots == Jobs
OwnSlot == [j \in Jobs |-> j]
=============================================================================

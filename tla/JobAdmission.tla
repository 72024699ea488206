---------------------------- MODULE JobAdmission ----------------------------
(***************************************************************************)
(* What kernel/scheduler.rs promises its callers, without its locks: jobs  *)
(* wait, the best one that fits the free budget is admitted, and a job     *)
(* that completes gives back exactly what it took.                         *)
(***************************************************************************)
EXTENDS Integers, Functions

CONSTANTS
  Jobs,        \* JobSlots that callers enqueue
  Resources,   \* cpu_millis, mem_bytes, gpu_slots
  Need,        \* [Jobs -> [Resources -> Nat]]  the quotas; a GPU quota needs one slot
  Total,       \* [Resources -> Nat]
  Prio,        \* [Jobs -> Nat]  Priority
  EnqueuedAt   \* [Jobs -> Nat]  seconds

VARIABLE phase   \* [Jobs -> {"new", "queued", "running", "done"}]

Phase(p) == {j \in Jobs : phase[j] = p}
InUse(r) == SumFunctionOnSet([j \in Jobs |-> Need[j][r]], Phase("running"))
Fits(j) == \A r \in Resources : InUse(r) + Need[j][r] <= Total[r]
Before(j, k) == \/ Prio[j] > Prio[k]
                \/ Prio[j] = Prio[k] /\ EnqueuedAt[j] < EnqueuedAt[k]

Move(j, from, to) == phase[j] = from /\ phase' = [phase EXCEPT ![j] = to]

Submit(j) == Move(j, "new", "queued")
Admit(j) ==
  /\ Fits(j)
  /\ \A k \in Phase("queued") : Fits(k) => ~Before(k, j)
  /\ Move(j, "queued", "running")
Finish(j) == Move(j, "running", "done")

Init == phase = [j \in Jobs |-> "new"]
Next == \E j \in Jobs : Submit(j) \/ Admit(j) \/ Finish(j)
Spec == Init /\ [][Next]_phase
=============================================================================

-------------------------- MODULE ResourceScheduler -------------------------
(***************************************************************************)
(* kernel/scheduler.rs, lock by lock.  ResourceScheduler keeps its heap,   *)
(* its running table and its budget behind three std mutexes; any thread   *)
(* that holds the Arc may call enqueue, tick or complete.  A step is what  *)
(* a thread does between two lock acquisitions.                            *)
(***************************************************************************)
EXTENDS Integers, Functions

CONSTANTS
  Threads,
  Jobs, Resources, Need, Total, Prio, EnqueuedAt,   \* as in JobAdmission
  SlotIds,
  SlotId,      \* [Jobs -> SlotIds]  slot_id, made of pid and job by OsKernel::enqueue_job
  Free,        \* an unlocked mutex
  NoJob

ASSUME SchedulerAssumption ==
  /\ Need \in [Jobs -> [Resources -> Nat]] /\ Total \in [Resources -> Nat]
  /\ Prio \in [Jobs -> Nat] /\ EnqueuedAt \in [Jobs -> Nat]
  /\ SlotId \in [Jobs -> SlotIds]
  /\ Free \notin Threads /\ NoJob \notin Jobs

VARIABLES
  pc,          \* [Threads -> {"idle", "tick", "insert", "release"}]
  job,         \* [Threads -> Jobs \cup {NoJob}]  the slot a thread moves
  queue,       \* jobs in the heap
  running,     \* [SlotIds -> Jobs \cup {NoJob}]
  used,        \* [Resources -> Nat]  ResourceBudget
  queueLock, runningLock, budgetLock,
  new,         \* ghost: jobs nobody enqueued yet
  done         \* ghost: jobs whose budget was released

vars == <<pc, job, queue, running, used, queueLock, runningLock, budgetLock, new, done>>

Init ==
  /\ pc = [t \in Threads |-> "idle"]
  /\ job = [t \in Threads |-> NoJob]
  /\ queue = {} /\ running = [s \in SlotIds |-> NoJob]
  /\ used = [r \in Resources |-> 0]
  /\ queueLock = Free /\ runningLock = Free /\ budgetLock = Free
  /\ new = Jobs /\ done = {}

\* Mutant: the slot's own quota is left out.
CanFit_ignoresSlot(j) == \A r \in Resources : used[r] <= Total[r]
CanFit(j) == \A r \in Resources : used[r] + Need[j][r] <= Total[r]

\* Mutant: the heap's order is taken the wrong way round.
Before_reversed(j, k) == Prio[j] < Prio[k]
\* JobSlot::cmp: priority, then the earlier one.  Ties fall as the sort likes.
Before(j, k) == \/ Prio[j] > Prio[k]
                \/ Prio[j] = Prio[k] /\ EnqueuedAt[j] < EnqueuedAt[k]

Allocated(j) == [r \in Resources |-> used[r] + Need[j][r]]

\* Mutant: only one of the counters is given back.
Released_first(j) ==
  [r \in Resources |-> IF r = CHOOSE x \in Resources : TRUE
                       THEN used[r] - Need[j][r] ELSE used[r]]
\* Mutant: plain subtraction, and the slot is given back twice.
Released_twice(j) == [r \in Resources |-> used[r] - 2 * Need[j][r]]
\* saturating_sub, counter by counter.
Released(j) ==
  [r \in Resources |-> IF used[r] >= Need[j][r] THEN used[r] - Need[j][r] ELSE 0]

Goto(t, to) == pc' = [pc EXCEPT ![t] = to]

Enqueue(t, j) ==
  /\ pc[t] = "idle" /\ j \in new
  /\ queueLock = Free
  /\ queue' = queue \cup {j} /\ new' = new \ {j}
  /\ UNCHANGED <<pc, job, running, used, queueLock, runningLock, budgetLock, done>>

TickLockQueue(t) ==
  /\ pc[t] = "idle" /\ queueLock = Free
  /\ queueLock' = t /\ Goto(t, "tick")
  /\ UNCHANGED <<job, queue, running, used, runningLock, budgetLock, new, done>>

\* Mutant: the dispatched slot goes back to the heap with the others.
Remainder_all(j) == queue
Remainder(j) == queue \ {j}

\* The first candidate that fits is taken; the budget stays locked.
TickDispatch(t) ==
  /\ pc[t] = "tick" /\ budgetLock = Free
  /\ \E j \in queue :
       /\ CanFit(j) /\ \A k \in queue : CanFit(k) => ~Before(k, j)
       /\ used' = Allocated(j) /\ queue' = Remainder(j)
       /\ job' = [job EXCEPT ![t] = j]
  /\ budgetLock' = t /\ Goto(t, "insert")
  /\ UNCHANGED <<running, queueLock, runningLock, new, done>>

TickNothing(t) ==
  /\ pc[t] = "tick" /\ budgetLock = Free
  /\ \A j \in queue : ~CanFit(j)
  /\ queueLock' = Free /\ Goto(t, "idle")
  /\ UNCHANGED <<job, queue, running, used, runningLock, budgetLock, new, done>>

\* running is locked while queue and budget still are; all three go together.
TickInsert(t) ==
  /\ pc[t] = "insert" /\ runningLock = Free
  /\ running' = [running EXCEPT ![SlotId[job[t]]] = job[t]]
  /\ job' = [job EXCEPT ![t] = NoJob]
  /\ queueLock' = Free /\ budgetLock' = Free /\ Goto(t, "idle")
  /\ UNCHANGED <<queue, used, runningLock, new, done>>

\* Mutant: the running guard is dropped before the budget is locked.
HoldRunning_dropped(t) == UNCHANGED runningLock
HoldRunning(t) == runningLock' = t

\* complete of a slot that is not running changes nothing: no step for it.
CompleteRemove(t, s) ==
  /\ pc[t] = "idle" /\ runningLock = Free /\ running[s] # NoJob
  /\ job' = [job EXCEPT ![t] = running[s]]
  /\ running' = [running EXCEPT ![s] = NoJob]
  /\ HoldRunning(t) /\ Goto(t, "release")
  /\ UNCHANGED <<queue, used, queueLock, budgetLock, new, done>>

\* budget is locked while running still is.
CompleteRelease(t) ==
  /\ pc[t] = "release" /\ budgetLock = Free
  /\ used' = Released(job[t]) /\ done' = done \cup {job[t]}
  /\ job' = [job EXCEPT ![t] = NoJob]
  /\ runningLock' = Free /\ Goto(t, "idle")
  /\ UNCHANGED <<queue, running, queueLock, budgetLock, new>>

Step(t) == \/ TickLockQueue(t) \/ TickDispatch(t) \/ TickNothing(t) \/ TickInsert(t)
           \/ CompleteRelease(t)
           \/ \E j \in Jobs : Enqueue(t, j)
           \/ \E s \in SlotIds : CompleteRemove(t, s)

Next == \E t \in Threads : Step(t)

Spec == Init /\ [][Next]_vars

\* A thread inside tick or complete keeps going whenever its lock is free.
Finishing(t) == TickDispatch(t) \/ TickNothing(t) \/ TickInsert(t) \/ CompleteRelease(t)
FairSpec == Spec /\ \A t \in Threads : SF_vars(Finishing(t))

(***************************************************************************)
(* Properties.                                                             *)
(***************************************************************************)
\* Types; no counter of the budget goes below zero.
TypeOK ==
  /\ pc \in [Threads -> {"idle", "tick", "insert", "release"}]
  /\ job \in [Threads -> Jobs \cup {NoJob}]
  /\ queue \subseteq Jobs /\ running \in [SlotIds -> Jobs \cup {NoJob}]
  /\ used \in [Resources -> Nat]
  /\ {queueLock, runningLock, budgetLock} \subseteq Threads \cup {Free}
  /\ new \subseteq Jobs /\ done \subseteq Jobs

\* Whoever is between two acquisitions still holds every guard it took, so no
\* two ticks share the heap and no tick and complete share the budget.
GuardsHeld ==
  \A t \in Threads :
    /\ pc[t] \in {"tick", "insert"} <=> queueLock = t
    /\ pc[t] = "insert" <=> budgetLock = t
    /\ pc[t] = "release" <=> runningLock = t
    /\ pc[t] \in {"insert", "release"} <=> job[t] # NoJob

\* Jobs a tick has paid for and not yet entered, and jobs a complete has taken
\* out and not yet paid back.
InTransit == {job[t] : t \in Threads} \ {NoJob}
Running == {running[s] : s \in SlotIds} \ {NoJob}

\* A job is enqueued, dispatched and completed at most once: it is in one
\* place at a time, however ticks and completes interleave.
OnePlace ==
  /\ new \cap queue = {} /\ new \cap done = {} /\ queue \cap done = {}
  /\ \A t \in Threads : job[t] # NoJob =>
       /\ job[t] \notin new \cup queue \cup done
       /\ \A u \in Threads : job[u] = job[t] => u = t
       /\ \A s \in SlotIds : running[s] # job[t]
  /\ \A s \in SlotIds : running[s] # NoJob =>
       /\ running[s] \notin new \cup queue \cup done
       /\ s = SlotId[running[s]]

\* The counters never exceed the budget the kernel booted with.
WithinBudget == \A r \in Resources : used[r] <= Total[r]

Sum(r, js) == SumFunctionOnSet([j \in Jobs |-> Need[j][r]], js)

\* What runs, or is about to, never needs more than there is.
NeverOversold == \A r \in Resources : Sum(r, InTransit \cup Running) <= Total[r]

\* With distinct slot ids, the budget in use is exactly what the running jobs
\* took: nothing leaks, nothing is given back twice.
BudgetExact == \A r \in Resources : used[r] = Sum(r, InTransit \cup Running)

PhaseOf(j) == IF j \in new THEN "new" ELSE IF j \in queue THEN "queued"
              ELSE IF j \in done THEN "done" ELSE "running"

Admission == INSTANCE JobAdmission WITH phase <- [j \in Jobs |-> PhaseOf(j)]

\* The locks implement JobAdmission: a tick takes the best fitting job at the
\* moment it locks the budget, a complete ends when it releases.
ImplementsAdmission == Admission!Spec

\* scheduler.rs:112, "Try to dispatch the highest-priority slot that fits": a
\* try that has begun comes back.
TickReturns == \A t \in Threads : pc[t] = "tick" ~> pc[t] = "idle"
=============================================================================

----------------------- MODULE ResourceSchedulerProofs ----------------------
(***************************************************************************)
(* For any threads, jobs, quotas and slot ids: the three mutexes protect   *)
(* what they should, no job is dispatched twice, the counters are the sum  *)
(* of the quotas of the jobs dispatched and not completed, and so the      *)
(* locks implement JobAdmission.                                           *)
(***************************************************************************)
EXTENDS ResourceScheduler, Sums

\* GuardsHeld makes OnePlace and WithinBudget inductive: a thread at "insert"
\* or "release" moves the job it took and nobody else's.
IInv == TypeOK /\ GuardsHeld /\ OnePlace /\ WithinBudget

\* Nothing is locked, queued, running or charged at boot.
LEMMA InitInvariant == Init => IInv
<1> SUFFICES ASSUME Init PROVE IInv
  OBVIOUS
<1> USE SchedulerAssumption DEF Init
<1>1. TypeOK
  BY DEF TypeOK
<1>2. GuardsHeld
  BY DEF GuardsHeld
<1>3. OnePlace
  BY DEF OnePlace
<1>4. WithinBudget
  BY DEF WithinBudget
<1> QED
  BY <1>1, <1>2, <1>3, <1>4 DEF IInv

\* Every step keeps the state well typed.
LEMMA TypePreserved ==
  ASSUME TypeOK, GuardsHeld, NEW t \in Threads, Step(t)
  PROVE  TypeOK'
<1> USE SchedulerAssumption DEF TypeOK, Goto
<1>1. CASE TickLockQueue(t)
  BY <1>1 DEF TickLockQueue
<1>2. CASE TickDispatch(t)
  <2>1. PICK j \in queue : used' = Allocated(j) /\ queue' = Remainder(j)
                           /\ job' = [job EXCEPT ![t] = j]
    BY <1>2 DEF TickDispatch
  <2>2. used' \in [Resources -> Nat]
    BY <2>1 DEF Allocated
  <2> QED
    BY <1>2, <2>1, <2>2 DEF TickDispatch, Remainder
<1>3. CASE TickNothing(t)
  BY <1>3 DEF TickNothing
<1>4. CASE TickInsert(t)
  BY <1>4 DEF TickInsert
<1>5. CASE CompleteRelease(t)
  <2>1. job[t] \in Jobs
    BY <1>5 DEF CompleteRelease, GuardsHeld
  <2>2. Released(job[t]) \in [Resources -> Nat]
    BY <2>1 DEF Released
  <2> QED
    BY <1>5, <2>1, <2>2 DEF CompleteRelease
<1>6. CASE \E j \in Jobs : Enqueue(t, j)
  BY <1>6 DEF Enqueue
<1>7. CASE \E s \in SlotIds : CompleteRemove(t, s)
  BY <1>7 DEF CompleteRemove, HoldRunning
<1> QED
  BY <1>1, <1>2, <1>3, <1>4, <1>5, <1>6, <1>7 DEF Step

\* No step takes a guard another thread holds, or drops one that is not its own.
LEMMA GuardsPreserved ==
  ASSUME TypeOK, GuardsHeld, NEW t \in Threads, Step(t)
  PROVE  GuardsHeld'
<1> USE SchedulerAssumption DEF TypeOK, GuardsHeld, Goto
<1>1. CASE TickLockQueue(t)
  BY <1>1 DEF TickLockQueue
<1>2. CASE TickDispatch(t)
  BY <1>2 DEF TickDispatch
<1>3. CASE TickNothing(t)
  BY <1>3 DEF TickNothing
<1>4. CASE TickInsert(t)
  BY <1>4 DEF TickInsert
<1>5. CASE CompleteRelease(t)
  BY <1>5 DEF CompleteRelease
<1>6. CASE \E j \in Jobs : Enqueue(t, j)
  BY <1>6 DEF Enqueue
<1>7. CASE \E s \in SlotIds : CompleteRemove(t, s)
  BY <1>7 DEF CompleteRemove, HoldRunning
<1> QED
  BY <1>1, <1>2, <1>3, <1>4, <1>5, <1>6, <1>7 DEF Step

\* Only a dispatch raises the counters, and only after can_fit.
LEMMA BudgetPreserved ==
  ASSUME TypeOK, GuardsHeld, WithinBudget, NEW t \in Threads, Step(t)
  PROVE  WithinBudget'
<1> USE SchedulerAssumption DEF TypeOK, WithinBudget
<1>1. CASE TickDispatch(t)
  <2>1. PICK j \in queue : CanFit(j) /\ used' = Allocated(j)
    BY <1>1 DEF TickDispatch
  <2> QED
    BY <2>1 DEF CanFit, Allocated
<1>2. CASE CompleteRelease(t)
  <2>1. job[t] \in Jobs
    BY <1>2 DEF CompleteRelease, GuardsHeld
  <2>2. ASSUME NEW r \in Resources PROVE used'[r] <= used[r]
    <3>1. used'[r] = IF used[r] >= Need[job[t]][r] THEN used[r] - Need[job[t]][r] ELSE 0
      BY <1>2 DEF CompleteRelease, Released
    <3>2. used[r] \in Nat /\ Need[job[t]][r] \in Nat
      BY <2>1
    <3> QED
      BY <3>1, <3>2
  <2>3. used' \in [Resources -> Nat]
    BY <2>1, TypePreserved
  <2> QED
    BY <2>2, <2>3
<1>3. CASE UNCHANGED used
  BY <1>3
<1> QED
  BY <1>1, <1>2, <1>3 DEF Step, TickLockQueue, TickNothing, TickInsert, Enqueue, CompleteRemove

\* A job leaves its place in the very step that puts it into the next.
LEMMA PlacePreserved ==
  ASSUME TypeOK, GuardsHeld, OnePlace, NEW t \in Threads, Step(t)
  PROVE  OnePlace'
<1> USE SchedulerAssumption DEF TypeOK, OnePlace, Goto
<1>1. CASE TickLockQueue(t)
  BY <1>1 DEF TickLockQueue
<1>2. CASE TickDispatch(t)
  <2>1. PICK j \in queue : queue' = queue \ {j} /\ job' = [job EXCEPT ![t] = j]
    BY <1>2 DEF TickDispatch, Remainder
  <2>2. UNCHANGED <<running, new, done>>
    BY <1>2 DEF TickDispatch
  <2> QED
    BY <2>1, <2>2
<1>3. CASE TickNothing(t)
  BY <1>3 DEF TickNothing
<1>4. CASE TickInsert(t)
  <2>1. job[t] \in Jobs
    BY <1>4 DEF TickInsert, GuardsHeld
  <2> QED
    BY <1>4, <2>1 DEF TickInsert
<1>5. CASE CompleteRelease(t)
  <2>1. job[t] \in Jobs
    BY <1>5 DEF CompleteRelease, GuardsHeld
  <2> QED
    BY <1>5, <2>1 DEF CompleteRelease
<1>6. CASE \E j \in Jobs : Enqueue(t, j)
  BY <1>6 DEF Enqueue
<1>7. CASE \E s \in SlotIds : CompleteRemove(t, s)
  <2>1. PICK s \in SlotIds : CompleteRemove(t, s)
    BY <1>7
  <2>2. running[s] \in Jobs /\ job' = [job EXCEPT ![t] = running[s]]
        /\ running' = [running EXCEPT ![s] = NoJob] /\ UNCHANGED <<queue, new, done>>
    BY <2>1 DEF CompleteRemove
  <2>3. \A u \in SlotIds : running[u] = running[s] => u = s
    BY <2>2
  <2> QED
    BY <2>2, <2>3
<1> QED
  BY <1>1, <1>2, <1>3, <1>4, <1>5, <1>6, <1>7 DEF Step

\* Every step of every thread, and every stutter, keeps the invariant.
LEMMA NextInvariant == IInv /\ [Next]_vars => IInv'
<1> SUFFICES ASSUME IInv, [Next]_vars PROVE IInv'
  OBVIOUS
<1>1. CASE Next
  <2>1. PICK t \in Threads : Step(t)
    BY <1>1 DEF Next
  <2> QED
    BY <2>1, TypePreserved, GuardsPreserved, PlacePreserved, BudgetPreserved DEF IInv
<1>2. CASE UNCHANGED vars
  BY <1>2 DEF vars, IInv, TypeOK, GuardsHeld, OnePlace, WithinBudget
<1> QED
  BY <1>1, <1>2

\* The inductive invariant of the scheduler.
THEOREM Invariance == Spec => []IInv
BY InitInvariant, NextInvariant, PTL DEF Spec

\* Type correctness of kernel/scheduler.rs, for every pool of threads and jobs.
THEOREM TypeCorrect == Spec => []TypeOK
<1>1. IInv => TypeOK
  BY DEF IInv
<1> QED
  BY <1>1, Invariance, PTL

\* tick and complete exclude each other where their guards say so: heap, budget
\* and running table each have at most one thread in their critical section.
THEOREM MutualExclusion == Spec => []GuardsHeld
<1>1. IInv => GuardsHeld
  BY DEF IInv
<1> QED
  BY <1>1, Invariance, PTL

\* No job is dispatched twice or completed twice, even when slot ids collide.
THEOREM DispatchedOnce == Spec => []OnePlace
<1>1. IInv => OnePlace
  BY DEF IInv
<1> QED
  BY <1>1, Invariance, PTL

\* The counters of ResourceBudget never exceed the totals.
THEOREM BudgetSafe == Spec => []WithinBudget
<1>1. IInv => WithinBudget
  BY DEF IInv
<1> QED
  BY <1>1, Invariance, PTL

-----------------------------------------------------------------------------
(***************************************************************************)
(* The budget.                                                             *)
(***************************************************************************)
\* The jobs dispatched and not completed: also the one a colliding slot id has
\* pushed out of the running table, which nobody can complete any more.
Charged == {j \in Jobs : PhaseOf(j) = "running"}

Quota(r) == [j \in Jobs |-> Need[j][r]]

ChargesBalance ==
  /\ IsFiniteSet(Charged)
  /\ \A r \in Resources : used[r] = Sum(r, Charged)

LEMMA QuotaNat ==
  ASSUME NEW r \in Resources
  PROVE  \A j \in Jobs : Quota(r)[j] \in Nat /\ Quota(r)[j] = Need[j][r]
BY SchedulerAssumption DEF Quota

LEMMA SumIsQuota ==
  ASSUME NEW r, NEW js
  PROVE  Sum(r, js) = SumFunctionOnSet(Quota(r), js)
BY DEF Sum, Quota

\* What one more job, and one fewer, do to the sum.
LEMMA SumCharge ==
  ASSUME NEW r \in Resources, NEW js \in SUBSET Jobs, IsFiniteSet(js),
         NEW j \in Jobs, j \notin js
  PROVE  /\ IsFiniteSet(js \cup {j})
         /\ Sum(r, js) \in Nat
         /\ Sum(r, js \cup {j}) = Sum(r, js) + Need[j][r]
<1>1. \A k \in js \cup {j} : Quota(r)[k] \in Nat
  BY QuotaNat
<1>2. SumFunctionOnSet(Quota(r), js) \in Nat
  BY <1>1, SumNat
<1>3. SumFunctionOnSet(Quota(r), js \cup {j}) = Quota(r)[j] + SumFunctionOnSet(Quota(r), js)
  BY <1>1, SumAdd
<1>4. Quota(r)[j] = Need[j][r] /\ Need[j][r] \in Nat
  BY QuotaNat
<1> QED
  BY <1>2, <1>3, <1>4, SumIsQuota, FS_AddElement

LEMMA SumDischarge ==
  ASSUME NEW r \in Resources, NEW js \in SUBSET Jobs, IsFiniteSet(js), NEW j \in js
  PROVE  /\ IsFiniteSet(js \ {j})
         /\ Sum(r, js \ {j}) \in Nat
         /\ Sum(r, js) = Sum(r, js \ {j}) + Need[j][r]
<1>1. IsFiniteSet(js \ {j}) /\ (js \ {j}) \cup {j} = js
  BY FS_Subset
<1> QED
  BY <1>1, SumCharge

\* Where a step leaves new, queue and done alone, nothing is charged.
LEMMA ChargedUnchanged ==
  ASSUME UNCHANGED <<new, queue, done>>
  PROVE  Charged' = Charged /\ \A j \in Jobs : PhaseOf(j)' = PhaseOf(j)
BY DEF Charged, PhaseOf

\* A step charges the budget for the job it dispatches and pays it back for the
\* job it completes; saturating_sub never saturates.
LEMMA BalancePreserved ==
  ASSUME IInv, ChargesBalance, NEW t \in Threads, Step(t)
  PROVE  ChargesBalance'
<1> USE SchedulerAssumption
<1>1. CASE TickDispatch(t)
  <2>1. PICK j \in queue : used' = Allocated(j) /\ queue' = Remainder(j)
    BY <1>1 DEF TickDispatch
  <2>2. j \in Jobs /\ j \notin Charged /\ Charged \subseteq Jobs
    BY DEF IInv, TypeOK, Charged, PhaseOf
  <2>3. Charged' = Charged \cup {j}
    <3>1. UNCHANGED <<new, done>> /\ j \notin new /\ j \notin done
      BY <1>1 DEF TickDispatch, IInv, OnePlace
    <3> QED
      BY <2>1, <2>2, <3>1 DEF Charged, PhaseOf, Remainder
  <2>4. IsFiniteSet(Charged \cup {j})
    BY FS_AddElement DEF ChargesBalance
  <2>5. ASSUME NEW r \in Resources PROVE used'[r] = Sum(r, Charged \cup {j})
    <3>1. used'[r] = used[r] + Need[j][r]
      BY <2>1 DEF Allocated
    <3>2. used[r] = Sum(r, Charged)
      BY DEF ChargesBalance
    <3>3. Sum(r, Charged \cup {j}) = Sum(r, Charged) + Need[j][r]
      BY <2>2, SumCharge DEF ChargesBalance
    <3> QED
      BY <3>1, <3>2, <3>3
  <2>6. ASSUME NEW r \in Resources PROVE Sum(r, Charged)' = Sum(r, Charged \cup {j})
    BY <2>3 DEF Sum
  <2> QED
    BY <2>3, <2>4, <2>5, <2>6 DEF ChargesBalance
<1>2. CASE CompleteRelease(t)
  <2> DEFINE j == job[t]
  <2>1. j \in Jobs /\ j \notin new \cup queue \cup done
    BY <1>2 DEF CompleteRelease, IInv, TypeOK, GuardsHeld, OnePlace
  <2>2. j \in Charged /\ Charged \subseteq Jobs
    BY <2>1 DEF Charged, PhaseOf
  <2>3. Charged' = Charged \ {j}
    <3>1. UNCHANGED <<new, queue>> /\ done' = done \cup {j}
      BY <1>2 DEF CompleteRelease
    <3> HIDE DEF j
    <3> QED
      BY <2>1, <3>1 DEF Charged, PhaseOf
  <2> HIDE DEF j
  <2>4. IsFiniteSet(Charged \ {j})
    BY FS_Subset DEF ChargesBalance
  <2>5. ASSUME NEW r \in Resources PROVE used'[r] = Sum(r, Charged \ {j})
    <3>1. used'[r] = IF used[r] >= Need[j][r] THEN used[r] - Need[j][r] ELSE 0
      BY <1>2 DEF CompleteRelease, Released, j
    <3>2. used[r] = Sum(r, Charged)
      BY DEF ChargesBalance
    <3>3. Sum(r, Charged \ {j}) \in Nat /\ Sum(r, Charged) = Sum(r, Charged \ {j}) + Need[j][r]
      BY <2>2, SumDischarge DEF ChargesBalance
    <3>4. Need[j][r] \in Nat
      BY <2>1
    <3> QED
      BY <3>1, <3>2, <3>3, <3>4
  <2>6. ASSUME NEW r \in Resources PROVE Sum(r, Charged)' = Sum(r, Charged \ {j})
    BY <2>3 DEF Sum
  <2> QED
    BY <2>3, <2>4, <2>5, <2>6 DEF ChargesBalance
<1>3. CASE \E j \in Jobs : Enqueue(t, j)
  <2>1. Charged' = Charged /\ used' = used
    BY <1>3 DEF Enqueue, Charged, PhaseOf
  <2> QED
    BY <2>1 DEF ChargesBalance, Sum
<1>4. CASE UNCHANGED <<new, queue, done, used>>
  BY <1>4, ChargedUnchanged DEF ChargesBalance, Sum
<1> QED
  BY <1>1, <1>2, <1>3, <1>4 DEF Step, TickLockQueue, TickNothing, TickInsert, CompleteRemove

LEMMA InitBalance == Init => ChargesBalance
<1> SUFFICES ASSUME Init PROVE ChargesBalance
  OBVIOUS
<1>1. Charged = {}
  BY DEF Init, Charged, PhaseOf
<1>2. \A r \in Resources : Sum(r, {}) = 0 /\ used[r] = 0
  BY SumEmpty DEF Sum, Init
<1> QED
  BY <1>1, <1>2, FS_EmptySet DEF ChargesBalance

LEMMA NextBalance == IInv /\ ChargesBalance /\ [Next]_vars => ChargesBalance'
<1> SUFFICES ASSUME IInv, ChargesBalance, [Next]_vars PROVE ChargesBalance'
  OBVIOUS
<1>1. CASE Next
  BY <1>1, BalancePreserved DEF Next
<1>2. CASE UNCHANGED vars
  BY <1>2, ChargedUnchanged DEF vars, ChargesBalance, Sum
<1> QED
  BY <1>1, <1>2

\* The counters are what the dispatched jobs took, whatever the slot ids.
THEOREM Balanced == Spec => []ChargesBalance
BY InitBalance, NextBalance, Invariance, PTL DEF Spec

\* What is on its way into or out of the running table, or in it, is charged.
LEMMA HeldIsCharged ==
  ASSUME TypeOK, OnePlace
  PROVE  InTransit \cup Running \subseteq Charged
BY DEF TypeOK, OnePlace, InTransit, Running, Charged, PhaseOf

\* The jobs that run, or are about to, never need more of a resource than the
\* kernel booted with: not even when a slot id is used twice.
THEOREM NoOverselling == Spec => []NeverOversold
<1>1. ASSUME IInv, ChargesBalance PROVE NeverOversold
  <2> SUFFICES ASSUME NEW r \in Resources
               PROVE  Sum(r, InTransit \cup Running) <= Total[r]
    BY DEF NeverOversold
  <2> DEFINE held == InTransit \cup Running
  <2>1. held \in SUBSET Charged /\ IsFiniteSet(Charged) /\ Charged \subseteq Jobs
    BY <1>1, HeldIsCharged DEF IInv, ChargesBalance, Charged
  <2>2. \A j \in Charged : Quota(r)[j] \in Nat
    BY <2>1, QuotaNat
  <2>3. IsFiniteSet(held)
    BY <2>1, FS_Subset
  <2> HIDE DEF held
  <2>4. SumFunctionOnSet(Quota(r), held) <= SumFunctionOnSet(Quota(r), Charged)
    BY <2>1, <2>2, SumMonotone
  <2>5. SumFunctionOnSet(Quota(r), held) \in Nat
    BY <2>1, <2>2, <2>3, SumNat
  <2>6. /\ used[r] = SumFunctionOnSet(Quota(r), Charged)
        /\ used[r] <= Total[r] /\ used[r] \in Nat /\ Total[r] \in Nat
    BY <1>1, SumIsQuota, SchedulerAssumption DEF ChargesBalance, IInv, WithinBudget, TypeOK
  <2>7. SumFunctionOnSet(Quota(r), held) <= Total[r]
    BY <2>4, <2>5, <2>6
  <2> QED
    BY <2>7, SumIsQuota DEF held
<1> QED
  BY <1>1, Invariance, Balanced, PTL

(***************************************************************************)
(* With distinct slot ids the running table loses nobody.                  *)
(***************************************************************************)
\* OsKernel::enqueue_job makes the id of the pid and the caller's job number.
DistinctSlots == \A j, k \in Jobs : SlotId[j] = SlotId[k] => j = k

\* Whoever is charged is in the hands of a thread, or in its own slot.
ChargedIsHeld ==
  \A j \in Charged : running[SlotId[j]] = j \/ \E t \in Threads : job[t] = j

LEMMA HeldPreserved ==
  ASSUME DistinctSlots, IInv, ChargedIsHeld, NEW t \in Threads, Step(t)
  PROVE  ChargedIsHeld'
<1> USE SchedulerAssumption DEF IInv, TypeOK
<1>1. CASE TickDispatch(t)
  <2>1. PICK j \in queue : queue' = Remainder(j) /\ job' = [job EXCEPT ![t] = j]
    BY <1>1 DEF TickDispatch
  <2>2. UNCHANGED <<running, new, done>> /\ job[t] = NoJob
    BY <1>1 DEF TickDispatch, GuardsHeld
  <2>3. \A k \in Charged' : k \in Charged \/ k = j
    BY <2>1, <2>2 DEF Charged, PhaseOf, Remainder
  <2>4. ASSUME NEW k \in Charged, NEW u \in Threads, job[u] = k PROVE job'[u] = k
    BY <2>1, <2>2, <2>4 DEF Charged
  <2>5. job'[t] = j
    BY <2>1
  <2> QED
    BY <2>2, <2>3, <2>4, <2>5 DEF ChargedIsHeld
<1>2. CASE TickInsert(t)
  <2>1. Charged' = Charged
    BY <1>2, ChargedUnchanged DEF TickInsert
  <2>2. job[t] \in Jobs
    BY <1>2 DEF TickInsert, GuardsHeld
  <2>3. running' = [running EXCEPT ![SlotId[job[t]]] = job[t]]
        /\ job' = [job EXCEPT ![t] = NoJob]
    BY <1>2 DEF TickInsert
  <2>4. ASSUME NEW k \in Charged
        PROVE  running'[SlotId[k]] = k \/ \E u \in Threads : job'[u] = k
    <3>1. CASE k = job[t]
      BY <2>2, <2>3, <3>1
    <3>2. CASE k # job[t]
      <4>1. SlotId[k] # SlotId[job[t]]
        BY <2>2, <3>2 DEF DistinctSlots, Charged
      <4> QED
        BY <2>2, <2>3, <3>2, <4>1 DEF ChargedIsHeld
    <3> QED
      BY <3>1, <3>2
  <2> QED
    BY <2>1, <2>4 DEF ChargedIsHeld
<1>3. CASE CompleteRelease(t)
  <2>1. Charged' \subseteq Charged \ {job[t]} /\ UNCHANGED running
        /\ job' = [job EXCEPT ![t] = NoJob]
    BY <1>3 DEF CompleteRelease, Charged, PhaseOf
  <2> QED
    BY <2>1 DEF ChargedIsHeld
<1>4. CASE \E s \in SlotIds : CompleteRemove(t, s)
  <2>1. PICK s \in SlotIds : CompleteRemove(t, s)
    BY <1>4
  <2>2. Charged' = Charged
    BY <2>1, ChargedUnchanged DEF CompleteRemove
  <2>3. /\ running' = [running EXCEPT ![s] = NoJob] /\ job' = [job EXCEPT ![t] = running[s]]
        /\ job[t] = NoJob
    BY <2>1 DEF CompleteRemove, GuardsHeld
  <2>4. job'[t] = running[s]
    BY <2>3
  <2>5. ASSUME NEW k \in Charged, NEW u \in Threads, job[u] = k PROVE job'[u] = k
    BY <2>3, <2>5 DEF Charged
  <2>6. ASSUME NEW k \in Charged, running[SlotId[k]] = k
        PROVE  running'[SlotId[k]] = k \/ job'[t] = k
    BY <2>3, <2>4, <2>6 DEF Charged
  <2> QED
    BY <2>2, <2>5, <2>6 DEF ChargedIsHeld
<1>5. CASE \E j \in Jobs : Enqueue(t, j)
  <2>1. Charged' = Charged /\ UNCHANGED <<running, job>>
    BY <1>5 DEF Enqueue, Charged, PhaseOf
  <2> QED
    BY <2>1 DEF ChargedIsHeld
<1>6. CASE UNCHANGED <<new, queue, done, running, job>>
  BY <1>6, ChargedUnchanged DEF ChargedIsHeld
<1> QED
  BY <1>1, <1>2, <1>3, <1>4, <1>5, <1>6 DEF Step, TickLockQueue, TickNothing

LEMMA NextHeld == DistinctSlots /\ IInv /\ ChargedIsHeld /\ [Next]_vars => ChargedIsHeld'
<1> SUFFICES ASSUME DistinctSlots, IInv, ChargedIsHeld, [Next]_vars PROVE ChargedIsHeld'
  OBVIOUS
<1>1. CASE Next
  BY <1>1, HeldPreserved DEF Next
<1>2. CASE UNCHANGED vars
  BY <1>2, ChargedUnchanged DEF vars, ChargedIsHeld
<1> QED
  BY <1>1, <1>2

\* The counters are exactly what the jobs that run, or are about to, took:
\* nothing leaks and nothing is given back twice.
THEOREM NoLeak ==
  ASSUME DistinctSlots
  PROVE  Spec => []BudgetExact
<1>1. Init => ChargedIsHeld
  BY DEF Init, ChargedIsHeld, Charged, PhaseOf
<1>2. IInv /\ ChargedIsHeld /\ [Next]_vars => ChargedIsHeld'
  BY NextHeld
<1>3. ASSUME IInv, ChargesBalance, ChargedIsHeld PROVE BudgetExact
  <2>1. InTransit \cup Running \subseteq Charged
    BY <1>3, HeldIsCharged DEF IInv
  <2>2. Charged \subseteq InTransit \cup Running
    BY <1>3, SchedulerAssumption DEF ChargedIsHeld, Charged, InTransit, Running
  <2>3. InTransit \cup Running = Charged
    BY <2>1, <2>2
  <2> QED
    BY <1>3, <2>3 DEF ChargesBalance, BudgetExact
<1> QED
  BY <1>1, <1>2, <1>3, Invariance, Balanced, PTL DEF Spec

-----------------------------------------------------------------------------
(***************************************************************************)
(* The locks implement JobAdmission.                                       *)
(***************************************************************************)
Phases == [j \in Jobs |-> PhaseOf(j)]

\* Both modules sum with the same operator.
LEMMA SameSum ==
  ASSUME NEW f, NEW S
  PROVE  Admission!SumFunctionOnSet(f, S) = SumFunctionOnSet(f, S)
BY SumIsFold DEF Admission!SumFunctionOnSet, Admission!FoldFunctionOnSet,
                 Admission!MapThenFoldSet, Folding, Picked

\* What the abstract specification counts is what the counters say.
LEMMA InUseIsUsed ==
  ASSUME ChargesBalance
  PROVE  \A r \in Resources : Admission!InUse(r) = used[r]
<1>1. Admission!Phase("running") = Charged
  BY DEF Admission!Phase, Charged
<1> QED
  BY <1>1, SameSum DEF Admission!InUse, ChargesBalance, Sum

LEMMA FitsIsCanFit ==
  ASSUME ChargesBalance
  PROVE  \A j \in Jobs : Admission!Fits(j) <=> CanFit(j)
BY InUseIsUsed DEF Admission!Fits, CanFit

LEMMA QueuedPhase ==
  ASSUME IInv
  PROVE  Admission!Phase("queued") = queue
BY DEF Admission!Phase, PhaseOf, IInv, TypeOK, OnePlace

\* Every step is a submission, an admission, a finish or a stutter.
LEMMA StepImplements ==
  ASSUME IInv, ChargesBalance, NEW t \in Threads, Step(t)
  PROVE  Admission!Next \/ UNCHANGED Phases
<1> USE SchedulerAssumption DEF IInv, TypeOK, OnePlace
<1>1. CASE TickDispatch(t)
  <2>1. PICK j \in queue : /\ CanFit(j) /\ \A k \in queue : CanFit(k) => ~Before(k, j)
                           /\ queue' = Remainder(j)
    BY <1>1 DEF TickDispatch
  <2>2. j \in Jobs /\ UNCHANGED <<new, done>>
    BY <1>1 DEF TickDispatch
  <2>3. PhaseOf(j) = "queued"
    BY DEF PhaseOf
  <2>4. Phases' = [Phases EXCEPT ![j] = "running"]
    <3>1. ASSUME NEW k \in Jobs
          PROVE  PhaseOf(k)' = IF k = j THEN "running" ELSE PhaseOf(k)
      BY <2>1, <2>2 DEF PhaseOf, Remainder
    <3> QED
      BY <2>2, <3>1 DEF Phases
  <2>5. Admission!Move(j, "queued", "running")
    BY <2>2, <2>3, <2>4 DEF Admission!Move, Phases
  <2>6. Admission!Fits(j)
    BY <2>1, <2>2, FitsIsCanFit
  <2>7. \A k \in Admission!Phase("queued") : Admission!Fits(k) => ~Admission!Before(k, j)
    BY <2>1, FitsIsCanFit, QueuedPhase DEF Before, Admission!Before
  <2> QED
    BY <2>2, <2>5, <2>6, <2>7 DEF Admission!Admit, Admission!Next
<1>2. CASE CompleteRelease(t)
  <2>1. job[t] \in Jobs /\ job[t] \notin new \cup queue \cup done
    BY <1>2 DEF CompleteRelease, GuardsHeld
  <2>2. done' = done \cup {job[t]} /\ UNCHANGED <<new, queue>>
    BY <1>2 DEF CompleteRelease
  <2>3. PhaseOf(job[t]) = "running"
    BY <2>1 DEF PhaseOf
  <2>4. Phases' = [Phases EXCEPT ![job[t]] = "done"]
    BY <2>1, <2>2 DEF Phases, PhaseOf
  <2>5. Admission!Move(job[t], "running", "done")
    BY <2>1, <2>3, <2>4 DEF Admission!Move, Phases
  <2> QED
    BY <2>1, <2>5 DEF Admission!Finish, Admission!Next
<1>3. CASE \E j \in Jobs : Enqueue(t, j)
  <2>1. PICK j \in Jobs : Enqueue(t, j)
    BY <1>3
  <2>2. j \in new /\ queue' = queue \cup {j} /\ new' = new \ {j} /\ UNCHANGED done
    BY <2>1 DEF Enqueue
  <2>3. PhaseOf(j) = "new"
    BY <2>2 DEF PhaseOf
  <2>4. Phases' = [Phases EXCEPT ![j] = "queued"]
    BY <2>2 DEF Phases, PhaseOf
  <2>5. Admission!Move(j, "new", "queued")
    BY <2>3, <2>4 DEF Admission!Move, Phases
  <2> QED
    BY <2>5 DEF Admission!Submit, Admission!Next
<1>4. CASE UNCHANGED <<new, queue, done>>
  BY <1>4 DEF Phases, PhaseOf
<1> QED
  BY <1>1, <1>2, <1>3, <1>4 DEF Step, TickLockQueue, TickNothing, TickInsert, CompleteRemove

LEMMA NextImplements == IInv /\ ChargesBalance /\ [Next]_vars => [Admission!Next]_Phases
<1> SUFFICES ASSUME IInv, ChargesBalance, [Next]_vars PROVE [Admission!Next]_Phases
  OBVIOUS
<1>1. CASE Next
  BY <1>1, StepImplements DEF Next
<1>2. CASE UNCHANGED vars
  BY <1>2 DEF vars, Phases, PhaseOf
<1> QED
  BY <1>1, <1>2

\* kernel/scheduler.rs, lock by lock, does what JobAdmission promises: each
\* admission takes the best job that fits, each completion gives its quota back.
THEOREM Implements == Spec => ImplementsAdmission
<1>1. Init => Admission!Init
  BY DEF Init, Admission!Init, PhaseOf
<1>2. IInv /\ ChargesBalance /\ [Next]_vars => [Admission!Next]_Phases
  BY NextImplements
<1> QED
  BY <1>1, <1>2, Invariance, Balanced, PTL DEF Spec, ImplementsAdmission, Admission!Spec, Phases
=============================================================================

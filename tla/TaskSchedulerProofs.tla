------------------------- MODULE TaskSchedulerProofs -------------------------
(***************************************************************************)
(* What holds of the background registry, alone and under the task         *)
(* scheduler, for any number of tasks, any interleaving of the owner with  *)
(* the runtime's threads, and any limit.  The registry's invariant is      *)
(* proved of its operations, so both next-state relations keep it.         *)
(***************************************************************************)
EXTENDS TaskScheduler, FiniteSetTheorems, TLAPS

Statuses == {"none", "running", "completed", "failed", "cancelled"}

Types ==
  /\ handles \subseteq Ids /\ join \subseteq Ids
  /\ status \in [Ids -> Statuses]
  /\ future \in [Ids -> {"none", "pending", "ready", "over"}]
  /\ result \in [Ids -> Results \cup {"none"}]
  /\ poll \in [phase : {"no", "read", "dispatch"}, todo : SUBSET Ids, found : SUBSET (Ids \X Statuses)]

(***************************************************************************)
(* How a cell follows its future.  The cell of a panicked future says      *)
(* "running" until somebody cancels it, so "running" allows any future.    *)
(***************************************************************************)
CellFollows(i) ==
  /\ future[i] = "none" => status[i] = "none" /\ i \notin handles
  /\ future[i] = "pending" => status[i] = "running" /\ i \in handles
  /\ future[i] = "ready" => status[i] \in {"running", "cancelled"}
                              /\ result[i] \in {"completed", "failed"}
  /\ status[i] \in {"completed", "failed"} => future[i] = "over" /\ status[i] = result[i]
  /\ status[i] = "cancelled" => future[i] \in {"ready", "over"}

CellsFollow == \A i \in Ids : CellFollows(i)

WithinLimit == IsFiniteSet(Running) /\ Cardinality(Running) <= MaxConcurrent

\* What was found at its end was written by a future that is over.
FoundOver ==
  \A f \in poll.found : f[2] \in {"completed", "failed"} => future[f[1]] = "over"

\* The counters of the registry; a poll finds finitely many.
Bookkept ==
  /\ IsFiniteSet(poll.found)
  /\ completedCount \in 0..CompactEvery /\ compactRequested \in BOOLEAN

IInv == Types /\ CellsFollow /\ ReportsTrue /\ FoundOver /\ WithinLimit /\ Bookkept

-----------------------------------------------------------------------------
LEMMA InitHolds == InitRegistry => IInv
<1> SUFFICES ASSUME InitRegistry PROVE IInv
  OBVIOUS
<1>1. Types
  BY DEF InitRegistry, Types, Statuses, NoPoll
<1>2. CellsFollow
  BY DEF InitRegistry, CellsFollow, CellFollows
<1>3. ReportsTrue /\ FoundOver
  BY DEF InitRegistry, ReportsTrue, FoundOver, NoPoll
<1>4. WithinLimit
  <2>1. Running = {}
    BY DEF InitRegistry, Running
  <2> QED
    BY <2>1, FS_EmptySet, RegistryAssumption DEF WithinLimit
<1>5. Bookkept
  <2>1. poll.found = {} /\ IsFiniteSet({})
    BY FS_EmptySet DEF InitRegistry, NoPoll
  <2>2. completedCount \in 0..CompactEvery /\ compactRequested \in BOOLEAN
    <3>1. 0 \in 0..CompactEvery
      BY RegistryAssumption
    <3> QED
      BY <3>1 DEF InitRegistry
  <2> QED
    BY <2>1, <2>2 DEF Bookkept
<1> QED
  BY <1>1, <1>2, <1>3, <1>4, <1>5 DEF IInv

(***************************************************************************)
(* A step that leaves no more tasks running keeps to the limit.            *)
(***************************************************************************)
LEMMA FewerRun ==
  ASSUME WithinLimit, Running' \subseteq Running
  PROVE  WithinLimit'
<1>1. IsFiniteSet(Running') /\ Cardinality(Running') <= Cardinality(Running)
  BY FS_Subset DEF WithinLimit
<1>2. Cardinality(Running) \in Nat /\ Cardinality(Running') \in Nat
  BY <1>1, FS_CardinalityType DEF WithinLimit
<1> QED
  BY <1>1, <1>2, RegistryAssumption DEF WithinLimit

\* A step that touches neither the counters nor the poll keeps the books.
LEMMA BooksStay ==
  ASSUME Bookkept, UNCHANGED <<counts, poll>>
  PROVE  Bookkept'
BY DEF Bookkept, counts

\* The counter wraps within its bound.
LEMMA WrapsWithin ==
  ASSUME NEW n \in Nat
  PROVE  Wrapped(n) \in 0..CompactEvery
<1>1. CASE CompactEvery = 0 \/ n = 0
  BY <1>1, RegistryAssumption DEF Wrapped
<1>2. CASE CompactEvery # 0 /\ n # 0
  <2>1. CompactEvery \in Nat /\ CompactEvery > 0 /\ n - 1 \in Nat
    BY <1>2, RegistryAssumption
  <2>2. (n - 1) % CompactEvery \in 0..(CompactEvery - 1)
    BY <2>1
  <2> QED
    BY <1>2, <2>1, <2>2 DEF Wrapped
<1> QED
  BY <1>1, <1>2

LEMMA SpawnKeeps ==
  ASSUME IInv, NEW i \in Ids, Spawn(i), UNCHANGED <<counts, poll>>
  PROVE  IInv'
<1> USE DEF Spawn
<1>1. Types'
  BY DEF IInv, Types, Statuses
<1>2. CellsFollow'
  BY DEF IInv, Types, CellsFollow, CellFollows
<1>3. ReportsTrue' /\ FoundOver'
  BY DEF IInv, Types, ReportsTrue, FoundOver
<1>4. WithinLimit'
  <2>1. Running' = Running \cup {i}
    BY DEF IInv, Types, CellsFollow, CellFollows, Running, Terminal
  <2>2. /\ IsFiniteSet(Running')
        /\ Cardinality(Running') \in {Cardinality(Running), Cardinality(Running) + 1}
    BY <2>1, FS_AddElement DEF IInv, WithinLimit
  <2>3. Cardinality(Running) \in Nat /\ Cardinality(Running) < MaxConcurrent
    BY FS_CardinalityType DEF IInv, WithinLimit, HasSlot
  <2> QED
    BY <2>2, <2>3, RegistryAssumption DEF WithinLimit
<1>5. Bookkept'
  BY BooksStay DEF IInv
<1> QED
  BY <1>1, <1>2, <1>3, <1>4, <1>5 DEF IInv

LEMMA CancelKeeps ==
  ASSUME IInv, NEW i \in Ids, Cancel(i)
  PROVE  IInv'
<1> USE DEF Cancel, Idle
<1>1. Types'
  BY DEF IInv, Types, Statuses, counts
<1>2. CellsFollow'
  BY DEF IInv, Types, CellsFollow, CellFollows, Terminal
<1>3. ReportsTrue' /\ FoundOver'
  BY DEF IInv, Types, ReportsTrue, FoundOver
<1>4. Running' \subseteq Running
  BY DEF IInv, Types, Running, Terminal
<1>5. Bookkept'
  BY BooksStay DEF IInv
<1> QED
  BY <1>1, <1>2, <1>3, <1>4, <1>5, FewerRun DEF IInv

LEMMA FutureReadyKeeps ==
  ASSUME IInv, NEW i \in Ids, FutureReady(i)
  PROVE  IInv'
<1> USE DEF FutureReady
<1>1. PICK r \in Results :
        /\ result' = [result EXCEPT ![i] = r]
        /\ future' = [future EXCEPT ![i] = IF r = "panic" THEN "over" ELSE "ready"]
  OBVIOUS
<1>2. Types'
  BY <1>1 DEF IInv, Types, Statuses
<1>3. CellsFollow'
  BY <1>1, RegistryAssumption DEF IInv, Types, CellsFollow, CellFollows
<1>4. ReportsTrue' /\ FoundOver'
  BY <1>1 DEF IInv, Types, ReportsTrue, FoundOver
<1>5. Running' \subseteq Running
  BY DEF Running
<1>6. Bookkept'
  BY BooksStay DEF IInv
<1> QED
  BY <1>2, <1>3, <1>4, <1>5, <1>6, FewerRun DEF IInv

LEMMA WriteStatusKeeps ==
  ASSUME IInv, NEW i \in Ids, WriteStatus(i)
  PROVE  IInv'
<1> USE DEF WriteStatus
<1>0. result[i] \in {"completed", "failed"}
  BY DEF IInv, CellsFollow, CellFollows
<1>1. Types'
  BY <1>0 DEF IInv, Types, Statuses
<1>2. CellsFollow'
  BY <1>0 DEF IInv, Types, CellsFollow, CellFollows
<1>3. ReportsTrue' /\ FoundOver'
  BY DEF IInv, Types, ReportsTrue, FoundOver
<1>4. Running' \subseteq Running
  BY <1>0 DEF IInv, Types, Running, Terminal
<1>5. Bookkept'
  BY BooksStay DEF IInv
<1> QED
  BY <1>1, <1>2, <1>3, <1>4, <1>5, FewerRun DEF IInv

(***************************************************************************)
(* A poll reads a cell at an instant of its own.                           *)
(***************************************************************************)
LEMMA ReadKeeps ==
  ASSUME IInv, NEW i \in Ids, ReadHandle(i)
  PROVE  IInv'
<1> USE DEF ReadHandle, background
<1> DEFINE found == IF Terminal(status[i]) THEN poll.found \cup {<<i, status[i]>>}
                    ELSE poll.found
<1>0. poll' = [phase |-> poll.phase, todo |-> poll.todo \ {i}, found |-> found]
  BY DEF IInv, Types
<1>1. Types'
  <2>1. <<i, status[i]>> \in Ids \X Statuses
    BY DEF IInv, Types
  <2>2. found \in SUBSET (Ids \X Statuses)
    BY <2>1 DEF IInv, Types
  <2>3. poll.phase \in {"no", "read", "dispatch"} /\ poll.todo \ {i} \in SUBSET Ids
    BY DEF IInv, Types
  <2>4. poll' \in [phase : {"no", "read", "dispatch"}, todo : SUBSET Ids,
                  found : SUBSET (Ids \X Statuses)]
    <3> HIDE DEF found
    <3> QED
      BY <1>0, <2>2, <2>3
  <2> QED
    BY <2>4 DEF IInv, Types
<1>2. CellsFollow'
  BY DEF IInv, CellsFollow, CellFollows
<1>3. ReportsTrue' /\ FoundOver'
  <2> SUFFICES ASSUME NEW f \in poll'.found
               PROVE  /\ future[f[1]] \in {"ready", "over"}
                      /\ f[2] # "cancelled" => f[2] = result[f[1]]
                      /\ f[2] \in {"completed", "failed"} => future[f[1]] = "over"
    BY DEF ReportsTrue, FoundOver
  <2>1. f \in poll.found \/ (Terminal(status[i]) /\ f = <<i, status[i]>>)
    BY <1>0
  <2>2. CASE f \in poll.found
    BY <2>2 DEF IInv, ReportsTrue, FoundOver
  <2>3. CASE Terminal(status[i]) /\ f = <<i, status[i]>>
    <3>1. status[i] \in {"completed", "failed", "cancelled"}
      BY <2>3 DEF IInv, Types, Statuses, Terminal
    <3> QED
      BY <2>3, <3>1 DEF IInv, CellsFollow, CellFollows
  <2> QED
    BY <2>1, <2>2, <2>3
<1>4. Running' \subseteq Running
  BY DEF Running
<1>5. Bookkept'
  <2>1. IsFiniteSet(poll.found) /\ IsFiniteSet(poll.found \cup {<<i, status[i]>>})
    BY FS_AddElement DEF IInv, Bookkept
  <2> QED
    BY <1>0, <2>1 DEF IInv, Bookkept, counts
<1> QED
  BY <1>1, <1>2, <1>3, <1>4, <1>5, FewerRun DEF IInv

LEMMA PruneKeeps ==
  ASSUME IInv, Prune
  PROVE  IInv'
<1> USE DEF Prune, Idle
<1>1. Types'
  BY DEF IInv, Types, Running
<1>2. CellsFollow'
  BY DEF IInv, CellsFollow, CellFollows, Running, Terminal
<1>3. ReportsTrue' /\ FoundOver'
  BY DEF IInv, ReportsTrue, FoundOver
<1>4. Running' \subseteq Running
  BY DEF Running
<1>5. Bookkept'
  BY BooksStay DEF IInv
<1> QED
  BY <1>1, <1>2, <1>3, <1>4, <1>5, FewerRun DEF IInv

(***************************************************************************)
(* The ends of a poll: nothing has been found yet, or nothing is kept of   *)
(* it, and the registry itself is left alone.                              *)
(***************************************************************************)
Turnover ==
  /\ UNCHANGED background
  /\ poll' \in [phase : {"no", "read", "dispatch"}, todo : SUBSET Ids, found : {{}}]
  /\ completedCount' \in 0..CompactEvery /\ compactRequested' \in BOOLEAN

LEMMA TurnoverKeeps ==
  ASSUME IInv, Turnover
  PROVE  IInv'
<1> USE DEF Turnover, background
<1>1. poll'.found = {}
  OBVIOUS
<1>2. Types'
  BY DEF IInv, Types
<1>3. CellsFollow'
  BY DEF IInv, CellsFollow, CellFollows
<1>4. ReportsTrue' /\ FoundOver'
  BY <1>1 DEF ReportsTrue, FoundOver
<1>5. Bookkept'
  BY <1>1, FS_EmptySet DEF Bookkept
<1>6. Running' \subseteq Running
  BY DEF Running
<1> QED
  BY <1>2, <1>3, <1>4, <1>5, <1>6, FewerRun DEF IInv

LEMMA ReportTurnsOver ==
  ASSUME IInv, Report
  PROVE  Turnover
<1>1. completedCount + Cardinality(poll.found) \in Nat
  <2>1. Cardinality(poll.found) \in Nat
    BY FS_CardinalityType DEF IInv, Bookkept
  <2>2. completedCount \in Nat
    BY RegistryAssumption DEF IInv, Bookkept
  <2> QED
    BY <2>1, <2>2
<1>2. completedCount' \in 0..CompactEvery
  BY <1>1, WrapsWithin DEF Report
<1>3. compactRequested' \in BOOLEAN
  BY DEF Report, IInv, Bookkept
<1> QED
  BY <1>2, <1>3 DEF Report, Turnover, NoPoll

LEMMA StartTurnsOver ==
  ASSUME IInv, StartReading, UNCHANGED <<background, counts>>
  PROVE  Turnover
BY DEF StartReading, Turnover, counts, IInv, Types, Bookkept

LEMMA RuntimeKeeps ==
  ASSUME IInv, Runtime
  PROVE  IInv'
BY FutureReadyKeeps, WriteStatusKeeps DEF Runtime

LEMMA RestKeeps ==
  ASSUME IInv, UNCHANGED registry
  PROVE  IInv'
<1> USE DEF registry, background
<1>1. Types' /\ CellsFollow' /\ ReportsTrue' /\ FoundOver'
  BY DEF IInv, Types, CellsFollow, CellFollows, ReportsTrue, FoundOver
<1>2. Running' \subseteq Running
  BY DEF Running
<1>3. Bookkept'
  BY BooksStay DEF IInv
<1> QED
  BY <1>1, <1>2, <1>3, FewerRun DEF IInv

LEMMA StepHolds == IInv /\ [RegistryNext]_registry => IInv'
<1> SUFFICES ASSUME IInv, [RegistryNext]_registry PROVE IInv'
  OBVIOUS
<1>1. CASE \E i \in Ids : SpawnTask(i)
  BY <1>1, SpawnKeeps DEF SpawnTask
<1>2. CASE \E i \in Ids : Cancel(i)
  BY <1>2, CancelKeeps
<1>3. CASE \E i \in Ids : ReadHandle(i)
  BY <1>3, ReadKeeps
<1>4. CASE Prune
  BY <1>4, PruneKeeps
<1>5. CASE StartPoll
  BY <1>5, StartTurnsOver, TurnoverKeeps DEF StartPoll
<1>6. CASE Report
  BY <1>6, ReportTurnsOver, TurnoverKeeps
<1>7. CASE Runtime
  BY <1>7, RuntimeKeeps
<1>8. CASE UNCHANGED registry
  BY <1>8, RestKeeps
<1> QED
  BY <1>1, <1>2, <1>3, <1>4, <1>5, <1>6, <1>7, <1>8 DEF RegistryNext

\* The invariant the other theorems rest on.
THEOREM RegistryInvariant == RegistrySpec => []IInv
<1> QED
  BY InitHolds, StepHolds, PTL DEF RegistrySpec

\* However tasks are cancelled and pruned, spawn never lets more futures be
\* suspended on the runtime than the limit (background.rs spawn, prune).
THEOREM LimitKept == RegistrySpec => []ConcurrencyBounded
<1>1. IInv => ConcurrencyBounded
  <2> SUFFICES ASSUME IInv PROVE ConcurrencyBounded
    OBVIOUS
  <2> DEFINE Suspended == {i \in Ids : future[i] = "pending"}
  <2>1. Suspended \subseteq Running
    BY DEF IInv, CellsFollow, CellFollows, Running, Terminal
  <2>2. IsFiniteSet(Suspended) /\ Cardinality(Suspended) <= Cardinality(Running)
    BY <2>1, FS_Subset DEF IInv, WithinLimit
  <2>3. Cardinality(Suspended) \in Nat /\ Cardinality(Running) \in Nat
    BY <2>2, FS_CardinalityType DEF IInv, WithinLimit
  <2>4. Cardinality(Suspended) <= MaxConcurrent
    BY <2>2, <2>3, RegistryAssumption DEF IInv, WithinLimit
  <2> QED
    BY <2>1, <2>4 DEF ConcurrencyBounded
<1> QED
  BY <1>1, RegistryInvariant, PTL

\* What a poll reports is the truth about the future, although cells change
\* while it reads them (background.rs poll).
THEOREM PollsTellTheTruth == RegistrySpec => []ReportsTrue
<1>1. IInv => ReportsTrue
  BY DEF IInv
<1> QED
  BY <1>1, RegistryInvariant, PTL

\* A terminal status changes only from a cancellation to the result of a future
\* that was past stopping (background.rs cancel and the spawned future).
THEOREM TerminalIsFinal == RegistrySpec => StatusFinal
<1> DEFINE Kept ==
      \A i \in Ids :
        Terminal(status[i]) /\ status'[i] # status[i] =>
           status[i] = "cancelled" /\ future[i] = "ready" /\ status'[i] = result[i]
<1>1. IInv /\ [RegistryNext]_registry => [Kept]_registry
  <2> SUFFICES ASSUME IInv, RegistryNext, NEW i \in Ids,
                      Terminal(status[i]), status'[i] # status[i]
               PROVE  status[i] = "cancelled" /\ future[i] = "ready" /\ status'[i] = result[i]
    OBVIOUS
  <2>1. CASE \E j \in Ids : SpawnTask(j)
    BY <2>1 DEF IInv, Types, CellsFollow, CellFollows, SpawnTask, Spawn, Terminal
  <2>2. CASE \E j \in Ids : Cancel(j)
    BY <2>2 DEF IInv, Types, Cancel, Terminal
  <2>3. CASE \E j \in Ids : WriteStatus(j)
    <3>1. PICK j \in Ids : WriteStatus(j)
      BY <2>3
    <3>2. i = j
      BY <3>1 DEF IInv, Types, WriteStatus
    <3> QED
      BY <3>1, <3>2 DEF IInv, Types, CellsFollow, CellFollows, WriteStatus, Terminal
  <2>4. CASE status' = status
    BY <2>4
  <2>5. \/ \E j \in Ids : SpawnTask(j) \/ Cancel(j) \/ WriteStatus(j)
        \/ status' = status
    BY DEF RegistryNext, Runtime, FutureReady, ReadHandle, Prune, StartPoll, Report,
           background
  <2> QED
    BY <2>1, <2>2, <2>3, <2>4, <2>5
<1> QED
  BY <1>1, RegistryInvariant, PTL DEF RegistrySpec, StatusFinal

-----------------------------------------------------------------------------
(***************************************************************************)
(* The task scheduler.  Its registry is one to which only dispatched tasks *)
(* come, and from which none is taken; so what is in the registry is in    *)
(* the table as started, and what the poll has read comes from there.      *)
(***************************************************************************)
TaskTypes ==
  /\ tasks \in [Ids -> {"none", "pending", "running", "completed", "failed"}]
  /\ queue \in Seq(Async) /\ sinceDream \in 0..DreamAfter
  /\ turns \in 0..(MaxTurns + 1) /\ stopped \in BOOLEAN
  /\ ~stopped => turns <= MaxTurns

\* A poll reads the handles there are, and none goes away under it.
ReadsHandles ==
  poll.todo \subseteq handles /\ \A f \in poll.found : f[1] \in handles

\* Table and queue: a task waits exactly while it is pending, in one place.
QueuedOnce ==
  /\ \A j, k \in 1..Len(queue) : queue[j] = queue[k] => j = k
  /\ \A i \in Async : (tasks[i] = "pending") <=> \E k \in 1..Len(queue) : queue[k] = i

\* Table and registry: what was dispatched, and only that, has a handle.
Started ==
  /\ handles \subseteq Async
  /\ \A i \in Async : (tasks[i] \in {"running", "completed", "failed"}) <=> (i \in handles)

TaskInv == IInv /\ TaskTypes /\ ReadsHandles /\ QueuedOnce /\ Started /\ CompletionsTrue

LEMMA TaskInitHolds == Init => TaskInv
<1> SUFFICES ASSUME Init PROVE TaskInv
  OBVIOUS
<1>1. IInv
  BY InitHolds DEF Init
<1>2. TaskTypes
  <2>1. 0 \in 0..DreamAfter /\ 0 \in 0..(MaxTurns + 1) /\ 0 <= MaxTurns
    BY TaskAssumption
  <2>2. <<>> \in Seq(Async)
    OBVIOUS
  <2>3. [i \in Ids |-> "none"] \in [Ids -> {"none", "pending", "running", "completed", "failed"}]
    OBVIOUS
  <2> QED
    BY <2>1, <2>2, <2>3 DEF Init, TaskTypes
<1>3. ReadsHandles
  BY DEF Init, InitRegistry, NoPoll, ReadsHandles
<1>4. QueuedOnce
  BY TaskAssumption DEF Init, QueuedOnce
<1>5. Started /\ CompletionsTrue
  BY TaskAssumption DEF Init, InitRegistry, Started, CompletionsTrue
<1> QED
  BY <1>1, <1>2, <1>3, <1>4, <1>5 DEF TaskInv

(***************************************************************************)
(* What appending to a queue and taking its head do to the places in it.   *)
(***************************************************************************)
LEMMA AppendPlaces ==
  ASSUME NEW S, NEW q \in Seq(S), NEW x \in S
  PROVE  /\ Append(q, x) \in Seq(S)
         /\ Len(Append(q, x)) = Len(q) + 1
         /\ \A k \in 1..Len(q) : Append(q, x)[k] = q[k]
         /\ Append(q, x)[Len(q) + 1] = x
OBVIOUS

LEMMA TailPlaces ==
  ASSUME NEW S, NEW q \in Seq(S), q # <<>>
  PROVE  /\ Tail(q) \in Seq(S) /\ Head(q) \in S /\ Head(q) = q[1]
         /\ Len(q) \in Nat /\ Len(q) >= 1 /\ Len(Tail(q)) = Len(q) - 1
         /\ \A k \in 1..(Len(q) - 1) : Tail(q)[k] = q[k + 1]
OBVIOUS

LEMMA SubmitKeeps ==
  ASSUME TaskInv, NEW i \in Ids, Submit(i)
  PROVE  TaskInv'
<1> USE DEF Submit
<1>1. IInv'
  BY RestKeeps DEF TaskInv
<1>2. ReadsHandles'
  BY DEF TaskInv, ReadsHandles, registry, background
<1>3. Started' /\ CompletionsTrue'
  BY DEF TaskInv, TaskTypes, Started, CompletionsTrue, registry, background
<1>4. TaskTypes'
  BY DEF TaskInv, TaskTypes
<1>5. QueuedOnce'
  <2>1. CASE i \in Async
    <3> DEFINE n == Len(queue)
    <3>1. /\ queue' = Append(queue, i) /\ n \in Nat /\ Len(queue') = n + 1
          /\ \A k \in 1..n : queue'[k] = queue[k]
          /\ queue'[n + 1] = i
      BY <2>1, AppendPlaces DEF TaskInv, TaskTypes
    <3>2. \A k \in 1..n : queue[k] # i
      BY <2>1 DEF TaskInv, QueuedOnce
    <3>3. \A j, k \in 1..Len(queue)' : queue'[j] = queue'[k] => j = k
      <4> SUFFICES ASSUME NEW j \in 1..(n + 1), NEW k \in 1..(n + 1), queue'[j] = queue'[k]
                   PROVE  j = k
        BY <3>1
      <4>1. (j \in 1..n \/ j = n + 1) /\ (k \in 1..n \/ k = n + 1)
        BY <3>1
      <4> QED
        BY <4>1, <3>1, <3>2 DEF TaskInv, QueuedOnce
    <3>4. ASSUME NEW a \in Async
          PROVE  (tasks'[a] = "pending") <=> \E k \in 1..Len(queue)' : queue'[k] = a
      <4>1. \A k : k \in 1..Len(queue)' <=> k \in 1..n \/ k = n + 1
        BY <3>1
      <4>2. CASE a = i
        BY <4>1, <4>2, <3>1, TaskAssumption DEF TaskInv, TaskTypes
      <4>3. CASE a # i
        <5>1. tasks'[a] = tasks[a]
          BY <4>3, TaskAssumption DEF TaskInv, TaskTypes
        <5> QED
          BY <5>1, <4>1, <4>3, <3>1 DEF TaskInv, QueuedOnce
      <4> QED
        BY <4>2, <4>3
    <3> QED
      BY <3>3, <3>4 DEF QueuedOnce
  <2>2. CASE i \notin Async
    BY <2>2, TaskAssumption DEF TaskInv, TaskTypes, QueuedOnce
  <2> QED
    BY <2>1, <2>2
<1> QED
  BY <1>1, <1>2, <1>3, <1>4, <1>5 DEF TaskInv

LEMMA OneMore ==
  ASSUME NEW n \in Nat, NEW k \in 0..(n + 1), k <= n
  PROVE  k + 1 \in 0..(n + 1)
OBVIOUS

LEMMA RecordThinkTurnKeeps ==
  ASSUME TaskInv, NEW i \in Ids, RecordThinkTurn(i)
  PROVE  TaskInv'
<1> USE DEF RecordThinkTurn
<1>1. IInv'
  BY RestKeeps DEF TaskInv
<1>2. ReadsHandles'
  BY DEF TaskInv, ReadsHandles, registry, background
<1>3. tasks' \in [Ids -> {"none", "pending", "running", "completed", "failed"}]
  BY DEF TaskInv, TaskTypes, Failed
<1>4. \A a \in Async : tasks'[a] = tasks[a]
  BY TaskAssumption DEF TaskInv, TaskTypes, Failed
<1>5. TaskTypes'
  <2>1. turns \in 0..(MaxTurns + 1) /\ turns <= MaxTurns
    BY DEF TaskInv, TaskTypes
  <2>2. turns + 1 \in 0..(MaxTurns + 1)
    BY <2>1, TaskAssumption, OneMore
  <2>3. stopped' \in BOOLEAN
    <3>1. (turns' >= MaxTurns) \in BOOLEAN
      BY <2>2, TaskAssumption
    <3> HIDE DEF RecordThinkTurn
    <3>2. stopped' \in {TRUE, turns' >= MaxTurns}
      BY DEF RecordThinkTurn
    <3> QED
      BY <3>1, <3>2
  <2>4. ~stopped' => turns' <= MaxTurns
    <3>1. turns + 1 >= MaxTurns \/ turns + 1 <= MaxTurns
      BY <2>2, TaskAssumption
    <3> QED
      BY <3>1
  <2> QED
    BY <1>3, <2>2, <2>3, <2>4 DEF TaskInv, TaskTypes
<1>6. QueuedOnce' /\ Started'
  BY <1>4 DEF TaskInv, QueuedOnce, Started, registry, background
<1>7. CompletionsTrue'
  BY <1>4 DEF TaskInv, TaskTypes, CompletionsTrue, Failed, registry, background
<1> QED
  BY <1>1, <1>2, <1>5, <1>6, <1>7 DEF TaskInv

(***************************************************************************)
(* poll.                                                                   *)
(***************************************************************************)
LEMMA TurnoverKeepsTasks ==
  ASSUME TaskInv, Turnover, poll'.todo \subseteq handles, UNCHANGED scheduling
  PROVE  TaskInv'
<1> USE DEF scheduling, background
<1>1. IInv'
  BY TurnoverKeeps DEF TaskInv
<1>2. UNCHANGED <<handles, future, result>> /\ poll'.found = {}
  BY DEF Turnover
<1>3. TaskTypes' /\ QueuedOnce' /\ Started' /\ CompletionsTrue' /\ ReadsHandles'
  BY <1>2 DEF TaskInv, TaskTypes, QueuedOnce, Started, CompletionsTrue, ReadsHandles
<1> QED
  BY <1>1, <1>3 DEF TaskInv

LEMMA DispatchOneKeeps ==
  ASSUME TaskInv, DispatchOne
  PROVE  TaskInv'
<1> DEFINE i == Head(queue)
<1> DEFINE n == Len(queue)
<1>1. /\ i \in Async /\ i \in Ids /\ i = queue[1] /\ Tail(queue) \in Seq(Async)
      /\ n \in Nat /\ n >= 1 /\ Len(Tail(queue)) = n - 1
      /\ \A k \in 1..(n - 1) : Tail(queue)[k] = queue[k + 1]
  BY TailPlaces, TaskAssumption DEF TaskInv, TaskTypes, DispatchOne
<1>2. tasks[i] = "pending"
  <2>1. 1 \in 1..n
    BY <1>1
  <2> QED
    BY <2>1, <1>1 DEF TaskInv, QueuedOnce
<1>3. /\ tasks' = [tasks EXCEPT ![i] = "running"] /\ queue' = Tail(queue)
      /\ handles' = handles \cup {i} /\ UNCHANGED <<poll, result, sinceDream, turns, stopped>>
      /\ future[i] = "none" /\ future' = [future EXCEPT ![i] = "pending"]
  BY <1>2 DEF DispatchOne, Spawn
<1>4. IInv'
  BY <1>1, SpawnKeeps DEF TaskInv, DispatchOne
<1> HIDE DEF i, n
<1>5. TaskTypes'
  BY <1>1, <1>3 DEF TaskInv, TaskTypes
<1>6. ReadsHandles'
  BY <1>3 DEF TaskInv, ReadsHandles
<1>7. Started'
  BY <1>1, <1>3, TaskAssumption DEF TaskInv, TaskTypes, Started
<1>8. CompletionsTrue'
  BY <1>1, <1>2, <1>3 DEF TaskInv, TaskTypes, IInv, Types, CompletionsTrue
<1>9. QueuedOnce'
  <2>1. \A k \in 1..(n - 1) : k + 1 \in 1..n /\ k + 1 # 1
    BY <1>1
  <2>2. \A j, k \in 1..(n - 1) : j + 1 = k + 1 => j = k
    BY <1>1
  <2>3. Len(queue)' = n - 1 /\ \A k \in 1..(n - 1) : queue'[k] = queue[k + 1]
    BY <1>1, <1>3
  <2>4. \A j, k \in 1..(n - 1) : queue'[j] = queue'[k] => j = k
    <3> SUFFICES ASSUME NEW j \in 1..(n - 1), NEW k \in 1..(n - 1), queue'[j] = queue'[k]
                 PROVE  j = k
      OBVIOUS
    <3>1. queue[j + 1] = queue[k + 1] /\ j + 1 \in 1..n /\ k + 1 \in 1..n
      BY <2>1, <2>3
    <3>2. j + 1 = k + 1
      BY <3>1 DEF TaskInv, QueuedOnce, n
    <3> QED
      BY <3>2, <2>2
  <2>5. ASSUME NEW a \in Async
        PROVE  (tasks'[a] = "pending") <=> \E k \in 1..(n - 1) : queue'[k] = a
    <3>1. CASE a = i
      <4>1. tasks'[a] = "running"
        BY <3>1, <1>1, <1>3 DEF TaskInv, TaskTypes
      <4>2. ASSUME NEW k \in 1..(n - 1) PROVE queue'[k] # a
        <5>1. queue'[k] = queue[k + 1] /\ k + 1 \in 1..n /\ k + 1 # 1 /\ 1 \in 1..n
          BY <2>1, <2>3, <1>1
        <5>2. queue[k + 1] # queue[1]
          BY <5>1 DEF TaskInv, QueuedOnce, n
        <5> QED
          BY <5>1, <5>2, <3>1, <1>1
      <4> QED
        BY <4>1, <4>2
    <3>2. CASE a # i
      <4>1. tasks'[a] = tasks[a] /\ a \in Ids
        BY <3>2, <1>3, TaskAssumption DEF TaskInv, TaskTypes
      <4>2. (tasks[a] = "pending") <=> \E k \in 1..n : queue[k] = a
        BY DEF TaskInv, QueuedOnce, n
      <4>3. ASSUME NEW k \in 1..n, queue[k] = a PROVE k - 1 \in 1..(n - 1) /\ (k - 1) + 1 = k
        BY <4>3, <3>2, <1>1
      <4> QED
        BY <4>1, <4>2, <4>3, <2>1, <2>3
    <3> QED
      BY <3>1, <3>2
  <2> QED
    BY <2>3, <2>4, <2>5 DEF QueuedOnce
<1> QED
  BY <1>4, <1>5, <1>6, <1>7, <1>8, <1>9 DEF TaskInv

LEMMA ReadBackgroundKeeps ==
  ASSUME TaskInv, ReadBackground
  PROVE  TaskInv'
<1> USE DEF ReadBackground, scheduling
<1>1. PICK i \in Ids : ReadHandle(i)
  OBVIOUS
<1>2. IInv'
  BY <1>1, ReadKeeps DEF TaskInv
<1>3. TaskTypes' /\ QueuedOnce' /\ Started' /\ CompletionsTrue'
  BY <1>1 DEF TaskInv, TaskTypes, QueuedOnce, Started, CompletionsTrue, ReadHandle, background
<1>4. /\ poll'.todo = poll.todo \ {i} /\ handles' = handles /\ i \in poll.todo
      /\ poll'.found \subseteq poll.found \cup {<<i, status[i]>>}
  BY <1>1 DEF TaskInv, IInv, Types, ReadHandle, background
<1>5. ReadsHandles'
  BY <1>4 DEF TaskInv, ReadsHandles
<1> QED
  BY <1>2, <1>3, <1>5 DEF TaskInv

(***************************************************************************)
(* What the end of a poll carries over to the table: nothing for a task    *)
(* that still waits, and the future's own result for one it knows started. *)
(***************************************************************************)
LEMMA CarriedTruly ==
  ASSUME TaskInv, NEW i \in Ids
  PROVE  \/ Carried(i) = tasks[i]
         \/ /\ i \in handles /\ tasks[i] = "running"
            /\ Carried(i) \in {"completed", "failed"}
            /\ future[i] = "over" /\ result[i] = Carried(i)
<1>1. ASSUME NEW s \in {"completed", "failed"}, <<i, s>> \in poll.found
      PROVE  i \in handles /\ future[i] = "over" /\ result[i] = s
  BY <1>1 DEF TaskInv, IInv, ReadsHandles, FoundOver, ReportsTrue
<1>2. CASE <<i, "completed">> \in poll.found /\ tasks[i] = "running"
  BY <1>1, <1>2 DEF Carried
<1>3. CASE <<i, "failed">> \in poll.found /\ ~(<<i, "completed">> \in poll.found /\ tasks[i] = "running")
  <2>1. i \in handles /\ future[i] = "over" /\ result[i] = "failed"
    BY <1>1, <1>3
  <2>2. tasks[i] \in {"running", "completed", "failed"}
    BY <2>1 DEF TaskInv, Started
  <2>3. Carried(i) = Failed(i)[i]
    BY <1>3 DEF Carried
  <2> QED
    BY <2>1, <2>2, <2>3 DEF Failed, TaskInv, TaskTypes
<1>4. CASE <<i, "failed">> \notin poll.found /\ ~(<<i, "completed">> \in poll.found /\ tasks[i] = "running")
  BY <1>4 DEF Carried
<1> QED
  BY <1>2, <1>3, <1>4

LEMMA CountWithin ==
  ASSUME NEW c \in Nat, NEW d \in Nat
  PROVE  (IF c < d THEN c ELSE d) \in 0..d
OBVIOUS

LEMMA FinishPollKeeps ==
  ASSUME TaskInv, FinishPoll
  PROVE  TaskInv'
<1>1. IInv' /\ Turnover
  BY ReportTurnsOver, TurnoverKeeps DEF TaskInv, FinishPoll
<1>2. UNCHANGED <<handles, future, result, queue, turns, stopped>>
      /\ tasks' = [i \in Ids |-> Carried(i)]
  BY DEF FinishPoll, Report, background
<1>3. \A i \in Ids : tasks'[i] = Carried(i)
  BY <1>2
<1>4. tasks' \in [Ids -> {"none", "pending", "running", "completed", "failed"}]
  <2>1. \A i \in Ids : Carried(i) \in {"none", "pending", "running", "completed", "failed"}
    BY CarriedTruly DEF TaskInv, TaskTypes
  <2> QED
    BY <2>1, <1>2
<1>5. sinceDream' \in 0..DreamAfter
  <2> DEFINE c == sinceDream + Cardinality(poll.found)
  <2>1. c \in Nat
    <3>1. Cardinality(poll.found) \in Nat
      BY FS_CardinalityType DEF TaskInv, IInv, Bookkept
    <3>2. sinceDream \in Nat
      BY TaskAssumption DEF TaskInv, TaskTypes
    <3> QED
      BY <3>1, <3>2
  <2>2. sinceDream' \in {0, IF c < DreamAfter THEN c ELSE DreamAfter}
    BY DEF FinishPoll, MaybeDream
  <2> HIDE DEF c
  <2>3. 0 \in 0..DreamAfter /\ (IF c < DreamAfter THEN c ELSE DreamAfter) \in 0..DreamAfter
    BY <2>1, CountWithin, TaskAssumption
  <2> QED
    BY <2>2, <2>3
<1>6. TaskTypes'
  BY <1>2, <1>4, <1>5 DEF TaskInv, TaskTypes
<1>7. ReadsHandles'
  BY DEF FinishPoll, Report, NoPoll, ReadsHandles
<1>8. QueuedOnce' /\ Started'
  <2>1. \A i \in Async : /\ (tasks'[i] = "pending") <=> (tasks[i] = "pending")
                         /\ tasks'[i] \in {"running", "completed", "failed"}
                              <=> tasks[i] \in {"running", "completed", "failed"}
    BY <1>3, CarriedTruly, TaskAssumption
  <2> QED
    BY <2>1, <1>2 DEF TaskInv, QueuedOnce, Started
<1>9. CompletionsTrue'
  <2>1. \A i \in Ids : tasks'[i] = tasks[i] \/ (future[i] = "over" /\ result[i] = tasks'[i])
    BY <1>3, CarriedTruly
  <2> QED
    BY <2>1, <1>2 DEF TaskInv, CompletionsTrue
<1> QED
  BY <1>1, <1>6, <1>7, <1>8, <1>9 DEF TaskInv

\* The runtime's threads only move futures on, and never one that is over.
LEMMA RuntimeKeepsTasks ==
  ASSUME TaskInv, Runtime, UNCHANGED scheduling
  PROVE  TaskInv'
<1> USE DEF scheduling
<1>1. IInv'
  BY RuntimeKeeps DEF TaskInv
<1>2. PICK i \in Ids : FutureReady(i) \/ WriteStatus(i)
  BY DEF Runtime
<1>3. /\ UNCHANGED <<handles, poll>>
      /\ \A a \in Ids : future[a] = "over" => future'[a] = "over" /\ result'[a] = result[a]
  BY <1>2 DEF FutureReady, WriteStatus, TaskInv, IInv, Types
<1>4. TaskTypes' /\ ReadsHandles' /\ QueuedOnce' /\ Started' /\ CompletionsTrue'
  BY <1>3 DEF TaskInv, TaskTypes, ReadsHandles, QueuedOnce, Started, CompletionsTrue
<1> QED
  BY <1>1, <1>4 DEF TaskInv

LEMMA TaskStepHolds == TaskInv /\ [Next]_vars => TaskInv'
<1> SUFFICES ASSUME TaskInv, [Next]_vars PROVE TaskInv'
  OBVIOUS
<1>1. CASE \E i \in Ids : Submit(i)
  BY <1>1, SubmitKeeps
<1>2. CASE \E i \in Ids : RecordThinkTurn(i)
  BY <1>2, RecordThinkTurnKeeps
<1>3. CASE StartDispatch
  <2>1. Turnover /\ poll'.todo = {}
    BY <1>3 DEF StartDispatch, Turnover, NoPoll, counts, TaskInv, IInv, Bookkept
  <2> QED
    BY <1>3, <2>1, TurnoverKeepsTasks DEF StartDispatch
<1>4. CASE DispatchOne
  BY <1>4, DispatchOneKeeps
<1>5. CASE EndDispatch
  <2>1. Turnover /\ poll'.todo = handles
    BY <1>5, StartTurnsOver DEF EndDispatch, StartReading, TaskInv
  <2> QED
    BY <1>5, <2>1, TurnoverKeepsTasks DEF EndDispatch
<1>6. CASE ReadBackground
  BY <1>6, ReadBackgroundKeeps
<1>7. CASE FinishPoll
  BY <1>7, FinishPollKeeps
<1>8. CASE Runtime /\ UNCHANGED scheduling
  BY <1>8, RuntimeKeepsTasks
<1>9. CASE UNCHANGED vars
  <2>1. UNCHANGED registry /\ UNCHANGED <<handles, future, result, poll>> /\ UNCHANGED scheduling
    BY <1>9 DEF vars, registry, background
  <2>2. IInv'
    BY <2>1, RestKeeps DEF TaskInv
  <2> QED
    BY <2>1, <2>2 DEF TaskInv, TaskTypes, ReadsHandles, QueuedOnce, Started,
       CompletionsTrue, scheduling
<1> QED
  BY <1>1, <1>2, <1>3, <1>4, <1>5, <1>6, <1>7, <1>8, <1>9 DEF Next

\* The invariant the theorems about the scheduler rest on.
THEOREM TaskInvariant == Spec => []TaskInv
<1> QED
  BY TaskInitHolds, TaskStepHolds, PTL DEF Spec

\* Types of table, queue and registry, for any number of tasks; the query engine
\* counts one turn past its limit at most (tasks/scheduler.rs record_think_turn).
THEOREM TypeCorrect == Spec => []TypeOK
<1>1. TaskInv => TypeOK
  <2> SUFFICES ASSUME TaskInv PROVE TypeOK
    OBVIOUS
  <2>1. Found \subseteq Ids
    BY DEF TaskInv, IInv, Types, Found
  <2>2. RegistryTypeOK
    BY <2>1 DEF TaskInv, IInv, Types, Statuses, Bookkept, RegistryTypeOK
  <2> QED
    BY <2>2 DEF TaskInv, TaskTypes, TypeOK
<1> QED
  BY <1>1, TaskInvariant, PTL

\* The table, the queue and the registry are three records of a task, and they
\* agree whenever a poll or a submission may look (tasks/scheduler.rs submit,
\* dispatch_pending, poll).
THEOREM RecordsAgree == Spec => []TablesAgree
<1>1. TaskInv => TablesAgree
  <2> SUFFICES ASSUME TaskInv PROVE TablesAgree
    OBVIOUS
  <2> DEFINE n == Len(queue)
  <2>1. n \in Nat /\ \A k \in 1..n : queue[k] \in Async
    BY DEF TaskInv, TaskTypes
  <2>2. Queued = {i \in Async : tasks[i] = "pending"}
    BY <2>1 DEF Queued, TaskInv, QueuedOnce
  <2>3. n = Cardinality(Queued)
    <3> DEFINE place == [k \in 1..n |-> queue[k]]
    <3>1. place \in Bijection(1..n, Queued)
      BY DEF Bijection, Injection, Surjection, IsInjective, Queued, TaskInv, QueuedOnce
    <3>2. ExistsBijection(1..n, Queued)
      BY <3>1 DEF ExistsBijection
    <3> QED
      BY <2>1, <3>2, FS_CountingElements
  <2>4. {i \in Async : tasks[i] \in {"running", "completed", "failed"}} = handles
    BY DEF TaskInv, Started
  <2> QED
    BY <2>2, <2>3, <2>4 DEF TablesAgree
<1> QED
  BY <1>1, TaskInvariant, PTL

\* A task is recorded as completed, or an async one as failed, only after its
\* future ended that way (tasks/scheduler.rs poll, background.rs poll).
THEOREM OutcomesTrue == Spec => []CompletionsTrue
<1>1. TaskInv => CompletionsTrue
  BY DEF TaskInv
<1> QED
  BY <1>1, TaskInvariant, PTL
=============================================================================

--------------------------- MODULE TaskScheduler ---------------------------
(***************************************************************************)
(* The task scheduler (omokoda-core/src/tasks): TaskManager's table of     *)
(* tasks, the queue of async tasks not yet dispatched, and the background  *)
(* registry that runs them.  poll dispatches until the registry is full,   *)
(* reads the registry, and carries what it found over to the table.  Its   *)
(* registry is its own, and nobody cancels there.  The futures it spawns   *)
(* today yield once and return Ok (Results = {"completed"}).               *)
(***************************************************************************)
EXTENDS BackgroundRegistry, Sequences

CONSTANTS
  Async,        \* tasks whose kind is_async; the others are Think or Act
  DreamAfter,   \* dream_after_tasks
  MaxTurns      \* turns after which the query engine stops

ASSUME TaskAssumption ==
  /\ Async \subseteq Ids /\ DreamAfter \in Nat \ {0} /\ MaxTurns \in Nat

VARIABLES
  tasks,        \* TaskManager: [Ids -> status]
  queue,        \* pending_queue
  sinceDream,   \* completed_since_dream
  turns,        \* query_state.turn_count
  stopped       \* query_state.stop_reason is set

scheduling == <<tasks, queue, sinceDream, turns, stopped>>
vars == <<registry, scheduling>>

Init ==
  /\ InitRegistry
  /\ tasks = [i \in Ids |-> "none"] /\ queue = <<>>
  /\ sinceDream = 0 /\ turns = 0 /\ stopped = FALSE

Submit(i) ==
  /\ Idle /\ tasks[i] = "none"
  /\ tasks' = [tasks EXCEPT ![i] = "pending"]
  /\ queue' = IF i \in Async THEN Append(queue, i) ELSE queue
  /\ UNCHANGED <<registry, sinceDream, turns, stopped>>

\* TaskManager::fail leaves a terminal task alone.
Failed(i) ==
  IF tasks[i] \in {"pending", "running"} THEN [tasks EXCEPT ![i] = "failed"] ELSE tasks

\* Mutant: the stop is not remembered.
RecordThinkTurn_again(i) ==
  /\ Idle /\ tasks[i] # "none" /\ i \notin Async
  /\ turns' = turns + 1 /\ stopped' \in {TRUE, turns' >= MaxTurns}
  /\ tasks' = IF stopped' THEN Failed(i) ELSE tasks
  /\ UNCHANGED <<registry, queue, sinceDream>>

\* Once stopped, the stored reason is returned and nothing changes.  Tokens or
\* synapse may run out before the turns do.
RecordThinkTurn(i) ==
  /\ Idle /\ tasks[i] # "none" /\ i \notin Async /\ ~stopped
  /\ turns' = turns + 1 /\ stopped' \in {TRUE, turns' >= MaxTurns}
  /\ tasks' = IF stopped' THEN Failed(i) ELSE tasks
  /\ UNCHANGED <<registry, queue, sinceDream>>

(***************************************************************************)
(* poll.                                                                   *)
(***************************************************************************)
StartDispatch ==
  /\ Idle
  /\ poll' = [NoPoll EXCEPT !.phase = "dispatch"]
  /\ UNCHANGED <<background, counts, scheduling>>

\* Mutant: a task the registry refuses leaves the queue all the same.
DispatchOne_dropped ==
  /\ poll.phase = "dispatch" /\ queue # <<>>
  /\ IF HasSlot THEN Spawn(Head(queue)) ELSE UNCHANGED background
  /\ tasks' = [tasks EXCEPT ![Head(queue)] = IF HasSlot THEN "running" ELSE @]
  /\ queue' = Tail(queue)
  /\ UNCHANGED <<counts, poll, sinceDream, turns, stopped>>

\* Mutant: the task is not marked as started.
DispatchOne_notStarted ==
  /\ poll.phase = "dispatch" /\ queue # <<>>
  /\ Spawn(Head(queue))
  /\ queue' = Tail(queue)
  /\ UNCHANGED <<counts, poll, tasks, sinceDream, turns, stopped>>

DispatchOne ==
  /\ poll.phase = "dispatch" /\ queue # <<>>
  /\ Spawn(Head(queue))
  /\ tasks' = [tasks EXCEPT ![Head(queue)] = IF @ = "pending" THEN "running" ELSE @]
  /\ queue' = Tail(queue)
  /\ UNCHANGED <<counts, poll, sinceDream, turns, stopped>>

EndDispatch ==
  /\ poll.phase = "dispatch" /\ (queue = <<>> \/ ~HasSlot)
  /\ StartReading
  /\ UNCHANGED <<background, counts, scheduling>>

ReadBackground ==
  /\ \E i \in Ids : ReadHandle(i)
  /\ UNCHANGED scheduling

\* TaskManager::complete takes only a running task, fail any that is not over.
Carried(i) ==
  IF <<i, "completed">> \in poll.found /\ tasks[i] = "running" THEN "completed"
  ELSE IF <<i, "failed">> \in poll.found THEN Failed(i)[i]
  ELSE tasks[i]

\* A dream runs when it is due and the engine is willing; DreamEngine and its
\* interval are not modelled, so being willing is a choice.  The count matters
\* no further than DreamAfter.
MaybeDream ==
  LET count == sinceDream + Cardinality(poll.found)
  IN  \/ count >= DreamAfter /\ sinceDream' = 0
      \/ sinceDream' = IF count < DreamAfter THEN count ELSE DreamAfter

FinishPoll ==
  /\ Report
  /\ tasks' = [i \in Ids |-> Carried(i)]
  /\ MaybeDream
  /\ UNCHANGED <<queue, turns, stopped>>

Next ==
  \/ \E i \in Ids : Submit(i) \/ RecordThinkTurn(i)
  \/ StartDispatch \/ DispatchOne \/ EndDispatch \/ ReadBackground \/ FinishPoll
  \/ Runtime /\ UNCHANGED scheduling

Spec == Init /\ [][Next]_vars

\* The runtime polls its futures, and whoever owns the scheduler polls it.
Poll == StartDispatch \/ DispatchOne \/ EndDispatch \/ ReadBackground \/ FinishPoll
FairSpec ==
  Spec /\ WF_vars(Poll) /\ \A i \in Ids : WF_vars((FutureReady(i) \/ WriteStatus(i)) /\ UNCHANGED scheduling)

(***************************************************************************)
(* Properties.                                                             *)
(***************************************************************************)
Queued == {queue[k] : k \in 1..Len(queue)}

\* Types; a query engine that stopped counts no further turn.
TypeOK ==
  /\ RegistryTypeOK
  /\ tasks \in [Ids -> {"none", "pending", "running", "completed", "failed"}]
  /\ queue \in Seq(Async) /\ sinceDream \in 0..DreamAfter /\ turns \in 0..(MaxTurns + 1)
  /\ stopped \in BOOLEAN

\* The queue, the table and the registry agree: a task waits in the queue,
\* once, exactly while it is async and pending, and is running or over exactly
\* when the registry has it.
TablesAgree ==
  /\ Queued = {i \in Async : tasks[i] = "pending"}
  /\ Len(queue) = Cardinality(Queued)
  /\ {i \in Async : tasks[i] \in {"running", "completed", "failed"}} = handles

\* A completed task is one whose future really returned its output, a failed one
\* had a future that failed or, being no async task, was failed by the budget.
CompletionsTrue ==
  \A i \in Ids :
    /\ tasks[i] = "completed" => future[i] = "over" /\ result[i] = "completed"
    /\ tasks[i] = "failed" /\ i \in Async => future[i] = "over" /\ result[i] = "failed"

\* If the scheduler is polled, every async task is dispatched when a slot gets
\* free, runs, and is found completed.
SubmittedTasksFinish ==
  \A i \in Async : tasks[i] = "pending" ~> tasks[i] = "completed"
=============================================================================

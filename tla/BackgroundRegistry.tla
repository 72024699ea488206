------------------------- MODULE BackgroundRegistry -------------------------
(***************************************************************************)
(* Background tasks (omokoda-core/src/background.rs).  The owner calls the *)
(* registry through &mut self, one operation at a time; the spawned        *)
(* futures run on the runtime's other threads and share one status cell    *)
(* with their handle.  Once a future is ready it writes its cell without   *)
(* another await, so an abort cannot stop it any more.  Ids are fresh      *)
(* (tasks/types.rs prefixed_id), so each is spawned once.                  *)
(***************************************************************************)
EXTENDS Naturals, FiniteSets

CONSTANTS
  Ids,
  Results,        \* how a future may end: subset of {"completed", "failed", "panic"}
  MaxConcurrent,  \* max_concurrent
  CompactEvery    \* auto_compact_every; 0 stands for None

ASSUME RegistryAssumption ==
  /\ Results \subseteq {"completed", "failed", "panic"}
  /\ MaxConcurrent \in Nat \ {0} /\ CompactEvery \in Nat

VARIABLES
  handles,          \* ids in the registry
  status,           \* [Ids -> status], the shared cells
  join,             \* handles whose JoinHandle was not taken by cancel
  future,           \* [Ids -> "none", "pending", "ready" or "over"]
  result,           \* [Ids -> what a ready future returned]
  completedCount, compactRequested,
  poll              \* a poll under way: handles still to read, and those found done

background == <<handles, status, join, future, result>>
counts == <<completedCount, compactRequested>>
registry == <<background, counts, poll>>

Terminal(s) == s \notin {"none", "running"}
Idle == poll.phase = "no"
NoPoll == [phase |-> "no", todo |-> {}, found |-> {}]

InitRegistry ==
  /\ handles = {} /\ join = {}
  /\ status = [i \in Ids |-> "none"] /\ future = [i \in Ids |-> "none"]
  /\ result = [i \in Ids |-> "none"]
  /\ completedCount = 0 /\ compactRequested = FALSE
  /\ poll = NoPoll

Running == {i \in handles : ~Terminal(status[i])}

HasSlot == Cardinality(Running) < MaxConcurrent

Spawn(i) ==
  /\ future[i] = "none" /\ HasSlot
  /\ handles' = handles \cup {i} /\ join' = join \cup {i}
  /\ status' = [status EXCEPT ![i] = "running"]
  /\ future' = [future EXCEPT ![i] = "pending"]
  /\ UNCHANGED result

(***************************************************************************)
(* The runtime's threads.                                                  *)
(***************************************************************************)
\* A panic unwinds the task: nothing is ever written to its cell.
FutureReady(i) ==
  /\ future[i] = "pending"
  /\ \E r \in Results :
       /\ result' = [result EXCEPT ![i] = r]
       /\ future' = [future EXCEPT ![i] = IF r = "panic" THEN "over" ELSE "ready"]
  /\ UNCHANGED <<handles, status, join, counts, poll>>

\* Mutant: the result is written to the cell of a task that is still running.
WriteStatus_early(i) ==
  /\ future[i] \in {"pending", "ready"} /\ Results # {}
  /\ status' = [status EXCEPT ![i] = "completed"]
  /\ future' = [future EXCEPT ![i] = IF @ = "ready" THEN "over" ELSE @]
  /\ UNCHANGED <<handles, join, result, counts, poll>>

\* Unconditional: it overwrites a cancellation.
WriteStatus(i) ==
  /\ future[i] = "ready"
  /\ status' = [status EXCEPT ![i] = result[i]]
  /\ future' = [future EXCEPT ![i] = "over"]
  /\ UNCHANGED <<handles, join, result, counts, poll>>

Runtime == \E i \in Ids : FutureReady(i) \/ WriteStatus(i)

(***************************************************************************)
(* The owner.                                                              *)
(***************************************************************************)
\* Mutant: the handle is marked but the future is left to run.
Cancel_noAbort(i) ==
  /\ Idle /\ i \in handles /\ i \in join
  /\ join' = join \ {i}
  /\ status' = [status EXCEPT ![i] = IF Terminal(@) THEN @ ELSE "cancelled"]
  /\ UNCHANGED <<handles, future, result, counts, poll>>

\* Mutant: a finished task is marked cancelled too.
Cancel_always(i) ==
  /\ Idle /\ i \in handles /\ i \in join
  /\ join' = join \ {i}
  /\ future' = [future EXCEPT ![i] = IF @ = "pending" THEN "over" ELSE @]
  /\ status' = [status EXCEPT ![i] = "cancelled"]
  /\ UNCHANGED <<handles, result, counts, poll>>

\* abort, then the cell if it is not terminal; a write between the two comes
\* to the same as one before both.
Cancel(i) ==
  /\ Idle /\ i \in handles /\ i \in join
  /\ join' = join \ {i}
  /\ future' = [future EXCEPT ![i] = IF @ = "pending" THEN "over" ELSE @]
  /\ status' = [status EXCEPT ![i] = IF Terminal(@) THEN @ ELSE "cancelled"]
  /\ UNCHANGED <<handles, result, counts, poll>>

Prune ==
  /\ Idle /\ handles' = Running
  /\ UNCHANGED <<status, join, future, result, counts, poll>>

StartReading ==
  poll' = [phase |-> "read", todo |-> handles, found |-> {}]

\* One handle at a time, in the order of the hash map.
ReadHandle(i) ==
  /\ poll.phase = "read" /\ i \in poll.todo
  /\ poll' = [poll EXCEPT !.todo = @ \ {i},
                !.found = IF Terminal(status[i]) THEN @ \cup {<<i, status[i]>>} ELSE @]
  /\ UNCHANGED <<background, counts>>

Found == {f[1] : f \in poll.found}

\* completed_count matters only as a multiple of CompactEvery, or as 0.
Wrapped(n) == IF CompactEvery = 0 \/ n = 0 THEN 0 ELSE ((n - 1) % CompactEvery) + 1

\* Every terminal handle is counted again by every poll until it is pruned.
Report ==
  /\ poll.phase = "read" /\ poll.todo = {}
  /\ completedCount' = Wrapped(completedCount + Cardinality(poll.found))
  /\ compactRequested' =
       (compactRequested \/ (completedCount' > 0 /\ completedCount' = CompactEvery))
  /\ poll' = NoPoll
  /\ UNCHANGED background

StartPoll ==
  /\ Idle /\ StartReading
  /\ UNCHANGED <<background, counts>>

SpawnTask(i) ==
  Idle /\ Spawn(i) /\ UNCHANGED <<counts, poll>>

RegistryNext ==
  \/ \E i \in Ids : SpawnTask(i) \/ Cancel(i) \/ ReadHandle(i)
  \/ Prune \/ StartPoll \/ Report \/ Runtime

RegistrySpec == InitRegistry /\ [][RegistryNext]_registry

(***************************************************************************)
(* Properties.                                                             *)
(***************************************************************************)
\* Types; a cell only ever holds a status, never how a future unwound.
RegistryTypeOK ==
  /\ handles \subseteq Ids /\ join \subseteq Ids
  /\ status \in [Ids -> {"none", "running", "completed", "failed", "cancelled"}]
  /\ future \in [Ids -> {"none", "pending", "ready", "over"}]
  /\ result \in [Ids -> Results \cup {"none"}]
  /\ completedCount \in 0..CompactEvery /\ compactRequested \in BOOLEAN
  /\ poll.phase \in {"no", "read", "dispatch"}
  /\ poll.todo \subseteq Ids /\ Found \subseteq Ids

\* Never more futures suspended on the runtime than max_concurrent, whatever
\* was cancelled or pruned meanwhile: each has its handle.
ConcurrencyBounded ==
  LET Suspended == {i \in Ids : future[i] = "pending"}
  IN  Suspended \subseteq Running /\ Cardinality(Suspended) <= MaxConcurrent

\* What a poll reports is over for good or past stopping: no reported task can
\* suspend again, and a report of a result is the future's own result.
ReportsTrue ==
  \A f \in poll.found :
    /\ future[f[1]] \in {"ready", "over"}
    /\ f[2] # "cancelled" => f[2] = result[f[1]]

\* A terminal status is final, but for a cancellation that came between a
\* future's last await and its write.
StatusFinal ==
  [][\A i \in Ids :
       Terminal(status[i]) /\ status'[i] # status[i] =>
          status[i] = "cancelled" /\ future[i] = "ready" /\ status'[i] = result[i]]_registry
=============================================================================

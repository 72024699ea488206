------------------------------- MODULE Daemons -------------------------------
(***************************************************************************)
(* The loops that the server starts beside its handlers and that compete   *)
(* with them for the one steward: the job daemon (omokoda-core             *)
(* lifecycle/job_daemon.rs), which works off the tasks Vantage has         *)
(* assigned, and the cognitive heartbeat (server.rs spawn_heartbeat).      *)
(* Vantage is another service, seen through the requests made of it; a     *)
(* request has no timeout (vantage/client.rs) but may fail.  What the      *)
(* steward does with a Think or an Act is module StewardAct; here it is an *)
(* outcome.                                                                *)
(***************************************************************************)
EXTENDS Integers, Sequences, FiniteSets

CONSTANTS
  Agents, Tasks,
  Unborn,      \* the resident of a steward with no agent
  NoTask,      \* what the job daemon is at between tasks
  Numeric,     \* the tasks whose id Vantage sends as a number
  TaskZero,    \* the task that /tasks/0 names, or NoTask
  BareArray,   \* Vantage sends the list as it is, not wrapped in an object
  MaxFaults,   \* bound: requests to Vantage that fail, and crashes
  MaxCalls     \* bound: external requests, and assignments made on Vantage

ASSUME DaemonsAssumption ==
  /\ Unborn \notin Agents /\ NoTask \notin Tasks
  /\ Numeric \subseteq Tasks /\ TaskZero \in Tasks \cup {NoTask} /\ BareArray \in BOOLEAN
  /\ MaxFaults \in Nat /\ MaxCalls \in Nat

VARIABLES
  resident,    \* the agent the steward holds
  lock,        \* the steward's mutex: its holder, then those who wait, in order
  copilot,     \* an external call came within the last minute
  api,         \* the external request under way: "none", "use" or "birth"
  job,         \* the job daemon: [pc, agent, todo, task, outcome]
  heart,       \* the heartbeat: [pc, agent]
  board,       \* Vantage's tasks: [Tasks -> [status, to, by]]
  presence,    \* Vantage's roster: [Agents -> "available" or "thinking"]
  last,        \* history: [Tasks -> the last run: [by, outcome, moved]]
  account,     \* history: [Tasks -> runs less those whose report never reached the task]
  moved,       \* history: another agent moved in during the job daemon's tick
  leftThinking,  \* history: agents whose last heartbeat cycle broke off
  faults, calls  \* what is used up of the bounds

daemons == <<job, heart>>
vantage == <<board, presence>>
history == <<last, account, moved, leftThinking>>
server == <<resident, lock, copilot, api>>
vars == <<server, daemons, vantage, history, faults, calls>>

JobIdle == [pc |-> "idle", agent |-> Unborn, todo |-> {}, task |-> NoTask, outcome |-> "none"]
HeartIdle == [pc |-> "idle", agent |-> Unborn]
NoRun == [by |-> Unborn, outcome |-> "none", moved |-> FALSE]

Init ==
  /\ resident \in Agents \cup {Unborn}
  /\ lock = <<>> /\ copilot = FALSE /\ api = "none"
  /\ job = JobIdle /\ heart = HeartIdle
  /\ board = [t \in Tasks |-> [status |-> "open", to |-> Unborn, by |-> Unborn]]
  /\ presence = [a \in Agents |-> "available"]
  /\ last = [t \in Tasks |-> NoRun] /\ account = [t \in Tasks |-> 0]
  /\ moved = FALSE /\ leftThinking = {}
  /\ faults = 0 /\ calls = 0

(***************************************************************************)
(* tokio's Mutex serves those who wait first come, first served.           *)
(***************************************************************************)
Wait(c) == lock' = Append(lock, c)
Holds(c) == lock # <<>> /\ Head(lock) = c
Release == lock' = Tail(lock)

Fault == faults < MaxFaults /\ faults' = faults + 1

(***************************************************************************)
(* The job daemon.                                                         *)
(***************************************************************************)
JobTick ==
  /\ job.pc = "idle"
  /\ job' = [JobIdle EXCEPT !.pc = "identify"] /\ Wait("job") /\ moved' = FALSE
  /\ UNCHANGED <<resident, copilot, api, heart, vantage, last, account, leftThinking,
                 faults, calls>>

\* The identity is read under the lock and used after it is released.
Identify ==
  /\ job.pc = "identify" /\ Holds("job") /\ Release
  /\ job' = IF resident = Unborn THEN JobIdle
            ELSE [JobIdle EXCEPT !.pc = "fetch", !.agent = resident]
  /\ UNCHANGED <<resident, copilot, api, heart, vantage, history, faults, calls>>

\* Mutant: the query leaves out the status.
Assigned_any(a) == {t \in Tasks : board[t].to = a}

Assigned(a) == {t \in Tasks : board[t].to = a /\ board[t].status = "assigned"}

\* Mutant: a list worked off ends the loop, not the tick.
Going_stalls(S) == IF S = {} THEN [JobIdle EXCEPT !.pc = "over"]
                   ELSE [JobIdle EXCEPT !.pc = "next", !.agent = job.agent, !.todo = S]

\* The job daemon with the tasks of S still to do.
Going(S) == IF S = {} THEN JobIdle
            ELSE [JobIdle EXCEPT !.pc = "next", !.agent = job.agent, !.todo = S]

\* An answer that is not an array is taken for an empty list.
Listed(a) == IF BareArray THEN Assigned(a) ELSE {}

FetchTasks ==
  /\ job.pc = "fetch" /\ job' = Going(Listed(job.agent))
  /\ UNCHANGED <<server, heart, vantage, history, faults, calls>>

\* The request failed, or its answer could not be read.
FetchFails ==
  /\ job.pc = "fetch" /\ Fault /\ job' = JobIdle
  /\ UNCHANGED <<server, heart, vantage, history, calls>>

NextTask ==
  /\ job.pc = "next" /\ Wait("job")
  /\ \E t \in job.todo :
       job' = [job EXCEPT !.pc = "run", !.todo = @ \ {t}, !.task = t]
  /\ UNCHANGED <<resident, copilot, api, heart, vantage, history, faults, calls>>

\* One Think, with the lock held throughout, by whoever is resident now.
RunTask ==
  /\ job.pc = "run" /\ Holds("job") /\ Release
  /\ \E o \in {"completed", "failed"} :
       /\ job' = [job EXCEPT !.pc = "patch", !.outcome = o]
       /\ last' = [last EXCEPT ![job.task] = [by |-> resident, outcome |-> o, moved |-> moved]]
  /\ account' = [account EXCEPT ![job.task] = @ + 1]
  /\ UNCHANGED <<resident, copilot, api, heart, vantage, moved, leftThinking, faults, calls>>

\* The task that the report of t goes to: an id that is no number becomes 0.
Addressed(t) == IF t \in Numeric THEN t ELSE TaskZero

\* Mutant: an error is reported as text, under the status of a success.
Report_completed(t) == [board[t] EXCEPT !.status = "completed", !.by = job.agent]

Report(t) == [board[t] EXCEPT !.status = job.outcome, !.by = job.agent]

\* The report of the task at hand did not reach it.
Unreported == account' = [account EXCEPT ![job.task] = @ - 1]

\* Whether or not the answer comes back, and also when the address names no task,
\* the daemon goes on to the next task.
PatchApplied ==
  /\ job.pc = "patch" /\ job' = Going(job.todo)
  /\ LET t == Addressed(job.task)
     IN  /\ board' = IF t \in Tasks THEN [board EXCEPT ![t] = Report(t)] ELSE board
         /\ IF t = job.task THEN UNCHANGED account ELSE Unreported
  /\ UNCHANGED <<server, heart, presence, last, moved, leftThinking, faults, calls>>

PatchFails ==
  /\ job.pc = "patch" /\ Fault /\ job' = Going(job.todo) /\ Unreported
  /\ UNCHANGED <<server, heart, vantage, last, moved, leftThinking, calls>>

JobStep == Identify \/ FetchTasks \/ NextTask \/ RunTask \/ PatchApplied
JobFault == FetchFails \/ PatchFails

(***************************************************************************)
(* The heartbeat.  It defers to a copilot before it asks for the lock (and *)
(* rests on the Sabbath: a tick that changes nothing).                     *)
(***************************************************************************)
HeartTick ==
  /\ heart.pc = "idle" /\ ~copilot
  /\ heart' = [HeartIdle EXCEPT !.pc = "wake"] /\ Wait("heart")
  /\ UNCHANGED <<resident, copilot, api, job, vantage, history, faults, calls>>

\* A presence update that fails is ignored.
SetPresence(a, p) ==
  \/ presence' = [presence EXCEPT ![a] = p] /\ UNCHANGED faults
  \/ Fault /\ UNCHANGED presence

Wake ==
  /\ heart.pc = "wake" /\ Holds("heart")
  /\ IF resident = Unborn
     THEN heart' = HeartIdle /\ Release /\ UNCHANGED <<presence, faults>>
     ELSE /\ heart' = [pc |-> "think", agent |-> resident]
          /\ SetPresence(resident, "thinking") /\ UNCHANGED lock
  /\ UNCHANGED <<resident, copilot, api, job, board, history, calls>>

\* Perception and reflection, under the lock: a failure ends the cycle there,
\* and nothing takes the presence back.
HeartThinks ==
  /\ heart.pc = "think"
  /\ \/ heart' = [heart EXCEPT !.pc = "act"] /\ UNCHANGED <<lock, leftThinking>>
     \/ heart' = HeartIdle /\ Release /\ leftThinking' = leftThinking \cup {heart.agent}
  /\ UNCHANGED <<resident, copilot, api, job, vantage, last, account, moved, faults, calls>>

\* The pulse; the lock is dropped whether or not it was let through.
HeartActs ==
  /\ heart.pc = "act" /\ Release
  /\ heart' = [heart EXCEPT !.pc = "close"]
  /\ UNCHANGED <<resident, copilot, api, job, vantage, history, faults, calls>>

\* Mutant: the name is read again when the presence is taken back.
Woken_again == resident

\* The agent whose presence the end of a cycle takes back.
Woken == heart.agent

HeartCloses ==
  /\ heart.pc = "close" /\ heart' = HeartIdle
  /\ SetPresence(Woken, "available")
  /\ leftThinking' = IF faults' = faults THEN leftThinking \ {Woken}
                     ELSE leftThinking \cup {Woken}
  /\ UNCHANGED <<server, job, board, last, account, moved, calls>>

HeartStep == Wake \/ HeartThinks \/ HeartActs \/ HeartCloses

(***************************************************************************)
(* External requests to the steward, and those who post on Vantage.        *)
(***************************************************************************)
\* A think or an act is noted before it waits; a birth or a resume is not.
ApiAsks ==
  /\ api = "none" /\ calls < MaxCalls /\ calls' = calls + 1
  /\ api' \in {"use", "birth"} /\ Wait("api")
  /\ copilot' = (copilot \/ api' = "use")
  /\ UNCHANGED <<resident, daemons, vantage, history, faults>>

ApiServed ==
  /\ Holds("api") /\ Release /\ api' = "none"
  /\ IF api = "use" THEN UNCHANGED resident ELSE resident' \in Agents
  /\ moved' = (moved \/ resident' # resident)
  /\ UNCHANGED <<copilot, daemons, vantage, last, account, leftThinking, faults, calls>>

MinutePasses ==
  /\ copilot /\ copilot' = FALSE
  /\ UNCHANGED <<resident, lock, api, daemons, vantage, history, faults, calls>>

\* A task is assigned, or taken from one agent and given to another.
Assign(t, a) ==
  /\ calls < MaxCalls /\ calls' = calls + 1
  /\ board[t].status \in {"open", "assigned"} /\ board[t].to # a
  /\ board' = [board EXCEPT ![t] = [status |-> "assigned", to |-> a, by |-> Unborn]]
  /\ UNCHANGED <<server, daemons, presence, history, faults>>

\* The process dies and starts again; who is resident then is AgentResidency's.
CrashAndRestart ==
  /\ Fault
  /\ resident' \in Agents \cup {Unborn}
  /\ lock' = <<>> /\ copilot' = FALSE /\ api' = "none"
  /\ job' = JobIdle /\ heart' = HeartIdle
  /\ IF job.pc = "patch" THEN Unreported ELSE UNCHANGED account
  /\ leftThinking' = IF heart.agent = Unborn THEN leftThinking
                     ELSE leftThinking \cup {heart.agent}
  /\ UNCHANGED <<vantage, last, moved, calls>>

Next ==
  \/ JobTick \/ JobStep \/ JobFault \/ HeartTick \/ HeartStep
  \/ ApiAsks \/ ApiServed \/ MinutePasses \/ CrashAndRestart
  \/ \E t \in Tasks, a \in Agents : Assign(t, a)

\* The interval timers fire, requests return, and what the holder of the lock
\* awaits comes to an end.  Faults and calls are bounded.
Fairness ==
  WF_vars(JobTick) /\ WF_vars(JobStep) /\ WF_vars(HeartStep) /\ WF_vars(ApiServed)

Spec == Init /\ [][Next]_vars /\ Fairness

(***************************************************************************)
(* Properties.                                                             *)
(***************************************************************************)
Outcomes == {"completed", "failed"}
JobRuns == job.pc \in {"run", "patch"}

JobTypeOK ==
  /\ job \in [pc : {"idle", "identify", "fetch", "next", "run", "patch"},
              agent : Agents \cup {Unborn}, todo : SUBSET Tasks,
              task : Tasks \cup {NoTask}, outcome : Outcomes \cup {"none"}]
  /\ JobRuns => job.task \in Tasks
  /\ job.pc = "patch" => job.outcome \in Outcomes

\* Types of what the job daemon and Vantage's board hold; of the task at hand
\* the daemon keeps the id, and once it was run the outcome.
TypeOK ==
  /\ resident \in Agents \cup {Unborn}
  /\ JobTypeOK
  /\ board \in [Tasks -> [status : {"open", "assigned"} \cup Outcomes,
                         to : Agents \cup {Unborn}, by : Agents \cup {Unborn}]]
  /\ last \in [Tasks -> [by : Agents \cup {Unborn}, outcome : Outcomes \cup {"none"},
                        moved : BOOLEAN]]
  /\ account \in [Tasks -> Int]
  /\ moved \in BOOLEAN

\* The tasks a tick has yet to report: on its list, or at hand.
Ahead == job.todo \cup (IF JobRuns THEN {job.task} ELSE {})

Closed(t) == board[t].status \in Outcomes
AtHand(t) == job.pc = "patch" /\ job.task = t

\* No report but a task's own goes to it.
Sole(t) == \A u \in Tasks : Addressed(u) = t => u = t

\* What makes RunsAccounted inductive: a task is listed once, is not closed behind
\* the list's back but by another task's report, and has a run to its account only
\* when its report is to come, or has closed it.
RunsInv ==
  /\ TypeOK
  /\ JobRuns => job.task \notin job.todo
  /\ \A t \in Tasks :
       /\ t \in Ahead /\ Sole(t) => ~Closed(t)
       /\ t \in Ahead /\ ~AtHand(t) => account[t] <= 0
       /\ account[t] <= 1
       /\ ~AtHand(t) /\ ~(Addressed(t) = t /\ Closed(t)) => account[t] <= 0

\* A task is worked once, and once more for every run whose report was lost, cut
\* off by a crash or addressed to another task: never because a list was fetched
\* before another closed it, nor because the task or the steward changed hands
\* meanwhile.
RunsAccounted == \A t \in Tasks : account[t] <= 1

\* A task is closed only by a run of a task whose reports go to it.  When these
\* are its own, the board says how its last run ended and credits the agent that
\* ran it, unless another moved in between the tick and the run.
ClosedAsLastRun ==
  \A t \in Tasks : board[t].status \in {"completed", "failed"} =>
    /\ \E u \in Tasks : Addressed(u) = t /\ last[u] # NoRun
    /\ Sole(t) => /\ board[t].status = last[t].outcome
                  /\ board[t].by = last[t].by \/ last[t].moved

\* Vantage shows an agent thinking only while its heartbeat cycle is under way,
\* or after one that broke off: a failed Think, a crash, a lost update.
ThinkingExplained ==
  \A a \in Agents : presence[a] = "thinking" => heart.agent = a \/ a \in leftThinking

\* A task that the list tells of and whose report finds it does not stay assigned
\* for good to an agent that stays resident.
AssignedTasksClose ==
  \A t \in Tasks, a \in Agents :
    BareArray /\ Addressed(t) = t => ~<>[](resident = a /\ t \in Assigned(a))
=============================================================================

# Verification of omokoda-agent

TLA+ models of the core of omokoda-agent, the TLC configurations that check
them on small instances, and theorems about them that TLAPS proves. Paths below
are relative to the repository; where no directory is given, to
`omokoda-core/src`.

Everything here is translated from the Rust code, with its comments, tests and
documents read beside it; the swarm modules from its Elixir code. Where the code
and a text of the repository disagree, the model follows the code, and section 4
lists the disagreement.

## 1. The system

omokoda-core is a single process that hosts one *owner* agent and a pool of
*guest* agents behind an HTTP server. The process holds an agent's identity,
balance of synapse, receipts and memory; a client asks it to *act* (call a tool)
or to *think* (converse with a provider, which may ask for tool calls). Around
it are services in other languages (Elixir swarm, Go ops, Julia, Clojure), Move
contracts, and a toolchain (`oso-*`); the core calls some of them over HTTP.

| component | state | operations | talks to |
|---|---|---|---|
| Act path: `interpreter.rs`, `server.rs`, `rhythm.rs`, `receipt/`, `session.rs` | balance, act counter, receipt chain and `last_hash`, newest ActReceipt; cooldowns and the ring of ActReceipts in memory; the agent file | `Statement::Act`, `think_agentic`, `auto_save`, `try_load_owner` | Zangbeto (review, report, audit), tools, providers, Oya, Sango, Seal |
| Residency: `server.rs`, `interpreter.rs` | the owner's steward, the pool of guests, agent files, the pointer `owner_agent_id` | births, resume, restart | the file system; Vantage, chain and relay during a birth |
| Resource scheduler: `kernel/scheduler.rs` | heap of slots, running table, budget, each behind its own mutex | `enqueue`, `tick`, `complete` | the OS kernel |
| Main loop: `main_loop.rs` | loop state, queue, provider, turn count and history | `push`, `drain`, `process`, `shutdown_with_soma`; a task between two channels | query engine |
| Background registry: `background.rs` | handles, a status cell shared with each spawned future, counters | `spawn`, `poll`, `cancel`, `prune` | tokio |
| Task scheduler: `tasks/` | task table, queue of async tasks, dream counter | `submit`, `record_think_turn`, `dispatch_pending`, `poll` | background registry, dream engine |
| OS kernel: `kernel/os_kernel.rs`, `process.rs`, `ipc.rs`, `capability.rs` | pids, channels, capabilities | `on_birth`, `on_terminate`, `enqueue_job`, `send` | resource scheduler |
| Compute: `kernel/compute/` | wallet (earned, spent, staked, decayed), leases, devices | convert, spend, lock and unlock stake, open and close lease | - |
| Job daemon and heartbeat: `lifecycle/job_daemon.rs`, `server.rs` | what the loop is at, the time of the last external call | poll, run and report tasks; think, pulse, presence | the steward's mutex, Vantage |
| Lifecycle: `lifecycle/` | stage, heartbeat chain, registry of daemons | `validate_transition`, `advance_chain`, migrate | steward |
| Transactions: `execution/` | stage of an action, steps, artifacts | resolve, preflight, authorize, execute, verify, commit, fail | gates |
| Constitutional supervisor: `omokoda-swarm/.../constitutional_supervisor.ex` | workers with pid, weights and rebirth count; monitors | spawn, violation, rebirth, `:DOWN` | DynamicSupervisor, Hive |
| Hive: `hive.ex` | lessons, retired agents, endorsements | lesson, retire, prune | subscribers |
| Review council: `council.ex` | pending councillors, opinions, verdict, caller | opinion, timeout, await | councillors' processes |
| Swarm (rest), ops | forks, teammates, sessions, peers | merge, vote, attach, teleport | core over HTTP |
| Contracts, state merge | staking, escrow; replicated agent state | entry functions; merge | chain, replicas |

`PROJECT.json` lists the rest: text processing, cryptography, clients of outside
services, user interfaces, archives.

### What is hard here

- **A dispatch is a future that may be dropped.** `server.rs` holds the steward's
  mutex over a whole dispatch and awaits enforcers, tools and providers inside.
  When the client hangs up, axum drops the future at whichever await it has
  reached, with the agent as the last assignment left it.
- **What is paid, done, receipted and saved are four steps.** The tool runs
  first, two burns follow, each may fail, then (at times after an await) the
  receipt, then an audit and a relay, then the save, whose error is ignored.
- **The agent file is rewritten in place**: truncated, then filled. A crash
  falls between, and a restart goes back to an older snapshot, or to none.
- **Two stewards may hold one agent** when a guest is resumed on the owner's.
- **Three mutexes taken in two orders** in the resource scheduler.
- **Futures that finish while they are cancelled or polled** in the registry.
- **Events the main loop puts back or drops** when it is busy or compacting.
- **Loops that share the steward with its clients**: they read the agent under
  the lock and use what they read after it, while she may change.
- **Messages that arrive when their reason is gone**: timers overtaken by other
  violations, exits the supervisor caused itself, opinions after their timeout.

### What makes each component correct

- Act path: the receipt chain verifies at all times, in memory and on disk; the
  file is never a fork of what runs; each receipt was paid for and stands for a
  tool that ran, once; acts keep their distance; every request is answered.
- Residency: the owner's pointer names the owner; she is not replaced while she
  can be read; an agent in one place is never behind her own file.
- Resource scheduler: exclusion, one place per job, an exact budget, best fit
  first, and callers that come back.
- Main loop: order, bounds, final stop, one outcome for one event.
- Daemons: each assigned task is worked once, credited to who did it, and closed.
- Supervisor and Hive: one process per agent, under the weights held for it; a
  bounded number of rebirths, and each of them granted.
- Council: a verdict over every opinion heard, and callers that get it.
- Registry and tasks: bound on what runs, final and true statuses, three records
  of a task that agree, every task done.

## 2. The modules

| module | models | uses |
|---|---|---|
| `StewardAct` | act path | - |
| `StewardActProofs` | its theorems | `StewardAct`, `Sums` |
| `AgentResidency` | residency | - |
| `AgentResidencyProofs` | its theorems | `AgentResidency` |
| `JobAdmission` | what the resource scheduler promises | - |
| `ResourceScheduler` | the scheduler, lock by lock | `JobAdmission`, by a refinement mapping |
| `ResourceSchedulerProofs` | its theorems | `ResourceScheduler`, `Sums` |
| `LoopProcess` | `MainLoop::process`, for every event | - |
| `MainLoop` | `push` and `drain` around it | `LoopProcess` |
| `LoopHandle` | the task and its channels around it | `LoopProcess` |
| `MainLoopProofs` | the theorems of both loops | `MainLoop`, `LoopHandle` |
| `BackgroundRegistry` | registry and futures | - |
| `TaskScheduler` | task table and queue over the registry | `BackgroundRegistry` |
| `TaskSchedulerProofs` | the theorems of both | `TaskScheduler` |
| `Daemons` | job daemon and heartbeat around one steward | - |
| `DaemonsProofs` | its theorems | `Daemons` |
| `Sovereigns` | constitutional supervisor and Hive | - |
| `Council` | review council | - |
| `SwarmProofs` | the theorems of both | `Council`, `Sovereigns`, `Sums` |
| `Sums` | no part of the system: what a sum over a finite set is, for the proofs | - |
| `MC*` | instances for TLC | one each |

An operator with an underscore (`Issue_ring`) is a mutant: a bug that the
property it is listed with in `PROJECT.json` must notice. No behaviour of the
specifications uses one.

### StewardAct

One agent, one request at a time: the steward's mutex is held over a dispatch,
so requests do not interleave. They do interleave with the environment at each
await, which `pc` names:

| `pc` | await | where (`interpreter.rs`) |
|---|---|---|
| `report` | Zangbeto's report of a denial | 3377-3401 |
| `review` | Zangbeto's review | 3407 |
| `execute` | the tool | 3546-3559 |
| `refresh` | `refresh_seal_dek` | 3635 |
| `audit` | Zangbeto's audit | 3723-3759 |
| `relay` | Sango's relay | 3761-3777 |
| `save` | no await: the file is truncated and not yet filled | `session.rs:803-817` |
| `provider` | the provider's turn | 6183-6233 |
| `gateCall`, `callTool` | Oya and the tool of an agentic call | 6378-6579 |

An action is what runs between two awaits. `agent` is the part of
`AgentSnapshot` that is at stake; `disk` is the file; `expiry` (cooldowns) and
`proofs` (ring of ActReceipts) are lost in a restart. `req` records how far the
request came. `effects` and `hashes` are ghosts: tools that really ran, receipt
ids handed out (a receipt hashes a nonce, so ids are taken to be fresh). An
ActReceipt id is the tuple of what `ActReceipt::new` really hashes, outputs of
one tool within a second being taken as equal.

Gates, hooks, enforcers and the governor decide by a choice between their
outcomes: what they read is text and floats. The synapse is counted in coarse
units; floats and their rounding are left out. The tool may act on the world and
then fail or be dropped (`ToolEffect`, then `ToolFails` or `Cancel`).
`Cancel` drops a dispatch at any await, `Crash` ends the process anywhere, also
between truncating and filling, `Restart` reads the file, and so does `Reload`, the
resume of the resident by an operator, which does not touch what the steward
keeps outside the agent (`load_agent`); `seams` remembers where it happened.

### AgentResidency

The owner's steward and one place in the guest pool, each with a mutex of its
own, so their steps interleave. A birth saves (`Mint`), saves again, marks the
pointer if it is sovereign, and may save thrice more while it registers; it may
fail on its metadata, or its client may hang up, and a guest is then dropped
with her file left behind. `Resume` loads any readable agent onto the owner's
steward. Saves are split as in `StewardAct`. An agent is her receipt chain, and
the numbers of the acts make chains comparable. `kept`, `shared`, `born` and
`owners` are ghosts.

### ResourceScheduler and JobAdmission

A step is what a thread does between two lock acquisitions; `queueLock`,
`budgetLock` and `runningLock` are the three `std::sync::Mutex`. `tick` takes
queue, budget and running; `complete` takes running and then budget, and each
guard lives to the end of its function, as in the code. `Released` saturates
like the code. `JobAdmission` has no locks: a job is new, queued, running or
done, and what is in use is the sum over what runs. The mapping takes a job to
be running from the moment a tick has paid for it until the budget is released.

### LoopProcess, MainLoop, LoopHandle

`Process(l, e)` has one disjunct per way through `process`, the automatic
compaction and switch, which drop the event they were called with, included.
`MainLoop` pops events in a drain that counts its iterations when it starts;
`LoopHandle` takes them from a bounded channel and sends each outcome to
another, and waits when that is full. Both ends may go: when the last sender has
dropped its own (`SendersDrop`), the task handles what is in the channel and ends
without a stop (`EndsUnstopped`); when the host has dropped its receiver
(`HostLeaves`), each outcome is thrown away and the loop goes on
(`ReportToNobody`). `discarded` counts what the host will never read.

### BackgroundRegistry and TaskScheduler

A future is pending, ready (past its last await, its result not yet in the
cell) or over. `Cancel` aborts a pending future only, so a ready one still
writes, over the cancellation. A poll reads the cells one by one while they
change. A future that panics ends without writing. `TaskScheduler` uses the same
actions, with its own table and queue; its polls dispatch, read, and carry over
what they found (`Carried`), whichever way a future ended.

### Daemons

One steward behind a mutex that serves its waiters in order; `lock` is the
queue. `job` and `heart` say where each loop is and what it remembers: the job
daemon reads the agent's id and name, lets go of the lock, fetches the tasks
assigned to that id, and then takes the lock once for each task. The heartbeat
keeps the lock from its announcement to the end of its pulse. `board` and
`presence` are Vantage's tables, changed by these requests and by whoever
assigns tasks. `last` (the last run of each task), `account` (its runs, less those
whose report did not reach it), `moved` and `leftThinking` are histories, which
the properties need: the code keeps none.

Two conversions stand between the daemon and the board. The answer to the GET is
the list only if it is an array, and an empty list otherwise (`Listed`; the
constant `BareArray` says which Vantage sends). An id that is no number becomes 0
(`Addressed`; `Numeric` are the tasks whose id is one), so that the report of such
a task goes to the one that `/tasks/0` names (`TaskZero`), if there is one.
Vantage is not in the repository, and its client `vantage/tasks.rs` expects an
object and ids that are strings, so all of this is left open.

| `job.pc` | where (`lifecycle/job_daemon.rs`) |
|---|---|
| `identify` | waits for the lock, 43 |
| `fetch` | the GET, 62 |
| `next`, `run` | between two tasks, 78; waits for the lock and thinks, 93 |
| `patch` | the PATCH, 120 |

### Sovereigns

A GenServer takes one message at a time, so a handler is one action, and
`mailbox` keeps the order in which messages came: from callers, from timers,
from the runtime that reports a watched process as gone, and from the handlers
themselves, which cast to their own mailbox. `terminate_child` waits for the
exit, so its `:DOWN` is in the mailbox when the handler ends. An agent's process
is registered under the pair of id and configuration that the child
specification hands over (`constitutional_supervisor.ex:84`, `agent.ex:29`), so a
start is refused only beside a process with the same role and weights. The runtime's
restart of a crashed child happens in one step with the crash. `spawns` and
`reborn` are histories.

### Council

Each review runs in a process of its own and each timeout is a message of its
own: any that was sent may be the next to be heard. A review may be endless or
die with the call it makes. An opinion is its author and severity; its
confidence is the author's weight, as in the code. A reply to a caller that gave
up is dropped by the runtime.

## 3. The runs

All with TLC's breadth-first search, complete, no state constraint. The bounds
are guards in the actions, one constant each.

| run | asks | bounds, and why they are enough | states |
|---|---|---|---|
| `steward` | `TypeOK`, `ChainVerifies`, `DiskIsPrefix`, `ReceiptsPaid`, `ReceiptsWitnessed`, `DirectActsSpaced`, `ProofsLinked` | two requests of either kind, two tools (one irreversible with a cooldown of a second), two turns of up to two calls, a key rotation at every second act, a clock that ticks once, two crashes. Two requests are a pair: a chain of two, a second act inside and after a cooldown, a restart or a resume between them, a request after a hang-up. Eight units of synapse run out in the middle | 4.8 M |
| `answered` | `RequestsAnswered` | as above with one call a turn and one crash at most; every error path is taken | 0.44 M |
| `locks` | `TypeOK`, `GuardsHeld`, `OnePlace`, `NeverOversold`, `BudgetExact`, `ImplementsAdmission` | three threads (a tick, a complete and a third that meets them), three jobs: two want the one gpu, two do not fit the cpu together, two run side by side; priorities and times differ | 636 |
| `deadlock` | violation of `TickReturns` | two threads, the same jobs | 365 |
| `residency` | `TypeOK`, `PointerNamesOwner`, `SoleHolderAhead`, `OwnerKeptWhileReadable` | three ids (an owner, a guest and one more), three acts, two crashes; ids are symmetric | 2.4 M |
| `queue` | `TypeOK`, `InputsInOrder`, `StopIsFinal` | a queue of three, four inputs and three other events of any kind, compaction at every third turn, switch at every second: both coincide with busy states | 85 376 |
| `channels` | `OneOutcomePerEvent`, `StoppedIsLast` | channels of two instead of 64, so that both fill; four inputs, two others; senders and host leave at any time | 56 582 |
| `race` | `ConcurrencyBounded`, `ReportsTrue`, `StatusFinal` | three symmetric futures on two slots, each may complete, fail or panic | 42 437 |
| `tasks` | `TypeOK`, `TablesAgree`, `CompletionsTrue`, `SubmittedTasksFinish` | three async tasks on two slots, so that one is refused, and a Think task over its budget | 26 895 |
| `sovereigns` | `SoleUnderCurrentWeights`, `RebirthsBounded`, `RetiredAsTaught`, `RebornWithAdjustedWeights` | one agent, since agents share only the mailbox and the Hive's list; two roles, one report, two crashes, two spawns: each termination and crash comes back as a violation, so these are enough for a violation while a rebirth is due, for a crash beside both, and for a respawn of a retired agent, under the old role or another. Three rebirths instead of five, two lessons instead of hundreds, so that both limits are reached; one weight starts near its floor | 1.2 M |
| `daemons` | `RunsAccounted`, `ClosedAsLastRun`, `ThinkingExplained`, `AssignedTasksClose` | two agents that replace each other; three tasks: task 0, one with another number, and one with a string for its id, whose report goes to task 0; three external requests or assignments, one fault: a lost request or a restart | 1.8 M |
| `council` | `VerdictIsTally`, `CallersAnswered` | three councillors, two of equal weight, and three severities: ties in both; two callers, so that one displaces the other | 151 679 |

What they show:

- `ChainVerifies`, `DiskIsPrefix`: however requests are cut short, whichever
  crash comes at whichever point of a save, and from however old a snapshot the
  process restarts, `verify_chain` holds of what is in memory and of what is in
  any readable file, and that file is a prefix: receipts may be lost at the end
  but the agent never continues a chain that differs from her file.
- `ReceiptsPaid`, `ReceiptsWitnessed`: a receipt costs what it says out of the
  birth balance, in memory and in the file, so that no crash gives money back
  and keeps the receipt; and an act receipt has a tool run behind it, its own.
- `DirectActsSpaced`: the per-agent gate makes a direct act wait for the cooldown
  of *every* earlier act of the boot, although the tracker is per tool.
- `ProofsLinked`: each ActReceipt names its predecessor, and the agent carries
  the newest across a restart.
- `SoleHolderAhead`: a steward whose agent nobody else held is never behind the
  file, through births that fail half way, hang-ups and crashes.
- `ImplementsAdmission`: best fitting job first, at the moment the budget is
  locked, whatever other threads do; a job that completes gives back what it took.
- `StatusFinal`, `ReportsTrue`: a terminal status changes only from "cancelled"
  to the result of a future that was already past stopping, and what a poll
  reports is the truth about that future.
- `ReceiptsWitnessed` also says that a direct act answered with its result has
  its receipt, at the moment it is answered.
- `DirectActsSpaced`, `ProofsLinked` with a resume in between: the cooldowns outlive
  it, and it is the only thing that breaks the chain of ActReceipts.
- `SoleHolderAhead`: and such an agent's file, while it can be read, has every
  receipt a save ever completed.
- `OneOutcomePerEvent`, `StoppedIsLast`: outcomes are lost only to a host that has
  left, and a task that is over has stopped, or was left by its senders with
  nothing more to handle.
- `SoleUnderCurrentWeights`, `RebirthsBounded`: a violation in the midst of a
  rebirth, a crash that the runtime and the supervisor both answer, and timers
  set long ago do not leave a second process but the runtime's own, nor grant
  more rebirths than the limit leaves. `RebornWithAdjustedWeights`: nor fewer.
- `RetiredAsTaught`: the last lesson the Hive remembers of a retired agent has the
  weights it was retired with, because casts keep their order and pruning starts
  at the old end.
- `RunsAccounted`, `ClosedAsLastRun`: a task is run again only if a report was lost
  or went to another task. A closed one had a run of a task whose reports go to it;
  where no other task's do, it shows the outcome of its last run, under the name of
  the agent that ran it unless another moved in after the tick began.
- `AssignedTasksClose`: requests and heartbeats that take the lock in turn, lost
  requests and restarts delay a task, and nothing holds it back for ever, if the
  list tells of it and its report finds it. Section 4 says what becomes of the others.
- `VerdictIsTally`: late opinions included, in any order; `CallersAnswered`: though
  reviews die or never end.
- `TablesAgree`: the queue holds a task exactly while the table calls it pending,
  and the registry has it exactly from then on.

`CHECK_DEADLOCK FALSE` stands where the model stops because a bound on requests,
events or crashes is used up, and in the two runs of the resource scheduler,
where the real system may stop for good (`deadlock`). `council` ends when its
session is over, and `sovereigns` when nobody reports any more. In `queue`,
`race`, `tasks` and `daemons` deadlock is checked.

### Fairness

- `StewardAct`: weak fairness of the steps a dispatch takes when it is not in
  one of the four awaits that have no timeout. Providers (60 s), tools (their
  own limits), Oya (1 s) and Sango (15 s) answer or time out. Zangbeto's
  `report`, `review` and `audit` and `refresh_seal_dek` have none, so nothing is
  assumed of them, and `RequestsAnswered` excepts them by name. Nobody is
  assumed to ask or to restart the process. The Sabbath comes and goes.
- `ResourceScheduler`: strong fairness of a thread inside `tick` or `complete`,
  more than `std::sync::Mutex` promises, so that the deadlock is not an artefact
  of an unlucky thread.
- `Daemons`: weak fairness of the job daemon's ticks and steps, of a heartbeat
  under way and of the external request that has the lock. The interval timer
  fires, the mutex is fair (tokio's is), and the requests return. The last is an
  assumption: `vantage/client.rs` sets no timeout, and a Vantage that accepts a
  connection and never answers keeps the heartbeat, and with it the steward's
  mutex, for ever. Nothing is assumed of the heartbeat's next tick, of clients or of
  those who assign. Faults are bounded.
- `Sovereigns`: weak fairness of the two GenServers with mail, and of a timer
  set. Nobody is assumed to report, to crash or to spawn.
- `Council`: weak fairness of the timeouts and of calls to await; none of the
  reviews.
- `TaskScheduler`: the runtime runs ready futures, and the owner keeps polling.

## 4. What the code does not do

One run ends in a violation: in `deadlock`, `tick` holds queue and budget when it
locks running, `complete` holds running when it locks budget
(`kernel/scheduler.rs:136`, `147`), and two threads wait for each other for ever.

These follow from the same models, and are stated here and not carried as runs.

Act path and residency:

- README.md:37 says "all actions create permanent, immutable receipts". The tool
  runs first. If the balance covers only part of the two burns
  (`interpreter.rs:3582`, `3632`), the post-act hook denies (`3622`), or the
  client hangs up at the key refresh (`3635`), the tool has acted, the request is
  answered with an error and there is no receipt: `pc = "idle" /\ req.ran = "ok" =>
  req.receipted` fails.
- rhythm.rs:210-211 says "This action will execute when Sabbath ends". The arm at
  `interpreter.rs:3436` answers with the text and keeps nothing:
  `(req.id = n /\ req.answer = "queued") ~> n \in effects` fails.
- server.rs:61-70 and interpreter.rs:2266-2275 set out that a restart resurrects
  the owner rather than minting a stranger. If the crash came during her save, or
  the pointer could not be written, the kernel starts with no agent and the next
  sovereign birth mints one: `[][owners' # owners => \A o \in owners : kept[o] =
  <<>>]_vars` fails.
- A resume leaves the cooldowns and the ring of ActReceipts of the agent before
  (`interpreter.rs:5827`): another agent finds the tools of her predecessor
  cooling, and her first ActReceipt stands behind a foreign one in the ring.
- The agent file may be left unreadable by a crash in a save: `pc = "down" =>
  Readable(disk)` fails (`session.rs:810`; README.md:37 says "permanent").
- The agentic loop calls tools without asking the cooldown tracker:
  `pc \in {"execute", "callTool"} => expiry[req.tool] <= req.began` fails
  (`interpreter.rs:6576`; 6394-6397 says that the native gates already enforce
  cooldowns).
- ActReceipts are not distinct: the id hashes agent, action, payload and second,
  and the predecessor is set after hashing (`receipt/act_receipt.rs:72-94`;
  `interpreter.rs:6645` says hash-chained).
- A Zangbeto that accepts a connection and never answers holds the act and the
  steward: `pc = "review" ~> pc # "review"` fails (`interpreter.rs:3403-3407` says
  fail-open).
- A guest resumed on the owner's steward lives in two stewards that save to one
  file, and the later save undoes receipts of the other: with `kept` the
  receipts a save completed, `Readable(i) => IsPrefix(kept[i], file[i].chain)`
  fails.

Loops and tasks:

- At a multiple of the compaction threshold `process` drops the event it was
  given, an accepted prompt included (`main_loop.rs:268-276`).
- `LoopHandle` never drains the loop's own queue, so a prompt answered
  "queued: loop is busy" (`main_loop.rs:299`) has no turn.
- `BackgroundRegistry::poll` reports a terminal handle again at every poll
  until it is pruned (`background.rs:154` says "newly completed ones"), which also
  makes `tasks/scheduler.rs:172` count a task more than once towards a dream.

Daemons:

- An id that is no number is read as 0 (`lifecycle/job_daemon.rs:79`,
  `as_u64().unwrap_or(0)`), and the report goes to `/tasks/0`. The task stays
  assigned and is run again at every tick; a task 0, if Vantage has one, is closed
  by work that was not its own. job_daemon.rs:6 says "PATCHes the task to
  completed/failed based on the result", and vantage/tasks.rs:6 declares
  `pub id: String`. `AssignedTasksClose` without `Addressed(t) = t` fails.
- An answer that is not an array is taken for an empty list
  (`lifecycle/job_daemon.rs:70`), and nothing is ever run; vantage/tasks.rs:58
  reads the list from `val["tasks"]`, and job_daemon.rs:1 says "polls Vantage for
  assigned tasks and executes them". Which shape Vantage sends the repository does
  not say. With `BareArray = FALSE`, `AssignedTasksClose` without that condition fails.
- A PATCH that is lost leaves a finished task assigned, and the next tick runs it
  again (`lifecycle/job_daemon.rs:120`): that a task is run once fails.
- job_daemon.rs:5 says that a task is dispatched as `Statement::Act`; line 94
  dispatches a Think. Line 19 says "a crash logs and restarts": the task is spawned
  once, nothing restarts it, and `mark_crashed` is not called outside tests.
- `completed_by` is the agent that was resident when the tick began; the task may
  have been thought about by another (`Closed(t) => board[t].by = last[t].by` fails).
- A heartbeat whose Think fails leaves its agent shown as thinking until a later
  cycle of the same agent succeeds (`server.rs:1646-1648`).
- runtime.rs:33-35 says that `spawn_missing()` re-launches daemons after a restart;
  there is no such function. The chain's agent id is fixed when the process
  starts, before any birth.

Swarm:

- One violation counts twice: the supervisor's own termination of the process
  comes back as an exit that is not `:normal` (`constitutional_supervisor.ex:139`,
  `212`), which it reports as a violation of rhythm. An agent so has at most
  `@max_rebirths - 1` rebirths, and fewer violations than that before it is retired;
  a rebirth that was already due still comes after the retirement.
- Lines 5-8 say that the supervisor "does not simply restart it". The
  DynamicSupervisor restarts a crashed agent first, with the weights it had, and
  the rebirth two seconds later starts a second process beside it, because the
  name includes the weights (`84`).
- The configuration does not reach the agent: `start_link/1` takes the pair for the
  agent's id and uses an empty configuration (`agent.ex:29`).
- A second spawn of a live agent with other weights replaces its record and sets
  its count of rebirths back; the first process lives on, watched by nobody who
  would stop it.
- A second `await` of a council takes the place of the first, whose caller waits
  for ever (`council.ex:110`; line 66 says "Blocks until all councillors have
  responded"): `call[k] = "waiting" ~> call[k] \in {"answered", "gone"}` fails.
  A council without councillors never concludes.
- An opinion after the last timeout concludes the session again, with another
  verdict than the caller was given (`council.ex:138`).

## 5. The proofs

For all values of the constants that satisfy the modules' `ASSUME`s. Every
invariant and every action property that a run checks is a theorem.

`Sums`: budgets and fees are sums over sets of jobs and over chains, by the
community module's fold, whose order a `CHOOSE` picks. That the order does not
matter is proved for finite sets, and from it what one element more adds
(`SumAdd`), that equal summands have equal sums and that a subset's sum is no
greater. Induction with an operator is out of the prover's reach; these lemmas
take a minimal counterexample among the finite subsets instead (`MinimalSubset`),
which is a first-order fact.

`StewardActProofs`:

- `Invariance`, `TypeCorrect`, `ReceiptChain`. The invariant is
  `IInv == Typed /\ ChainVerifies`. `Typed` adds to `TypeOK` what a request in
  flight satisfies (`InFlight`: it has a number; past its gates it has a tool;
  between calls it has calls left), without which a receipt or a burn could not
  be typed. `ChainVerifies` is about memory and file together, because a restart
  swaps one for the other. The lemma `StepCases` says that every step of the
  program keeps the chain, issues one receipt, or restores from the file; the
  rest of the argument knows three cases instead of thirty actions. The balance
  never being negative is a part of `TypeCorrect`.
- `NoFork`: `DiskInv == IInv /\ DiskIsPrefix`, from the same three cases.
- `ReceiptsStand`: the tool runs awaits before its receipt, so
  `ReceiptsWitnessed` needs to know what a request has done by the time it is where
  it is (`RequestTrue`: past its tool it has an effect), that a request which may
  still be given a receipt has none (`Fresh`), and that the chain in the file is
  as true as the one in memory (`ChainTrue`), since a restart swaps them.
  `Follows` is what any of the thirty actions does to the request; the chain is
  again the three cases of `StepCases`. The proof uses that no tool is called
  `think_agentic`, a name the receipts of thoughts have to themselves.
- `NothingForFree` (`ReceiptsPaid`): a fee is burned before the key rotation and
  its receipt comes after, so the balance and the chain alone say nothing about
  the receipt in between. `Paid` counts it (`Owed`), and says the same of the file.
  A step spends, pays for the receipt it appends, or goes back to the file.
- `ActsSpaced` (`DirectActsSpaced`): the tracker keeps one time for each tool, the
  property speaks of every pair of acts. `Cooled` ties the two: the tracker is
  never earlier than any act of this boot on the chain demands, and a request past
  its gates began after all of them; while a receipt is held back the tracker
  already has its time. A restart begins a new boot; a resume keeps the tracker
  and takes the chain back to a prefix (`NoFork`), of which all of this still holds.
- `RingLinked` (`ProofsLinked`): each step leaves the ring of ActReceipts and the
  agent's hash alone, extends both, loses the ring, or takes the hash back.

`AgentResidencyProofs`: `IInv` adds to the types who may be where (`Places`: a
guest is no owner, an agent in both places is known to be shared), what the
pointer may say while a birth is on its way (`Pointing`: the owner being born is
not named yet, and whom the pointer names cannot be read), and which chain is
ahead of which (`Ahead`: what was kept is a prefix of what is in memory, without
which a save could not extend it). `OwnerIsSovereign`, `NoReceiptForgotten` and
`OwnerStays` follow, for any number of agents, acts and crashes.

`ResourceSchedulerProofs`:

- `IInv == TypeOK /\ GuardsHeld /\ OnePlace /\ WithinBudget`. `GuardsHeld` makes
  the rest inductive: a thread about to insert or release moves the job it took
  and no other thread can touch the lock it holds. `Invariance`, `TypeCorrect`,
  `MutualExclusion`, `DispatchedOnce` and `BudgetSafe` follow. Slot ids are any
  function of jobs, so they also hold when two jobs share one, as
  `OsKernel::enqueue_job` may make them: the overwritten job's budget is never
  given back, but no counter exceeds its total.
- `Balanced`: each counter is the sum over the jobs that were dispatched and not
  completed (`Charged`), the overwritten one included. It shows that the
  saturating subtraction never saturates. `NoOverselling` follows, as what really
  runs is a part of `Charged`, and with distinct slot ids (`DistinctSlots`), where
  what is charged is in a thread's hands or in its own slot (`ChargedIsHeld`), `NoLeak`.
- `Implements`: the scheduler implements `JobAdmission`, initial states to initial
  states and each step to a step or a stutter. The sum that the specification
  counts as in use is what the counters say, by `Balanced`; so what fits is the
  same on both sides, and the best job that fits at the moment the budget is
  locked is the one that is dispatched.

`MainLoopProofs`, of `MainLoop`: `InputsInOrder` becomes inductive when the inputs
that wait are themselves in order (`QueueOrdered`) and come after all that had
their turn (`HistoryOrdered`). `DrainShape` reduces the many ways through
`process` to three: the head is consumed, put back, or has its turn.
`InputsKeepOrder`, `StoppedForGood` and `TypeCorrect` follow, for any capacity and
intervals. Of `LoopHandle`: about `Sent`, what was delivered and what waits in the
channel as one sequence. `StopEnds` says where a stop may stand in it and what the
task holds, and that a task which is over has stopped or has nobody left to hear
from; `Accounted` that what was sent, discarded and held is as long as what was
taken. `NoneLost` and `StopIsTheLastWord` follow.

`TaskSchedulerProofs`, of the registry: `CellFollows` ties each status cell to its
future, `WithinLimit` bounds what is marked as running, by cardinality.
`LimitKept` (all that is suspended on the runtime is marked so),
`PollsTellTheTruth` and `TerminalIsFinal` follow, for any number of tasks and any
limit. Of the scheduler: `TaskInv` adds to the registry's invariant that the queue
holds a task once and exactly while it is pending (`QueuedOnce`), that what has a
handle is what was started (`Started`), and that a poll reads handles that stay
(`ReadsHandles`), since what it carries into the table afterwards it found before.
`RecordsAgree`, `OutcomesTrue` and `TypeCorrect` follow, for any tasks and limits.

`DaemonsProofs`:

- `RunsAreAccounted`: `RunsInv` adds to `RunsAccounted` that a task on the daemon's
  list is listed once, is not closed if no other task's report goes to it, and has
  no run to its account, and that a task not at hand has one only if its own report
  has closed it. Without the first a run at hand could come on top of one already
  counted; without the second a run could be counted that nothing shows. It holds
  for any ids: a report that goes to another task takes its run off the account of
  the task that ran. `GoingKeepsRuns` is the step from one task to the next,
  `ElsewhereKeepsRuns` the steps that leave the daemon and the board alone, a crash
  included.
- `CreditWhereDue` (`ClosedAsLastRun`): `CreditInv` adds that from the moment the
  daemon has read the agent's identity that agent is resident or a move was noted
  (`Identified`), and that the run at hand is the last of its task, with the
  outcome the daemon is about to report (`RunAtHand`). A report to a task that is not
  the one at hand is a run of a task whose reports go there, which is all the
  property says of tasks that share an address.
- `PresenceExplained` (`ThinkingExplained`): inductive with the types of the
  heartbeat (`PresenceInv`), as a heart that is idle or waits has no agent.

`SwarmProofs`, of `Council`: `CouncilInv` says that each opinion is the one its
author sent, that each author who was heard has one (`OpinionsTrue`), and that the
session is over exactly when nobody is waited for, its verdict then being the
aggregate of the opinions, in the order in which they came (`SessionSettled`).
`VerdictsTally` turns that into what the verdict says of the set of those heard:
the severities are ranked by `HighestIsGravest`, the weights by `BestIsHeaviest`,
both from the existence of a greatest element of a finite set.

`SwarmProofs`, of `Sovereigns`:

- `OneSovereign` (`SoleUnderCurrentWeights`) is inductive with the types and
  `Unspawned`: an agent that was never spawned has no process. A rebirth that
  finds the old process alive under the weights held is refused, because the name
  is taken; this is the step where the second half needs the first.
- `RebirthsRationed` (`RebirthsBounded`): the bound is not inductive, since a
  violation sets a timer. `Rationed` adds to the rebirths taken, timed and waiting
  those that the worker's count still allows (`Owing`): a violation moves one from
  owed to timed, a timer from timed to waiting, a handler from waiting to taken or
  to nothing, and a spawn, which sets the count back, opens a new ration. What
  waits is the cardinality of a set of places in the mailbox; `WaitPosted` and
  `WaitTaken` say what posting and taking a message do to it.
- `RetiredFaithfully` (`RetiredAsTaught`): `Paired` says that in the Hive's mailbox a
  retirement comes right behind the lesson it was sent with, or is first and that
  lesson heads the list, unless the list was pruned to nothing.

Only model-checked: the liveness properties (`RequestsAnswered`,
`SubmittedTasksFinish`, `RebornWithAdjustedWeights`, `AssignedTasksClose`,
`CallersAnswered`) and the violation in `deadlock`. Only proved: the failed half of
`CompletionsTrue`, since the futures that the scheduler spawns today return `Ok`, and
so does the one result of the instance in `tasks`. Out of the prover's reach are
liveness under fairness and `ENABLED`, induction with an operator for its
parameter (so that what a recursive definition computes is proved only where, as
in `Sums`, a minimal counterexample does in its place), and `RECURSIVE` operators,
of which the modules with theorems use none.

## 6. Bounds and abstractions to keep in mind

- The guest pool has one place; its limit is not modelled. Guests differ only in
  id.
- One agent's file in `StewardAct`: other agents appear in `AgentResidency`.
- Rust's `f64` balances are integers here. The code clamps penalties and decay
  at zero, and `burn_synapse` refuses what is not covered; the models do the same.
- A save writes all or nothing of its content, after the truncation.
- The resume in `StewardAct` is of the resident herself. Files of older versions,
  which `load_agent` migrates, are left out.
- A Think of the job daemon or the heartbeat is an outcome in `Daemons`; who is
  resident after a restart is left open there. The Sabbath and a copilot at work
  make the heartbeat skip a tick; for both it is a tick that changes nothing.
- Vantage's answer to a GET is its table at that moment; a request that fails has
  no effect there. An answer that cannot be read counts as one that failed: both
  end the tick. Ids that are numbers are distinct.
- Weights are whole thousandths, as `Float.round(_, 3)` leaves them. Principles
  beyond the two of the instance behave alike; roles only tell configurations
  apart. A crash loop that makes
  the DynamicSupervisor give up is left out (`MaxCrashes` is at most 3).
- `DreamEngine`, gates, providers and tools are choices.
- Idle and read-only calls are stutters.

## 7. The plan

In order of importance for what remains:

1. `OsKernel`: `on_birth`, `on_turn_*`, `on_terminate`, capabilities with their
   grant, expiry and eviction, IPC channels (the receiver is dropped in
   `on_birth`, `os_kernel.rs:76`), and jobs of a pid that has gone, composed with
   `JobAdmission`. Bounds: two pids, two jobs.
2. `ActionTransaction`: the stage machine of `execution/action_transaction.rs`
   and what a failure between two of its steps leaves; the abstract
   specification is "committed or refused, once, with a receipt".
3. `Wallet` and `Leases`: the ledgers of dopamine and synapse (earned, spent,
   staked, decayed) balance through conversion, stakes and decay, and credits are
   backed; leases over one device.
4. `AgentLifecycle`: legal stages and migration. The skill daemon.
5. Residents and cooldowns together: a resume of another agent in one module with
   the tracker and the ring she finds.
6. `AgentStateMerge`: whether the merge of `oso-agent-state-contract` commutes,
   associates and is idempotent, over bounded states.
7. `SwarmFork` and `Teammates`, `RemoteSession`, and the Move contracts' escrow.
8. Proofs: further abstract specifications and their refinements (a ledger that only
   grows or goes back to what was saved, for `StewardAct`; a task that is queued, run
   and recorded once, for `TaskScheduler`), the invariants of the modules above as
   they are written, and the safety facts that the liveness arguments rest on (what
   is due is always either timed, waiting or refused).

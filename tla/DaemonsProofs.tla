---------------------------- MODULE DaemonsProofs ----------------------------
(***************************************************************************)
(* For any agents, tasks and bounds: the job daemon accounts for every run *)
(* of a task, through crashes, lost reports, changes of the resident and   *)
(* of the task's assignment.                                               *)
(***************************************************************************)
EXTENDS Daemons, TLAPS

Boards == [Tasks -> [status : {"open", "assigned"} \cup Outcomes,
                     to : Agents \cup {Unborn}, by : Agents \cup {Unborn}]]
Runs == [by : Agents \cup {Unborn}, outcome : Outcomes \cup {"none"}, moved : BOOLEAN]

LEMMA InitRuns == Init => RunsInv
<1> SUFFICES ASSUME Init PROVE RunsInv
  OBVIOUS
<1>1. /\ job.pc = "idle" /\ job.todo = {}
      /\ job \in [pc : {"idle"}, agent : {Unborn}, todo : SUBSET Tasks,
                  task : {NoTask}, outcome : {"none"}]
  BY DEF Init, JobIdle
<1>2. /\ board \in [Tasks -> [status : {"open"}, to : {Unborn}, by : {Unborn}]]
      /\ \A t \in Tasks : board[t].status = "open"
  BY DEF Init
<1>3. \A t \in Tasks : account[t] = 0
  BY DEF Init
<1>4. TypeOK
  <2>1. JobTypeOK
    BY <1>1 DEF JobTypeOK, JobRuns
  <2>2. last \in [Tasks -> Runs] /\ account \in [Tasks -> Int]
    BY DEF Init, NoRun, Runs
  <2> QED
    BY <1>2, <2>1, <2>2 DEF Init, TypeOK, Runs
<1>5. ~JobRuns /\ Ahead = {}
  BY <1>1 DEF JobRuns, Ahead
<1> QED
  BY <1>1, <1>3, <1>4, <1>5 DEF RunsInv

\* A step that touches neither the job daemon nor the board keeps the accounts.
LEMMA ElsewhereKeepsRuns ==
  ASSUME RunsInv, UNCHANGED <<job, board, last, account>>,
         moved' \in BOOLEAN, resident' \in Agents \cup {Unborn}
  PROVE  RunsInv'
BY DEF RunsInv, TypeOK, JobTypeOK, JobRuns, Ahead, AtHand, Closed, Outcomes

\* Going on with a list of tasks, once the account of every task is settled.
LEMMA GoingKeepsRuns ==
  ASSUME TypeOK, NEW S \in SUBSET Tasks, job' = Going(S),
         resident' = resident, moved' = moved, board' \in Boards,
         last' = last, account' \in [Tasks -> Int],
         \A t \in S : account'[t] <= 0 /\ (Sole(t) => ~Closed(t)'),
         \A t \in Tasks : /\ account'[t] <= 1
                          /\ ~(Addressed(t) = t /\ Closed(t)') => account'[t] <= 0
  PROVE  RunsInv'
<1>1. job' \in [pc : {"idle", "next"}, agent : Agents \cup {Unborn}, todo : SUBSET Tasks,
                task : {NoTask}, outcome : {"none"}] /\ job'.todo = S
  <2>1. CASE S = {}
    BY <2>1 DEF Going, JobIdle
  <2>2. CASE S # {}
    BY <2>2 DEF Going, JobIdle, TypeOK, JobTypeOK
  <2> QED
    BY <2>1, <2>2
<1>2. job'.pc \notin {"run", "patch"}
  BY <1>1
<1>3. TypeOK'
  BY <1>1, <1>2 DEF TypeOK, JobTypeOK, JobRuns, Boards
<1>4. Ahead' = S
  BY <1>1, <1>2 DEF Ahead, JobRuns
<1> QED
  BY <1>2, <1>3, <1>4 DEF RunsInv, JobRuns

\* Taking one off the account of the task at hand.
LEMMA UnreportedSettles ==
  ASSUME RunsInv, job.pc = "patch", Unreported
  PROVE  /\ job.task \in Tasks /\ account' \in [Tasks -> Int]
         /\ account'[job.task] <= 0
         /\ \A t \in Tasks \ {job.task} : account'[t] = account[t]
<1>1. job.task \in Tasks /\ account \in [Tasks -> Int]
  BY DEF RunsInv, TypeOK, JobTypeOK, JobRuns
<1>2. account[job.task] \in Int /\ account[job.task] <= 1
  BY <1>1 DEF RunsInv
<1>3. account[job.task] - 1 \in Int /\ account[job.task] - 1 <= 0
  BY <1>2
<1>4. account' = [account EXCEPT ![job.task] = account[job.task] - 1]
  BY DEF Unreported
<1> QED
  BY <1>1, <1>3, <1>4

LEMMA NextKeepsRuns == RunsInv /\ [Next]_vars => RunsInv'
<1> SUFFICES ASSUME RunsInv, [Next]_vars PROVE RunsInv'
  OBVIOUS
<1> USE DEF history, vantage, daemons, server
<1>0. /\ TypeOK /\ resident \in Agents \cup {Unborn} /\ moved \in BOOLEAN
      /\ board \in Boards /\ account \in [Tasks -> Int] /\ last \in [Tasks -> Runs]
  BY DEF RunsInv, TypeOK, Boards, Runs
<1>a. \A t \in Tasks :
        /\ account[t] <= 1
        /\ job.pc # "patch" /\ ~(Addressed(t) = t /\ Closed(t)) => account[t] <= 0
  BY DEF RunsInv, AtHand
<1>b. job.pc = "patch" => /\ job.task \in Tasks /\ job.todo \in SUBSET Tasks
                          /\ job.agent \in Agents \cup {Unborn} /\ job.outcome \in Outcomes
                          /\ job.task \notin job.todo
  BY <1>0 DEF RunsInv, TypeOK, JobTypeOK, JobRuns
<1>1. CASE JobTick
  <2>1. UNCHANGED <<resident, board, last, account>>
    BY <1>1 DEF JobTick
  <2>2. /\ job'.pc = "identify" /\ job'.todo = {} /\ job'.task = NoTask
        /\ job' \in [pc : {"identify"}, agent : {Unborn}, todo : SUBSET Tasks,
                     task : {NoTask}, outcome : {"none"}]
        /\ moved' = FALSE /\ job.pc = "idle"
    BY <1>1 DEF JobTick, JobIdle
  <2>3. TypeOK'
    BY <1>0, <2>1, <2>2 DEF TypeOK, JobTypeOK, JobRuns
  <2>4. Ahead' = {} /\ ~JobRuns' /\ \A t \in Tasks : ~AtHand(t) /\ ~AtHand(t)'
    BY <2>2 DEF Ahead, JobRuns, AtHand
  <2>5. \A t \in Tasks : Closed(t)' = Closed(t) /\ account'[t] = account[t]
    BY <2>1 DEF Closed
  <2> QED
    BY <2>3, <2>4, <2>5 DEF RunsInv
<1>2. CASE Identify
  <2>1. UNCHANGED <<resident, board, last, account, moved>> /\ job.pc = "identify"
    BY <1>2 DEF Identify
  <2>2. /\ job' \in [pc : {"idle", "fetch"}, agent : Agents \cup {Unborn}, todo : {{}},
                     task : {NoTask}, outcome : {"none"}]
    BY <1>0, <1>2 DEF Identify, JobIdle
  <2>3. TypeOK'
    BY <1>0, <2>1, <2>2 DEF TypeOK, JobTypeOK, JobRuns
  <2>4. Ahead' = {} /\ ~JobRuns' /\ \A t \in Tasks : ~AtHand(t) /\ ~AtHand(t)'
    BY <2>1, <2>2 DEF Ahead, JobRuns, AtHand
  <2>5. \A t \in Tasks : Closed(t)' = Closed(t) /\ account'[t] = account[t]
    BY <2>1 DEF Closed
  <2> QED
    BY <2>3, <2>4, <2>5 DEF RunsInv
<1>3. CASE FetchTasks
  <2>1. /\ job.pc = "fetch" /\ job' = Going(Listed(job.agent))
        /\ UNCHANGED <<resident, board, last, account, moved>>
    BY <1>3 DEF FetchTasks
  <2>2. Listed(job.agent) \in SUBSET Tasks
        /\ \A t \in Listed(job.agent) : ~Closed(t)
    BY DEF Listed, Assigned, Outcomes, Closed
  <2>3. \A t \in Tasks : Closed(t)' = Closed(t)
    BY <2>1 DEF Closed
  <2>4. \A t \in Listed(job.agent) : account[t] <= 0
    BY <1>a, <2>1, <2>2
  <2> QED
    BY <1>0, <1>a, <2>1, <2>2, <2>3, <2>4, GoingKeepsRuns
<1>4. CASE FetchFails
  <2>1. /\ job.pc = "fetch" /\ job' = Going({})
        /\ UNCHANGED <<resident, board, last, account, moved>>
    BY <1>4 DEF FetchFails, Going
  <2>2. \A t \in Tasks : Closed(t)' = Closed(t)
    BY <2>1 DEF Closed
  <2> QED
    BY <1>0, <1>a, <2>1, <2>2, GoingKeepsRuns
<1>5. CASE NextTask
  <2>1. /\ job.pc = "next"
        /\ UNCHANGED <<resident, board, last, account, moved>>
    BY <1>5 DEF NextTask
  <2>2. PICK t \in job.todo : job' = [job EXCEPT !.pc = "run", !.todo = @ \ {t}, !.task = t]
    BY <1>5 DEF NextTask
  <2>3. t \in Tasks
    BY <1>0, <2>2 DEF TypeOK, JobTypeOK
  <2>4. /\ job'.pc = "run" /\ job'.todo = job.todo \ {t} /\ job'.task = t
        /\ job'.agent = job.agent /\ job'.outcome = job.outcome
        /\ job' \in [pc : {"run"}, agent : Agents \cup {Unborn}, todo : SUBSET Tasks,
                     task : Tasks, outcome : Outcomes \cup {"none"}]
    BY <1>0, <2>2, <2>3 DEF TypeOK, JobTypeOK
  <2>5. TypeOK'
    BY <1>0, <2>1, <2>4 DEF TypeOK, JobTypeOK, JobRuns
  <2>6. Ahead' = job.todo /\ Ahead = job.todo
    BY <2>1, <2>2, <2>4 DEF Ahead, JobRuns
  <2>7. \A u \in Tasks : /\ Closed(u)' = Closed(u) /\ account'[u] = account[u]
                         /\ ~AtHand(u) /\ ~AtHand(u)'
    BY <2>1, <2>4 DEF Closed, AtHand
  <2> QED
    BY <2>4, <2>5, <2>6, <2>7 DEF RunsInv
<1>6. CASE RunTask
  <2>1. job.pc = "run" /\ UNCHANGED <<resident, board, moved>>
    BY <1>6 DEF RunTask
  <2>2. PICK o \in Outcomes :
          /\ job' = [job EXCEPT !.pc = "patch", !.outcome = o]
          /\ last' = [last EXCEPT ![job.task] =
                        [by |-> resident, outcome |-> o, moved |-> moved]]
          /\ account' = [account EXCEPT ![job.task] = @ + 1]
    BY <1>6 DEF RunTask, Outcomes
  <2>3. job.task \in Tasks /\ [by |-> resident, outcome |-> o, moved |-> moved] \in Runs
    BY <1>0, <2>1 DEF TypeOK, JobTypeOK, JobRuns, Runs
  <2>4. /\ job'.pc = "patch" /\ job'.todo = job.todo /\ job'.task = job.task
        /\ job' \in [pc : {"patch"}, agent : Agents \cup {Unborn}, todo : SUBSET Tasks,
                     task : Tasks, outcome : Outcomes]
    BY <1>0, <2>1, <2>2, <2>3 DEF TypeOK, JobTypeOK
  <2>5. account[job.task] \in Int /\ account[job.task] <= 0
    BY <1>0, <2>1, <2>3 DEF RunsInv, Ahead, JobRuns, AtHand
  <2>6. account[job.task] + 1 \in Int /\ account[job.task] + 1 <= 1
    BY <2>5
  <2>7. account' = [account EXCEPT ![job.task] = account[job.task] + 1]
    BY <2>2
  <2>8. /\ account' \in [Tasks -> Int] /\ account'[job.task] <= 1
        /\ \A t \in Tasks \ {job.task} : account'[t] = account[t]
    BY <1>0, <2>3, <2>6, <2>7
  <2>9. last' \in [Tasks -> Runs]
    BY <1>0, <2>2, <2>3
  <2>10. TypeOK'
    BY <1>0, <2>1, <2>4, <2>8, <2>9 DEF TypeOK, JobTypeOK, JobRuns, Runs
  <2>11. Ahead' = Ahead /\ job'.task \notin job'.todo /\ JobRuns
    BY <2>1, <2>4 DEF Ahead, JobRuns, RunsInv
  <2>12. \A t \in Tasks : /\ Closed(t)' = Closed(t) /\ ~AtHand(t)
                          /\ AtHand(t)' <=> t = job.task
    BY <2>1, <2>4 DEF Closed, AtHand
  <2> QED
    BY <2>8, <2>10, <2>11, <2>12 DEF RunsInv
<1>7. CASE PatchApplied
  <2> DEFINE to == Addressed(job.task)
  <2>1. /\ job.pc = "patch" /\ job' = Going(job.todo)
        /\ board' = IF to \in Tasks
                    THEN [board EXCEPT ![to] = [board[to] EXCEPT !.status = job.outcome,
                                                                 !.by = job.agent]]
                    ELSE board
        /\ IF to = job.task THEN UNCHANGED account ELSE Unreported
        /\ UNCHANGED <<resident, last, moved>>
    BY <1>7 DEF PatchApplied, Report
  <2> HIDE DEF to
  <2>2. /\ board' \in Boards
        /\ to \in Tasks => board'[to].status = job.outcome
        /\ \A t \in Tasks : t # to => board'[t] = board[t]
    BY <1>0, <1>b, <2>1 DEF Boards
  <2>3. /\ \A t \in Tasks : t = to => Closed(t)'
        /\ \A t \in Tasks : t # to => (Closed(t)' <=> Closed(t))
    BY <1>b, <2>1, <2>2 DEF Closed
  <2>4. /\ account' \in [Tasks -> Int]
        /\ account'[job.task] <= 1 /\ (to # job.task => account'[job.task] <= 0)
        /\ \A t \in Tasks \ {job.task} : account'[t] = account[t]
    BY <1>0, <1>a, <1>b, <2>1, UnreportedSettles
  <2>5. ASSUME NEW t \in job.todo PROVE account'[t] <= 0 /\ (Sole(t) => ~Closed(t)')
    <3>1. t \in Tasks /\ t # job.task /\ t \in Ahead /\ ~AtHand(t)
      BY <1>b, <2>1 DEF Ahead, AtHand
    <3>2. account[t] <= 0 /\ (Sole(t) => ~Closed(t))
      BY <3>1 DEF RunsInv
    <3>3. Sole(t) => t # to
      BY <1>b, <2>1, <3>1 DEF Sole, to
    <3> QED
      BY <2>3, <2>4, <3>1, <3>2, <3>3
  <2>6. ASSUME NEW t \in Tasks
        PROVE  account'[t] <= 1 /\ (~(Addressed(t) = t /\ Closed(t)') => account'[t] <= 0)
    <3>1. CASE t = job.task
      <4>1. Addressed(t) = to
        BY <3>1 DEF to
      <4>2. account'[t] <= 1 /\ (to # t => account'[t] <= 0)
        BY <2>4, <3>1
      <4> QED
        BY <2>3, <4>1, <4>2
    <3>2. CASE t # job.task
      <4>1. account[t] <= 1 /\ (~(Addressed(t) = t /\ Closed(t)) => account[t] <= 0)
        BY <3>2 DEF RunsInv, AtHand
      <4> QED
        BY <2>3, <2>4, <3>2, <4>1
    <3> QED
      BY <3>1, <3>2
  <2> QED
    BY <1>0, <1>b, <2>1, <2>2, <2>4, <2>5, <2>6, GoingKeepsRuns
<1>8. CASE PatchFails
  <2>1. /\ job.pc = "patch" /\ job' = Going(job.todo) /\ Unreported
        /\ UNCHANGED <<resident, board, last, moved>>
    BY <1>8 DEF PatchFails
  <2>2. \A t \in Tasks : Closed(t)' = Closed(t)
    BY <2>1 DEF Closed
  <2>3. /\ job.task \in Tasks /\ account' \in [Tasks -> Int] /\ account'[job.task] <= 0
        /\ \A t \in Tasks \ {job.task} : account'[t] = account[t]
    BY <2>1, UnreportedSettles
  <2>4. \A t \in job.todo : /\ t \in Tasks /\ t # job.task
                            /\ account[t] <= 0 /\ (Sole(t) => ~Closed(t))
    BY <1>b, <2>1 DEF RunsInv, Ahead, AtHand
  <2>5. \A t \in Tasks \ {job.task} :
          account[t] <= 1 /\ (~(Addressed(t) = t /\ Closed(t)) => account[t] <= 0)
    BY DEF RunsInv, AtHand
  <2>6. account'[job.task] \in Int /\ account'[job.task] <= 1
    BY <2>3
  <2> QED
    BY <1>0, <1>b, <2>1, <2>2, <2>3, <2>4, <2>5, <2>6, GoingKeepsRuns
<1>9. ASSUME NEW t \in Tasks, NEW a \in Agents, Assign(t, a) PROVE RunsInv'
  <2>1. /\ board[t].status \in {"open", "assigned"}
        /\ board' = [board EXCEPT ![t] = [status |-> "assigned", to |-> a, by |-> Unborn]]
        /\ UNCHANGED <<resident, job, last, account, moved>>
    BY <1>9 DEF Assign
  <2>2. /\ board' \in Boards /\ board'[t].status = "assigned"
        /\ \A u \in Tasks \ {t} : board'[u] = board[u]
    BY <1>0, <2>1 DEF Boards
  <2>3. TypeOK'
    BY <1>0, <2>1, <2>2 DEF TypeOK, JobTypeOK, JobRuns, Boards
  <2>4. \A u \in Tasks : Closed(u)' = Closed(u)
    BY <2>1, <2>2 DEF Closed, Outcomes
  <2>5. Ahead' = Ahead /\ JobRuns' = JobRuns /\ \A u \in Tasks : AtHand(u)' = AtHand(u)
    BY <2>1 DEF Ahead, JobRuns, AtHand
  <2> QED
    BY <2>1, <2>3, <2>4, <2>5 DEF RunsInv
<1>10. CASE CrashAndRestart
  <2>1. /\ resident' \in Agents \cup {Unborn} /\ job' = JobIdle
        /\ IF job.pc = "patch" THEN Unreported ELSE UNCHANGED account
        /\ UNCHANGED <<board, last, moved>>
    BY <1>10 DEF CrashAndRestart
  <2>2. /\ job' \in [pc : {"idle"}, agent : {Unborn}, todo : {{}}, task : {NoTask},
                     outcome : {"none"}]
    BY <2>1 DEF JobIdle
  <2>3. /\ account' \in [Tasks -> Int]
        /\ \A t \in Tasks : IF AtHand(t) THEN account'[t] <= 0 ELSE account'[t] = account[t]
    BY <1>0, <2>1, UnreportedSettles DEF AtHand
  <2>4. TypeOK'
    BY <1>0, <2>1, <2>2, <2>3 DEF TypeOK, JobTypeOK, JobRuns
  <2>5. Ahead' = {} /\ ~JobRuns' /\ \A t \in Tasks : Closed(t)' = Closed(t)
    BY <2>1, <2>2 DEF Ahead, JobRuns, Closed
  <2>6. ASSUME NEW t \in Tasks
        PROVE  account'[t] <= 1 /\ (~(Addressed(t) = t /\ Closed(t)) => account'[t] <= 0)
    <3>1. account'[t] \in Int
      BY <2>3
    <3> QED
      BY <2>3, <3>1 DEF RunsInv
  <2> QED
    BY <2>4, <2>5, <2>6 DEF RunsInv
<1>11. CASE ApiServed
  <2>1. resident' \in Agents \cup {Unborn} /\ moved' \in BOOLEAN
    BY <1>0, <1>11 DEF ApiServed
  <2>2. UNCHANGED <<job, board, last, account>>
    BY <1>11 DEF ApiServed
  <2> QED
    BY <2>1, <2>2, ElsewhereKeepsRuns
<1>12. CASE HeartTick \/ HeartStep \/ ApiAsks \/ MinutePasses \/ UNCHANGED vars
  <2>1. UNCHANGED <<resident, job, board, last, account, moved>>
    BY <1>12 DEF HeartTick, HeartStep, Wake, HeartThinks, HeartActs, HeartCloses, ApiAsks,
                 MinutePasses, vars
  <2> QED
    BY <1>0, <2>1, ElsewhereKeepsRuns
<1> QED
  BY <1>1, <1>2, <1>3, <1>4, <1>5, <1>6, <1>7, <1>8, <1>9, <1>10, <1>11, <1>12
  DEF Next, JobStep, JobFault

\* The job daemon's state and the board stay well typed, and the accounts that
\* RunsAccounted needs hold.
THEOREM RunsInvariant == Spec => []RunsInv
<1>1. Init => RunsInv
  BY InitRuns
<1>2. RunsInv /\ [Next]_vars => RunsInv'
  BY NextKeepsRuns
<1> QED
  BY <1>1, <1>2, PTL DEF Spec

\* A task is worked at most once more than its reports got lost, were cut off or went
\* to another task (job_daemon.rs spawn_job_daemon), for any agents, tasks and ids,
\* crashes and reassignments.
THEOREM RunsAreAccounted == Spec => []RunsAccounted
<1>1. RunsInv => RunsAccounted
  BY DEF RunsInv, RunsAccounted
<1> QED
  BY <1>1, RunsInvariant, PTL

-----------------------------------------------------------------------------
(***************************************************************************)
(* The credit.  An agent who moves in during a tick is noted at once, so   *)
(* between Identify and the report the daemon's agent is the resident      *)
(* unless somebody moved; the run at hand is the last of its task, and     *)
(* remembers both.                                                         *)
(***************************************************************************)
Identified == job.pc \in {"fetch", "next", "run", "patch"} => job.agent = resident \/ moved

RunAtHand ==
  job.pc = "patch" =>
    /\ last[job.task] # NoRun /\ last[job.task].outcome = job.outcome
    /\ job.agent = last[job.task].by \/ last[job.task].moved

CreditInv == RunsInv /\ Identified /\ RunAtHand /\ ClosedAsLastRun

LEMMA InitCredit == Init => CreditInv
<1> SUFFICES ASSUME Init PROVE CreditInv
  OBVIOUS
<1>1. Identified /\ RunAtHand
  BY DEF Init, JobIdle, Identified, RunAtHand
<1>2. ClosedAsLastRun
  BY DEF Init, ClosedAsLastRun
<1> QED
  BY <1>1, <1>2, InitRuns DEF CreditInv

\* A step that reports nothing and runs nothing leaves the credits as they are,
\* whatever it does to the resident, when it says so.
LEMMA ElsewhereKeepsCredit ==
  ASSUME CreditInv, RunsInv', UNCHANGED <<board, last>>,
         job'.pc = "patch" => job' = job,
         job'.pc \in {"fetch", "next", "run", "patch"} => job'.agent = resident' \/ moved'
  PROVE  CreditInv'
BY DEF CreditInv, Identified, RunAtHand, ClosedAsLastRun

\* Where the daemon is when it goes on.
LEMMA GoingIsNext ==
  ASSUME NEW S, job' = Going(S)
  PROVE  job'.pc \in {"idle", "next"} /\ (job'.pc = "next" => job'.agent = job.agent)
BY DEF Going, JobIdle

LEMMA NextKeepsCredit == CreditInv /\ [Next]_vars => CreditInv'
<1> SUFFICES ASSUME CreditInv, [Next]_vars PROVE CreditInv'
  OBVIOUS
<1> USE DEF history, vantage, daemons, server
<1>0. RunsInv /\ RunsInv' /\ TypeOK
  BY NextKeepsRuns DEF CreditInv, RunsInv
<1>a. Identified /\ RunAtHand /\ ClosedAsLastRun
  BY DEF CreditInv
<1>1. CASE JobTick \/ Identify \/ CrashAndRestart
  <2>1. /\ UNCHANGED <<board, last>>
        /\ job'.pc \in {"idle", "identify", "fetch"}
        /\ job'.pc = "fetch" => job'.agent = resident /\ resident' = resident
    <3>1. CASE JobTick
      BY <3>1 DEF JobTick, JobIdle
    <3>2. CASE Identify
      BY <3>2 DEF Identify, JobIdle
    <3>3. CASE CrashAndRestart
      BY <3>3 DEF CrashAndRestart, JobIdle
    <3> QED
      BY <1>1, <3>1, <3>2, <3>3
  <2> QED
    BY <1>0, <2>1, ElsewhereKeepsCredit
<1>2. CASE FetchTasks \/ FetchFails \/ PatchFails
  <2>1. /\ UNCHANGED <<board, last, resident, moved>>
        /\ job.pc \in {"fetch", "patch"} /\ \E S : job' = Going(S)
    BY <1>2 DEF FetchTasks, FetchFails, PatchFails, Going
  <2>2. job'.pc \in {"idle", "next"} /\ (job'.pc = "next" => job'.agent = job.agent)
    BY <2>1, GoingIsNext
  <2> QED
    BY <1>0, <1>a, <2>1, <2>2, ElsewhereKeepsCredit DEF Identified
<1>3. CASE NextTask
  <2>1. /\ UNCHANGED <<board, last, resident, moved>> /\ job.pc = "next"
        /\ job'.pc = "run" /\ job'.agent = job.agent
    BY <1>0, <1>3 DEF NextTask, TypeOK, JobTypeOK
  <2> QED
    BY <1>0, <1>a, <2>1, ElsewhereKeepsCredit DEF Identified
<1>4. CASE RunTask
  <2>1. PICK o \in Outcomes :
          /\ job' = [job EXCEPT !.pc = "patch", !.outcome = o]
          /\ last' = [last EXCEPT ![job.task] =
                        [by |-> resident, outcome |-> o, moved |-> moved]]
    BY <1>4 DEF RunTask, Outcomes
  <2>2. /\ job.pc = "run" /\ job.task \in Tasks /\ UNCHANGED <<board, resident, moved>>
        /\ last \in [Tasks -> Runs]
    BY <1>0, <1>4 DEF RunTask, TypeOK, JobTypeOK, JobRuns, Runs
  <2>3. /\ job'.pc = "patch" /\ job'.task = job.task /\ job'.agent = job.agent
        /\ job'.outcome = o
    BY <1>0, <2>1 DEF TypeOK, JobTypeOK
  <2>4. /\ last'[job.task] = [by |-> resident, outcome |-> o, moved |-> moved]
        /\ \A t \in Tasks \ {job.task} : last'[t] = last[t]
    BY <2>1, <2>2
  <2>5. /\ last'[job.task].outcome = o /\ last'[job.task].by = resident
        /\ last'[job.task].moved = moved /\ last'[job.task] # NoRun
    BY <2>4 DEF NoRun, Outcomes
  <2>6. job.agent = resident \/ moved
    BY <1>a, <2>2 DEF Identified
  <2>7. RunAtHand' /\ Identified'
    BY <2>2, <2>3, <2>5, <2>6 DEF RunAtHand, Identified
  <2>8. Sole(job.task) => board[job.task].status \notin Outcomes
    BY <1>0, <2>2 DEF RunsInv, Ahead, JobRuns, Closed
  <2>9. \A u \in Tasks : last[u] # NoRun => last'[u] # NoRun
    BY <2>4, <2>5
  <2>10. ClosedAsLastRun'
    BY <1>a, <2>2, <2>4, <2>8, <2>9 DEF ClosedAsLastRun, Outcomes
  <2> QED
    BY <1>0, <2>7, <2>10 DEF CreditInv
<1>5. CASE PatchApplied
  <2>1. /\ job.pc = "patch" /\ job' = Going(job.todo)
        /\ UNCHANGED <<resident, last, moved>>
        /\ board' = IF Addressed(job.task) \in Tasks
                    THEN [board EXCEPT ![Addressed(job.task)] = Report(Addressed(job.task))]
                    ELSE board
    BY <1>5 DEF PatchApplied
  <2>2. PICK u \in Tasks : u = job.task
    BY <1>0, <2>1 DEF TypeOK, JobTypeOK, JobRuns
  <2> DEFINE to == Addressed(u)
  <2>3. board' = IF to \in Tasks THEN [board EXCEPT ![to] =
                   [board[to] EXCEPT !.status = job.outcome, !.by = job.agent]] ELSE board
    BY <2>1, <2>2 DEF Report
  <2> HIDE DEF to
  <2>4. /\ to \in Tasks => board'[to].status = job.outcome /\ board'[to].by = job.agent
        /\ \A t \in Tasks : t # to => board'[t] = board[t]
    BY <1>0, <2>3 DEF TypeOK
  <2>5. job'.pc \in {"idle", "next"} /\ (job'.pc = "next" => job'.agent = job.agent)
    BY <2>1, GoingIsNext
  <2>6. Identified' /\ RunAtHand'
    BY <1>a, <2>1, <2>5 DEF Identified, RunAtHand
  <2>7. /\ last[u] # NoRun /\ last[u].outcome = job.outcome
        /\ job.agent = last[u].by \/ last[u].moved
    BY <1>a, <2>1, <2>2 DEF RunAtHand
  <2>8. ASSUME NEW t \in Tasks, board'[t].status \in {"completed", "failed"}
        PROVE  /\ \E v \in Tasks : Addressed(v) = t /\ last'[v] # NoRun
               /\ Sole(t) => /\ board'[t].status = last'[t].outcome
                             /\ board'[t].by = last'[t].by \/ last'[t].moved
    <3>1. CASE t = to
      <4>1. Addressed(u) = t /\ (Sole(t) => u = t)
        BY <3>1 DEF to, Sole
      <4> QED
        BY <2>1, <2>4, <2>7, <3>1, <4>1
    <3>2. CASE t # to
      BY <1>a, <2>1, <2>4, <2>8, <3>2 DEF ClosedAsLastRun
    <3> QED
      BY <3>1, <3>2
  <2>9. ClosedAsLastRun'
    BY <2>8 DEF ClosedAsLastRun
  <2> QED
    BY <1>0, <2>6, <2>9 DEF CreditInv
<1>6. ASSUME NEW t \in Tasks, NEW a \in Agents, Assign(t, a) PROVE CreditInv'
  <2>1. /\ board' = [board EXCEPT ![t] = [status |-> "assigned", to |-> a, by |-> Unborn]]
        /\ UNCHANGED <<resident, job, last, moved>>
    BY <1>6 DEF Assign
  <2>2. board'[t].status = "assigned" /\ \A u \in Tasks \ {t} : board'[u] = board[u]
    BY <1>0, <2>1 DEF TypeOK
  <2>3. Identified' /\ RunAtHand'
    BY <1>a, <2>1 DEF Identified, RunAtHand
  <2>4. ClosedAsLastRun'
    BY <1>a, <2>1, <2>2 DEF ClosedAsLastRun
  <2> QED
    BY <1>0, <2>3, <2>4 DEF CreditInv
<1>7. CASE ApiServed
  <2>1. UNCHANGED <<job, board, last>> /\ moved' = (moved \/ resident' # resident)
    BY <1>7 DEF ApiServed
  <2> QED
    BY <1>0, <1>a, <2>1, ElsewhereKeepsCredit DEF Identified
<1>8. CASE HeartTick \/ HeartStep \/ ApiAsks \/ MinutePasses \/ UNCHANGED vars
  <2>1. UNCHANGED <<resident, job, board, last, moved>>
    BY <1>8 DEF HeartTick, HeartStep, Wake, HeartThinks, HeartActs, HeartCloses, ApiAsks,
                MinutePasses, vars
  <2> QED
    BY <1>0, <1>a, <2>1, ElsewhereKeepsCredit DEF Identified
<1> QED
  BY <1>1, <1>2, <1>3, <1>4, <1>5, <1>6, <1>7, <1>8 DEF Next, JobStep, JobFault

\* A task is closed only by a run whose report goes to it; where that is its own
\* alone, it says how its last run ended and credits the agent that ran it, unless
\* another moved in during the tick (job_daemon.rs spawn_job_daemon), for any agents,
\* tasks and ids, crashes and reassignments.
THEOREM CreditWhereDue == Spec => []ClosedAsLastRun
<1>1. CreditInv => ClosedAsLastRun
  BY DEF CreditInv
<1> QED
  BY <1>1, InitCredit, NextKeepsCredit, PTL DEF Spec

-----------------------------------------------------------------------------
(***************************************************************************)
(* The heartbeat's presence.                                               *)
(***************************************************************************)
HeartTypes ==
  /\ presence \in [Agents -> {"available", "thinking"}]
  /\ faults \in Nat
  /\ resident \in Agents \cup {Unborn}
  /\ heart.pc \in {"idle", "wake"} => heart.agent = Unborn
  /\ heart.pc \notin {"idle", "wake"} => heart.agent \in Agents

\* A cycle that is not under way has no agent, so who is shown thinking then is
\* one whose cycle broke off.
PresenceInv == HeartTypes /\ ThinkingExplained

LEMMA InitPresence == Init => PresenceInv
BY DEF Init, HeartIdle, PresenceInv, HeartTypes, ThinkingExplained

\* Whoever leaves the heart and the roster alone, and forgets no broken cycle.
LEMMA ElsewhereKeepsPresence ==
  ASSUME PresenceInv, UNCHANGED <<heart, presence, leftThinking>>,
         resident' \in Agents \cup {Unborn}, faults' \in Nat
  PROVE  PresenceInv'
BY DEF PresenceInv, HeartTypes, ThinkingExplained

LEMMA FaultCounts ==
  ASSUME faults \in Nat, Fault
  PROVE  faults' \in Nat /\ faults' # faults
BY DEF Fault

LEMMA NextKeepsPresence == PresenceInv /\ [Next]_vars => PresenceInv'
<1> SUFFICES ASSUME PresenceInv, [Next]_vars PROVE PresenceInv'
  OBVIOUS
<1> USE DEF history, vantage, daemons, server
<1>0. HeartTypes /\ ThinkingExplained /\ faults \in Nat /\ resident \in Agents \cup {Unborn}
  BY DEF PresenceInv, HeartTypes
<1>1. CASE HeartTick
  <2>1. UNCHANGED <<presence, leftThinking, faults, resident>>
        /\ heart.pc = "idle" /\ heart'.pc = "wake" /\ heart'.agent = Unborn
    BY <1>1 DEF HeartTick, HeartIdle
  <2> QED
    BY <1>0, <2>1 DEF PresenceInv, HeartTypes, ThinkingExplained
<1>2. CASE Wake
  <2>1. heart.agent = Unborn /\ UNCHANGED <<resident, leftThinking>>
    BY <1>0, <1>2 DEF Wake, HeartTypes
  <2>2. \A a \in Agents : presence[a] = "thinking" => a \in leftThinking
    BY <1>0, <2>1, DaemonsAssumption DEF ThinkingExplained
  <2>3. CASE resident = Unborn
    <3>1. heart'.pc = "idle" /\ heart'.agent = Unborn /\ UNCHANGED <<presence, faults>>
      BY <1>2, <2>3 DEF Wake, HeartIdle
    <3> QED
      BY <1>0, <2>1, <2>2, <3>1 DEF PresenceInv, HeartTypes, ThinkingExplained
  <2>4. CASE resident # Unborn
    <3>1. heart'.pc = "think" /\ heart'.agent = resident /\ resident \in Agents
      BY <1>0, <1>2, <2>4 DEF Wake
    <3>2. /\ presence' = presence \/ presence' = [presence EXCEPT ![resident] = "thinking"]
          /\ faults' \in Nat
      BY <1>0, <1>2, <2>4, FaultCounts DEF Wake, SetPresence
    <3>3. /\ presence' \in [Agents -> {"available", "thinking"}]
          /\ \A a \in Agents : a # resident => presence'[a] = presence[a]
      BY <1>0, <3>2 DEF HeartTypes
    <3> QED
      BY <1>0, <2>1, <2>2, <3>1, <3>2, <3>3 DEF PresenceInv, HeartTypes, ThinkingExplained
  <2> QED
    BY <2>3, <2>4
<1>3. CASE HeartThinks
  <2>1. UNCHANGED <<presence, faults, resident>> /\ heart.pc = "think" /\ heart.agent \in Agents
    BY <1>0, <1>3 DEF HeartThinks, HeartTypes
  <2>2. CASE heart' = [heart EXCEPT !.pc = "act"] /\ UNCHANGED leftThinking
    <3>1. heart'.agent = heart.agent
      BY <2>2
    <3>2. heart'.pc \notin {"idle", "wake"}
      BY <2>1, <2>2
    <3> QED
      BY <1>0, <2>1, <2>2, <3>1, <3>2 DEF PresenceInv, HeartTypes, ThinkingExplained
  <2>3. CASE heart' = HeartIdle /\ leftThinking' = leftThinking \cup {heart.agent}
    BY <1>0, <2>1, <2>3 DEF PresenceInv, HeartTypes, ThinkingExplained, HeartIdle
  <2> QED
    BY <1>3, <2>2, <2>3 DEF HeartThinks
<1>4. CASE HeartActs
  <2>1. UNCHANGED <<presence, faults, resident, leftThinking>> /\ heart.pc = "act"
        /\ heart' = [heart EXCEPT !.pc = "close"] /\ heart'.agent = heart.agent
    BY <1>4 DEF HeartActs
  <2>2. heart'.pc \notin {"idle", "wake"} /\ heart.agent \in Agents
    BY <1>0, <2>1 DEF HeartTypes
  <2> QED
    BY <1>0, <2>1, <2>2 DEF PresenceInv, HeartTypes, ThinkingExplained
<1>5. CASE HeartCloses
  <2>1. /\ heart'.pc = "idle" /\ heart'.agent = Unborn /\ UNCHANGED resident
        /\ heart.agent \in Agents
    BY <1>0, <1>5 DEF HeartCloses, HeartIdle, HeartTypes
  <2>2. CASE presence' = [presence EXCEPT ![heart.agent] = "available"] /\ UNCHANGED faults
    <3>1. leftThinking' = leftThinking \ {heart.agent}
      BY <1>5, <2>2 DEF HeartCloses, Woken
    <3>2. /\ presence' \in [Agents -> {"available", "thinking"}]
          /\ presence'[heart.agent] = "available"
          /\ \A a \in Agents : a # heart.agent => presence'[a] = presence[a]
      BY <1>0, <2>1, <2>2 DEF HeartTypes
    <3> QED
      BY <1>0, <2>1, <2>2, <3>1, <3>2 DEF PresenceInv, HeartTypes, ThinkingExplained
  <2>3. CASE Fault /\ UNCHANGED presence
    <3>1. faults' \in Nat /\ leftThinking' = leftThinking \cup {heart.agent}
      BY <1>0, <1>5, <2>3, FaultCounts DEF HeartCloses, Woken
    <3> QED
      BY <1>0, <2>1, <2>3, <3>1 DEF PresenceInv, HeartTypes, ThinkingExplained
  <2> QED
    BY <1>5, <2>2, <2>3 DEF HeartCloses, SetPresence, Woken
<1>6. CASE CrashAndRestart
  <2>1. /\ heart'.pc = "idle" /\ heart'.agent = Unborn /\ UNCHANGED presence
        /\ resident' \in Agents \cup {Unborn} /\ faults' \in Nat
        /\ leftThinking' = IF heart.agent = Unborn THEN leftThinking
                           ELSE leftThinking \cup {heart.agent}
    BY <1>0, <1>6, FaultCounts DEF CrashAndRestart, HeartIdle
  <2> QED
    BY <1>0, <2>1, DaemonsAssumption DEF PresenceInv, HeartTypes, ThinkingExplained
<1>7. CASE JobTick \/ JobStep \/ JobFault
  <2>1. /\ UNCHANGED <<heart, presence, leftThinking, resident>>
        /\ faults' = faults \/ Fault
    BY <1>7 DEF JobTick, JobStep, JobFault, Identify, FetchTasks, NextTask, RunTask,
                PatchApplied, FetchFails, PatchFails
  <2> QED
    BY <1>0, <2>1, FaultCounts, ElsewhereKeepsPresence
<1>8. CASE ApiAsks \/ ApiServed \/ MinutePasses \/ UNCHANGED vars
           \/ \E t \in Tasks, a \in Agents : Assign(t, a)
  <2>1. /\ UNCHANGED <<heart, presence, leftThinking, faults>>
        /\ resident' \in Agents \cup {Unborn}
    BY <1>0, <1>8 DEF ApiAsks, ApiServed, MinutePasses, Assign, vars
  <2> QED
    BY <1>0, <2>1, ElsewhereKeepsPresence
<1> QED
  BY <1>1, <1>2, <1>3, <1>4, <1>5, <1>6, <1>7, <1>8 DEF Next, HeartStep

\* Nobody is shown thinking on Vantage whose heartbeat is over, but after a cycle
\* that broke off (server.rs spawn_heartbeat), for any agents, crashes and faults.
THEOREM PresenceExplained == Spec => []ThinkingExplained
<1>1. PresenceInv => ThinkingExplained
  BY DEF PresenceInv
<1> QED
  BY <1>1, InitPresence, NextKeepsPresence, PTL DEF Spec
=============================================================================

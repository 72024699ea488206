----------------------------- MODULE Sovereigns -----------------------------
(***************************************************************************)
(* Sovereign agents under the constitutional supervisor (omokoda-swarm,    *)
(* constitutional_supervisor.ex) and the lessons it leaves with the Hive   *)
(* (hive.ex).  Two GenServers, each handling one message of its mailbox at *)
(* a time; the agents' processes live under a DynamicSupervisor, which     *)
(* belongs to the Erlang runtime.                                          *)
(*                                                                         *)
(* An agent's process is registered under the pair <<agent, config>>: the  *)
(* child specification of line 84 hands that pair to Agent.start_link/1    *)
(* as the id (agent.ex 29).  A start is refused only while a live process  *)
(* of the same agent has the same role and weights.  Weights are in        *)
(* thousandths.                                                            *)
(***************************************************************************)
EXTENDS Integers, Sequences, FiniteSets, SequencesExt

CONSTANTS
  Agents, Roles,
  Principles,     \* the principles that reports name, "rhythm" among them
  Severities,     \* the severities that callers report, among "warn" and "block"
  InitialWeights, \* what spawn_sovereign may be given: a set of weights
  MaxRebirths,    \* @max_rebirths
  MaxLessons,     \* @max_lessons
  MaxReports, MaxCrashes, MaxSpawns  \* bounds of the instance

WeightDelta == [mentalism |-> 50, correspondence |-> 50, vibration |-> 30, polarity |-> 50,
                rhythm |-> 40, cause_and_effect |-> 70, gender |-> 30]

ASSUME SovereignsAssumption ==
  /\ Roles # {}
  /\ "rhythm" \in Principles /\ Principles \subseteq DOMAIN WeightDelta
  /\ Severities \subseteq {"warn", "block"}
  /\ InitialWeights \subseteq [Principles -> 100..1000]
  /\ MaxRebirths \in Nat \ {0} /\ MaxLessons \in Nat \ {0}
  \* the DynamicSupervisor gives up on more than three restarts in five seconds
  /\ MaxCrashes \in 0..3

VARIABLES
  workers,      \* [Agents -> worker]; pid 0 stands for an agent not in the map
  monitorRefs,  \* the pids watched
  mailbox,      \* of the constitutional supervisor
  timers,       \* [Agents -> number of :rebirth timers running]
  procs,        \* every agent process ever started; a pid is an index
  hiveBox, lessons, retired,  \* the Hive: its mailbox, its two lists, newest first
  spawns, reborn,   \* [Agents -> how often spawned, reborn]: history
  reports, crashes \* what is used up of the bounds

supervisor == <<workers, monitorRefs, mailbox, timers>>
hive == <<hiveBox, lessons, retired>>
vars == <<supervisor, procs, hive, spawns, reborn, reports, crashes>>

NoWorker ==
  [pid |-> 0, role |-> CHOOSE r \in Roles : TRUE, weights |-> [p \in Principles |-> 1000],
   count |-> 0]

Init ==
  /\ workers = [a \in Agents |-> NoWorker]
  /\ monitorRefs = {} /\ mailbox = <<>> /\ procs = <<>>
  /\ timers = [a \in Agents |-> 0]
  /\ hiveBox = <<>> /\ lessons = <<>> /\ retired = <<>>
  /\ spawns = [a \in Agents |-> 0] /\ reborn = [a \in Agents |-> 0]
  /\ reports = 0 /\ crashes = 0

(***************************************************************************)
(* Helpers.                                                                *)
(***************************************************************************)
Violation(a, p, s) == [kind |-> "violation", agent |-> a, principle |-> p, severity |-> s]

LiveOf(a) == {p \in DOMAIN procs : procs[p].alive /\ procs[p].agent = a}

NameTaken(a, r, w) == \E p \in LiveOf(a) : procs[p].role = r /\ procs[p].weights = w

Started(a, r, w, o) ==
  Append(procs, [agent |-> a, role |-> r, weights |-> w, origin |-> o, alive |-> TRUE])

\* The message a watched process leaves when it is gone.
Down(p) == IF p \in monitorRefs THEN <<[kind |-> "DOWN", pid |-> p]>> ELSE <<>>

AdjustWeights(w, p, s) ==
  LET delta == (IF s = "block" THEN 2 ELSE 1) * WeightDelta[p]
  IN  [w EXCEPT ![p] = IF @ - delta < 100 THEN 100 ELSE @ - delta]

\* Mutant: the process of a violator is left running until its rebirth.
Terminated_late(a) == FALSE

\* Whether a violation finds a process to terminate.
Terminated(a) == workers[a].pid \in LiveOf(a)

\* Mutant: one rebirth too many.
RebirthLeft_through(count) == count <= MaxRebirths

\* Mutant: the last rebirth is never granted.
RebirthLeft_early(count) == count < MaxRebirths - 1

RebirthLeft(count) == count < MaxRebirths

Receives(kind) == mailbox # <<>> /\ Head(mailbox).kind = kind

(***************************************************************************)
(* The supervisor's handlers.                                              *)
(***************************************************************************)
HandleSpawn ==
  /\ Receives("spawn")
  /\ mailbox' = Tail(mailbox)
  /\ LET a == Head(mailbox).agent
         r == Head(mailbox).role
         w == Head(mailbox).weights
     IN  IF NameTaken(a, r, w)
         THEN UNCHANGED <<workers, monitorRefs, procs, spawns>>
         ELSE /\ procs' = Started(a, r, w, "spawn")
              /\ workers' = [workers EXCEPT ![a] =
                               [pid |-> Len(procs'), role |-> r, weights |-> w, count |-> 0]]
              /\ monitorRefs' = monitorRefs \cup {Len(procs')}
              /\ spawns' = [spawns EXCEPT ![a] = @ + 1]
  /\ UNCHANGED <<timers, hive, reborn, reports, crashes>>

\* An agent the supervisor never spawned: the report is dropped.
IgnoreViolation ==
  /\ Receives("violation") /\ workers[Head(mailbox).agent].pid = 0
  /\ mailbox' = Tail(mailbox)
  /\ UNCHANGED <<workers, monitorRefs, timers, procs, hive, spawns, reborn, reports, crashes>>

\* The lesson is cast before the process is terminated; terminate_child waits
\* for the exit, whose DOWN message lands in this very mailbox.
HandleViolation ==
  /\ Receives("violation") /\ workers[Head(mailbox).agent].pid # 0
  /\ LET m == Head(mailbox)
         a == m.agent
         w == workers[a]
         new == AdjustWeights(w.weights, m.principle, m.severity)
         told(k) == [kind |-> k, agent |-> a, weights |-> new]
     IN  /\ workers' = [workers EXCEPT ![a].weights = new, ![a].count = @ + 1]
         /\ mailbox' = Tail(mailbox) \o (IF Terminated(a) THEN Down(w.pid) ELSE <<>>)
         /\ procs' = IF Terminated(a) THEN [procs EXCEPT ![w.pid].alive = FALSE] ELSE procs
         /\ IF RebirthLeft(w.count + 1)
            THEN /\ timers' = [timers EXCEPT ![a] = @ + 1]
                 /\ hiveBox' = Append(hiveBox, told("lesson"))
            ELSE /\ hiveBox' = hiveBox \o <<told("lesson"), told("retire")>>
                 /\ UNCHANGED timers
  /\ UNCHANGED <<monitorRefs, lessons, retired, spawns, reborn, reports, crashes>>

\* A worker is never taken out of the map, so the agent is known.
HandleRebirth ==
  /\ Receives("rebirth")
  /\ mailbox' = Tail(mailbox)
  /\ LET a == Head(mailbox).agent
         r == workers[a].role
         w == workers[a].weights
     IN  IF NameTaken(a, r, w)
         THEN UNCHANGED <<workers, monitorRefs, procs, reborn>>
         ELSE /\ procs' = Started(a, r, w, "rebirth")
              /\ workers' = [workers EXCEPT ![a].pid = Len(procs')]
              /\ monitorRefs' = monitorRefs \cup {Len(procs')}
              /\ reborn' = [reborn EXCEPT ![a] = @ + 1]
  /\ UNCHANGED <<timers, hive, spawns, reports, crashes>>

\* Neither a termination (:shutdown) nor a crash is :normal: both are reported,
\* so a violation that terminates a process is followed by a second one.
HandleDown ==
  /\ Receives("DOWN")
  /\ LET p == Head(mailbox).pid
     IN  /\ mailbox' = Append(Tail(mailbox), Violation(procs[p].agent, "rhythm", "warn"))
         /\ monitorRefs' = monitorRefs \ {p}
  /\ UNCHANGED <<workers, timers, procs, hive, spawns, reborn, reports, crashes>>

Handle ==
  HandleSpawn \/ IgnoreViolation \/ HandleViolation \/ HandleRebirth \/ HandleDown

(***************************************************************************)
(* The Hive.                                                               *)
(***************************************************************************)
\* Mutant: a full list keeps what it has.
Remember_oldest(l) == IF Len(lessons) = MaxLessons THEN lessons ELSE <<l>> \o lessons

Remember(l) == <<l>> \o SubSeq(lessons, 1, IF Len(lessons) < MaxLessons THEN Len(lessons)
                                           ELSE MaxLessons - 1)

HiveHandle ==
  /\ hiveBox # <<>>
  /\ hiveBox' = Tail(hiveBox)
  /\ LET m == Head(hiveBox)
         l == [agent |-> m.agent, weights |-> m.weights]
     IN  IF m.kind = "lesson"
         THEN lessons' = Remember(l) /\ UNCHANGED retired
         ELSE retired' = <<l>> \o retired /\ UNCHANGED lessons
  /\ UNCHANGED <<supervisor, procs, spawns, reborn, reports, crashes>>

\* Every five minutes the lessons older than a day go: the end of the list.
HivePrune ==
  /\ \E n \in 0..Len(lessons) - 1 : lessons' = SubSeq(lessons, 1, n)
  /\ UNCHANGED <<supervisor, procs, hiveBox, retired, spawns, reborn, reports, crashes>>

(***************************************************************************)
(* Callers, timers, and the Erlang runtime.                                *)
(***************************************************************************)
SpawnSovereign(a, r, w) ==
  /\ Len(SelectSeq(mailbox, LAMBDA m : m.kind = "spawn")) + spawns[a] < MaxSpawns
  /\ mailbox' = Append(mailbox, [kind |-> "spawn", agent |-> a, role |-> r, weights |-> w])
  /\ UNCHANGED <<workers, monitorRefs, timers, procs, hive, spawns, reborn, reports, crashes>>

ReportViolation(a, p, s) ==
  /\ reports < MaxReports /\ reports' = reports + 1
  /\ mailbox' = Append(mailbox, Violation(a, p, s))
  /\ UNCHANGED <<workers, monitorRefs, timers, procs, hive, spawns, reborn, crashes>>

TimerFires(a) ==
  /\ timers[a] > 0 /\ timers' = [timers EXCEPT ![a] = @ - 1]
  /\ mailbox' = Append(mailbox, [kind |-> "rebirth", agent |-> a])
  /\ UNCHANGED <<workers, monitorRefs, procs, hive, spawns, reborn, reports, crashes>>

\* A crashed child is permanent (use GenServer, agent.ex 14): the
\* DynamicSupervisor starts it again as it was, before any other start, and
\* nobody watches the new process.
Crash(p) ==
  /\ crashes < MaxCrashes /\ crashes' = crashes + 1
  /\ procs[p].alive
  /\ procs' = Append([procs EXCEPT ![p].alive = FALSE], [procs[p] EXCEPT !.origin = "restart"])
  /\ mailbox' = mailbox \o Down(p)
  /\ UNCHANGED <<workers, monitorRefs, timers, hive, spawns, reborn, reports>>

Next ==
  \/ Handle \/ HiveHandle \/ HivePrune
  \/ \E a \in Agents, r \in Roles, w \in InitialWeights : SpawnSovereign(a, r, w)
  \/ \E a \in Agents : TimerFires(a)
  \/ \E a \in Agents, p \in Principles, s \in Severities : ReportViolation(a, p, s)
  \/ \E p \in DOMAIN procs : Crash(p)

\* A GenServer with mail runs its next handler; a timer set fires.
Fairness == WF_vars(Handle) /\ WF_vars(HiveHandle) /\ \A a \in Agents : WF_vars(TimerFires(a))

Spec == Init /\ [][Next]_vars /\ Fairness

(***************************************************************************)
(* Properties.                                                             *)
(***************************************************************************)
\* Whatever reports, crashes and overdue timers are on their way, the process
\* the supervisor tracks runs under the role and weights it holds for the agent,
\* and of an agent spawned once nothing else runs but what the DynamicSupervisor
\* put back after a crash.
SoleUnderCurrentWeights ==
  \A a \in Agents :
    LET w == workers[a]
    IN  /\ w.pid \in LiveOf(a) =>
             procs[w.pid].role = w.role /\ procs[w.pid].weights = w.weights
        /\ spawns[a] = 1 => \A p \in LiveOf(a) : p = w.pid \/ procs[p].origin = "restart"

\* A spawn buys an agent at most MaxRebirths - 1 rebirths, counting those whose
\* timer runs or whose message waits in the mailbox, however violations, crashes
\* and respawns interleave.
RebirthsBounded ==
  \A a \in Agents :
    LET waiting == Cardinality({i \in DOMAIN mailbox :
                      mailbox[i].kind = "rebirth" /\ mailbox[i].agent = a})
    IN  reborn[a] + timers[a] + waiting <= (MaxRebirths - 1) * spawns[a]

\* What the Hive tells of a retired agent is what its last lesson taught, as far
\* as the Hive still remembers one: full lists and pruning lose old lessons first.
RetiredAsTaught ==
  [][\A i \in DOMAIN lessons :
       (Len(retired') > Len(retired) /\ lessons[i].agent = retired'[1].agent
          /\ \A j \in 1..i - 1 : lessons[j].agent # lessons[i].agent)
       => lessons[i].weights = retired'[1].weights]_vars

\* A sovereign that is gone comes back under its adjusted weights, unless its
\* rebirths are used up.
RebornWithAdjustedWeights ==
  \A a \in Agents :
    (workers[a].pid # 0 /\ workers[a].pid \notin LiveOf(a)) ~>
      (workers[a].count >= MaxRebirths \/ NameTaken(a, workers[a].role, workers[a].weights))
=============================================================================

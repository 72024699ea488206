----------------------------- MODULE LoopHandle -----------------------------
(***************************************************************************)
(* LoopHandle::spawn: the main loop as a tokio task between two bounded    *)
(* channels.  Any number of senders share `events'; the host reads         *)
(* `outcomes' when it likes, and a full channel holds its sender back.     *)
(* Senders and host may drop their ends: without senders the task ends     *)
(* when its channel is empty, without a host its outcomes are thrown away. *)
(* The loop's own queue is never drained here.                             *)
(***************************************************************************)
EXTENDS LoopProcess

CONSTANT ChannelCapacity    \* mpsc::channel(64), both of them

ASSUME HandleAssumption == ChannelCapacity \in Nat \ {0}

VARIABLES
  events,      \* channel to the loop
  outcomes,    \* channel to the host
  task,        \* "recv", "send" (holding an outcome) or "done"
  open,        \* a sender of events is left
  listening,   \* the host has its receiver
  inputs,      \* ghost: prompts sent
  signals,     \* ghost: other events sent
  delivered,   \* ghost: outcomes the host has read
  discarded    \* ghost: how many it never will, for it has left

ends == <<open, listening>>
handleVars == <<loop, outcome, events, outcomes, task, ends, inputs, signals, delivered, discarded>>

InitHandle ==
  /\ InitLoop /\ events = <<>> /\ outcomes = <<>> /\ task = "recv"
  /\ open = TRUE /\ listening = TRUE
  /\ inputs = 0 /\ signals = 0 /\ delivered = <<>> /\ discarded = 0

\* The receiver is dropped with the task, so a later send is an error.
Send(e) ==
  /\ open /\ task # "done" /\ Len(events) < ChannelCapacity
  /\ events' = Append(events, e)
  /\ UNCHANGED <<loop, outcome, outcomes, task, ends, delivered, discarded>>

SendInput ==
  /\ inputs < MaxInputs /\ Send(Input(inputs + 1))
  /\ inputs' = inputs + 1 /\ UNCHANGED signals

SendOther ==
  /\ signals < MaxOthers
  /\ \E e \in Plain \cup {SwitchTo(p) : p \in Providers} : Send(e)
  /\ signals' = signals + 1 /\ UNCHANGED inputs

SendersDrop ==
  /\ open /\ open' = FALSE
  /\ UNCHANGED <<loop, outcome, events, outcomes, task, listening, inputs, signals, delivered,
                 discarded>>

\* process runs to its end before the task can be suspended again.
Receive ==
  /\ task = "recv" /\ events # <<>>
  /\ Process(loop, Head(events))
  /\ events' = Tail(events) /\ task' = "send"
  /\ UNCHANGED <<outcomes, ends, inputs, signals, delivered, discarded>>

\* recv answers None once the last sender is gone and the channel is empty.
NoMore == ~open /\ events = <<>>

EndsUnstopped ==
  /\ task = "recv" /\ NoMore /\ task' = "done"
  /\ UNCHANGED <<loop, outcome, events, outcomes, ends, inputs, signals, delivered, discarded>>

\* The task with its outcome gone out, or thrown away.
Reports ==
  /\ task' = IF outcome = "stopped" THEN "done" ELSE "recv"
  /\ UNCHANGED <<loop, outcome, events, ends, inputs, signals, delivered>>

\* Mutant: an outcome that finds the channel full is dropped.
Report_trySend ==
  /\ task = "send" /\ listening /\ Reports
  /\ outcomes' = IF Len(outcomes) < ChannelCapacity THEN Append(outcomes, outcome) ELSE outcomes
  /\ UNCHANGED discarded

Report ==
  /\ task = "send" /\ listening /\ Len(outcomes) < ChannelCapacity /\ Reports
  /\ outcomes' = Append(outcomes, outcome)
  /\ UNCHANGED discarded

\* The error of a send to nobody is ignored, also by a task that waits in it.
ReportToNobody ==
  /\ task = "send" /\ ~listening /\ Reports
  /\ discarded' = discarded + 1
  /\ UNCHANGED outcomes

HostReads ==
  /\ outcomes # <<>>
  /\ delivered' = Append(delivered, Head(outcomes)) /\ outcomes' = Tail(outcomes)
  /\ UNCHANGED <<loop, outcome, events, task, ends, inputs, signals, discarded>>

\* The receiver goes, and what is in it.
HostLeaves ==
  /\ listening /\ listening' = FALSE
  /\ outcomes' = <<>> /\ discarded' = discarded + Len(outcomes)
  /\ UNCHANGED <<loop, outcome, events, task, open, inputs, signals, delivered>>

HandleNext ==
  \/ SendInput \/ SendOther \/ SendersDrop \/ Receive \/ EndsUnstopped
  \/ Report \/ ReportToNobody \/ HostReads \/ HostLeaves

HandleSpec == InitHandle /\ [][HandleNext]_handleVars

(***************************************************************************)
(* Properties.                                                             *)
(***************************************************************************)
Reported == delivered \o outcomes \o (IF task = "send" THEN <<outcome>> ELSE <<>>)

\* Every event taken from the channel has exactly one outcome, delivered, in
\* the channel or held while it is full; none is lost to a slow host, only to
\* one that has left.
OneOutcomePerEvent ==
  /\ Len(Reported) + discarded + Len(events) = inputs + signals
  /\ listening => discarded = 0

\* "stopped" is the last outcome and the task is over once it is out: the host
\* never waits on a loop that has stopped.  A task that is over has stopped, or
\* has handled all that was sent before the last sender left.
StoppedIsLast ==
  /\ \A i \in 1..Len(Reported) : Reported[i] = "stopped" => i = Len(Reported)
  /\ Stopped(loop) /\ task # "send" => task = "done"
  /\ task = "done" => Stopped(loop) \/ (~open /\ events = <<>>)
=============================================================================

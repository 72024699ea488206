------------------------------ MODULE MainLoop ------------------------------
(***************************************************************************)
(* The main loop driven directly: push enqueues, drain(max) processes as   *)
(* many events as were queued when it started.  Both take &mut self, so    *)
(* nothing comes between two iterations of a drain.                        *)
(***************************************************************************)
EXTENDS LoopProcess, FiniteSets

CONSTANT Capacity    \* queue_capacity

ASSUME MainLoopAssumption == Capacity \in Nat

VARIABLES
  left,        \* iterations the running drain has left
  accepted,    \* ghost: prompts pushed with Ok
  others       \* ghost: other events pushed with Ok

vars == <<loop, outcome, left, accepted, others>>

Init == InitLoop /\ left = 0 /\ accepted = 0 /\ others = 0

\* Mutant: one event too many.
HasRoom_offByOne == Len(loop.queue) <= Capacity
HasRoom == Len(loop.queue) < Capacity

\* push; on Err nothing changes, so no step stands for it.
Enqueue(e) ==
  /\ left = 0 /\ ~Stopped(loop) /\ HasRoom
  /\ loop' = [loop EXCEPT !.queue = Append(@, e)]
  /\ UNCHANGED <<outcome, left>>

PushInput ==
  /\ accepted < MaxInputs
  /\ Enqueue(Input(accepted + 1))
  /\ accepted' = accepted + 1 /\ UNCHANGED others

PushOther ==
  /\ others < MaxOthers
  /\ \E e \in Plain \cup {SwitchTo(p) : p \in Providers} : Enqueue(e)
  /\ others' = others + 1 /\ UNCHANGED accepted

StartDrain(max) ==
  /\ left = 0
  /\ left' = IF max < Len(loop.queue) THEN max ELSE Len(loop.queue)
  /\ UNCHANGED <<loop, outcome, accepted, others>>

\* Mutant: the drain goes on after the loop has stopped.
DrainOne_noBreak ==
  /\ left > 0
  /\ Process([loop EXCEPT !.queue = Tail(@)], Head(loop.queue))
  /\ left' = left - 1
  /\ UNCHANGED <<accepted, others>>

DrainOne ==
  /\ left > 0
  /\ Process([loop EXCEPT !.queue = Tail(@)], Head(loop.queue))
  /\ left' = IF outcome' = "stopped" THEN 0 ELSE left - 1
  /\ UNCHANGED <<accepted, others>>

\* A drain of a stopped loop still pops one event and stops again.
ShutdownWithSoma ==
  /\ left = 0 /\ loop' = [loop EXCEPT !.state = "stopped"]
  /\ UNCHANGED <<outcome, left, accepted, others>>

Next ==
  \/ PushInput \/ PushOther \/ DrainOne \/ ShutdownWithSoma
  \/ \E max \in 1..Capacity : StartDrain(max)

Spec == Init /\ [][Next]_vars

(***************************************************************************)
(* Properties.                                                             *)
(***************************************************************************)
\* Types; the turn count is the number of inputs in the history; the queue stays
\* within its capacity although a busy loop pushes the input back without asking,
\* and a drain never outlives the events it counted.
TypeOK ==
  /\ IsLoop(loop, MaxInputs) /\ outcome \in Outcomes
  /\ accepted \in 0..MaxInputs /\ others \in 0..MaxOthers
  /\ Len(loop.queue) <= Capacity /\ left \in 0..Len(loop.queue)

Waiting == {loop.queue[i].n : i \in {j \in 1..Len(loop.queue) : loop.queue[j].kind = "input"}}

\* Inputs take their turns in the order they were pushed, each at most once,
\* however often a busy loop put them back: no input still waiting is older
\* than one that had its turn.
InputsInOrder ==
  /\ Increasing(loop.history)
  /\ \A n \in Waiting, i \in 1..Len(loop.history) : loop.history[i] < n

\* A stopped loop takes no turn, switches no model, and keeps its queue but
\* for the one event that each later drain swallows.
StopIsFinal ==
  [][Stopped(loop) =>
       /\ \/ loop' = loop
          \/ loop.queue # <<>> /\ loop' = [loop EXCEPT !.queue = Tail(@)]
       /\ left' = 0 \/ left = 0]_vars
=============================================================================

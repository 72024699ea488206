---------------------------- MODULE LoopProcess ----------------------------
(***************************************************************************)
(* MainLoop::process (omokoda-core/src/main_loop.rs): what one event does  *)
(* to the loop.  Process(l, e) is the whole handler, for an event e that   *)
(* the driver has already taken from wherever it waited; l is the loop     *)
(* without it.  MainLoop drives it by push and drain, LoopHandle from a    *)
(* channel.  A prompt is the number of the input.                          *)
(***************************************************************************)
EXTENDS Naturals, Sequences

CONSTANTS
  Providers, InitialProvider,
  Threshold,     \* auto_compact_threshold; 0: never, as is_multiple_of(0) is false
  SwitchAfter,   \* model_switch_after_turns; 0 stands for None
  Fallback,      \* fallback_provider; NoProvider stands for None
  NoProvider,
  MaxInputs,     \* bound: prompts pushed or sent
  MaxOthers      \* bound: other events pushed or sent

ASSUME LoopAssumption ==
  /\ InitialProvider \in Providers /\ NoProvider \notin Providers
  /\ {MaxInputs, MaxOthers} \subseteq Nat
  /\ Threshold \in Nat /\ SwitchAfter \in Nat
  /\ Fallback \in Providers \cup {NoProvider}

VARIABLES
  loop,      \* state, queue, active provider, turn count, inputs of turn_history
  outcome    \* what the last process returned

Input(n) == [kind |-> "input", n |-> n]
SwitchTo(p) == [kind |-> "switch", provider |-> p]
Plain == {[kind |-> k] : k \in {"tool", "background", "compact", "pause", "resume",
                                "shutdown"}}

States == {"idle", "compacting", "switching", "paused", "stopped"}
Outcomes == {"none", "continue", "busy", "modelSwitch", "compactNeeded", "stopped"}

InitLoop ==
  /\ loop = [state |-> "idle", queue |-> <<>>, provider |-> InitialProvider,
             turns |-> 0, history |-> <<>>]
  /\ outcome = "none"

Stopped(l) == l.state = "stopped"
AcceptsInput(l) == l.state \in {"idle", "paused"}
Due(turns, every) == turns > 0 /\ every > 0 /\ turns % every = 0
CompactDue(l) == Due(l.turns, Threshold) /\ l.state # "compacting"
SwitchDue(l) == Due(l.turns, SwitchAfter) /\ Fallback \notin {NoProvider, l.provider}

Becomes(l, result) == loop' = l /\ outcome' = result

AlreadyStopped(l) ==
  Stopped(l) /\ Becomes(l, "stopped")

\* The event at hand is dropped.
AutoCompact(l) ==
  /\ ~Stopped(l) /\ CompactDue(l)
  /\ Becomes([l EXCEPT !.state = "compacting"], "compactNeeded")

AutoSwitch(l) ==
  /\ ~Stopped(l) /\ ~CompactDue(l) /\ SwitchDue(l)
  /\ Becomes([l EXCEPT !.state = "switching", !.provider = Fallback], "modelSwitch")

\* Mutant: the input that finds the loop busy goes to the back of the queue.
Bounce_back(l, e) ==
  /\ e.kind = "input" /\ ~AcceptsInput(l)
  /\ Becomes([l EXCEPT !.queue = Append(@, e)], "busy")

Bounce(l, e) ==
  /\ e.kind = "input" /\ ~AcceptsInput(l)
  /\ Becomes([l EXCEPT !.queue = <<e>> \o @], "busy")

\* The turn runs within process, so the state Thinking is never seen outside.
TakeTurn(l, e) ==
  /\ e.kind = "input" /\ AcceptsInput(l)
  /\ Becomes([l EXCEPT !.state = "idle", !.turns = @ + 1, !.history = Append(@, e.n)],
             "continue")

ToolResult(l, e) ==
  e.kind = "tool" /\ Becomes([l EXCEPT !.state = "idle"], "continue")

BackgroundDone(l, e) ==
  e.kind = "background" /\ Becomes(l, "continue")

SwitchModel(l, e) ==
  /\ e.kind = "switch"
  /\ Becomes([l EXCEPT !.state = "idle", !.provider = e.provider], "modelSwitch")

Compact(l, e) ==
  e.kind = "compact" /\ Becomes([l EXCEPT !.state = "idle"], "compactNeeded")

Pause(l, e) ==
  e.kind = "pause" /\ Becomes([l EXCEPT !.state = "paused"], "continue")

Resume(l, e) ==
  /\ e.kind = "resume"
  /\ Becomes([l EXCEPT !.state = IF @ = "paused" THEN "idle" ELSE @], "continue")

\* Mutant: the driver is told to go on.
Shutdown_continues(l, e) ==
  e.kind = "shutdown" /\ Becomes([l EXCEPT !.state = "stopped"], "continue")

Shutdown(l, e) ==
  e.kind = "shutdown" /\ Becomes([l EXCEPT !.state = "stopped"], "stopped")

Handle(l, e) ==
  \/ Bounce(l, e) \/ TakeTurn(l, e) \/ ToolResult(l, e) \/ BackgroundDone(l, e)
  \/ SwitchModel(l, e) \/ Compact(l, e) \/ Pause(l, e) \/ Resume(l, e) \/ Shutdown(l, e)

Process(l, e) ==
  \/ AlreadyStopped(l) \/ AutoCompact(l) \/ AutoSwitch(l)
  \/ ~Stopped(l) /\ ~CompactDue(l) /\ ~SwitchDue(l) /\ Handle(l, e)

Increasing(s) == \A i, j \in 1..Len(s) : i < j => s[i] < s[j]

IsLoop(l, maxInput) ==
  /\ l.state \in States /\ l.provider \in Providers /\ l.turns = Len(l.history)
  /\ \A i \in 1..Len(l.queue) :
       l.queue[i] \in {Input(n) : n \in 1..maxInput} \cup {SwitchTo(p) : p \in Providers}
                        \cup Plain
  /\ l.history \in Seq(1..maxInput)
=============================================================================

---------------------------- MODULE MainLoopProofs ----------------------------
(***************************************************************************)
(* The main loop under push and drain, and the loop between its two        *)
(* channels, for any capacity, any number of events, any compaction and    *)
(* switching intervals and any speed of the host.                          *)
(***************************************************************************)
EXTENDS MainLoop, LoopHandle, SequenceTheorems, TLAPS

Events == {Input(n) : n \in 1..MaxInputs} \cup {SwitchTo(p) : p \in Providers} \cup Plain

Loops == [state : States, queue : Seq(Events), provider : Providers, turns : Nat,
          history : Seq(1..MaxInputs)]

Types ==
  /\ loop \in Loops /\ loop.turns = Len(loop.history) /\ outcome \in Outcomes
  /\ accepted \in 0..MaxInputs /\ others \in 0..MaxOthers
  /\ Len(loop.queue) <= Capacity /\ left \in 0..Len(loop.queue)

IsInput(q, i) == i \in 1..Len(q) /\ q[i].kind = "input"

(***************************************************************************)
(* What makes InputsInOrder inductive: the inputs that wait are themselves *)
(* in order, and all that waits or has had its turn was accepted.          *)
(***************************************************************************)
QueueOrdered ==
  /\ \A i, j \in 1..Len(loop.queue) :
       i < j /\ IsInput(loop.queue, i) /\ IsInput(loop.queue, j)
         => loop.queue[i].n < loop.queue[j].n
  /\ \A i \in 1..Len(loop.queue) :
       IsInput(loop.queue, i) => loop.queue[i].n \in 1..accepted

HistoryOrdered ==
  /\ Increasing(loop.history)
  /\ \A k \in 1..Len(loop.history) : loop.history[k] \in 1..accepted
  /\ \A k \in 1..Len(loop.history), i \in 1..Len(loop.queue) :
       IsInput(loop.queue, i) => loop.history[k] < loop.queue[i].n

IInv == Types /\ QueueOrdered /\ HistoryOrdered

-----------------------------------------------------------------------------
LEMMA EventFacts ==
  /\ \A e \in Events : e.kind = "input" => e.n \in 1..MaxInputs
  /\ \A e \in Events : e.kind = "switch" => e.provider \in Providers
  /\ Plain \subseteq Events
  /\ \A p \in Providers : SwitchTo(p) \in Events /\ SwitchTo(p).kind # "input"
  /\ \A e \in Plain : e.kind # "input"
<1>1. ASSUME NEW e \in Plain PROVE e.kind \notin {"input", "switch"}
  BY <1>1 DEF Plain
<1>2. ASSUME NEW p \in Providers
      PROVE  SwitchTo(p) \in Events /\ SwitchTo(p).kind = "switch" /\ SwitchTo(p).provider = p
  BY <1>2 DEF Events, SwitchTo
<1>3. ASSUME NEW n \in 1..MaxInputs PROVE Input(n).kind = "input" /\ Input(n).n = n
  BY <1>3 DEF Input
<1>4. ASSUME NEW e \in Events
      PROVE  \/ \E n \in 1..MaxInputs : e = Input(n)
             \/ \E p \in Providers : e = SwitchTo(p)
             \/ e \in Plain
  BY <1>4 DEF Events
<1>5. Plain \subseteq Events
  BY DEF Events
<1> QED
  BY <1>1, <1>2, <1>3, <1>4, <1>5

LEMMA InitHolds == Init => IInv
<1> SUFFICES ASSUME Init PROVE IInv
  OBVIOUS
<1>1. Types
  BY LoopAssumption, MainLoopAssumption
  DEF Init, InitLoop, Types, Loops, States, Outcomes
<1>2. QueueOrdered /\ HistoryOrdered
  BY DEF Init, InitLoop, QueueOrdered, HistoryOrdered, IsInput, Increasing
<1> QED
  BY <1>1, <1>2 DEF IInv

(***************************************************************************)
(* A drain's step consumes the first event or puts it back where it was,   *)
(* and only an input at the head of the queue can have a turn.             *)
(***************************************************************************)
Consumes == loop'.queue = Tail(loop.queue) /\ loop'.history = loop.history
PutsBack == loop'.queue = loop.queue /\ loop'.history = loop.history
HasTurn ==
  /\ loop'.queue = Tail(loop.queue) /\ Head(loop.queue).kind = "input"
  /\ loop'.history = Append(loop.history, Head(loop.queue).n)

LEMMA DrainShape ==
  ASSUME Types, DrainOne
  PROVE  /\ loop' \in Loops /\ loop'.turns = Len(loop'.history) /\ outcome' \in Outcomes
         /\ Consumes \/ PutsBack \/ HasTurn
<1> DEFINE e == Head(loop.queue)
           l == [loop EXCEPT !.queue = Tail(@)]
<1>1. loop.queue \in Seq(Events) /\ loop.queue # <<>>
  BY DEF Types, Loops, DrainOne
<1>2. e \in Events /\ Tail(loop.queue) \in Seq(Events)
  BY <1>1
<1>3. <<e>> \o Tail(loop.queue) = loop.queue
  BY <1>1
<1>4. /\ l \in Loops /\ l.turns = Len(l.history)
      /\ l.queue = Tail(loop.queue) /\ l.history = loop.history
  BY <1>2 DEF Types, Loops
<1>5. Process(l, e)
  BY DEF DrainOne
<1> HIDE DEF l, e
<1>6. CASE AlreadyStopped(l)
  BY <1>4, <1>6 DEF AlreadyStopped, Becomes, Outcomes, Consumes
<1>7. CASE AutoCompact(l)
  BY <1>4, <1>7 DEF AutoCompact, Becomes, Outcomes, Consumes, Loops, States
<1>8. CASE AutoSwitch(l)
  BY <1>4, <1>8, LoopAssumption
  DEF AutoSwitch, SwitchDue, Becomes, Outcomes, Consumes, Loops, States
<1>9. CASE Bounce(l, e)
  <2>1. loop' = [l EXCEPT !.queue = <<e>> \o @] /\ outcome' = "busy"
    BY <1>9 DEF Bounce, Becomes
  <2>2. loop' = [l EXCEPT !.queue = loop.queue]
    BY <2>1, <1>3, <1>4 DEF e, Loops
  <2> QED
    BY <2>1, <2>2, <1>1, <1>4 DEF PutsBack, Outcomes, Loops
<1>10. CASE TakeTurn(l, e)
  <2>1. e.n \in 1..MaxInputs
    BY <1>2, <1>10, EventFacts DEF TakeTurn
  <2>2. /\ loop' = [l EXCEPT !.state = "idle", !.turns = @ + 1, !.history = Append(@, e.n)]
        /\ outcome' = "continue" /\ e.kind = "input"
    BY <1>10 DEF TakeTurn, Becomes
  <2>3. Append(l.history, e.n) \in Seq(1..MaxInputs)
        /\ Len(Append(l.history, e.n)) = l.turns + 1
    BY <2>1, <1>4 DEF Loops
  <2>4. loop' \in Loops /\ loop'.turns = Len(loop'.history)
        /\ loop'.queue = l.queue /\ loop'.history = Append(l.history, e.n)
    <3>1. loop' = [state |-> "idle", queue |-> l.queue, provider |-> l.provider,
                   turns |-> l.turns + 1, history |-> Append(l.history, e.n)]
      BY <2>2, <1>4 DEF Loops
    <3>2. l.queue \in Seq(Events) /\ l.provider \in Providers /\ l.turns \in Nat
      BY <1>2, <1>4 DEF Loops
    <3>3. l.turns + 1 \in Nat /\ "idle" \in States
      BY <3>2 DEF States
    <3> QED
      BY <3>1, <3>2, <3>3, <2>3 DEF Loops
  <2> QED
    BY <2>2, <2>4, <1>4 DEF HasTurn, Outcomes, e
<1>11. CASE ToolResult(l, e) \/ BackgroundDone(l, e) \/ Compact(l, e)
            \/ Pause(l, e) \/ Resume(l, e) \/ Shutdown(l, e)
  BY <1>4, <1>11 DEF ToolResult, BackgroundDone, Compact, Pause, Resume, Shutdown, Becomes,
                     Outcomes, Consumes, Loops, States
<1>12. CASE SwitchModel(l, e)
  BY <1>2, <1>4, <1>12, EventFacts
  DEF SwitchModel, Becomes, Outcomes, Consumes, Loops, States
<1> QED
  BY <1>5, <1>6, <1>7, <1>8, <1>9, <1>10, <1>11, <1>12 DEF Process, Handle

LEMMA DrainKeeps ==
  ASSUME IInv, DrainOne
  PROVE  IInv'
<1> DEFINE q == loop.queue
           h == loop.history
<1>0. q \in Seq(Events) /\ q # <<>> /\ h \in Seq(1..MaxInputs) /\ Len(q) \in Nat
      /\ Len(h) \in Nat /\ accepted \in Nat /\ Capacity \in Nat
  BY LoopAssumption, MainLoopAssumption DEF IInv, Types, Loops, DrainOne
<1>1. /\ loop' \in Loops /\ loop'.turns = Len(loop'.history) /\ outcome' \in Outcomes
      /\ Consumes \/ PutsBack \/ HasTurn
  BY DrainShape DEF IInv
<1>2. /\ Tail(q) \in Seq(Events) /\ Len(Tail(q)) = Len(q) - 1
      /\ \A i \in 1..Len(Tail(q)) : Tail(q)[i] = q[i + 1] /\ i + 1 \in 1..Len(q)
      /\ Head(q) = q[1] /\ 1 \in 1..Len(q)
  BY <1>0
<1>3. UNCHANGED <<accepted, others>> /\ left > 0 /\ left' \in {0, left - 1}
  BY DEF DrainOne
<1>4. Types'
  <2>1. Len(loop'.queue) \in {Len(q), Len(q) - 1}
    BY <1>1, <1>2 DEF Consumes, PutsBack, HasTurn
  <2>2. Len(q) <= Capacity /\ left \in 1..Len(q)
    BY <1>0, <1>3 DEF IInv, Types
  <2>3. Len(loop'.queue) <= Capacity /\ left' \in 0..Len(loop'.queue)
    BY <2>1, <2>2, <1>0, <1>3
  <2>4. accepted' \in 0..MaxInputs /\ others' \in 0..MaxOthers
    BY <1>3 DEF IInv, Types
  <2> QED
    BY <2>3, <2>4, <1>1 DEF Types
<1>5. QueueOrdered'
  <2>1. CASE loop'.queue = q
    BY <2>1, <1>3 DEF IInv, QueueOrdered, IsInput
  <2>2. CASE loop'.queue = Tail(q)
    BY <2>2, <1>0, <1>2, <1>3 DEF IInv, QueueOrdered, IsInput
  <2> QED
    BY <2>1, <2>2, <1>1 DEF Consumes, PutsBack, HasTurn
<1>6. HistoryOrdered'
  <2>1. CASE PutsBack
    BY <2>1, <1>3 DEF IInv, HistoryOrdered, PutsBack, IsInput
  <2>2. CASE Consumes
    BY <2>2, <1>0, <1>2, <1>3 DEF IInv, HistoryOrdered, Consumes, IsInput
  <2>3. CASE HasTurn
    <3> DEFINE n == Head(q).n
    <3>1. /\ IsInput(q, 1) /\ n = q[1].n /\ n \in 1..accepted
          /\ \A k \in 1..Len(h) : h[k] < n
      BY <2>3, <1>2 DEF IInv, QueueOrdered, HistoryOrdered, HasTurn, IsInput
    <3>2. \A i \in 1..Len(Tail(q)) : IsInput(Tail(q), i) => n < Tail(q)[i].n
      BY <3>1, <1>0, <1>2 DEF IInv, QueueOrdered, IsInput
    <3>3. /\ loop'.history = Append(h, n) /\ loop'.queue = Tail(q)
          /\ Len(Append(h, n)) = Len(h) + 1
          /\ Append(h, n)[Len(h) + 1] = n
          /\ \A k \in 1..Len(h) : Append(h, n)[k] = h[k]
      BY <2>3, <1>0 DEF HasTurn
    <3>4. \A k \in 1..Len(h), i \in 1..Len(Tail(q)) :
            IsInput(Tail(q), i) => h[k] < Tail(q)[i].n
      BY <1>0, <1>2 DEF IInv, HistoryOrdered, IsInput
    <3>5. Increasing(h) /\ \A k \in 1..Len(h) : h[k] \in 1..accepted
      BY DEF IInv, HistoryOrdered
    <3> HIDE DEF n, q, h
    <3>6. Increasing(Append(h, n))
      BY <3>1, <3>3, <3>5, <1>0 DEF Increasing
    <3>7. \A k \in 1..Len(Append(h, n)) : Append(h, n)[k] \in 1..accepted
      BY <3>1, <3>3, <3>5, <1>0
    <3>8. \A k \in 1..Len(Append(h, n)), i \in 1..Len(Tail(q)) :
            IsInput(Tail(q), i) => Append(h, n)[k] < Tail(q)[i].n
      BY <3>2, <3>3, <3>4, <1>0
    <3> QED
      BY <3>3, <3>6, <3>7, <3>8, <1>3 DEF HistoryOrdered
  <2> QED
    BY <1>1, <2>1, <2>2, <2>3
<1> QED
  BY <1>4, <1>5, <1>6 DEF IInv

(***************************************************************************)
(* A push appends; the input it appends is younger than any before.        *)
(***************************************************************************)
LEMMA PushKeeps ==
  ASSUME IInv, PushInput \/ PushOther
  PROVE  IInv'
<1> DEFINE q == loop.queue
<1>0. /\ q \in Seq(Events) /\ Len(q) \in Nat /\ accepted \in 0..MaxInputs /\ MaxInputs \in Nat
      /\ Capacity \in Nat /\ others \in 0..MaxOthers /\ MaxOthers \in Nat
  BY LoopAssumption, MainLoopAssumption DEF IInv, Types, Loops
<1>1. PICK e \in Events :
        /\ Enqueue(e) /\ accepted' \in {accepted, accepted + 1} /\ accepted' <= MaxInputs
        /\ others' \in 0..MaxOthers
        /\ e.kind = "input" => e.n = accepted + 1 /\ accepted' = accepted + 1
  <2>1. CASE PushInput
    <3>1. Input(accepted + 1) \in Events /\ Input(accepted + 1).n = accepted + 1
      BY <2>1, <1>0 DEF PushInput, Events, Input
    <3> QED
      BY <2>1, <3>1, <1>0 DEF PushInput
  <2>2. CASE PushOther
    BY <2>2, <1>0, EventFacts DEF PushOther
  <2> QED
    BY <2>1, <2>2
<1>2. /\ loop' = [loop EXCEPT !.queue = Append(q, e)] /\ left = 0 /\ left' = 0
      /\ outcome' = outcome /\ Len(q) < Capacity
  BY <1>1 DEF Enqueue, HasRoom
<1>3. /\ Append(q, e) \in Seq(Events) /\ Len(Append(q, e)) = Len(q) + 1
      /\ Append(q, e)[Len(q) + 1] = e
      /\ \A i \in 1..Len(q) : Append(q, e)[i] = q[i]
  BY <1>0
<1>4. /\ loop' \in Loops /\ loop'.queue = Append(q, e)
      /\ loop'.history = loop.history /\ loop'.turns = loop.turns
  BY <1>2, <1>3 DEF IInv, Types, Loops
<1>5. Types'
  BY <1>0, <1>1, <1>2, <1>3, <1>4 DEF IInv, Types
<1>6. /\ \A i, j \in 1..Len(q) : i < j /\ IsInput(q, i) /\ IsInput(q, j) => q[i].n < q[j].n
      /\ \A i \in 1..Len(q) : IsInput(q, i) => q[i].n \in 1..accepted
  BY DEF IInv, QueueOrdered
<1>7. \A i \in 1..Len(q) : IsInput(Append(q, e), i) => IsInput(q, i)
  BY <1>3 DEF IsInput
<1> HIDE DEF q
<1>8. QueueOrdered'
  <2>1. \A i, j \in 1..Len(q) + 1 :
          i < j /\ IsInput(Append(q, e), i) /\ IsInput(Append(q, e), j)
            => Append(q, e)[i].n < Append(q, e)[j].n
    <3> SUFFICES ASSUME NEW i \in 1..Len(q) + 1, NEW j \in 1..Len(q) + 1, i < j,
                        IsInput(Append(q, e), i), IsInput(Append(q, e), j)
                 PROVE  Append(q, e)[i].n < Append(q, e)[j].n
      OBVIOUS
    <3>1. Len(q) \in Nat /\ i \in 1..Len(q)
      BY <1>0
    <3>2. IsInput(q, i) /\ Append(q, e)[i] = q[i] /\ q[i].n \in 1..accepted
      BY <3>1, <1>3, <1>6, <1>7
    <3>3. CASE j \in 1..Len(q)
      <4>1. IsInput(q, j) /\ Append(q, e)[j] = q[j]
        BY <3>3, <1>3, <1>7
      <4> QED
        BY <3>1, <3>2, <3>3, <4>1, <1>6
    <3>4. CASE j = Len(q) + 1
      <4>1. Append(q, e)[j] = e /\ e.kind = "input"
        BY <3>4, <1>3 DEF IsInput
      <4>2. Append(q, e)[j].n = accepted + 1
        BY <4>1, <1>1
      <4> QED
        BY <3>2, <4>2, <1>0
    <3> QED
      BY <3>1, <3>3, <3>4
  <2>2. \A i \in 1..Len(q) + 1 :
          IsInput(Append(q, e), i) => Append(q, e)[i].n \in 1..accepted'
    BY <1>0, <1>1, <1>3, <1>6, <1>7 DEF IsInput
  <2> QED
    BY <2>1, <2>2, <1>3, <1>4 DEF QueueOrdered
<1>9. HistoryOrdered'
  <2>1. /\ \A k \in 1..Len(loop.history) : loop.history[k] \in 1..accepted
        /\ \A k \in 1..Len(loop.history), i \in 1..Len(q) :
             IsInput(q, i) => loop.history[k] < q[i].n
        /\ Increasing(loop.history)
    BY DEF IInv, HistoryOrdered, q
  <2>2. \A k \in 1..Len(loop.history), i \in 1..Len(q) + 1 :
          IsInput(Append(q, e), i) => loop.history[k] < Append(q, e)[i].n
    <3> SUFFICES ASSUME NEW k \in 1..Len(loop.history), NEW i \in 1..Len(q) + 1,
                        IsInput(Append(q, e), i)
                 PROVE  loop.history[k] < Append(q, e)[i].n
      OBVIOUS
    <3>1. loop.history[k] \in 1..accepted
      BY <2>1
    <3>2. CASE i \in 1..Len(q)
      <4>1. IsInput(q, i) /\ Append(q, e)[i] = q[i]
        BY <3>2, <1>3, <1>7
      <4>2. loop.history[k] < q[i].n
        BY <2>1, <3>2, <4>1
      <4> QED
        BY <4>1, <4>2
    <3>3. CASE i = Len(q) + 1
      <4>1. Append(q, e)[i] = e /\ e.kind = "input"
        BY <3>3, <1>3 DEF IsInput
      <4>2. Append(q, e)[i].n = accepted + 1
        BY <4>1, <1>1
      <4> QED
        BY <3>1, <4>2, <1>0
    <3> QED
      BY <3>2, <3>3, <1>0
  <2> QED
    <3>1. \A k \in 1..Len(loop.history) : loop.history[k] \in 1..accepted'
      BY <2>1, <1>0, <1>1
    <3>2. Increasing(loop.history)'
      BY <2>1, <1>4
    <3> QED
      BY <3>1, <3>2, <2>2, <1>3, <1>4 DEF HistoryOrdered
<1> QED
  BY <1>5, <1>8, <1>9 DEF IInv

LEMMA OtherKeeps ==
  ASSUME IInv,
         ShutdownWithSoma \/ (\E max \in 1..Capacity : StartDrain(max)) \/ UNCHANGED vars
  PROVE  IInv'
<1>1. /\ loop' \in Loops /\ loop'.queue = loop.queue /\ loop'.history = loop.history
      /\ loop'.turns = loop.turns /\ UNCHANGED <<outcome, accepted, others>>
  BY DEF IInv, Types, Loops, States, ShutdownWithSoma, StartDrain, vars
<1>2. left' \in 0..Len(loop.queue)
  BY LoopAssumption, MainLoopAssumption DEF IInv, Types, Loops, ShutdownWithSoma, StartDrain, vars
<1>3. Types'
  BY <1>1, <1>2 DEF IInv, Types
<1>4. QueueOrdered' /\ HistoryOrdered'
  BY <1>1 DEF IInv, QueueOrdered, HistoryOrdered
<1> QED
  BY <1>3, <1>4 DEF IInv

LEMMA StepHolds == IInv /\ [Next]_vars => IInv'
BY DrainKeeps, PushKeeps, OtherKeeps DEF Next

\* The invariant the other theorems rest on.
THEOREM LoopInvariant == Spec => []IInv
<1> QED
  BY InitHolds, StepHolds, PTL DEF Spec

\* Types, the bound on the queue and on a drain (main_loop.rs push, drain).
THEOREM TypeCorrect == Spec => []TypeOK
<1>1. IInv => TypeOK
  <2> SUFFICES ASSUME IInv PROVE TypeOK
    OBVIOUS
  <2>1. IsLoop(loop, MaxInputs)
    BY DEF IInv, Types, Loops, IsLoop, Events
  <2> QED
    BY <2>1 DEF IInv, Types, TypeOK
<1> QED
  BY <1>1, LoopInvariant, PTL

\* Inputs take their turns in the order they were pushed, each at most once,
\* however often process puts them back (main_loop.rs process, BusyQueued).
THEOREM InputsKeepOrder == Spec => []InputsInOrder
<1>1. IInv => InputsInOrder
  BY DEF IInv, HistoryOrdered, InputsInOrder, Waiting, IsInput
<1> QED
  BY <1>1, LoopInvariant, PTL

\* A stopped loop stays as it is but for the one event that each later drain
\* swallows (main_loop.rs process and drain).
THEOREM StoppedForGood == Spec => StopIsFinal
<1> DEFINE Still ==
      Stopped(loop) =>
        /\ \/ loop' = loop
           \/ loop.queue # <<>> /\ loop' = [loop EXCEPT !.queue = Tail(@)]
        /\ left' = 0 \/ left = 0
<1>1. IInv /\ [Next]_vars => [Still]_vars
  <2> SUFFICES ASSUME IInv, Next, Stopped(loop)
               PROVE  /\ \/ loop' = loop
                         \/ loop.queue # <<>> /\ loop' = [loop EXCEPT !.queue = Tail(@)]
                      /\ left' = 0 \/ left = 0
    OBVIOUS
  <2>1. CASE DrainOne
    <3> DEFINE l == [loop EXCEPT !.queue = Tail(@)]
    <3>1. Stopped(l) /\ loop.queue # <<>>
      BY <2>1 DEF IInv, Types, Loops, Stopped, DrainOne
    <3>2. AlreadyStopped(l)
      BY <2>1, <3>1 DEF DrainOne, Process, AutoCompact, AutoSwitch
    <3> QED
      BY <2>1, <3>1, <3>2 DEF AlreadyStopped, Becomes, DrainOne
  <2>2. CASE PushInput \/ PushOther
    BY <2>2 DEF PushInput, PushOther, Enqueue
  <2>3. CASE ShutdownWithSoma
    BY <2>3 DEF IInv, Types, Loops, Stopped, ShutdownWithSoma
  <2>4. CASE \E max \in 1..Capacity : StartDrain(max)
    BY <2>4 DEF StartDrain
  <2> QED
    BY <2>1, <2>2, <2>3, <2>4 DEF Next
<1> QED
  BY <1>1, LoopInvariant, PTL DEF Spec, StopIsFinal

-----------------------------------------------------------------------------
(***************************************************************************)
(* The loop between its two channels, for any capacity, any number of      *)
(* events and any speed of the host.                                       *)
(***************************************************************************)
Sendable == {Input(n) : n \in Nat} \cup {SwitchTo(p) : p \in Providers} \cup Plain

HandledLoops == [state : States, queue : Seq(Sendable), provider : Providers, turns : Nat,
          history : Seq(Nat)]

HandleTypes ==
  /\ loop \in HandledLoops /\ outcome \in Outcomes
  /\ events \in Seq(Sendable) /\ outcomes \in Seq(Outcomes) /\ delivered \in Seq(Outcomes)
  /\ task \in {"recv", "send", "done"}
  /\ open \in BOOLEAN /\ listening \in BOOLEAN
  /\ inputs \in Nat /\ signals \in Nat /\ discarded \in Nat

(***************************************************************************)
(* What the task has sent and the host has read or may read: reading moves *)
(* an outcome from one part of it to the other, leaving cuts it off.  Only *)
(* its last may be "stopped", when the task is over; an outcome still held *)
(* says whether the loop has stopped.                                      *)
(***************************************************************************)
Sent == delivered \o outcomes

NoStopBefore(n) == \A i \in 1..n : Sent[i] # "stopped"

StopEnds ==
  /\ task = "recv" => ~Stopped(loop) /\ NoStopBefore(Len(Sent))
  /\ task = "send" => (outcome = "stopped" <=> Stopped(loop)) /\ NoStopBefore(Len(Sent))
  /\ task = "done" =>
       (Stopped(loop) \/ (~open /\ events = <<>>)) /\ NoStopBefore(Len(Sent) - 1)

Accounted ==
  /\ Len(Sent) + discarded + (IF task = "send" THEN 1 ELSE 0) + Len(events) = inputs + signals
  /\ listening => discarded = 0

HandleInv == HandleTypes /\ StopEnds /\ Accounted

-----------------------------------------------------------------------------
LEMMA SendableFacts ==
  /\ \A e \in Sendable : e.kind = "input" => e.n \in Nat
  /\ \A e \in Sendable : e.kind = "switch" => e.provider \in Providers
<1>1. ASSUME NEW e \in Plain PROVE e.kind \notin {"input", "switch"}
  BY <1>1 DEF Plain
<1>2. ASSUME NEW p \in Providers PROVE SwitchTo(p).kind = "switch" /\ SwitchTo(p).provider = p
  BY <1>2 DEF SwitchTo
<1>3. ASSUME NEW n \in Nat PROVE Input(n).kind = "input" /\ Input(n).n = n
  BY <1>3 DEF Input
<1>4. ASSUME NEW e \in Sendable
      PROVE  \/ \E n \in Nat : e = Input(n)
             \/ \E p \in Providers : e = SwitchTo(p)
             \/ e \in Plain
  BY <1>4 DEF Sendable
<1> QED
  BY <1>1, <1>2, <1>3, <1>4

(***************************************************************************)
(* A loop that runs answers "stopped" to the event that stops it and to no *)
(* other, automatic compaction and switch included.                        *)
(***************************************************************************)
LEMMA StoppedIsSaid ==
  ASSUME loop \in HandledLoops, NEW e \in Sendable, ~Stopped(loop), Process(loop, e)
  PROVE  loop' \in HandledLoops /\ outcome' \in Outcomes /\ (outcome' = "stopped" <=> Stopped(loop'))
<1> USE DEF Becomes, Outcomes, Stopped, States
<1>1. CASE AutoCompact(loop)
  BY <1>1 DEF AutoCompact, HandledLoops
<1>2. CASE AutoSwitch(loop)
  BY <1>2, LoopAssumption DEF AutoSwitch, SwitchDue, HandledLoops
<1>3. CASE Bounce(loop, e)
  <2>1. <<e>> \o loop.queue \in Seq(Sendable)
    BY DEF HandledLoops
  <2> QED
    BY <1>3, <2>1 DEF Bounce, HandledLoops
<1>4. CASE TakeTurn(loop, e)
  <2>1. e.n \in Nat
    BY <1>4, SendableFacts DEF TakeTurn
  <2>2. Append(loop.history, e.n) \in Seq(Nat) /\ loop.turns + 1 \in Nat
    BY <2>1 DEF HandledLoops
  <2> QED
    BY <1>4, <2>2 DEF TakeTurn, HandledLoops
<1>5. CASE ToolResult(loop, e) \/ BackgroundDone(loop, e) \/ Compact(loop, e)
           \/ Pause(loop, e) \/ Resume(loop, e) \/ Shutdown(loop, e)
  BY <1>5 DEF ToolResult, BackgroundDone, Compact, Pause, Resume, Shutdown, HandledLoops
<1>6. CASE SwitchModel(loop, e)
  BY <1>6, SendableFacts DEF SwitchModel, HandledLoops
<1> QED
  BY <1>1, <1>2, <1>3, <1>4, <1>5, <1>6 DEF Process, AlreadyStopped, Handle

LEMMA HandleInitHolds == InitHandle => HandleInv
<1> SUFFICES ASSUME InitHandle PROVE HandleInv
  OBVIOUS
<1>1. HandleTypes
  BY LoopAssumption DEF InitHandle, InitLoop, HandleTypes, HandledLoops, States, Outcomes
<1>2. Sent = <<>> /\ Len(Sent) = 0
  BY DEF InitHandle, Sent
<1>3. StopEnds /\ Accounted
  BY <1>2 DEF InitHandle, InitLoop, StopEnds, NoStopBefore, Accounted, Stopped
<1> QED
  BY <1>1, <1>3 DEF HandleInv

\* One more on both sides.
LEMMA OneMore ==
  ASSUME NEW a \in Nat, NEW d \in Nat, NEW b \in Nat, NEW m \in Nat, NEW n \in Nat,
         NEW held \in Nat, a + d + held + b = m + n
  PROVE  a + d + held + (b + 1) = (m + 1) + n /\ a + d + held + (b + 1) = m + (n + 1)
OBVIOUS

LEMMA SendKeeps ==
  ASSUME HandleInv, SendInput \/ SendOther
  PROVE  HandleInv'
<1>1. PICK e \in Sendable : Send(e)
  <2>1. CASE SendInput
    <3>1. Input(inputs + 1) \in Sendable
      BY DEF HandleInv, HandleTypes, Sendable
    <3> QED
      BY <2>1, <3>1 DEF SendInput
  <2>2. CASE SendOther
    BY <2>2 DEF SendOther, Sendable
  <2> QED
    BY <2>1, <2>2
<1>2. /\ inputs \in Nat /\ signals \in Nat /\ discarded \in Nat
      /\ \/ inputs' = inputs + 1 /\ signals' = signals
         \/ inputs' = inputs /\ signals' = signals + 1
  BY DEF HandleInv, HandleTypes, SendInput, SendOther
<1>3. /\ events' = Append(events, e) /\ events' \in Seq(Sendable) /\ task # "done"
      /\ Len(events') = Len(events) + 1 /\ Len(events) \in Nat
      /\ UNCHANGED <<loop, outcome, outcomes, task, open, listening, delivered, discarded>>
  BY <1>1 DEF Send, HandleInv, HandleTypes, ends
<1>4. Sent' = Sent /\ Len(Sent) \in Nat
  BY <1>3 DEF HandleInv, HandleTypes, Sent
<1>5. HandleTypes'
  BY <1>2, <1>3 DEF HandleInv, HandleTypes
<1>6. StopEnds'
  BY <1>3, <1>4 DEF HandleInv, StopEnds, NoStopBefore
<1>7. Accounted'
  <2> DEFINE held == IF task = "send" THEN 1 ELSE 0
  <2>1. /\ held \in Nat /\ Len(Sent) + discarded + held + Len(events) = inputs + signals
        /\ listening => discarded = 0
    BY DEF HandleInv, Accounted
  <2> HIDE DEF held
  <2>2. /\ Len(Sent) + discarded + held + (Len(events) + 1) = (inputs + 1) + signals
        /\ Len(Sent) + discarded + held + (Len(events) + 1) = inputs + (signals + 1)
    BY <2>1, <1>2, <1>3, <1>4, OneMore
  <2>3. Len(Sent) + discarded + held + (Len(events) + 1) = inputs' + signals'
    BY <2>2, <1>2
  <2> QED
    BY <2>1, <2>3, <1>3, <1>4 DEF Accounted, held
<1> QED
  BY <1>5, <1>6, <1>7 DEF HandleInv

LEMMA ReceiveKeeps ==
  ASSUME HandleInv, Receive
  PROVE  HandleInv'
<1>1. /\ task = "recv" /\ events # <<>> /\ Process(loop, Head(events))
      /\ events' = Tail(events) /\ task' = "send"
      /\ UNCHANGED <<outcomes, open, listening, inputs, signals, delivered, discarded>>
  BY DEF Receive, ends
<1>2. /\ Head(events) \in Sendable /\ Tail(events) \in Seq(Sendable)
      /\ Len(Tail(events)) = Len(events) - 1 /\ Len(events) \in Nat
  BY <1>1 DEF HandleInv, HandleTypes
<1>3. loop' \in HandledLoops /\ outcome' \in Outcomes /\ (outcome' = "stopped" <=> Stopped(loop'))
  BY <1>1, <1>2, StoppedIsSaid DEF HandleInv, HandleTypes, StopEnds
<1>4. Sent' = Sent /\ Len(Sent) \in Nat
  BY <1>1 DEF HandleInv, HandleTypes, Sent
<1>5. HandleTypes'
  BY <1>1, <1>2, <1>3 DEF HandleInv, HandleTypes
<1>6. StopEnds'
  BY <1>1, <1>3, <1>4 DEF HandleInv, StopEnds, NoStopBefore
<1>7. Accounted'
  <2>1. Accounted /\ inputs \in Nat /\ signals \in Nat /\ discarded \in Nat
    BY DEF HandleInv, HandleTypes
  <2>2. Len(Sent') = Len(Sent) /\ Len(events') = Len(events) - 1
    BY <1>1, <1>2, <1>4
  <2> QED
    BY <2>1, <2>2, <1>1, <1>2, <1>4 DEF Accounted
<1> QED
  BY <1>5, <1>6, <1>7 DEF HandleInv

\* The task ends because nothing more can come, or a sender or nobody is left.
LEMMA EndsKeeps ==
  ASSUME HandleInv, SendersDrop \/ EndsUnstopped
  PROVE  HandleInv'
<1>1. /\ UNCHANGED <<loop, outcome, events, outcomes, listening, inputs, signals, delivered,
                     discarded>>
      /\ \/ task' = task /\ open' = FALSE
         \/ task = "recv" /\ task' = "done" /\ open' = open /\ ~open /\ events = <<>>
  BY DEF SendersDrop, EndsUnstopped, NoMore, ends
<1>2. Sent' = Sent /\ Len(Sent) \in Nat
  BY <1>1 DEF HandleInv, HandleTypes, Sent
<1>3. HandleTypes'
  BY <1>1 DEF HandleInv, HandleTypes
<1>4. StopEnds'
  BY <1>1, <1>2 DEF HandleInv, StopEnds, NoStopBefore
<1>5. Accounted'
  BY <1>1, <1>2 DEF HandleInv, Accounted
<1> QED
  BY <1>3, <1>4, <1>5 DEF HandleInv

LEMMA ReportKeeps ==
  ASSUME HandleInv, Report
  PROVE  HandleInv'
<1>1. /\ task = "send" /\ outcomes' = Append(outcomes, outcome)
      /\ task' = IF outcome = "stopped" THEN "done" ELSE "recv"
      /\ UNCHANGED <<loop, outcome, events, open, listening, inputs, signals, delivered, discarded>>
  BY DEF Report, Reports, ends
<1>2. outcomes' \in Seq(Outcomes) /\ outcome \in Outcomes
  BY <1>1 DEF HandleInv, HandleTypes
<1>3. /\ Sent \in Seq(Outcomes) /\ Len(Sent) \in Nat /\ Sent' = Append(Sent, outcome)
  BY <1>1 DEF HandleInv, HandleTypes, Sent
<1>4. /\ Len(Sent') = Len(Sent) + 1 /\ Sent'[Len(Sent) + 1] = outcome
      /\ \A i \in 1..Len(Sent) : Sent'[i] = Sent[i]
  BY <1>2, <1>3
<1>5. HandleTypes'
  BY <1>1, <1>2 DEF HandleInv, HandleTypes
<1>6. StopEnds'
  BY <1>1, <1>3, <1>4 DEF HandleInv, StopEnds, NoStopBefore
<1>7. Accounted'
  BY <1>1, <1>3, <1>4 DEF HandleInv, HandleTypes, Accounted
<1> QED
  BY <1>5, <1>6, <1>7 DEF HandleInv

\* An outcome thrown away is counted, and not among what was sent.
LEMMA NobodyKeeps ==
  ASSUME HandleInv, ReportToNobody
  PROVE  HandleInv'
<1>1. /\ task = "send" /\ ~listening /\ discarded' = discarded + 1
      /\ task' = IF outcome = "stopped" THEN "done" ELSE "recv"
      /\ UNCHANGED <<loop, outcome, events, outcomes, open, listening, inputs, signals, delivered>>
  BY DEF ReportToNobody, Reports, ends
<1>2. Sent' = Sent /\ Len(Sent) \in Nat
  BY <1>1 DEF HandleInv, HandleTypes, Sent
<1>3. HandleTypes'
  BY <1>1 DEF HandleInv, HandleTypes
<1>4. StopEnds'
  BY <1>1, <1>2 DEF HandleInv, StopEnds, NoStopBefore
<1>5. Accounted'
  BY <1>1, <1>2 DEF HandleInv, HandleTypes, Accounted
<1> QED
  BY <1>3, <1>4, <1>5 DEF HandleInv

\* What was sent is cut off at what was delivered; the rest is counted.
LEMMA LeaveKeeps ==
  ASSUME HandleInv, HostLeaves
  PROVE  HandleInv'
<1>1. /\ listening /\ listening' = FALSE /\ outcomes' = <<>>
      /\ discarded' = discarded + Len(outcomes)
      /\ UNCHANGED <<loop, outcome, events, task, open, inputs, signals, delivered>>
  BY DEF HostLeaves
<1>2. /\ delivered \in Seq(Outcomes) /\ outcomes \in Seq(Outcomes) /\ discarded \in Nat
      /\ Len(delivered) \in Nat /\ Len(outcomes) \in Nat
  BY DEF HandleInv, HandleTypes
<1>3. Sent' = delivered
  BY <1>1, <1>2 DEF Sent
<1>4. /\ Len(Sent) = Len(delivered) + Len(outcomes)
      /\ \A i \in 1..Len(delivered) : Sent[i] = delivered[i]
  BY <1>2 DEF Sent
<1>5. HandleTypes'
  <2>1. discarded + Len(outcomes) \in Nat
    BY <1>2
  <2>2. discarded' \in Nat
    BY <1>1, <2>1
  <2>3. <<>> \in Seq(Outcomes) /\ FALSE \in BOOLEAN
    OBVIOUS
  <2> QED
    BY <1>1, <2>2, <2>3 DEF HandleInv, HandleTypes
<1>6. StopEnds'
  <2>1. ASSUME NoStopBefore(Len(Sent)), NEW i \in 1..Len(delivered)
        PROVE  delivered[i] # "stopped"
    <3>1. i \in 1..Len(Sent)
      BY <1>2, <1>4
    <3>2. Sent[i] # "stopped"
      BY <2>1, <3>1 DEF NoStopBefore
    <3> QED
      BY <1>4, <3>2
  <2>2. ASSUME NoStopBefore(Len(Sent) - 1), NEW i \in 1..(Len(delivered) - 1)
        PROVE  delivered[i] # "stopped"
    <3>1. i \in 1..(Len(Sent) - 1) /\ i \in 1..Len(delivered)
      BY <1>2, <1>4
    <3>2. Sent[i] # "stopped"
      BY <2>2, <3>1 DEF NoStopBefore
    <3> QED
      BY <1>4, <3>1, <3>2
  <2>3. /\ NoStopBefore(Len(Sent)) => \A i \in 1..Len(delivered) : delivered[i] # "stopped"
        /\ NoStopBefore(Len(Sent) - 1) => \A i \in 1..(Len(delivered) - 1) : delivered[i] # "stopped"
    BY <2>1, <2>2
  <2> QED
    BY <1>1, <1>3, <2>3 DEF HandleInv, StopEnds, NoStopBefore
<1>7. Accounted'
  BY <1>1, <1>2, <1>3, <1>4 DEF HandleInv, HandleTypes, Accounted
<1> QED
  BY <1>5, <1>6, <1>7 DEF HandleInv

\* The host reads, or nothing happens: what was sent stays what was sent.
LEMMA HostKeeps ==
  ASSUME HandleInv, HostReads \/ UNCHANGED handleVars
  PROVE  HandleInv'
<1>1. CASE HostReads
  <2>1. /\ outcomes # <<>> /\ outcomes' = Tail(outcomes)
        /\ delivered' = Append(delivered, Head(outcomes))
        /\ UNCHANGED <<loop, outcome, events, task, open, listening, inputs, signals, discarded>>
    BY <1>1 DEF HostReads, ends
  <2>2. /\ Head(outcomes) \in Outcomes /\ outcomes' \in Seq(Outcomes)
        /\ delivered' \in Seq(Outcomes)
    BY <2>1 DEF HandleInv, HandleTypes
  <2>3. Sent' = Sent
    BY <2>1, <2>2 DEF HandleInv, HandleTypes, Sent
  <2>4. HandleTypes'
    BY <2>1, <2>2 DEF HandleInv, HandleTypes
  <2> QED
    BY <2>1, <2>3, <2>4 DEF HandleInv, StopEnds, NoStopBefore, Accounted
<1>2. CASE UNCHANGED handleVars
  BY <1>2 DEF handleVars, ends, HandleInv, HandleTypes, StopEnds, NoStopBefore, Accounted, Sent
<1> QED
  BY <1>1, <1>2

LEMMA HandleStepHolds == HandleInv /\ [HandleNext]_handleVars => HandleInv'
BY SendKeeps, ReceiveKeeps, EndsKeeps, ReportKeeps, NobodyKeeps, LeaveKeeps, HostKeeps
DEF HandleNext

\* The invariant the other theorems rest on.
THEOREM HandleInvariant == HandleSpec => []HandleInv
<1> QED
  BY HandleInitHolds, HandleStepHolds, PTL DEF HandleSpec

\* No outcome is lost to a slow host, only to one that has left: each event taken
\* has exactly one (main_loop.rs LoopHandle::spawn).
THEOREM NoneLost == HandleSpec => []OneOutcomePerEvent
<1>1. HandleInv => OneOutcomePerEvent
  <2> SUFFICES ASSUME HandleInv
               PROVE  Len(Reported) + discarded + Len(events) = inputs + signals
    BY DEF OneOutcomePerEvent, HandleInv, Accounted
  <2>1. Sent \in Seq(Outcomes) /\ outcome \in Outcomes
    BY DEF HandleInv, HandleTypes, Sent
  <2>2. Reported = Sent \o (IF task = "send" THEN <<outcome>> ELSE <<>>)
    BY DEF Reported, Sent
  <2>3. Len(Reported) = Len(Sent) + (IF task = "send" THEN 1 ELSE 0)
    BY <2>1, <2>2
  <2>4. /\ Len(Sent) \in Nat /\ discarded \in Nat /\ Len(events) \in Nat
        /\ Len(Sent) + discarded + (IF task = "send" THEN 1 ELSE 0) + Len(events) = inputs + signals
    BY <2>1 DEF HandleInv, HandleTypes, Accounted
  <2> QED
    BY <2>3, <2>4
<1> QED
  BY <1>1, HandleInvariant, PTL

\* "stopped" is the last the host hears and ends the task, which otherwise ends
\* only when its senders are gone and all they sent is handled (main_loop.rs
\* LoopHandle::spawn).
THEOREM StopIsTheLastWord == HandleSpec => []StoppedIsLast
<1>1. HandleInv => StoppedIsLast
  <2> SUFFICES ASSUME HandleInv PROVE StoppedIsLast
    OBVIOUS
  <2>1. Sent \in Seq(Outcomes) /\ outcome \in Outcomes /\ Len(Sent) \in Nat
    BY DEF HandleInv, HandleTypes, Sent
  <2>2. Reported = Sent \o (IF task = "send" THEN <<outcome>> ELSE <<>>)
    BY DEF Reported, Sent
  <2>3. /\ task # "send" => Reported = Sent
        /\ task = "send" => /\ Len(Reported) = Len(Sent) + 1
                            /\ \A i \in 1..Len(Sent) : Reported[i] = Sent[i]
    BY <2>1, <2>2
  <2>4. ASSUME NEW i \in 1..Len(Reported), Reported[i] = "stopped" PROVE i = Len(Reported)
    BY <2>1, <2>3, <2>4 DEF HandleInv, HandleTypes, StopEnds, NoStopBefore
  <2>5. /\ Stopped(loop) /\ task # "send" => task = "done"
        /\ task = "done" => Stopped(loop) \/ (~open /\ events = <<>>)
    BY DEF HandleInv, HandleTypes, StopEnds
  <2> QED
    BY <2>4, <2>5 DEF StoppedIsLast
<1> QED
  BY <1>1, HandleInvariant, PTL
=============================================================================

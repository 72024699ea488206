-------------------------- MODULE StewardActProofs --------------------------
(***************************************************************************)
(* For any tools, costs, cooldowns and bounds: the steward's state stays   *)
(* well typed, with a balance that is never overdrawn; the receipt chain   *)
(* verifies in memory and on disk, and the file never holds a fork of it;  *)
(* its receipts stand for tools that ran, were paid for and kept their     *)
(* distance; and the ActReceipts are linked but for resumes.               *)
(***************************************************************************)
EXTENDS StewardAct, Sums

\* A request in flight has a number; one that is past its gates has a tool of
\* the agent's, and one between tool calls has calls left.
\* A process that is down had a crash to spare.
InFlight ==
  /\ pc \notin {"idle", "down"} => req.id \in 1..MaxRequests
  /\ pc \in {"report", "review", "execute", "refresh", "callTool"} => req.tool \in Tools
  /\ pc \in {"gateCall", "callTool"} => req.calls \in 1..MaxCalls
  /\ pc = "down" => boot <= MaxCrashes

Typed == TypeOK /\ InFlight

\* The constants' types, one by one.
LEMMA ConstantTypes ==
  /\ ActCost \in Nat /\ ThinkCost \in Nat /\ Penalty \in Nat /\ DecayLoss \in Nat
  /\ InitialSynapse \in Nat /\ SynapseFloor \in Nat
  /\ MaxRequests \in Nat /\ MaxTime \in Nat /\ MaxCrashes \in Nat
  /\ RotateEvery \in Nat /\ RotateEvery > 0 /\ MaxTurns \in Nat /\ MaxTurns > 0
  /\ MaxCalls \in Nat /\ MaxCalls > 0
  /\ \A t \in Tools : Cooldown[t] \in Nat /\ ToolCost[t] \in Nat
<1> QED
  BY StewardAssumption DEF StewardAssumption

\* Counters only widen the types: an agent that was well typed stays so.
LEMMA AgentsGrow ==
  ASSUME hashes \in Nat, now \in Nat, boot \in Nat,
         hashes' \in Nat, now' \in Nat, boot' \in Nat,
         hashes <= hashes', now <= now', boot <= boot',
         NEW a \in Agents
  PROVE  a \in Agents'
<1>1. \A r \in Receipts : r \in Receipts'
  BY DEF Receipts
<1>2. a.chain \in Seq(Receipts')
  <2>1. a.chain \in Seq(Receipts)
    BY DEF Agents
  <2> QED
    BY <1>1, <2>1
<1>3. a.lastProof \in {<<>>} \cup (Tools \X (0..now'))
  BY DEF Agents
<1> QED
  BY <1>2, <1>3 DEF Agents

\* A receipt added to a well-typed chain.
LEMMA IssueTyped ==
  ASSUME Typed, NEW a \in Agents, NEW what \in Tools \cup {"think_agentic"},
         NEW settled \in 0..now, req.id \in 1..MaxRequests,
         hashes' = hashes + 1, now' = now, boot' = boot
  PROVE  Issue(a, what, settled) \in Agents'
<1> DEFINE r == [id |-> hashes + 1, prev |-> a.lastHash, what |-> what,
                 request |-> req.id, boot |-> boot,
                 began |-> req.began, settled |-> settled]
<1>1. hashes \in Nat /\ now \in Nat /\ boot \in Nat
  BY ConstantTypes DEF Typed, TypeOK
<1>2. a \in Agents'
  BY <1>1, AgentsGrow
<1>3. r \in Receipts'
  <2>1. req.began \in 0..now /\ a.lastHash \in 0..hashes /\ boot \in 1..boot
    BY <1>1 DEF Typed, TypeOK, Agents, Requests
  <2> QED
    BY <1>1, <2>1 DEF Receipts
<1>4. Append(a.chain, r) \in Seq(Receipts')
  BY <1>2, <1>3 DEF Agents
<1>5. Issue(a, what, settled) = [a EXCEPT !.chain = Append(a.chain, r), !.lastHash = hashes + 1]
  <2>1. \A x : [a EXCEPT !.chain = Append(@, x), !.lastHash = hashes + 1]
                = [a EXCEPT !.chain = Append(a.chain, x), !.lastHash = hashes + 1]
    BY DEF Agents
  <2> QED
    BY <2>1 DEF Issue
<1>6. hashes + 1 \in 0..hashes'
  BY <1>1
<1>7. a \in [synapse : 0..InitialSynapse, acts : 0..(RotateEvery - 1),
             chain : Seq(Receipts'), lastHash : 0..hashes',
             lastProof : {<<>>} \cup (Tools \X (0..now'))]
  BY <1>2 DEF Agents
<1> HIDE DEF r
<1>8. [a EXCEPT !.chain = Append(a.chain, r), !.lastHash = hashes + 1]
        \in [synapse : 0..InitialSynapse, acts : 0..(RotateEvery - 1),
             chain : Seq(Receipts'), lastHash : 0..hashes',
             lastProof : {<<>>} \cup (Tools \X (0..now'))]
  BY <1>4, <1>6, <1>7
<1> QED
  BY <1>5, <1>8 DEF Agents

\* Without a receipt, a tick or a restart the types stay what they are.
LEMMA SameTypes ==
  ASSUME hashes' = hashes, now' = now, boot' = boot
  PROVE  Agents' = Agents /\ Requests' = Requests
<1> QED
  BY DEF Agents, Receipts, Requests

\* The steward at birth.
LEMMA InitTyped == Init => Typed
<1> SUFFICES ASSUME Init PROVE Typed
  OBVIOUS
<1> USE ConstantTypes DEF Init
<1>1. agent \in Agents
  BY DEF Agents, Genesis
<1>2. req \in Requests
  BY DEF Requests, NoTool
<1>3. disk = Snapshot(disk.agent) /\ disk.agent \in Agents
  BY <1>1 DEF Snapshot
<1> QED
  BY <1>1, <1>2, <1>3 DEF Typed, TypeOK, InFlight, Awaits

\* NextTurn leaves a request with calls it may make and a turn it may take.
LEMMA NextTurnTyped ==
  ASSUME Typed, NEW r \in Requests, r.id \in 1..MaxRequests, NextTurn(r),
         hashes' = hashes, now' = now, boot' = boot
  PROVE  req' \in Requests' /\ pc' \in {"provider", "idle"} /\ req'.id = r.id
<1>1. CASE r.turn < MaxTurns /\ pc' = "provider" /\ req' = [r EXCEPT !.turn = @ + 1]
  <2>1. r.turn + 1 \in 0..MaxTurns
    BY <1>1, ConstantTypes DEF Requests
  <2> QED
    BY <1>1, <2>1, SameTypes DEF Requests
<1>2. CASE pc' = "idle" /\ req' = [r EXCEPT !.answer = "error"]
  BY <1>2, SameTypes DEF Requests
<1> QED
  BY <1>1, <1>2 DEF NextTurn

\* The end of a tool call leaves another one to make, a turn, or an answer.
LEMMA CallDoneTyped ==
  ASSUME Typed, pc \in {"gateCall", "callTool"}, CallDone,
         hashes' = hashes, now' = now, boot' = boot
  PROVE  /\ req' \in Requests' /\ pc' \in {"gateCall", "provider", "idle"}
         /\ req'.id \in 1..MaxRequests
         /\ pc' = "gateCall" => req'.calls \in 1..MaxCalls
<1> DEFINE r == [req EXCEPT !.calls = @ - 1, !.tool = NoTool, !.ran = "no"]
<1>1. req \in Requests /\ req.id \in 1..MaxRequests /\ req.calls \in 1..MaxCalls
  BY DEF Typed, TypeOK, InFlight
<1>2. r \in Requests /\ r.id = req.id /\ r.calls = req.calls - 1
  <2>1. req.calls - 1 \in 0..MaxCalls
    BY <1>1, ConstantTypes
  <2> QED
    BY <1>1, <2>1 DEF Requests, NoTool
<1>3. CASE r.calls > 0 /\ pc' = "gateCall" /\ req' = r
  <2>1. r.calls \in 1..MaxCalls
    BY <1>1, <1>2, <1>3, ConstantTypes
  <2> QED
    BY <1>1, <1>2, <1>3, <2>1, SameTypes
<1>4. CASE r.calls = 0 /\ NextTurn(r)
  <2> HIDE DEF r
  <2> QED
    BY <1>1, <1>2, <1>4, NextTurnTyped
<1> QED
  BY <1>3, <1>4 DEF CallDone

\* Every step of a direct act keeps the state well typed.
LEMMA ActTyped ==
  ASSUME Typed, Act
  PROVE  Typed'
<1> USE ConstantTypes DEF Typed, TypeOK, InFlight, Awaits, Clock, Return
<1>a. hashes' = hashes /\ now' = now /\ boot' = boot => Agents' = Agents /\ Requests' = Requests
  BY SameTypes
<1>1. CASE \E t \in Tools : AskAct(t)
  <2>1. PICK t \in Tools : AskAct(t)
    BY <1>1
  <2>2. req.id + 1 \in 1..MaxRequests
    BY <2>1 DEF AskAct, Requests
  <2>3. req' \in Requests /\ req'.id = req.id + 1 /\ req'.tool = t
    <3> DEFINE n == req.id + 1
    <3>1. req' = [req EXCEPT !.id = n, !.kind = "act", !.tool = t, !.ran = "no",
                             !.receipted = FALSE, !.answer = "none"]
      BY <2>1 DEF AskAct, Requests
    <3>2. n \in 0..MaxRequests
      BY <2>2
    <3> HIDE DEF n
    <3>3. req' \in Requests
      BY <3>1, <3>2 DEF Requests
    <3>4. req'.id = n /\ req'.tool = t
      BY <3>1 DEF Requests
    <3> QED
      BY <3>3, <3>4 DEF n
  <2>4. /\ pc' \in {"report", "review"}
        /\ UNCHANGED <<agent, expiry, proofs, effects, hashes, disk, now, sabbath, boot, seams>>
    BY <2>1 DEF AskAct
  <2> QED
    BY <2>2, <2>3, <2>4, <1>a
<1>2. CASE ReportDenial
  BY <1>2, <1>a DEF ReportDenial, Requests
<1>3. CASE ReviewBlocks
  BY <1>3, <1>a DEF ReviewBlocks, Requests
<1>4. ASSUME Decay PROVE agent' \in Agents
  <2>1. PICK d \in 0..DecayLoss : d <= agent.synapse /\ agent' = [agent EXCEPT !.synapse = @ - d]
    BY <1>4 DEF Decay
  <2>2. agent.synapse - d \in 0..InitialSynapse
    <3>1. agent.synapse \in 0..InitialSynapse /\ d \in Nat
      BY <2>1 DEF Agents
    <3> QED
      BY <2>1, <3>1
  <2> QED
    BY <2>1, <2>2 DEF Agents
<1>5. CASE RhythmQueues
  BY <1>5, <1>4, <1>a DEF RhythmQueues, Requests
<1>6. CASE GatesRefuse
  BY <1>6, <1>4, <1>a DEF GatesRefuse, Requests
<1>7. CASE GatesPass
  BY <1>7, <1>4, <1>a DEF GatesPass, Requests
<1>8. CASE ToolEffect
  BY <1>8, <1>a DEF ToolEffect, Requests
<1>9. CASE ToolFails
  BY <1>9, <1>a DEF ToolFails, Requests
<1>10. CASE SettleUnpaidTool
  BY <1>10, <1>a DEF SettleUnpaidTool, ToolReturned, Requests
<1>b. ASSUME NEW n \in Nat, agent.synapse >= n
      PROVE  Burned(agent, n) \in Agents /\ Burned(agent, n).acts = agent.acts
  <2>1. agent.synapse - n \in 0..InitialSynapse
    BY <1>b DEF Agents
  <2> QED
    BY <2>1 DEF Agents, Burned
<1>11. CASE SettleDenied
  <2>1. agent' \in Agents
    BY <1>11, <1>b DEF SettleDenied, ToolReturned, CanBurn
  <2>2. expiry' \in [Tools -> Nat]
    BY <1>11 DEF SettleDenied, SetCooldown, ToolReturned
  <2> QED
    BY <1>11, <2>1, <2>2, <1>a DEF SettleDenied, ToolReturned, Requests
<1>12. CASE Audited
  BY <1>12, <1>a DEF Audited
<1>13. CASE Relayed
  BY <1>13, <1>a DEF Relayed, OpenFile, CannotOpenFile, Torn, Requests
<1>14. CASE FillFile
  BY <1>14, <1>a DEF FillFile, Snapshot, Torn, Requests
<1>c. ASSUME NEW a \in Agents, NEW settled \in 0..now, RecordAct(a, settled),
             req.tool \in Tools, req.id \in 1..MaxRequests, now' = now, boot' = boot
      PROVE  agent' \in Agents' /\ hashes' = hashes + 1 /\ pc' = "audit"
  <2>1. \A b \in Penalised(a) : b \in Agents
    <3> DEFINE left == IF a.synapse < Penalty THEN 0 ELSE a.synapse - Penalty
    <3>1. left \in 0..InitialSynapse
      BY DEF Agents
    <3>2. Penalised(a) = {a, [a EXCEPT !.synapse = left]}
      BY DEF Penalised, Agents
    <3> HIDE DEF left
    <3>3. [a EXCEPT !.synapse = left] \in Agents
      BY <3>1 DEF Agents
    <3> QED
      BY <3>2, <3>3
  <2>2. PICK b \in Penalised(a) : agent' = Issue(b, req.tool, settled)
    BY <1>c DEF RecordAct
  <2> QED
    BY <1>c, <2>1, <2>2, IssueTyped DEF RecordAct
<1>d. ASSUME hashes' = hashes + 1, now' = now, boot' = boot, UNCHANGED disk
      PROVE  /\ disk' = Torn \/ (disk' = Snapshot(disk'.agent) /\ disk'.agent \in Agents')
             /\ Requests' = Requests
  BY <1>d, AgentsGrow DEF Requests
<1>15. CASE SettleCommit
  <2> DEFINE acts == (agent.acts + 1) % RotateEvery
             paid == [Burned(agent, ToolCost[req.tool] + ActCost) EXCEPT !.acts = acts]
  <2>1. req.tool \in Tools /\ req.id \in 1..MaxRequests /\ req \in Requests
        /\ now' = now /\ boot' = boot /\ UNCHANGED disk
    BY <1>15 DEF SettleCommit, ToolReturned
  <2>2. paid \in Agents
    <3>1. Burned(agent, ToolCost[req.tool] + ActCost) \in Agents
      BY <1>15, <2>1, <1>b DEF SettleCommit, CanBurn
    <3>2. acts \in 0..(RotateEvery - 1)
      BY DEF Agents
    <3> QED
      BY <3>1, <3>2 DEF Agents
  <2>3. expiry' \in [Tools -> Nat]
    BY <1>15, <2>1 DEF SettleCommit, SetCooldown
  <2>4. CASE acts # 0 /\ RecordAct(paid, now)
               /\ req' = [req EXCEPT !.ran = "ok", !.settled = now, !.receipted = TRUE]
    <3> HIDE DEF paid, acts
    <3>1. agent' \in Agents' /\ hashes' = hashes + 1 /\ pc' = "audit"
      BY <2>1, <2>2, <2>4, <1>c
    <3>2. req' \in Requests /\ req'.id = req.id
      BY <2>1, <2>4, now \in 0..now DEF Requests
    <3> QED
      BY <1>15, <2>1, <2>3, <3>1, <3>2, <1>d DEF SettleCommit
  <2>5. CASE agent' = paid /\ pc' = "refresh" /\ UNCHANGED hashes
               /\ req' = [req EXCEPT !.ran = "ok", !.settled = now]
    <3> HIDE DEF paid, acts
    <3>1. req' \in Requests /\ req'.id = req.id /\ req'.tool = req.tool
      BY <2>1, <2>5, now \in 0..now DEF Requests
    <3> QED
      BY <1>15, <2>1, <2>2, <2>3, <2>5, <3>1, <1>a DEF SettleCommit
  <2> QED
    BY <1>15, <2>4, <2>5 DEF SettleCommit
<1>16. CASE Refreshed
  <2>1. agent' \in Agents' /\ hashes' = hashes + 1 /\ pc' = "audit"
    BY <1>16, <1>c DEF Refreshed, Requests
  <2>2. req' \in Requests /\ req'.id = req.id
    BY <1>16 DEF Refreshed, Requests
  <2> QED
    BY <1>16, <2>1, <2>2, <1>d DEF Refreshed
<1> QED
  BY <1>1, <1>2, <1>3, <1>5, <1>6, <1>7, <1>8, <1>9, <1>10, <1>11, <1>12, <1>13, <1>14,
     <1>15, <1>16 DEF Act

\* Every step of an agentic request keeps the state well typed.
LEMMA ThinkTyped ==
  ASSUME Typed, Think
  PROVE  Typed'
<1> USE ConstantTypes DEF Typed, TypeOK, InFlight, Awaits, Clock, Return
<1>a. hashes' = hashes /\ now' = now /\ boot' = boot => Agents' = Agents /\ Requests' = Requests
  BY SameTypes
<1>b. ASSUME NEW n \in Nat, agent.synapse >= n
      PROVE  Burned(agent, n) \in Agents
  <2>1. agent.synapse - n \in 0..InitialSynapse
    BY <1>b DEF Agents
  <2> QED
    BY <2>1 DEF Agents, Burned
<1>1. CASE AskThink
  <2> DEFINE r == [req EXCEPT !.id = @ + 1, !.kind = "think", !.tool = NoTool, !.ran = "no",
                              !.receipted = FALSE, !.answer = "none", !.turn = 0]
             n == req.id + 1
  <2>1. n \in 1..MaxRequests
    BY <1>1 DEF AskThink, Requests
  <2>2. r = [req EXCEPT !.id = n, !.kind = "think", !.tool = NoTool, !.ran = "no",
                        !.receipted = FALSE, !.answer = "none", !.turn = 0]
    BY DEF Requests
  <2> HIDE DEF n
  <2>3. r \in Requests /\ r.id = n
    <3>1. n \in 0..MaxRequests /\ 0 \in 0..MaxTurns
      BY <2>1
    <3> HIDE DEF r
    <3>2. r \in Requests
      BY <2>2, <3>1 DEF Requests
    <3>3. r.id = n
      BY <2>2 DEF Requests
    <3> QED
      BY <3>2, <3>3
  <2>4. NextTurn(r) /\ UNCHANGED <<agent, expiry, proofs, effects, hashes, disk, now, sabbath, boot, seams>>
    BY <1>1 DEF AskThink
  <2> HIDE DEF r
  <2>5. req' \in Requests' /\ pc' \in {"provider", "idle"} /\ req'.id = n
    BY <2>1, <2>3, <2>4, NextTurnTyped
  <2> QED
    BY <2>1, <2>4, <2>5, <1>a
<1>2. CASE ProviderFails
  BY <1>2, <1>a DEF ProviderFails, Requests
<1>3. CASE ProviderAnswers
  <2> DEFINE b == Burned(agent, ThinkCost)
  <2>1. b \in Agents
    BY <1>3, <1>b DEF ProviderAnswers, CanBurn
  <2>2. agent' = Issue(b, "think_agentic", now) /\ hashes' = hashes + 1 /\ now' = now /\ boot' = boot
    BY <1>3 DEF ProviderAnswers
  <2> HIDE DEF b
  <2>3. agent' \in Agents'
    BY <1>3, <2>1, <2>2, IssueTyped, now \in 0..now DEF ProviderAnswers
  <2>4. disk' = Torn \/ disk' = disk
    BY <1>3 DEF ProviderAnswers, OpenFile, CannotOpenFile
  <2>5. disk' = Torn \/ (disk' = Snapshot(disk'.agent) /\ disk'.agent \in Agents')
    BY <2>2, <2>4, AgentsGrow
  <2>6. req' \in Requests /\ req'.id = req.id /\ pc' \in {"save", "idle"}
    BY <1>3 DEF ProviderAnswers, OpenFile, CannotOpenFile, Requests
  <2>7. Requests' = Requests
    BY <2>2 DEF Requests
  <2> QED
    BY <1>3, <2>2, <2>3, <2>5, <2>6, <2>7 DEF ProviderAnswers
<1>4. CASE ProviderAsksTools
  <2>1. agent' \in Agents
    BY <1>4, <1>b DEF ProviderAsksTools, CanBurn
  <2>2. PICK n \in 1..MaxCalls : req' = [req EXCEPT !.calls = n]
    BY <1>4 DEF ProviderAsksTools
  <2>3. req' \in Requests /\ req'.id = req.id /\ req'.calls = n
    BY <2>2 DEF Requests
  <2> QED
    BY <1>4, <2>1, <2>2, <2>3, <1>a DEF ProviderAsksTools
<1>5. CASE CallRefused
  <2>1. CallDone /\ UNCHANGED <<agent, expiry, proofs, effects, hashes, disk, now, sabbath, boot, seams>>
    BY <1>5 DEF CallRefused
  <2> QED
    BY <1>5, <2>1, <1>a, CallDoneTyped DEF CallRefused
<1>6. CASE CallFails
  <2>1. CallDone /\ UNCHANGED <<agent, expiry, proofs, effects, hashes, disk, now, sabbath, boot, seams>>
    BY <1>6 DEF CallFails
  <2> QED
    BY <1>6, <2>1, <1>a, CallDoneTyped DEF CallFails
<1>7. CASE CallSucceeds
  <2> DEFINE b == Burned(agent, ToolCost[req.tool])
  <2>1. b \in Agents
    BY <1>7, <1>b DEF CallSucceeds, CanBurn
  <2>2. /\ CallDone /\ agent' = Proven(b, req.tool) /\ req.tool \in Tools
        /\ UNCHANGED <<expiry, effects, hashes, disk, now, sabbath, boot, seams>>
    BY <1>7 DEF CallSucceeds
  <2> HIDE DEF b
  <2>3. agent' \in Agents
    <3>1. ProofId(req.tool) \in Tools \X (0..now)
      BY <2>2 DEF ProofId
    <3> QED
      BY <2>1, <2>2, <3>1 DEF Proven, Agents
  <2> QED
    BY <1>7, <2>2, <2>3, <1>a, CallDoneTyped DEF CallSucceeds
<1>8. CASE \E t \in Tools : CallAllowed(t)
  <2>1. PICK t \in Tools : CallAllowed(t)
    BY <1>8
  <2>2. req' = [req EXCEPT !.tool = t, !.began = now] /\ pc' = "callTool"
    BY <2>1 DEF CallAllowed
  <2>3. req' \in Requests /\ req'.id = req.id /\ req'.calls = req.calls /\ req'.tool = t
    BY <2>2, now \in 0..now DEF Requests
  <2> QED
    BY <2>1, <2>2, <2>3, <1>a DEF CallAllowed
<1> QED
  BY <1>1, <1>2, <1>3, <1>4, <1>5, <1>6, <1>7, <1>8 DEF Think

\* Hang-ups, crashes, restarts, the clock and the Sabbath do too.
LEMMA EnvironmentTyped ==
  ASSUME Typed, Environment
  PROVE  Typed'
<1> USE ConstantTypes DEF Typed, TypeOK, InFlight, Awaits, Clock, Return
<1>a. hashes' = hashes /\ now' = now /\ boot' = boot => Agents' = Agents /\ Requests' = Requests
  BY SameTypes
<1>1. CASE Cancel
  BY <1>1, <1>a DEF Cancel, Requests
<1>2. CASE Crash
  BY <1>2, <1>a DEF Crash
<1>3. CASE Restart
  <2>1. disk.agent \in Agents
    BY <1>3 DEF Restart, Readable, Torn
  <2>2. agent' \in Agents'
    BY <1>3, <2>1, AgentsGrow DEF Restart
  <2>3. disk' = Snapshot(disk'.agent) /\ disk'.agent \in Agents'
    BY <1>3, <2>1, AgentsGrow DEF Restart, Readable, Torn
  <2>4. req' \in Requests'
    BY <1>3 DEF Restart, Requests
  <2>5. boot' \in 1..(MaxCrashes + 1)
    BY <1>3 DEF Restart
  <2> QED
    BY <1>3, <2>2, <2>3, <2>4, <2>5 DEF Restart
<1>4. CASE Tick
  <2>1. agent \in Agents' /\ (disk = Torn \/ disk.agent \in Agents')
    BY <1>4, AgentsGrow DEF Tick
  <2>2. req \in Requests'
    BY <1>4 DEF Tick, Requests
  <2> QED
    BY <1>4, <2>1, <2>2 DEF Tick
<1>5. CASE SabbathBegins
  BY <1>5, <1>a DEF SabbathBegins
<1>6. CASE SabbathEnds
  BY <1>6, <1>a DEF SabbathEnds
<1>7. CASE Reload
  <2>1. disk.agent \in Agents
    BY <1>7 DEF Reload, Readable, Torn
  <2> QED
    BY <1>7, <2>1, <1>a DEF Reload
<1> QED
  BY <1>1, <1>2, <1>3, <1>4, <1>5, <1>6, <1>7 DEF Environment

\* Every step keeps the state well typed.
LEMMA NextTyped ==
  ASSUME Typed, [Next]_vars
  PROVE  Typed'
<1>1. CASE UNCHANGED vars
  BY <1>1 DEF vars, Typed, TypeOK, InFlight, Awaits, Agents, Receipts, Requests
<1> QED
  BY <1>1, ActTyped, ThinkTyped, EnvironmentTyped DEF Next

(***************************************************************************)
(* What a step may do to the chain and to the file: three things only.     *)
(***************************************************************************)
\* The chain stays, and the file too, or is truncated, or is rewritten.
Keeps ==
  /\ agent'.chain = agent.chain /\ agent'.lastHash = agent.lastHash
  /\ disk' \in {disk, Torn, Snapshot(agent)}

\* One receipt, linked to the last, is appended; the file is not yet rewritten.
\* It is the receipt of the request at hand, whose tool has run if it is an act,
\* and the request is past its awaits or at the audit.
Appends(what) ==
  \E r \in Receipts' : /\ r.prev = agent.lastHash /\ r.id = agent'.lastHash
                       /\ r.request = req.id /\ r.what = what /\ r.boot = boot
                       /\ r.began = req.began
                       /\ r.settled = IF pc = "refresh" THEN req.settled ELSE now
                       /\ agent'.chain = Append(agent.chain, r)

Issues ==
  /\ Appends(IF pc = "provider" THEN "think_agentic" ELSE req.tool)
  /\ pc \in {"refresh", "provider"} \/ ToolReturned
  /\ pc' \in {"audit", "save", "idle"}
  /\ disk' \in {disk, Torn}

\* The agent in the file is the one that goes on, with no request in flight.
Restores ==
  /\ Readable(disk) /\ agent' = disk.agent /\ disk' = disk
  /\ pc' = "idle" /\ req'.id = req.id
  /\ boot' = boot + 1 \/ UNCHANGED <<boot, expiry>>

\* The receipt of this request for what, settled then.
Receipted(r, what, settled) ==
  /\ r \in Receipts' /\ agent'.chain = Append(agent.chain, r)
  /\ r.prev = agent.lastHash /\ r.id = agent'.lastHash
  /\ r.request = req.id /\ r.what = what /\ r.boot = boot
  /\ r.began = req.began /\ r.settled = settled

\* Issue appends one linked receipt to the chain of any agent with this one's
\* chain and last hash, and touches nothing else of it.
LEMMA IssueReceipts ==
  ASSUME Typed, Typed', NEW a \in Agents, NEW what, NEW settled,
         a.chain = agent.chain, a.lastHash = agent.lastHash,
         agent' = Issue(a, what, settled)
  PROVE  /\ \E r : Receipted(r, what, settled)
         /\ agent'.synapse = a.synapse /\ agent'.lastProof = a.lastProof
<1> DEFINE r == [id |-> hashes + 1, prev |-> a.lastHash, what |-> what,
                 request |-> req.id, boot |-> boot,
                 began |-> req.began, settled |-> settled]
<1>1. agent'.chain = Append(a.chain, r)
  BY DEF Issue, Agents
<1>2. agent'.lastHash = hashes + 1
  BY DEF Issue, Agents
<1>3. agent'.synapse = a.synapse /\ agent'.lastProof = a.lastProof
  BY DEF Issue, Agents
<1>4. /\ r.prev = a.lastHash /\ r.id = hashes + 1 /\ r.request = req.id /\ r.what = what
      /\ r.boot = boot /\ r.began = req.began /\ r.settled = settled
  OBVIOUS
<1> HIDE DEF r
<1>5. r \in Receipts'
  <2>1. agent'.chain \in Seq(Receipts')
    BY DEF Typed, TypeOK, Agents
  <2>2. agent.chain \in Seq(Receipts)
    BY DEF Typed, TypeOK, Agents
  <2>3. Len(agent'.chain) = Len(a.chain) + 1 /\ agent'.chain[Len(a.chain) + 1] = r
    BY <1>1, <2>2
  <2> QED
    BY <2>1, <2>2, <2>3
<1>6. Receipted(r, what, settled)
  BY <1>1, <1>2, <1>4, <1>5 DEF Receipted
<1> QED
  BY <1>3, <1>6

LEMMA ReceiptAppends ==
  ASSUME NEW r, NEW what, NEW settled, Receipted(r, what, settled),
         settled = IF pc = "refresh" THEN req.settled ELSE now
  PROVE  Appends(what)
BY DEF Receipted, Appends

\* Burning and decay leave the chain alone.
LEMMA BurnedKeeps ==
  ASSUME NEW a \in Agents, NEW n
  PROVE  Burned(a, n).chain = a.chain /\ Burned(a, n).lastHash = a.lastHash
<1> QED
  BY DEF Burned, Agents

\* A penalised agent has the same chain, and no higher balance.
LEMMA RecordActReceipts ==
  ASSUME Typed, Typed', NEW a \in Agents, NEW settled, RecordAct(a, settled),
         a.chain = agent.chain, a.lastHash = agent.lastHash
  PROVE  /\ \E r : Receipted(r, req.tool, settled)
         /\ agent'.synapse <= a.synapse /\ agent'.lastProof = a.lastProof
<1>1. PICK b \in Penalised(a) : agent' = Issue(b, req.tool, settled)
  BY DEF RecordAct
<1>2. /\ b \in Agents /\ b.chain = a.chain /\ b.lastHash = a.lastHash
      /\ b.synapse <= a.synapse /\ b.lastProof = a.lastProof
  <2> DEFINE left == IF a.synapse < Penalty THEN 0 ELSE a.synapse - Penalty
             poorer == [a EXCEPT !.synapse = left]
  <2>1. left \in 0..InitialSynapse /\ left <= a.synapse /\ a.synapse <= a.synapse
    BY ConstantTypes DEF Agents
  <2>2. Penalised(a) = {a, poorer}
    BY DEF Penalised, Agents
  <2> HIDE DEF left
  <2>3. poorer \in Agents
    BY <2>1 DEF Agents
  <2>4. /\ poorer.chain = a.chain /\ poorer.lastHash = a.lastHash
        /\ poorer.synapse = left /\ poorer.lastProof = a.lastProof
    BY DEF Agents
  <2> HIDE DEF poorer
  <2> QED
    BY <1>1, <2>1, <2>2, <2>3, <2>4
<1> QED
  BY <1>1, <1>2, IssueReceipts

\* Every step of the program keeps the chain, issues a receipt, or goes back
\* to the file.
LEMMA StepCases ==
  ASSUME Typed, Typed', Next
  PROVE  Keeps \/ Issues \/ Restores
<1> USE ConstantTypes DEF Clock, Return
<1>a. agent \in Agents
  BY DEF Typed, TypeOK
<1>b. ASSUME UNCHANGED agent, disk' \in {disk, Torn, Snapshot(agent)} PROVE Keeps
  BY <1>b DEF Keeps
<1>1. CASE \E t \in Tools : AskAct(t)
  BY <1>1, <1>b DEF AskAct
<1>2. CASE ReportDenial \/ ReviewBlocks
  BY <1>2, <1>b DEF ReportDenial, ReviewBlocks
<1>3. CASE RhythmQueues \/ GatesRefuse \/ GatesPass
  <2>1. Decay /\ disk' = disk
    BY <1>3 DEF RhythmQueues, GatesRefuse, GatesPass
  <2>2. PICK d \in 0..DecayLoss : agent' = [agent EXCEPT !.synapse = @ - d]
    BY <2>1 DEF Decay
  <2> QED
    BY <1>a, <2>1, <2>2 DEF Keeps, Agents
<1>4. CASE ToolEffect \/ ToolFails \/ SettleUnpaidTool
  BY <1>4, <1>b DEF ToolEffect, ToolFails, SettleUnpaidTool
<1>5. CASE SettleDenied
  BY <1>5, <1>a, BurnedKeeps DEF SettleDenied, Keeps
<1>6. CASE SettleCommit
  <2> DEFINE acts == (agent.acts + 1) % RotateEvery
             paid == [Burned(agent, ToolCost[req.tool] + ActCost) EXCEPT !.acts = acts]
  <2>1. req.tool \in Tools /\ ToolCost[req.tool] + ActCost \in Nat
        /\ agent.synapse >= ToolCost[req.tool] + ActCost /\ disk' = disk
    BY <1>6 DEF SettleCommit, ToolReturned, CanBurn, Typed, InFlight
  <2>2. Burned(agent, ToolCost[req.tool] + ActCost) \in Agents
    <3>1. agent.synapse - (ToolCost[req.tool] + ActCost) \in 0..InitialSynapse
      BY <1>a, <2>1 DEF Agents
    <3> QED
      BY <1>a, <3>1 DEF Burned, Agents
  <2>3. paid \in Agents /\ paid.chain = agent.chain /\ paid.lastHash = agent.lastHash
    <3>1. acts \in 0..(RotateEvery - 1)
      BY <1>a DEF Agents
    <3> HIDE DEF acts
    <3>2. paid \in Agents
      BY <2>2, <3>1 DEF Agents
    <3>3. /\ paid.chain = Burned(agent, ToolCost[req.tool] + ActCost).chain
          /\ paid.lastHash = Burned(agent, ToolCost[req.tool] + ActCost).lastHash
      BY <2>2 DEF Agents
    <3> QED
      BY <1>a, <3>2, <3>3, BurnedKeeps
  <2>4. CASE RecordAct(paid, now)
    <3> HIDE DEF paid
    <3>1. Appends(req.tool)
      BY <1>6, <1>a, <2>3, <2>4, RecordActReceipts, ReceiptAppends DEF SettleCommit, ToolReturned
    <3> QED
      BY <1>6, <2>1, <2>4, <3>1 DEF Issues, SettleCommit, ToolReturned, RecordAct
  <2>5. CASE agent' = paid
    <3> HIDE DEF paid
    <3> QED
      BY <2>1, <2>3, <2>5 DEF Keeps
  <2> QED
    BY <1>6, <2>4, <2>5 DEF SettleCommit
<1>7. CASE Refreshed
  <2>1. Appends(req.tool)
    BY <1>7, <1>a, RecordActReceipts, ReceiptAppends DEF Refreshed
  <2> QED
    BY <1>7, <2>1 DEF Refreshed, RecordAct, Issues
<1>8. CASE Audited \/ Relayed \/ FillFile
  BY <1>8, <1>b DEF Audited, Relayed, FillFile, OpenFile, CannotOpenFile
<1>9. CASE AskThink \/ ProviderFails \/ CallRefused \/ CallFails
  BY <1>9, <1>b DEF AskThink, ProviderFails, CallRefused, CallFails
<1>10. CASE ProviderAnswers
  <2> DEFINE b == Burned(agent, ThinkCost)
  <2>1. b \in Agents
    <3>1. agent.synapse - ThinkCost \in 0..InitialSynapse
      BY <1>10, <1>a DEF ProviderAnswers, CanBurn, Agents
    <3> QED
      BY <1>a, <3>1 DEF Burned, Agents
  <2>2. b.chain = agent.chain /\ b.lastHash = agent.lastHash
    BY <1>a, BurnedKeeps
  <2>3. agent' = Issue(b, "think_agentic", now) /\ disk' \in {disk, Torn}
        /\ pc = "provider" /\ pc' \in {"save", "idle"}
    BY <1>10 DEF ProviderAnswers, OpenFile, CannotOpenFile
  <2> HIDE DEF b
  <2>4. Appends("think_agentic")
    BY <2>1, <2>2, <2>3, IssueReceipts, ReceiptAppends
  <2> QED
    BY <2>3, <2>4 DEF Issues
<1>11. CASE ProviderAsksTools
  BY <1>11, <1>a, BurnedKeeps DEF ProviderAsksTools, Keeps
<1>12. CASE CallSucceeds
  <2> DEFINE b == Burned(agent, ToolCost[req.tool])
  <2>1. DOMAIN b = DOMAIN agent /\ b.chain = agent.chain /\ b.lastHash = agent.lastHash
    BY <1>a, BurnedKeeps DEF Burned
  <2>2. agent' = [b EXCEPT !.lastProof = ProofId(req.tool)] /\ disk' = disk
    BY <1>12 DEF CallSucceeds, Proven
  <2>3. DOMAIN agent = {"synapse", "acts", "chain", "lastHash", "lastProof"}
    BY <1>a DEF Agents
  <2> HIDE DEF b
  <2> QED
    BY <2>1, <2>2, <2>3 DEF Keeps
<1>13. CASE \E t \in Tools : CallAllowed(t)
  BY <1>13, <1>b DEF CallAllowed
<1>14. CASE Cancel \/ Crash \/ Tick \/ SabbathBegins \/ SabbathEnds
  BY <1>14, <1>b DEF Cancel, Crash, Tick, SabbathBegins, SabbathEnds
<1>15. CASE Restart \/ Reload
  <2>1. req'.id = req.id
    BY <1>15 DEF Restart, Reload, Typed, TypeOK, Requests
  <2> QED
    BY <1>15, <2>1 DEF Restart, Reload, Restores
<1> QED
  BY <1>1, <1>2, <1>3, <1>4, <1>5, <1>6, <1>7, <1>8, <1>9, <1>10, <1>11, <1>12, <1>13,
     <1>14, <1>15 DEF Next, Act, Think, Environment

(***************************************************************************)
(* The invariant.                                                          *)
(***************************************************************************)
\* ChainVerifies is about the agent and her file together: a restart swaps the
\* one for the other, so neither half is inductive without the other.
IInv == Typed /\ ChainVerifies

\* She is born with an empty chain, in memory and in her file.
LEMMA InitInvariant == Init => IInv
<1> SUFFICES ASSUME Init PROVE ChainVerifies
  BY InitTyped DEF IInv
<1>1. agent.chain = <<>> /\ agent.lastHash = Genesis
  BY DEF Init
<1>2. disk.agent = agent
  BY DEF Init, Snapshot
<1> QED
  BY <1>1, <1>2 DEF ChainVerifies, Linked

\* A receipt that names the last hash and becomes it keeps the chain linked.
LEMMA AppendLinked ==
  ASSUME NEW S, NEW c \in Seq(S), NEW h, NEW r \in S, NEW d, NEW g,
         \A i \in 1..Len(c) : c[i].prev = IF i = 1 THEN Genesis ELSE c[i - 1].id,
         h = IF c = <<>> THEN Genesis ELSE c[Len(c)].id,
         r.prev = h, r.id = g, d = Append(c, r)
  PROVE  /\ \A i \in 1..Len(d) : d[i].prev = IF i = 1 THEN Genesis ELSE d[i - 1].id
         /\ g = IF d = <<>> THEN Genesis ELSE d[Len(d)].id
<1>1. Len(d) = Len(c) + 1 /\ d[Len(d)] = r /\ d # <<>> /\ Len(c) \in Nat
  OBVIOUS
<1>2. \A i \in 1..Len(c) : d[i] = c[i]
  OBVIOUS
<1>3. ASSUME NEW i \in 1..Len(d)
      PROVE  d[i].prev = IF i = 1 THEN Genesis ELSE d[i - 1].id
  <2>1. CASE i \in 1..Len(c)
    <3>1. i = 1 \/ i - 1 \in 1..Len(c)
      BY <1>1, <2>1
    <3> QED
      BY <1>2, <2>1, <3>1
  <2>2. CASE i = Len(c) + 1
    <3>1. i = 1 <=> c = <<>>
      BY <2>2
    <3>2. i # 1 => i - 1 \in 1..Len(c) /\ i - 1 = Len(c)
      BY <1>1, <2>2
    <3> QED
      BY <1>1, <1>2, <2>2, <3>1, <3>2
  <2> QED
    BY <1>1, <2>1, <2>2
<1> QED
  BY <1>1, <1>3

\* Every step of the program keeps both chains linked.
LEMMA NextInvariant == IInv /\ [Next]_vars => IInv'
<1> SUFFICES ASSUME IInv, [Next]_vars PROVE IInv'
  OBVIOUS
<1>1. Typed /\ Typed'
  BY NextTyped DEF IInv
<1>2. CASE UNCHANGED vars
  BY <1>1, <1>2 DEF IInv, ChainVerifies, Linked, vars
<1>3. CASE Keeps
  <2>1. Linked(agent)'
    BY <1>3 DEF Keeps, IInv, ChainVerifies, Linked
  <2>2. Readable(disk)' => Linked(disk.agent)'
    BY <1>3 DEF Keeps, IInv, ChainVerifies, Linked, Readable, Torn, Snapshot
  <2> QED
    BY <1>1, <2>1, <2>2 DEF IInv, ChainVerifies
<1>4. CASE Issues
  <2>1. PICK r \in Receipts' : /\ r.prev = agent.lastHash /\ r.id = agent'.lastHash
                               /\ agent'.chain = Append(agent.chain, r)
    BY <1>4 DEF Issues, Appends
  <2> DEFINE S == Receipts \cup {r}
  <2>2. agent.chain \in Seq(S)
    <3>1. agent.chain \in Seq(Receipts)
      BY <1>1 DEF Typed, TypeOK, Agents
    <3> QED
      BY <3>1
  <2>3. r \in S
    OBVIOUS
  <2> HIDE DEF S
  <2>4. Linked(agent)'
    BY <2>1, <2>2, <2>3, AppendLinked DEF IInv, ChainVerifies, Linked
  <2>5. Readable(disk)' => Linked(disk.agent)'
    BY <1>4 DEF Issues, IInv, ChainVerifies, Linked, Readable, Torn
  <2> QED
    BY <1>1, <2>4, <2>5 DEF IInv, ChainVerifies
<1>5. CASE Restores
  BY <1>1, <1>5 DEF Restores, IInv, ChainVerifies, Linked, Readable
<1> QED
  BY <1>1, <1>2, <1>3, <1>4, <1>5, StepCases

\* Every reachable state satisfies the inductive invariant.
THEOREM Invariance == Spec => []IInv
<1>1. Init => IInv
  BY InitInvariant
<1>2. IInv /\ [Next]_vars => IInv'
  BY NextInvariant
<1> QED
  BY <1>1, <1>2, PTL DEF Spec

\* The state is well typed; in particular no burn, decay or penalty takes the
\* balance below zero or above what the agent was born with.
THEOREM TypeCorrect == Spec => []TypeOK
<1>1. IInv => TypeOK
  BY DEF IInv, Typed
<1> QED
  BY <1>1, Invariance, PTL

\* The receipt chain verifies, in memory and in every readable agent file,
\* through hang-ups, crashes and restarts from older snapshots.
THEOREM ReceiptChain == Spec => []ChainVerifies
<1>1. IInv => ChainVerifies
  BY DEF IInv
<1> QED
  BY <1>1, Invariance, PTL

(***************************************************************************)
(* The file holds no fork.                                                 *)
(***************************************************************************)
\* Appending keeps a prefix a prefix, and every chain is a prefix of itself.
LEMMA PrefixAppend ==
  ASSUME NEW S, NEW c \in Seq(S), NEW d \in Seq(S), NEW r \in S, IsPrefix(d, c)
  PROVE  IsPrefix(d, Append(c, r)) /\ IsPrefix(c, c)
<1>1. Len(d) <= Len(c) /\ Len(d) \in Nat /\ Len(c) \in Nat
  BY DEF IsPrefix
<1>2. SubSeq(d, 1, Len(d)) = SubSeq(c, 1, Len(d))
  BY DEF IsPrefix
<1>3. SubSeq(c, 1, Len(d)) = SubSeq(Append(c, r), 1, Len(d))
  <2>1. \A i \in 1..Len(d) : c[i] = Append(c, r)[i]
    BY <1>1
  <2> QED
    BY <1>1, <2>1
<1>4. Len(Append(c, r)) = Len(c) + 1
  OBVIOUS
<1> QED
  BY <1>1, <1>2, <1>3, <1>4 DEF IsPrefix

\* The chains' types come from IInv.
DiskInv == IInv /\ DiskIsPrefix

\* Every step of the program keeps the file's chain a prefix of the agent's.
LEMMA DiskInvariant == DiskInv /\ [Next]_vars => DiskInv'
<1> SUFFICES ASSUME DiskInv, [Next]_vars PROVE DiskIsPrefix'
  BY NextInvariant DEF DiskInv
<1>1. Typed /\ Typed'
  BY NextTyped DEF DiskInv, IInv
<1>2. agent.chain \in Seq(Receipts) /\ (Readable(disk) => disk.agent.chain \in Seq(Receipts))
  BY <1>1 DEF Typed, TypeOK, Agents, Readable, Torn
<1>3. CASE UNCHANGED vars
  BY <1>3 DEF vars, DiskInv, DiskIsPrefix
<1>4. IsPrefix(agent.chain, agent.chain)
  BY <1>2 DEF IsPrefix
<1>5. CASE Keeps
  BY <1>4, <1>5 DEF Keeps, DiskInv, DiskIsPrefix, Readable, Torn, Snapshot
<1>6. CASE Issues
  <2>1. PICK r \in Receipts' : agent'.chain = Append(agent.chain, r)
    BY <1>6 DEF Issues, Appends
  <2> DEFINE S == Receipts \cup {r}
  <2>2. agent.chain \in Seq(S) /\ (Readable(disk) => disk.agent.chain \in Seq(S)) /\ r \in S
    BY <1>2
  <2> HIDE DEF S
  <2>3. Readable(disk) => IsPrefix(disk.agent.chain, Append(agent.chain, r))
    BY <2>2, PrefixAppend DEF DiskInv, DiskIsPrefix
  <2> QED
    BY <1>6, <2>1, <2>3 DEF Issues, DiskIsPrefix, Readable, Torn
<1>7. CASE Restores
  <2>1. IsPrefix(disk.agent.chain, disk.agent.chain)
    BY <1>2, <1>7 DEF Restores, IsPrefix
  <2> QED
    BY <1>7, <2>1 DEF Restores, DiskIsPrefix, Readable
<1> QED
  BY <1>1, <1>3, <1>5, <1>6, <1>7, StepCases

\* The chain in the file is always a prefix of the chain in memory: a restart
\* loses the newest receipts and nothing else.
THEOREM NoFork == Spec => []DiskIsPrefix
<1>1. Init => DiskInv
  <2>1. ASSUME Init PROVE DiskIsPrefix
    <3>1. agent.chain = <<>> /\ disk.agent = agent
      BY <2>1 DEF Init, Snapshot
    <3> QED
      BY <3>1 DEF DiskIsPrefix, IsPrefix
  <2> QED
    BY <2>1, InitInvariant DEF DiskInv
<1>2. DiskInv /\ [Next]_vars => DiskInv'
  BY DiskInvariant
<1>3. DiskInv => DiskIsPrefix
  BY DEF DiskInv
<1> QED
  BY <1>1, <1>2, <1>3, PTL DEF Spec

-----------------------------------------------------------------------------
(***************************************************************************)
(* Receipts and what really happened: however requests are cut short and   *)
(* whatever a restart loses, an act receipt has its tool run behind it and *)
(* no request has two, for any number of requests and crashes.             *)
(***************************************************************************)
\* Where a request may still be given a receipt.
Open == {"report", "review", "execute", "refresh", "provider", "gateCall", "callTool"}

(***************************************************************************)
(* What a request has done by the time it is where it is: without it       *)
(* nothing would tie the receipt to the tool, which ran awaits ago.        *)
(***************************************************************************)
Witnessed == req.id \in effects

RequestTrue ==
  /\ pc \notin {"idle", "down"} => req.answer = "none"
  /\ pc \in {"provider", "gateCall", "callTool"} => req.kind = "think"
  /\ req.ran = "effect" \/ pc = "refresh" => Witnessed
  /\ pc \in {"audit", "relay", "save"} /\ req.kind = "act" => req.receipted /\ Witnessed
  /\ req.kind = "act" /\ req.answer = "ok" => req.receipted /\ Witnessed

(***************************************************************************)
(* A chain, in memory or in the file: nothing of requests still to come,   *)
(* and each act receipt with its tool run and alone with its request.      *)
(***************************************************************************)
ChainTrue(c) ==
  \A i \in 1..Len(c) :
    /\ c[i].request \in 0..req.id
    /\ c[i].what \in Tools => /\ c[i].request \in effects
                              /\ \A j \in 1..Len(c) : c[j].request = c[i].request => i = j

\* A request that may still be given a receipt has none.
Fresh == pc \in Open => \A i \in 1..Len(agent.chain) : agent.chain[i].request < req.id

WInv ==
  /\ IInv /\ RequestTrue /\ Fresh
  /\ ChainTrue(agent.chain) /\ (Readable(disk) => ChainTrue(disk.agent.chain))

-----------------------------------------------------------------------------
(***************************************************************************)
(* What a step does to the request.                                        *)
(***************************************************************************)
Follows ==
  /\ RequestTrue'
  /\ effects \subseteq effects'
  /\ req'.id \in {req.id, req.id + 1}
  /\ pc' \in Open => req'.id = req.id + 1 \/ (pc \in Open /\ req'.id = req.id)

\* The head of the agentic loop, for the request it goes on with.
LEMMA NextTurnFollows ==
  ASSUME NEW r \in Requests, r.kind = "think", r.ran = "no", r.answer = "none", NextTurn(r)
  PROVE  /\ pc' \in {"provider", "idle"} /\ req'.id = r.id /\ req'.kind = "think"
         /\ req'.ran = "no" /\ (pc' = "provider" => req'.answer = "none")
BY DEF NextTurn, Requests

LEMMA CallDoneFollows ==
  ASSUME Typed, RequestTrue, pc \in {"gateCall", "callTool"}, CallDone, effects' = effects
  PROVE  Follows
<1> DEFINE r == [req EXCEPT !.calls = @ - 1, !.tool = NoTool, !.ran = "no"]
<1>1. req \in Requests /\ req.calls \in 1..MaxCalls /\ req.kind = "think" /\ req.answer = "none"
  BY DEF Typed, TypeOK, InFlight, RequestTrue
<1>2. r \in Requests /\ r.id = req.id /\ r.kind = "think" /\ r.ran = "no" /\ r.answer = "none"
  <2>1. req.calls - 1 \in 0..MaxCalls
    BY <1>1, ConstantTypes
  <2> QED
    BY <1>1, <2>1 DEF Requests, NoTool
<1>3. CASE pc' = "gateCall" /\ req' = r
  <2> HIDE DEF r
  <2> QED
    BY <1>2, <1>3 DEF Follows, RequestTrue, Open, Witnessed
<1>4. CASE NextTurn(r)
  <2> HIDE DEF r
  <2>1. /\ pc' \in {"provider", "idle"} /\ req'.id = r.id /\ req'.kind = "think"
        /\ req'.ran = "no" /\ (pc' = "provider" => req'.answer = "none")
    BY <1>2, <1>4, NextTurnFollows
  <2> QED
    BY <1>2, <2>1 DEF Follows, RequestTrue, Open, Witnessed
<1> QED
  BY <1>3, <1>4 DEF CallDone

LEMMA ActFollows ==
  ASSUME Typed, RequestTrue, Act
  PROVE  Follows
<1> USE DEF RequestTrue, Witnessed, Open, Follows, Return
<1>1. req \in Requests
  BY DEF Typed, TypeOK
<1>2. CASE \E t \in Tools : AskAct(t)
  <2>1. PICK t \in Tools : AskAct(t)
    BY <1>2
  <2>2. req'.id = req.id + 1 /\ req'.ran = "no" /\ req'.answer = "none"
    BY <1>1, <2>1 DEF AskAct, Requests
  <2> QED
    BY <2>1, <2>2 DEF AskAct
<1>3. CASE ReportDenial \/ ReviewBlocks \/ RhythmQueues \/ GatesRefuse \/ ToolFails
  <2>1. /\ pc' = "idle" /\ effects' = effects
        /\ req'.id = req.id /\ req'.ran = req.ran /\ req'.answer \in {"error", "queued"}
    BY <1>1, <1>3 DEF ReportDenial, ReviewBlocks, RhythmQueues, GatesRefuse, ToolFails, Requests
  <2> QED
    BY <2>1
<1>4. CASE GatesPass
  <2>1. /\ pc = "review" /\ pc' = "execute" /\ effects' = effects
        /\ req'.id = req.id /\ req'.ran = req.ran /\ req'.answer = req.answer
    BY <1>1, <1>4 DEF GatesPass, Requests
  <2> QED
    BY <2>1
<1>5. CASE ToolEffect
  <2>1. /\ pc' = pc /\ pc \in {"execute", "callTool"} /\ effects' = effects \cup {req.id}
        /\ req'.id = req.id /\ req'.kind = req.kind /\ req'.answer = req.answer
        /\ req'.receipted = req.receipted
    BY <1>1, <1>5 DEF ToolEffect, Requests
  <2> QED
    BY <2>1
<1>6. CASE SettleUnpaidTool \/ SettleDenied
  <2>1. /\ pc' = "idle" /\ effects' = effects
        /\ req'.id = req.id /\ req'.ran = "ok" /\ req'.answer = "error"
    BY <1>1, <1>6 DEF SettleUnpaidTool, SettleDenied, Requests
  <2> QED
    BY <2>1
<1>7. CASE SettleCommit
  <2>1. /\ pc = "execute" /\ req.ran = "effect" /\ effects' = effects
        /\ req'.id = req.id /\ req'.ran = "ok" /\ req'.answer = req.answer
        /\ pc' = "refresh" \/ (pc' = "audit" /\ req'.receipted)
    BY <1>1, <1>7 DEF SettleCommit, ToolReturned, RecordAct, Requests
  <2> QED
    BY <2>1
<1>8. CASE Refreshed
  <2>1. /\ pc = "refresh" /\ pc' = "audit" /\ effects' = effects
        /\ req'.id = req.id /\ req'.ran = req.ran /\ req'.answer = req.answer /\ req'.receipted
    BY <1>1, <1>8 DEF Refreshed, RecordAct, Requests
  <2> QED
    BY <2>1
<1>9. CASE Audited
  BY <1>9 DEF Audited
<1>10. CASE Relayed \/ FillFile
  <2>1. /\ pc \in {"relay", "save"} /\ effects' = effects
        /\ req'.id = req.id /\ req'.ran = req.ran /\ req'.kind = req.kind
        /\ req'.receipted = req.receipted
        /\ (pc' = "save" /\ req'.answer = req.answer) \/ (pc' = "idle" /\ req'.answer = "ok")
    BY <1>1, <1>10 DEF Relayed, FillFile, OpenFile, CannotOpenFile, Requests
  <2> QED
    BY <2>1
<1> QED
  BY <1>2, <1>3, <1>4, <1>5, <1>6, <1>7, <1>8, <1>9, <1>10 DEF Act

LEMMA ThinkFollows ==
  ASSUME Typed, RequestTrue, Think
  PROVE  Follows
<1>1. req \in Requests
  BY DEF Typed, TypeOK
<1>2. CASE AskThink
  <2> DEFINE r == [req EXCEPT !.id = @ + 1, !.kind = "think", !.tool = NoTool, !.ran = "no",
                              !.receipted = FALSE, !.answer = "none", !.turn = 0]
  <2>1. NextTurn(r) /\ effects' = effects /\ req.id < MaxRequests
    BY <1>2 DEF AskThink
  <2>2. /\ r \in Requests /\ r.id = req.id + 1 /\ r.kind = "think"
        /\ r.ran = "no" /\ r.answer = "none"
    <3> DEFINE n == req.id + 1
    <3>1. n \in 0..MaxRequests /\ 0 \in 0..MaxTurns
      BY <1>1, <2>1, ConstantTypes DEF Requests
    <3>2. r = [req EXCEPT !.id = n, !.kind = "think", !.tool = NoTool, !.ran = "no",
                          !.receipted = FALSE, !.answer = "none", !.turn = 0]
      BY <1>1 DEF Requests
    <3> HIDE DEF n, r
    <3>3. r \in Requests
      BY <1>1, <3>1, <3>2 DEF Requests
    <3>4. r.id = n /\ r.kind = "think" /\ r.ran = "no" /\ r.answer = "none"
      BY <1>1, <3>2 DEF Requests
    <3> QED
      BY <3>3, <3>4 DEF n
  <2> HIDE DEF r
  <2>3. /\ pc' \in {"provider", "idle"} /\ req'.id = r.id /\ req'.kind = "think"
        /\ req'.ran = "no" /\ (pc' = "provider" => req'.answer = "none")
    BY <2>1, <2>2, NextTurnFollows
  <2> QED
    BY <2>1, <2>2, <2>3 DEF Follows, RequestTrue, Open
<1>3. CASE ProviderFails \/ ProviderAnswers \/ ProviderAsksTools
  <2>1. /\ pc = "provider" /\ effects' = effects /\ pc' \in {"idle", "save", "gateCall"}
        /\ req'.id = req.id /\ req'.ran = req.ran /\ req'.kind = req.kind
        /\ pc' # "idle" => req'.answer = req.answer
    BY <1>1, <1>3 DEF ProviderFails, ProviderAnswers, ProviderAsksTools, Return,
                      OpenFile, CannotOpenFile, Requests
  <2> QED
    BY <2>1 DEF Follows, RequestTrue, Open, Witnessed
<1>4. CASE CallRefused \/ CallFails \/ CallSucceeds
  <2>1. pc \in {"gateCall", "callTool"} /\ CallDone /\ effects' = effects
    BY <1>4 DEF CallRefused, CallFails, CallSucceeds
  <2> QED
    BY <2>1, CallDoneFollows
<1>5. CASE \E t \in Tools : CallAllowed(t)
  <2>1. PICK t \in Tools : CallAllowed(t)
    BY <1>5
  <2>2. /\ pc = "gateCall" /\ pc' = "callTool" /\ effects' = effects
        /\ req'.id = req.id /\ req'.ran = req.ran /\ req'.kind = req.kind
        /\ req'.answer = req.answer
    BY <1>1, <2>1 DEF CallAllowed, Requests
  <2> QED
    BY <2>2 DEF Follows, RequestTrue, Open, Witnessed
<1> QED
  BY <1>2, <1>3, <1>4, <1>5 DEF Think

LEMMA EnvironmentFollows ==
  ASSUME Typed, RequestTrue, Environment
  PROVE  Follows
<1> USE DEF RequestTrue, Witnessed, Open, Follows, Return
<1>1. req \in Requests
  BY DEF Typed, TypeOK
<1>2. CASE Cancel
  <2>1. /\ pc' = "idle" /\ effects' = effects
        /\ req'.id = req.id /\ req'.ran = req.ran /\ req'.answer = "cancelled"
    BY <1>1, <1>2 DEF Cancel, Requests
  <2> QED
    BY <2>1
<1>3. CASE Restart
  <2>1. /\ pc' = "idle" /\ effects' = effects
        /\ req'.id = req.id /\ req'.ran = "no" /\ req'.answer = "none"
    BY <1>1, <1>3 DEF Restart, Requests
  <2> QED
    BY <2>1
<1>4. CASE Crash
  BY <1>4 DEF Crash
<1>5. CASE Reload \/ Tick \/ SabbathBegins \/ SabbathEnds
  BY <1>5 DEF Reload, Tick, SabbathBegins, SabbathEnds
<1> QED
  BY <1>2, <1>3, <1>4, <1>5 DEF Environment

-----------------------------------------------------------------------------
\* What ChainTrue will say of the chain c after the step.
Carried(c) ==
  \A i \in 1..Len(c) :
    /\ c[i].request \in 0..req'.id
    /\ c[i].what \in Tools => /\ c[i].request \in effects'
                              /\ \A j \in 1..Len(c) : c[j].request = c[i].request => i = j

\* More requests and more effects take nothing from a chain.
LEMMA ChainStays ==
  ASSUME NEW c, ChainTrue(c), effects \subseteq effects', req.id \in Nat,
         req'.id \in {req.id, req.id + 1}
  PROVE  Carried(c)
BY DEF ChainTrue, Carried

\* The receipt of a request that had none.
LEMMA ChainExtends ==
  ASSUME NEW S, NEW c \in Seq(S), NEW r \in S, ChainTrue(c),
         \A i \in 1..Len(c) : c[i].request < req.id,
         req.id \in Nat, r.request = req.id, r.what \in Tools => Witnessed
  PROVE  ChainTrue(Append(c, r))
<1> DEFINE d == Append(c, r)
<1>1. /\ Len(d) = Len(c) + 1 /\ d[Len(c) + 1] = r /\ Len(c) \in Nat
      /\ \A i \in 1..Len(c) : d[i] = c[i]
  OBVIOUS
<1> HIDE DEF d
<1>2. \A i \in 1..Len(c) : d[i].request # r.request
  BY <1>1 DEF ChainTrue
<1>3. ASSUME NEW i \in 1..Len(d)
      PROVE  /\ d[i].request \in 0..req.id
             /\ d[i].what \in Tools =>
                  /\ d[i].request \in effects
                  /\ \A j \in 1..Len(d) : d[j].request = d[i].request => i = j
  <2>1. CASE i \in 1..Len(c)
    BY <1>1, <1>2, <2>1 DEF ChainTrue
  <2>2. CASE i = Len(c) + 1
    BY <1>1, <1>2, <2>2 DEF Witnessed
  <2> QED
    BY <1>1, <2>1, <2>2
<1> QED
  BY <1>3 DEF ChainTrue, d

LEMMA InitWitnessed == Init => WInv
<1> SUFFICES ASSUME Init PROVE WInv
  OBVIOUS
<1>1. agent.chain = <<>> /\ disk.agent = agent
  BY DEF Init, Snapshot
<1>2. RequestTrue /\ Fresh
  BY DEF Init, RequestTrue, Fresh, Open
<1>3. ChainTrue(agent.chain) /\ ChainTrue(disk.agent.chain)
  BY <1>1 DEF ChainTrue
<1> QED
  BY <1>2, <1>3, InitInvariant DEF WInv

LEMMA NextWitnessed == WInv /\ [Next]_vars => WInv'
<1> SUFFICES ASSUME WInv, [Next]_vars PROVE WInv'
  OBVIOUS
<1>1. IInv /\ IInv' /\ Typed /\ Typed'
  BY NextInvariant DEF WInv, IInv
<1>2. req.id \in Nat /\ agent.chain \in Seq(Receipts)
  BY <1>1, ConstantTypes DEF Typed, TypeOK, Requests, Agents
<1>3. CASE UNCHANGED vars
  BY <1>1, <1>3 DEF vars, WInv, RequestTrue, Witnessed, Fresh, ChainTrue, Readable
<1>4. CASE Next
  <2>1. Follows
    BY <1>1, <1>4, ActFollows, ThinkFollows, EnvironmentFollows DEF WInv, Next
  <2>2. effects \subseteq effects' /\ req'.id \in {req.id, req.id + 1} /\ RequestTrue'
    BY <2>1 DEF Follows
  <2>3. ChainTrue(agent.chain) /\ Carried(agent.chain)
    BY <1>2, <2>2, ChainStays DEF WInv
  <2>4. Readable(disk) => Carried(disk.agent.chain)
    BY <1>2, <2>2, ChainStays DEF WInv
  <2>5. CASE Keeps
    <3>1. ChainTrue(agent.chain)'
      BY <2>3, <2>5 DEF Keeps, ChainTrue, Carried
    <3>2. (Readable(disk) => ChainTrue(disk.agent.chain))'
      BY <2>3, <2>4, <2>5 DEF Keeps, Readable, Torn, Snapshot, ChainTrue, Carried
    <3>3. Fresh'
      <4> SUFFICES ASSUME pc' \in Open, NEW i \in 1..Len(agent.chain)
                   PROVE  agent.chain[i].request < req'.id
        BY <2>5 DEF Fresh, Keeps
      <4>1. agent.chain[i].request \in 0..req.id
        BY <2>3 DEF ChainTrue
      <4>2. req'.id = req.id + 1 \/ (req'.id = req.id /\ agent.chain[i].request < req.id)
        BY <2>1 DEF Follows, WInv, Fresh
      <4> QED
        BY <1>2, <4>1, <4>2
    <3> QED
      BY <1>1, <2>2, <3>1, <3>2, <3>3 DEF WInv
  <2>6. CASE Issues
    <3>1. PICK r \in Receipts' :
            /\ r.request = req.id
            /\ r.what = IF pc = "provider" THEN "think_agentic" ELSE req.tool
            /\ agent'.chain = Append(agent.chain, r)
      BY <2>6 DEF Issues, Appends
    <3>2. r.what \in Tools => Witnessed
      BY <2>6, <3>1, StewardAssumption
      DEF Issues, StewardAssumption, ToolReturned, WInv, RequestTrue
    <3>3. \A i \in 1..Len(agent.chain) : agent.chain[i].request < req.id
      BY <2>6 DEF Issues, ToolReturned, WInv, Fresh, Open
    <3> DEFINE S == Receipts \cup {r}
    <3>4. agent.chain \in Seq(S) /\ r \in S
      BY <1>2
    <3> HIDE DEF S
    <3>5. ChainTrue(Append(agent.chain, r))
      BY <1>2, <2>3, <3>1, <3>2, <3>3, <3>4, ChainExtends
    <3>6. Carried(Append(agent.chain, r))
      BY <1>2, <2>2, <3>5, ChainStays
    <3>7. ChainTrue(agent.chain)'
      BY <3>1, <3>6 DEF ChainTrue, Carried
    <3>8. (Readable(disk) => ChainTrue(disk.agent.chain))'
      BY <2>4, <2>6 DEF Issues, Readable, Torn, ChainTrue, Carried
    <3>9. Fresh'
      BY <2>6 DEF Issues, Fresh, Open
    <3> QED
      BY <1>1, <2>2, <3>7, <3>8, <3>9 DEF WInv
  <2>7. CASE Restores
    <3>1. ChainTrue(agent.chain)' /\ (Readable(disk) => ChainTrue(disk.agent.chain))'
      BY <2>4, <2>7 DEF Restores, Readable, ChainTrue, Carried
    <3>2. Fresh'
      BY <2>7 DEF Restores, Fresh, Open
    <3> QED
      BY <1>1, <2>2, <3>1, <3>2 DEF WInv
  <2> QED
    BY <1>1, <1>4, <2>5, <2>6, <2>7, StepCases
<1> QED
  BY <1>3, <1>4

\* In every state the steward can reach, what a request has done agrees with
\* where it is, and both chains, in memory and in the agent file, are true.
THEOREM WitnessInvariant == Spec => []WInv
BY InitWitnessed, NextWitnessed, PTL DEF Spec

\* Statement::Act writes the receipt awaits after tool.execute, and a client
\* that hangs up, a crash or a resume may come in between: still every act
\* receipt of the chain has its tool run behind it, no request has two, and a
\* direct act answered Ok has one.
THEOREM ReceiptsStand == Spec => []ReceiptsWitnessed
<1>1. WInv => ReceiptsWitnessed
  BY DEF WInv, RequestTrue, Witnessed, ChainTrue, ReceiptsWitnessed
<1> QED
  BY <1>1, WitnessInvariant, PTL

-----------------------------------------------------------------------------
(***************************************************************************)
(* Receipts and the balance.                                               *)
(***************************************************************************)
LEMMA FeeNat == \A r : Fee(r) \in Nat
BY ConstantTypes DEF Fee

LEMMA FeesEmpty == Fees(<<>>) = 0
<1>1. DOMAIN <<>> = {}
  OBVIOUS
<1> QED
  BY <1>1, SumEmpty DEF Fees, SumFunction

LEMMA FeesAppend ==
  ASSUME NEW S, NEW c \in Seq(S), NEW r \in S
  PROVE  Fees(c) \in Nat /\ Fees(Append(c, r)) = Fees(c) + Fee(r)
<1> DEFINE d == Append(c, r)
           n == Len(c)
           f == [i \in DOMAIN c |-> Fee(c[i])]
           g == [i \in DOMAIN d |-> Fee(d[i])]
<1>1. /\ DOMAIN c = 1..n /\ DOMAIN d = (1..n) \cup {n + 1} /\ n + 1 \notin 1..n
      /\ d[n + 1] = r /\ \A i \in 1..n : d[i] = c[i]
  OBVIOUS
<1>2. n \in Nat
  OBVIOUS
<1>3. IsFiniteSet(1..n)
  BY <1>2, FS_Interval
<1>4. /\ \A i \in 1..n : f[i] \in Nat /\ g[i] = f[i]
      /\ \A i \in (1..n) \cup {n + 1} : g[i] \in Nat
      /\ g[n + 1] = Fee(r) /\ DOMAIN f = 1..n /\ DOMAIN g = (1..n) \cup {n + 1}
  BY <1>1, FeeNat
<1>5. Fees(c) = SumFunctionOnSet(f, 1..n) /\ Fees(d) = SumFunctionOnSet(g, (1..n) \cup {n + 1})
  BY <1>4 DEF Fees, SumFunction
<1> HIDE DEF f, g, n, d
<1>6. SumFunctionOnSet(f, 1..n) \in Nat
  BY <1>3, <1>4, SumNat
<1>7. SumFunctionOnSet(g, 1..n) = SumFunctionOnSet(f, 1..n)
  <2>1. \A i \in 1..n : g[i] = f[i]
    BY <1>4
  <2> QED
    BY <1>3, <2>1, SumCongruent
<1>8. SumFunctionOnSet(g, (1..n) \cup {n + 1}) = g[n + 1] + SumFunctionOnSet(g, 1..n)
  BY <1>1, <1>3, <1>4, SumAdd
<1>9. Fee(r) \in Nat
  BY FeeNat
<1> QED
  BY <1>4, <1>5, <1>6, <1>7, <1>8, <1>9 DEF d

\* What a commit has burned for a receipt that a key rotation still holds back.
Owed == IF pc = "refresh" THEN ToolCost[req.tool] + ActCost ELSE 0

(***************************************************************************)
(* What a step does to the balance: the chain stays, and she is not the    *)
(* richer for it, or one receipt is appended and its fee burned, or the    *)
(* agent in the file goes on.                                              *)
(***************************************************************************)
Spends ==
  /\ agent'.chain = agent.chain /\ disk' \in {disk, Torn, Snapshot(agent)}
  /\ agent'.synapse + Owed' <= agent.synapse + Owed

Pays ==
  \E r \in Receipts' : /\ agent'.chain = Append(agent.chain, r)
                       /\ agent'.synapse + Fee(r) <= agent.synapse + Owed
                       /\ Owed' = 0 /\ disk' \in {disk, Torn}

LEMMA OwedNat == Typed => Owed \in Nat
BY ConstantTypes DEF Typed, InFlight, Owed

\* Nothing but a commit owes.
LEMMA OwesNothing ==
  ASSUME Typed, pc' # "refresh" \/ (pc' = pc /\ req' = req)
  PROVE  Owed' \in Nat /\ Owed' <= Owed
<1>1. CASE pc' # "refresh"
  BY <1>1, OwedNat DEF Owed
<1>2. CASE pc' = pc /\ req' = req
  BY <1>2, OwedNat DEF Owed
<1> QED
  BY <1>1, <1>2

\* Integers of a step, without their primes.
LEMMA NoRicher ==
  ASSUME NEW a \in Nat, NEW b \in Nat, NEW c \in Nat, NEW d \in Nat, a <= c, b <= d
  PROVE  a + b <= c + d
OBVIOUS

LEMMA Cover ==
  ASSUME NEW a \in Nat, NEW b \in Nat, NEW c \in Nat, NEW d \in Nat, NEW f \in Nat, NEW n \in Nat,
         a + b <= c + d, c + d + f <= n
  PROVE  a + b + f <= n
OBVIOUS

LEMMA Shuffle ==
  ASSUME NEW a \in Nat, NEW b \in Nat, NEW f \in Nat, NEW n \in Nat, a + b + f <= n
  PROVE  a + 0 + (f + b) <= n
OBVIOUS

LEMMA SpendsLess ==
  ASSUME Typed, Typed', agent'.chain = agent.chain, disk' \in {disk, Torn, Snapshot(agent)},
         agent'.synapse <= agent.synapse, pc' # "refresh" \/ (pc' = pc /\ req' = req)
  PROVE  Spends
<1>1. agent.synapse \in Nat /\ agent'.synapse \in Nat
  BY ConstantTypes DEF Typed, TypeOK, Agents
<1>2. Owed \in Nat /\ Owed' \in Nat /\ Owed' <= Owed
  BY OwedNat, OwesNothing
<1>3. agent'.synapse + Owed' <= agent.synapse + Owed
  BY <1>1, <1>2, NoRicher
<1> QED
  BY <1>3 DEF Spends


LEMMA BurnedSynapse ==
  ASSUME NEW a \in Agents, NEW n \in Nat, n <= a.synapse
  PROVE  /\ Burned(a, n) \in Agents /\ Burned(a, n).chain = a.chain
         /\ Burned(a, n).lastHash = a.lastHash /\ Burned(a, n).lastProof = a.lastProof
         /\ Burned(a, n).synapse = a.synapse - n /\ a.synapse - n <= a.synapse
<1>1. a.synapse - n \in 0..InitialSynapse /\ a.synapse - n <= a.synapse
  BY ConstantTypes DEF Agents
<1> QED
  BY <1>1 DEF Burned, Agents

LEMMA StepSpends ==
  ASSUME Typed, Typed', Next
  PROVE  Spends \/ Pays \/ Restores
<1> USE DEF Return
<1>a. agent \in Agents /\ agent.synapse \in Nat /\ agent.synapse <= agent.synapse
  BY ConstantTypes DEF Typed, TypeOK, Agents
<1>b. ASSUME agent' = agent, disk' \in {disk, Torn, Snapshot(agent)},
             pc' # "refresh" \/ (pc' = pc /\ req' = req)
      PROVE  Spends
  BY <1>a, <1>b, SpendsLess
<1>1. CASE \E t \in Tools : AskAct(t)
  BY <1>1, <1>b DEF AskAct
<1>2. CASE ReportDenial \/ ReviewBlocks \/ ToolEffect \/ ToolFails \/ SettleUnpaidTool
  BY <1>2, <1>b DEF ReportDenial, ReviewBlocks, ToolEffect, ToolFails, SettleUnpaidTool
<1>3. CASE RhythmQueues \/ GatesRefuse \/ GatesPass
  <2>1. Decay /\ disk' = disk /\ pc' # "refresh"
    BY <1>3 DEF RhythmQueues, GatesRefuse, GatesPass
  <2>2. PICK d \in 0..DecayLoss : d <= agent.synapse /\ agent' = [agent EXCEPT !.synapse = @ - d]
    BY <2>1 DEF Decay
  <2>3. agent'.chain = agent.chain /\ agent'.synapse = agent.synapse - d
    BY <1>a, <2>2 DEF Agents
  <2>4. agent.synapse - d <= agent.synapse
    BY <1>a, ConstantTypes
  <2> QED
    BY <2>1, <2>3, <2>4, SpendsLess
<1>4. CASE SettleDenied
  <2>1. ToolCost[req.tool] \in Nat /\ ToolCost[req.tool] <= agent.synapse
    BY <1>4, <1>a, ConstantTypes DEF SettleDenied, ToolReturned, CanBurn, Typed, InFlight
  <2>2. agent' = Burned(agent, ToolCost[req.tool]) /\ disk' = disk /\ pc' = "idle"
    BY <1>4 DEF SettleDenied
  <2>3. agent'.chain = agent.chain /\ agent'.synapse <= agent.synapse
    BY <1>a, <2>1, <2>2, BurnedSynapse
  <2> QED
    BY <2>2, <2>3, SpendsLess
<1>5. CASE SettleCommit
  <2> DEFINE cost == ToolCost[req.tool] + ActCost
             acts == (agent.acts + 1) % RotateEvery
             paid == [Burned(agent, cost) EXCEPT !.acts = acts]
  <2>1. req.tool \in Tools /\ cost \in Nat /\ cost <= agent.synapse /\ pc = "execute"
        /\ disk' = disk
    BY <1>5, <1>a, ConstantTypes DEF SettleCommit, ToolReturned, CanBurn, Typed, InFlight
  <2>2. acts \in 0..(RotateEvery - 1)
    BY <1>a, ConstantTypes DEF Agents
  <2>3. RecordAct(paid, now) \/ (agent' = paid /\ pc' = "refresh" /\ req'.tool = req.tool)
    BY <1>5 DEF SettleCommit, Typed, TypeOK, Requests
  <2>4. Owed = 0 /\ Owed \in Nat /\ \A r : r.what = req.tool => Fee(r) = cost
    BY <2>1 DEF Owed, Fee
  <2>5. pc' = "refresh" /\ req'.tool = req.tool => Owed' = cost
    BY DEF Owed
  <2>6. RecordAct(paid, now) => Owed' = 0
    BY DEF RecordAct, Owed
  <2> HIDE DEF acts
  <2>7. /\ paid \in Agents /\ paid.chain = agent.chain /\ paid.lastHash = agent.lastHash
        /\ paid.synapse = agent.synapse - cost
    <3>1. Burned(agent, cost) \in Agents
          /\ Burned(agent, cost).chain = agent.chain /\ Burned(agent, cost).lastHash = agent.lastHash
          /\ Burned(agent, cost).synapse = agent.synapse - cost
      BY <1>a, <2>1, BurnedSynapse
    <3> QED
      BY <2>2, <3>1 DEF Agents
  <2> HIDE DEF paid, cost
  <2>8. paid.synapse + cost <= agent.synapse + Owed
    BY <1>a, <2>1, <2>4, <2>7
  <2>9. CASE RecordAct(paid, now)
    <3>1. PICK r : Receipted(r, req.tool, now)
      BY <2>7, <2>9, RecordActReceipts
    <3>2. agent'.synapse <= paid.synapse
      BY <2>7, <2>9, RecordActReceipts
    <3>3. agent'.synapse \in Nat /\ paid.synapse \in Nat
      BY <2>7, ConstantTypes DEF Typed, TypeOK, Agents
    <3>4. agent'.synapse + cost <= paid.synapse + cost
      BY <2>1, <3>2, <3>3, NoRicher
    <3>5. r \in Receipts' /\ agent'.chain = Append(agent.chain, r) /\ Fee(r) = cost
      BY <2>4, <3>1 DEF Receipted
    <3> DEFINE left == agent'.synapse
    <3>6. left \in Nat /\ left + cost <= agent.synapse + Owed
      <4> HIDE DEF left
      <4>1. left \in Nat /\ left + cost <= paid.synapse + cost
        BY <3>3, <3>4 DEF left
      <4> QED
        BY <1>a, <2>1, <2>4, <2>8, <3>3, <4>1
    <3> QED
      BY <2>1, <2>6, <2>9, <3>5, <3>6 DEF Pays
  <2>10. CASE agent' = paid /\ pc' = "refresh" /\ req'.tool = req.tool
    BY <2>1, <2>5, <2>7, <2>8, <2>10 DEF Spends
  <2> QED
    BY <2>3, <2>9, <2>10
<1>6. CASE Refreshed
  <2>1. RecordAct(agent, req.settled) /\ disk' = disk /\ pc = "refresh" /\ Owed' = 0
    BY <1>6 DEF Refreshed, RecordAct, Owed
  <2>2. PICK r : Receipted(r, req.tool, req.settled)
    BY <1>a, <2>1, RecordActReceipts
  <2>3. agent'.synapse <= agent.synapse
    BY <1>a, <2>1, RecordActReceipts
  <2>4. req.tool \in Tools
    BY <2>1 DEF Typed, InFlight
  <2>5. Fee(r) = Owed /\ Owed \in Nat
    BY <2>1, <2>2, <2>4, OwedNat DEF Receipted, Fee, Owed
  <2>6. agent'.synapse \in Nat
    BY ConstantTypes DEF Typed, TypeOK, Agents
  <2>7. agent'.synapse + Fee(r) <= agent.synapse + Owed
    BY <1>a, <2>3, <2>5, <2>6, NoRicher
  <2> QED
    BY <2>1, <2>2, <2>7 DEF Receipted, Pays
<1>7. CASE Audited \/ Relayed \/ FillFile
  BY <1>7, <1>b DEF Audited, Relayed, FillFile, OpenFile, CannotOpenFile
<1>8. CASE AskThink \/ CallRefused \/ CallFails
  BY <1>8, <1>b DEF AskThink, CallRefused, CallFails, CallDone, NextTurn
<1>9. CASE ProviderFails
  BY <1>9, <1>b DEF ProviderFails
<1>10. CASE ProviderAnswers
  <2> DEFINE b == Burned(agent, ThinkCost)
  <2>1. ThinkCost \in Nat /\ ThinkCost <= agent.synapse
    BY <1>10, <1>a, ConstantTypes DEF ProviderAnswers, CanBurn
  <2>2. b \in Agents /\ b.chain = agent.chain /\ b.lastHash = agent.lastHash
        /\ b.synapse = agent.synapse - ThinkCost
    BY <1>a, <2>1, BurnedSynapse
  <2>3. agent' = Issue(b, "think_agentic", now) /\ disk' \in {disk, Torn}
        /\ pc = "provider" /\ pc' \in {"save", "idle"}
    BY <1>10 DEF ProviderAnswers, OpenFile, CannotOpenFile
  <2> HIDE DEF b
  <2>4. PICK r : Receipted(r, "think_agentic", now)
    BY <2>2, <2>3, IssueReceipts
  <2>5. agent'.synapse = b.synapse
    BY <2>2, <2>3, IssueReceipts
  <2>6. Owed' = 0 /\ Owed = 0 /\ Fee(r) = ThinkCost
    BY <2>3, <2>4, StewardAssumption DEF Owed, Receipted, Fee
  <2>7. agent'.synapse + Fee(r) <= agent.synapse + Owed
    <3>1. (agent.synapse - ThinkCost) + ThinkCost <= agent.synapse + 0
      BY <1>a, <2>1
    <3> QED
      BY <2>2, <2>5, <2>6, <3>1
  <2> QED
    BY <2>3, <2>4, <2>6, <2>7 DEF Receipted, Pays
<1>11. CASE ProviderAsksTools
  <2>1. ThinkCost \in Nat /\ ThinkCost <= agent.synapse
    BY <1>11, <1>a, ConstantTypes DEF ProviderAsksTools, CanBurn
  <2>2. agent' = Burned(agent, ThinkCost) /\ disk' = disk /\ pc' # "refresh"
    BY <1>11 DEF ProviderAsksTools
  <2>3. agent'.chain = agent.chain /\ agent'.synapse <= agent.synapse
    BY <1>a, <2>1, <2>2, BurnedSynapse
  <2> QED
    BY <2>2, <2>3, SpendsLess
<1>12. CASE CallSucceeds
  <2> DEFINE b == Burned(agent, ToolCost[req.tool])
  <2>1. ToolCost[req.tool] \in Nat /\ ToolCost[req.tool] <= agent.synapse
    BY <1>12, <1>a, ConstantTypes DEF CallSucceeds, CanBurn, Typed, InFlight
  <2>2. b \in Agents /\ b.chain = agent.chain /\ b.synapse <= agent.synapse
    BY <1>a, <2>1, BurnedSynapse
  <2>3. agent' = [b EXCEPT !.lastProof = ProofId(req.tool)] /\ disk' = disk /\ pc' # "refresh"
    BY <1>12 DEF CallSucceeds, Proven, CallDone, NextTurn
  <2> HIDE DEF b
  <2>4. agent'.chain = b.chain /\ agent'.synapse = b.synapse
    BY <2>2, <2>3 DEF Agents
  <2> QED
    BY <2>2, <2>3, <2>4, SpendsLess
<1>13. CASE \E t \in Tools : CallAllowed(t)
  BY <1>13, <1>b DEF CallAllowed
<1>14. CASE Cancel \/ Crash \/ Tick \/ SabbathBegins \/ SabbathEnds
  BY <1>14, <1>b DEF Cancel, Crash, Tick, SabbathBegins, SabbathEnds, Clock
<1>15. CASE Restart \/ Reload
  <2>1. req'.id = req.id
    BY <1>15 DEF Restart, Reload, Typed, TypeOK, Requests
  <2> QED
    BY <1>15, <2>1 DEF Restart, Reload, Restores
<1> QED
  BY <1>1, <1>2, <1>3, <1>4, <1>5, <1>6, <1>7, <1>8, <1>9, <1>10, <1>11, <1>12, <1>13,
     <1>14, <1>15 DEF Next, Act, Think, Environment

\* A receipt held back is already paid for: without it the balance and the chain
\* alone would not say that the receipt still to come is covered.
Paid ==
  /\ agent.synapse + Owed + Fees(agent.chain) <= InitialSynapse
  /\ Readable(disk) => disk.agent.synapse + Fees(disk.agent.chain) <= InitialSynapse

LEMMA FeesOfChains ==
  ASSUME Typed
  PROVE  /\ agent.synapse \in Nat /\ Fees(agent.chain) \in Nat
         /\ Readable(disk) => disk.agent.synapse \in Nat /\ Fees(disk.agent.chain) \in Nat
<1>1. \A a \in Agents : a.synapse \in Nat /\ a.chain \in Seq(Receipts)
  BY ConstantTypes DEF Agents
<1>2. ASSUME NEW c \in Seq(Receipts) PROVE Fees(c) \in Nat
  <2> DEFINE S == Receipts \cup {c}
  <2>1. c \in Seq(S) /\ c \in S
    OBVIOUS
  <2> HIDE DEF S
  <2> QED
    BY <2>1, FeesAppend
<1> QED
  BY <1>1, <1>2 DEF Typed, TypeOK, Readable, Torn

LEMMA NextPaid == IInv /\ Paid /\ [Next]_vars => Paid'
<1> SUFFICES ASSUME IInv, Paid, [Next]_vars PROVE Paid'
  OBVIOUS
<1>1. Typed /\ Typed'
  BY NextTyped DEF IInv
<1>2. /\ agent.synapse \in Nat /\ Fees(agent.chain) \in Nat /\ Owed \in Nat
      /\ agent'.synapse \in Nat /\ InitialSynapse \in Nat
  <2>1. agent'.synapse \in Nat
    BY <1>1, ConstantTypes DEF Typed, TypeOK, Agents
  <2> QED
    BY <1>1, <2>1, FeesOfChains, OwedNat, ConstantTypes
<1>3. Owed' \in Nat
  <2>1. pc' = "refresh" => req'.tool \in Tools
    BY <1>1 DEF Typed, InFlight
  <2> QED
    BY <2>1, ConstantTypes DEF Owed
<1>4. CASE UNCHANGED vars
  BY <1>4 DEF vars, Paid, Owed, Readable
<1>5. CASE Spends
  <2>1. agent'.synapse + Owed' + Fees(agent.chain) <= InitialSynapse
    BY <1>2, <1>3, <1>5, Cover DEF Spends, Paid
  <2>2. agent.synapse + Fees(agent.chain) <= InitialSynapse
    BY <1>2 DEF Paid
  <2>3. Readable(disk)' => disk'.agent.synapse + Fees(disk'.agent.chain) <= InitialSynapse
    BY <1>5, <2>2 DEF Spends, Paid, Readable, Torn, Snapshot
  <2> QED
    BY <1>5, <2>1, <2>3 DEF Paid, Spends
<1>6. CASE Pays
  <2>1. PICK r \in Receipts' : /\ agent'.chain = Append(agent.chain, r)
                               /\ agent'.synapse + Fee(r) <= agent.synapse + Owed
                               /\ Owed' = 0 /\ disk' \in {disk, Torn}
    BY <1>6 DEF Pays
  <2> DEFINE S == Receipts \cup {r}
  <2>2. agent.chain \in Seq(S) /\ r \in S
    <3>1. agent.chain \in Seq(Receipts)
      BY <1>1 DEF Typed, TypeOK, Agents
    <3> QED
      BY <3>1
  <2> HIDE DEF S
  <2>3. Fees(agent'.chain) = Fees(agent.chain) + Fee(r) /\ Fee(r) \in Nat
    BY <2>1, <2>2, FeesAppend, FeeNat
  <2>4. agent'.synapse + Fee(r) + Fees(agent.chain) <= InitialSynapse
    BY <1>2, <2>1, <2>3, Cover DEF Paid
  <2>5. agent'.synapse + 0 + (Fees(agent.chain) + Fee(r)) <= InitialSynapse
    BY <1>2, <2>3, <2>4, Shuffle
  <2>6. Readable(disk)' => disk'.agent.synapse + Fees(disk'.agent.chain) <= InitialSynapse
    BY <2>1 DEF Paid, Readable, Torn
  <2> QED
    BY <2>1, <2>3, <2>5, <2>6 DEF Paid
<1>7. CASE Restores
  <2>1. Owed' = 0 /\ agent' = disk.agent /\ disk' = disk /\ Readable(disk)
    BY <1>7 DEF Restores, Owed
  <2>2. disk.agent.synapse \in Nat /\ Fees(disk.agent.chain) \in Nat
    BY <1>1, <2>1, FeesOfChains
  <2>3. disk.agent.synapse + 0 + Fees(disk.agent.chain) <= InitialSynapse
    BY <2>1, <2>2 DEF Paid
  <2> QED
    BY <2>1, <2>3 DEF Paid, Readable
<1> QED
  BY <1>1, <1>4, <1>5, <1>6, <1>7, StepSpends

\* Every receipt was paid for out of the balance she was born with: an act's fee
\* is burned before a key rotation and its receipt comes after it, a hang-up in
\* between loses the receipt and never the money, and what the file brings back
\* it brings back with the receipts of its time.
THEOREM NothingForFree == Spec => []ReceiptsPaid
<1>1. Init => Paid
  <2> SUFFICES ASSUME Init PROVE Paid
    OBVIOUS
  <2>1. Owed = 0 /\ agent.synapse = InitialSynapse /\ agent.chain = <<>> /\ disk.agent = agent
    BY DEF Init, Owed, Snapshot
  <2>2. InitialSynapse + 0 + 0 <= InitialSynapse /\ InitialSynapse + 0 <= InitialSynapse
    BY ConstantTypes
  <2> QED
    BY <2>1, <2>2, FeesEmpty DEF Paid
<1>2. IInv /\ Paid /\ [Next]_vars => Paid'
  BY NextPaid
<1>3. ASSUME IInv, Paid PROVE ReceiptsPaid
  <2>1. agent.synapse \in Nat /\ Fees(agent.chain) \in Nat /\ Owed \in Nat
    BY <1>3, FeesOfChains, OwedNat DEF IInv
  <2>2. agent.synapse + Fees(agent.chain) <= InitialSynapse
    BY <1>3, <2>1, ConstantTypes DEF Paid
  <2> QED
    BY <1>3, <2>2 DEF Paid, ReceiptsPaid
<1> QED
  BY <1>1, <1>2, <1>3, Invariance, PTL DEF Spec

-----------------------------------------------------------------------------
(***************************************************************************)
(* Acts keep their distance.                                               *)
(***************************************************************************)
\* Past the gates of a direct act.
Gated == {"execute", "refresh"}

(***************************************************************************)
(* What a step that does not go back to the file does to the clock, the    *)
(* cooldowns and the times of the request.                                 *)
(***************************************************************************)
Timed ==
  /\ boot' = boot
  /\ \A t \in Tools : expiry'[t] \in {expiry[t], now + Cooldown[t]}
  /\ pc = "execute" /\ agent'.chain # agent.chain =>
       expiry'[req.tool] = now + Cooldown[req.tool]
  /\ pc' \in Gated => \/ pc = "review" /\ ~AnyCooling /\ req'.began = now
                      \/ pc \in Gated /\ req'.began = req.began
  /\ pc' = "refresh" => \/ pc = "refresh" /\ UNCHANGED <<req, expiry>>
                        \/ expiry'[req'.tool] = req'.settled + Cooldown[req'.tool]
  /\ pc = "refresh" => UNCHANGED expiry

LEMMA StepTimed ==
  ASSUME Typed, Typed', Next
  PROVE  Timed \/ Restores
<1> USE DEF Return, Clock, Gated
<1>a. req \in Requests /\ agent \in Agents /\ expiry \in [Tools -> Nat]
  BY DEF Typed, TypeOK
<1>b. ASSUME UNCHANGED <<boot, expiry>>, pc' \in Gated => pc' = pc /\ req'.began = req.began,
             pc' = "refresh" => req' = req,
             pc = "execute" => agent'.chain = agent.chain
      PROVE  Timed
  BY <1>a, <1>b DEF Timed
<1>1. CASE \E t \in Tools : AskAct(t)
  BY <1>1, <1>b DEF AskAct
<1>2. CASE ReportDenial \/ ReviewBlocks \/ ToolFails \/ SettleUnpaidTool
  BY <1>2, <1>b DEF ReportDenial, ReviewBlocks, ToolFails, SettleUnpaidTool
<1>3. CASE ToolEffect
  <2>1. req'.began = req.began
    BY <1>3, <1>a DEF ToolEffect, Requests
  <2> QED
    BY <1>3, <2>1, <1>b DEF ToolEffect
<1>4. CASE RhythmQueues \/ GatesRefuse
  BY <1>4, <1>b DEF RhythmQueues, GatesRefuse
<1>5. CASE GatesPass
  <2>1. req'.began = now
    BY <1>5, <1>a DEF GatesPass, Requests
  <2> QED
    BY <1>5, <2>1 DEF GatesPass, Timed
<1>6. CASE SettleDenied \/ SettleCommit
  <2>1. /\ pc = "execute" /\ boot' = boot /\ req.tool \in Tools
        /\ expiry' = [expiry EXCEPT ![req.tool] = now + Cooldown[req.tool]]
    BY <1>6 DEF SettleDenied, SettleCommit, ToolReturned, SetCooldown, Typed, InFlight
  <2>2. \A t \in Tools : expiry'[t] \in {expiry[t], now + Cooldown[t]}
    BY <1>a, <2>1
  <2>3. expiry'[req.tool] = now + Cooldown[req.tool]
    BY <1>a, <2>1
  <2>4. CASE pc' \notin Gated
    BY <2>1, <2>2, <2>3, <2>4 DEF Timed
  <2>5. CASE pc' = "refresh" /\ req' = [req EXCEPT !.ran = "ok", !.settled = now]
    <3>1. req'.tool = req.tool /\ req'.settled = now /\ req'.began = req.began
      BY <1>a, <2>5 DEF Requests
    <3> QED
      BY <2>1, <2>2, <2>3, <2>5, <3>1 DEF Timed
  <2> QED
    BY <1>6, <2>4, <2>5 DEF SettleDenied, SettleCommit, RecordAct
<1>7. CASE Refreshed \/ Audited \/ Relayed \/ FillFile
  BY <1>7, <1>b DEF Refreshed, RecordAct, Audited, Relayed, FillFile, OpenFile, CannotOpenFile
<1>8. CASE AskThink \/ CallRefused \/ CallFails \/ CallSucceeds
  BY <1>8, <1>b DEF AskThink, CallRefused, CallFails, CallSucceeds, CallDone, NextTurn
<1>9. CASE ProviderFails \/ ProviderAnswers \/ ProviderAsksTools
  BY <1>9, <1>b DEF ProviderFails, ProviderAnswers, ProviderAsksTools, OpenFile, CannotOpenFile
<1>10. CASE \E t \in Tools : CallAllowed(t)
  BY <1>10, <1>b DEF CallAllowed
<1>11. CASE Cancel \/ Crash \/ Tick \/ SabbathBegins \/ SabbathEnds
  BY <1>11, <1>b DEF Cancel, Crash, Tick, SabbathBegins, SabbathEnds
<1>12. CASE Restart \/ Reload
  <2>1. req'.id = req.id
    BY <1>12, <1>a DEF Restart, Reload, Requests
  <2> QED
    BY <1>12, <2>1 DEF Restart, Reload, Restores
<1> QED
  BY <1>1, <1>2, <1>3, <1>4, <1>5, <1>6, <1>7, <1>8, <1>9, <1>10, <1>11, <1>12
  DEF Next, Act, Think, Environment

\* The acts of this boot have started their tool's cooldown, and it is over for
\* the request that is past the gates: until its own receipt joins the chain no
\* other does.
OfThisBoot(i) ==
  i \in 1..Len(agent.chain) /\ agent.chain[i].what \in Tools /\ agent.chain[i].boot = boot

FreeAt(r) == r.settled + Cooldown[r.what]

Cooled ==
  /\ \A i : OfThisBoot(i) =>
       /\ expiry[agent.chain[i].what] >= FreeAt(agent.chain[i])
       /\ pc \in Gated => req.began >= FreeAt(agent.chain[i])
  /\ pc = "refresh" => expiry[req.tool] >= req.settled + Cooldown[req.tool]

\* DirectActsSpaced, of any chain.
Distant(c) ==
  \A i, j \in 1..Len(c) :
    i < j /\ c[i].what \in Tools /\ c[j].what \in Tools /\ c[i].boot = c[j].boot
      => c[j].began >= FreeAt(c[i])

SInv == DiskInv /\ Distant(agent.chain) /\ Cooled

LEMMA Sooner ==
  ASSUME NEW n \in Nat, NEW s \in 0..n, NEW d \in Nat
  PROVE  s + d \in Nat /\ n + d \in Nat /\ s + d <= n + d
OBVIOUS

LEMMA AtLeast ==
  ASSUME NEW e \in Nat, NEW m \in Nat, NEW f \in Nat, NEW x \in {e, m}, e >= f, f <= m
  PROVE  x >= f
OBVIOUS

LEMMA FreeAtNat ==
  ASSUME Typed, NEW i \in 1..Len(agent.chain), agent.chain[i].what \in Tools
  PROVE  /\ FreeAt(agent.chain[i]) \in Nat
         /\ FreeAt(agent.chain[i]) <= now + Cooldown[agent.chain[i].what]
         /\ now + Cooldown[agent.chain[i].what] \in Nat
         /\ expiry[agent.chain[i].what] \in Nat
<1>1. agent.chain[i] \in Receipts
  BY DEF Typed, TypeOK, Agents
<1>2. agent.chain[i].settled \in 0..now /\ now \in Nat
  BY <1>1, ConstantTypes DEF Receipts, Typed, TypeOK
<1>3. Cooldown[agent.chain[i].what] \in Nat
  BY ConstantTypes
<1>4. expiry[agent.chain[i].what] \in Nat
  BY DEF Typed, TypeOK
<1> QED
  BY <1>2, <1>3, <1>4, Sooner DEF FreeAt

\* A cooldown set again ends no earlier.
LEMMA StaysCooled ==
  ASSUME Typed, Timed, Cooled, NEW i, OfThisBoot(i)
  PROVE  expiry'[agent.chain[i].what] >= FreeAt(agent.chain[i])
<1>1. expiry'[agent.chain[i].what] \in
        {expiry[agent.chain[i].what], now + Cooldown[agent.chain[i].what]}
  BY DEF Timed, OfThisBoot
<1>2. expiry[agent.chain[i].what] >= FreeAt(agent.chain[i])
  BY DEF Cooled
<1> QED
  BY <1>1, <1>2, FreeAtNat, AtLeast DEF OfThisBoot

\* Without a new receipt: who passes the gates finds every cooldown over.
LEMMA SpacedKeeps ==
  ASSUME Typed, Typed', Timed, Cooled, Distant(agent.chain), agent'.chain = agent.chain
  PROVE  Cooled' /\ Distant(agent.chain)'
<1>1. ASSUME NEW i, OfThisBoot(i), pc' \in Gated
      PROVE  req'.began >= FreeAt(agent.chain[i])
  <2>1. CASE pc = "review" /\ ~AnyCooling /\ req'.began = now
    <3>1. expiry[agent.chain[i].what] >= FreeAt(agent.chain[i])
          /\ ~(expiry[agent.chain[i].what] > now)
      BY <1>1, <2>1 DEF Cooled, AnyCooling, OfThisBoot
    <3>2. now \in Nat
      BY ConstantTypes DEF Typed, TypeOK
    <3>3. now >= FreeAt(agent.chain[i])
      BY <1>1, <3>1, <3>2, FreeAtNat DEF OfThisBoot
    <3> QED
      BY <2>1, <3>3
  <2>2. CASE pc \in Gated /\ req'.began = req.began
    BY <1>1, <2>2 DEF Cooled
  <2> QED
    BY <1>1, <2>1, <2>2 DEF Timed
<1>2. ASSUME pc' = "refresh"
      PROVE  expiry'[req'.tool] >= req'.settled + Cooldown[req'.tool]
  <2>1. CASE pc = "refresh" /\ UNCHANGED <<req, expiry>>
    BY <2>1 DEF Cooled
  <2>2. CASE expiry'[req'.tool] = req'.settled + Cooldown[req'.tool]
    <3>1. expiry'[req'.tool] \in Nat
      BY <1>2 DEF Typed, TypeOK, InFlight
    <3> QED
      BY <2>2, <3>1
  <2> QED
    BY <1>2, <2>1, <2>2 DEF Timed
<1>3. \A i : OfThisBoot(i)' <=> OfThisBoot(i)
  BY DEF OfThisBoot, Timed
<1>4. \A i : OfThisBoot(i) => expiry'[agent.chain[i].what] >= FreeAt(agent.chain[i])
  BY StaysCooled
<1> QED
  BY <1>1, <1>2, <1>3, <1>4 DEF Cooled, Distant, FreeAt

\* A new receipt: its request was past the gates when every other was cooled, and
\* its own cooldown runs from the moment it settled.
LEMMA SpacedIssues ==
  ASSUME Typed, Typed', Timed, Issues, Cooled, Distant(agent.chain)
  PROVE  Cooled' /\ Distant(agent.chain)'
<1> DEFINE c == agent.chain
           d == agent'.chain
           n == Len(c)
<1>1. PICK r \in Receipts' :
        /\ r.what = IF pc = "provider" THEN "think_agentic" ELSE req.tool
        /\ r.boot = boot /\ r.began = req.began
        /\ r.settled = IF pc = "refresh" THEN req.settled ELSE now
        /\ d = Append(c, r)
  BY DEF Issues, Appends
<1>2. c \in Seq(Receipts)
  BY DEF Typed, TypeOK, Agents
<1>3. Len(d) = n + 1 /\ n \in Nat /\ d[n + 1] = r /\ \A i \in 1..n : d[i] = c[i]
  BY <1>1, <1>2
<1>4. pc' \notin Gated /\ boot' = boot
  BY DEF Issues, Timed, Gated
<1>5. ASSUME r.what \in Tools
      PROVE  r.what = req.tool /\ pc \in Gated
  BY <1>1, <1>5, StewardAssumption DEF Issues, ToolReturned, Gated
<1>6. ASSUME r.what \in Tools
      PROVE  expiry'[r.what] >= FreeAt(r)
  <2>1. CASE pc = "refresh"
    BY <1>1, <1>5, <1>6, <2>1 DEF Timed, Cooled, FreeAt
  <2>2. CASE pc = "execute"
    <3>1. d # c
      BY <1>3
    <3>2. expiry'[req.tool] = now + Cooldown[req.tool]
      BY <2>2, <3>1 DEF Timed
    <3>3. expiry'[req.tool] = FreeAt(r)
      BY <1>1, <1>5, <1>6, <2>2, <3>2 DEF FreeAt
    <3>4. expiry'[req.tool] \in Nat
      BY <1>5, <1>6 DEF Typed, TypeOK
    <3> QED
      BY <1>5, <1>6, <3>3, <3>4
  <2> QED
    BY <1>5, <1>6, <2>1, <2>2 DEF Gated
<1>7. \A i \in 1..n : OfThisBoot(i)' <=> OfThisBoot(i)
  BY <1>3, <1>4 DEF OfThisBoot
<1>8. Cooled'
  <2>1. ASSUME NEW i, OfThisBoot(i)' PROVE expiry'[d[i].what] >= FreeAt(d[i])
    <3>1. i \in 1..Len(d)
      BY <2>1 DEF OfThisBoot
    <3>2. CASE i \in 1..n
      <4>1. OfThisBoot(i) /\ d[i] = c[i]
        BY <1>3, <1>7, <2>1, <3>2
      <4>2. expiry'[c[i].what] >= FreeAt(c[i])
        BY <4>1, StaysCooled
      <4> QED
        BY <4>1, <4>2
    <3>3. CASE i = n + 1
      <4>1. d[i] = r /\ r.what \in Tools
        BY <1>3, <2>1, <3>3 DEF OfThisBoot
      <4> QED
        BY <1>6, <4>1
    <3> QED
      BY <1>3, <3>1, <3>2, <3>3
  <2> HIDE DEF d, c, n
  <2> QED
    BY <1>4, <2>1 DEF Cooled, FreeAt, Gated, d
<1>9. Distant(d)
  <2>1. ASSUME NEW i \in 1..Len(d), NEW j \in 1..Len(d), i < j,
               d[i].what \in Tools, d[j].what \in Tools, d[i].boot = d[j].boot
        PROVE  d[j].began >= FreeAt(d[i])
    <3>1. i \in 1..n /\ d[i] = c[i]
      BY <1>3, <2>1
    <3>2. CASE j \in 1..n
      <4>1. d[j] = c[j]
        BY <1>3, <3>2
      <4> QED
        BY <2>1, <3>1, <3>2, <4>1 DEF Distant
    <3>3. CASE j = n + 1
      <4>1. d[j] = r /\ pc \in Gated /\ r.boot = boot /\ r.began = req.began
        BY <1>1, <1>3, <1>5, <2>1, <3>3
      <4>2. OfThisBoot(i)
        BY <2>1, <3>1, <4>1 DEF OfThisBoot
      <4>3. req.began >= FreeAt(c[i])
        BY <4>1, <4>2 DEF Cooled
      <4> QED
        BY <3>1, <4>1, <4>3
    <3> QED
      BY <1>3, <3>2, <3>3
  <2> HIDE DEF d
  <2> QED
    BY <2>1 DEF Distant
<1> QED
  BY <1>8, <1>9 DEF Distant, FreeAt

\* A prefix has fewer acts to keep apart.
LEMMA PrefixElements ==
  ASSUME NEW S, NEW c \in Seq(S), NEW d \in Seq(S), IsPrefix(d, c)
  PROVE  Len(d) <= Len(c) /\ Len(d) \in Nat /\ Len(c) \in Nat /\ \A i \in 1..Len(d) : d[i] = c[i]
<1>1. Len(d) <= Len(c) /\ Len(d) \in Nat /\ Len(c) \in Nat
  BY DEF IsPrefix
<1>2. SubSeq(d, 1, Len(d)) = SubSeq(c, 1, Len(d))
  BY DEF IsPrefix
<1>3. \A i \in 1..Len(d) : SubSeq(d, 1, Len(d))[i] = d[i] /\ SubSeq(c, 1, Len(d))[i] = c[i]
  BY <1>1
<1> QED
  BY <1>1, <1>2, <1>3

LEMMA SpacedRestores ==
  ASSUME Typed, Restores, DiskIsPrefix, Cooled, Distant(agent.chain)
  PROVE  Cooled' /\ Distant(agent.chain)'
<1> DEFINE c == agent.chain
           d == agent'.chain
<1>1. c \in Seq(Receipts) /\ d \in Seq(Receipts) /\ IsPrefix(d, c)
  BY DEF Typed, TypeOK, Agents, Restores, Readable, Torn, DiskIsPrefix
<1>2. Len(d) <= Len(c) /\ Len(d) \in Nat /\ Len(c) \in Nat /\ \A i \in 1..Len(d) : d[i] = c[i]
  BY <1>1, PrefixElements
<1>3. \A i \in 1..Len(d) : i \in 1..Len(c) /\ d[i].boot \in 1..boot
  <2>1. \A i \in 1..Len(d) : d[i] \in Receipts
    BY <1>1
  <2> QED
    BY <1>2, <2>1 DEF Receipts
<1>4. Distant(d)
  <2> HIDE DEF c, d
  <2>1. Distant(c)
    BY DEF c
  <2> QED
    BY <1>2, <1>3, <2>1 DEF Distant
<1>5. pc' = "idle"
  BY DEF Restores
<1>6. CASE boot' = boot + 1
  <2>1. boot \in Nat
    BY ConstantTypes DEF Typed, TypeOK
  <2>2. \A i : ~OfThisBoot(i)'
    BY <1>3, <1>6, <2>1 DEF OfThisBoot
  <2> QED
    BY <1>4, <1>5, <2>2 DEF Cooled, Gated, Distant, FreeAt
<1>7. CASE UNCHANGED <<boot, expiry>>
  <2>1. \A i : OfThisBoot(i)' => OfThisBoot(i) /\ d[i] = c[i]
    BY <1>2, <1>3, <1>7 DEF OfThisBoot
  <2>2. \A i : OfThisBoot(i)' => expiry[d[i].what] >= FreeAt(d[i])
    BY <2>1 DEF Cooled
  <2> QED
    BY <1>4, <1>5, <1>7, <2>2 DEF Cooled, Gated, Distant, FreeAt
<1> QED
  BY <1>6, <1>7 DEF Restores

LEMMA NextSpaced == SInv /\ [Next]_vars => SInv'
<1> SUFFICES ASSUME SInv, [Next]_vars PROVE Cooled' /\ Distant(agent.chain)'
  BY DiskInvariant DEF SInv
<1>1. Typed /\ Typed'
  BY NextTyped DEF SInv, DiskInv, IInv
<1>2. CASE UNCHANGED vars
  BY <1>2 DEF vars, SInv, Cooled, OfThisBoot, Distant, FreeAt
<1>3. CASE Next
  <2>1. CASE Restores
    BY <1>1, <2>1, SpacedRestores DEF SInv, DiskInv
  <2>2. CASE Timed /\ Keeps
    BY <1>1, <2>2, SpacedKeeps DEF SInv, Keeps
  <2>3. CASE Timed /\ Issues
    BY <1>1, <2>3, SpacedIssues DEF SInv
  <2> QED
    BY <1>1, <1>3, <2>1, <2>2, <2>3, StepCases, StepTimed
<1> QED
  BY <1>2, <1>3

\* Within a boot a direct act passes its gates only when the cooldown of every
\* act on the chain is over, of whatever tool, through hang-ups, key rotations
\* between an act and its receipt, and resumes that take the agent back.
THEOREM ActsSpaced == Spec => []DirectActsSpaced
<1>1. Init => SInv
  <2> SUFFICES ASSUME Init PROVE Cooled /\ Distant(agent.chain) /\ DiskIsPrefix
    BY InitInvariant DEF SInv, DiskInv
  <2>1. agent.chain = <<>> /\ disk.agent = agent /\ pc = "idle"
    BY DEF Init, Snapshot
  <2> QED
    BY <2>1 DEF Cooled, OfThisBoot, Distant, Gated, DiskIsPrefix, IsPrefix
<1>2. SInv /\ [Next]_vars => SInv'
  BY NextSpaced
<1>3. SInv => DirectActsSpaced
  BY DEF SInv, Distant, DirectActsSpaced, FreeAt
<1> QED
  BY <1>1, <1>2, <1>3, PTL DEF Spec

-----------------------------------------------------------------------------
(***************************************************************************)
(* The ring of ActReceipts and the newest hash, which the agent carries.   *)
(***************************************************************************)
ProofIds == Tools \X Nat
Proofs == [id : ProofIds, prev : {<<>>} \cup ProofIds]

\* The ring and the agent's hash stay, or grow by one receipt together, or the
\* ring is lost with the process, or a resume takes the hash back.
RingStays == UNCHANGED <<proofs, seams>> /\ agent'.lastProof = agent.lastProof

RingGrows ==
  \E p \in Proofs : /\ proofs' = Append(proofs, p) /\ p.prev = agent.lastProof
                    /\ agent'.lastProof = p.id /\ seams' = seams

LEMMA StepProves ==
  ASSUME Typed, Typed', Next
  PROVE  RingStays \/ RingGrows \/ Restart \/ Reload
<1> USE DEF Return, Clock
<1>a. agent \in Agents
  BY DEF Typed, TypeOK
<1>b. ASSUME UNCHANGED <<agent, proofs, seams>> PROVE RingStays
  BY <1>b DEF RingStays
<1>1. CASE \E t \in Tools : AskAct(t)
  BY <1>1, <1>b DEF AskAct
<1>2. CASE ReportDenial \/ ReviewBlocks \/ ToolEffect \/ ToolFails \/ SettleUnpaidTool
  BY <1>2, <1>b DEF ReportDenial, ReviewBlocks, ToolEffect, ToolFails, SettleUnpaidTool
<1>3. CASE RhythmQueues \/ GatesRefuse \/ GatesPass
  <2>1. Decay /\ UNCHANGED <<proofs, seams>>
    BY <1>3 DEF RhythmQueues, GatesRefuse, GatesPass
  <2>2. PICK d \in 0..DecayLoss : agent' = [agent EXCEPT !.synapse = @ - d]
    BY <2>1 DEF Decay
  <2> QED
    BY <1>a, <2>1, <2>2 DEF RingStays, Agents
<1>4. CASE SettleDenied
  <2>1. agent' = Burned(agent, ToolCost[req.tool]) /\ UNCHANGED <<proofs, seams>>
    BY <1>4 DEF SettleDenied
  <2> QED
    BY <1>a, <2>1 DEF RingStays, Burned, Agents
<1>5. CASE SettleCommit
  <2> DEFINE cost == ToolCost[req.tool] + ActCost
             acts == (agent.acts + 1) % RotateEvery
             paid == [Burned(agent, cost) EXCEPT !.acts = acts]
  <2>1. cost \in Nat /\ cost <= agent.synapse /\ UNCHANGED <<proofs, seams>>
    BY <1>5, <1>a, ConstantTypes DEF SettleCommit, ToolReturned, CanBurn, Typed, InFlight
  <2>2. acts \in 0..(RotateEvery - 1)
    BY <1>a, ConstantTypes DEF Agents
  <2>3. RecordAct(paid, now) \/ agent' = paid
    BY <1>5 DEF SettleCommit
  <2> HIDE DEF acts
  <2>4. /\ paid \in Agents /\ paid.chain = agent.chain /\ paid.lastHash = agent.lastHash
        /\ paid.lastProof = agent.lastProof
    <3>1. /\ Burned(agent, cost) \in Agents /\ Burned(agent, cost).chain = agent.chain
          /\ Burned(agent, cost).lastHash = agent.lastHash
          /\ Burned(agent, cost).lastProof = agent.lastProof
      BY <1>a, <2>1, BurnedSynapse
    <3> QED
      BY <2>2, <3>1 DEF Agents
  <2> HIDE DEF paid, cost
  <2>5. agent'.lastProof = paid.lastProof
    BY <2>3, <2>4, RecordActReceipts
  <2> QED
    BY <2>1, <2>4, <2>5 DEF RingStays
<1>6. CASE Refreshed
  BY <1>6, <1>a, RecordActReceipts DEF Refreshed, RingStays
<1>7. CASE Audited \/ Relayed \/ FillFile
  BY <1>7, <1>b DEF Audited, Relayed, FillFile
<1>8. CASE AskThink \/ CallRefused \/ CallFails \/ ProviderFails
  BY <1>8, <1>b DEF AskThink, CallRefused, CallFails, ProviderFails
<1>9. CASE ProviderAnswers \/ ProviderAsksTools
  <2> DEFINE b == Burned(agent, ThinkCost)
  <2>1. ThinkCost \in Nat /\ ThinkCost <= agent.synapse /\ UNCHANGED <<proofs, seams>>
    BY <1>9, <1>a, ConstantTypes DEF ProviderAnswers, ProviderAsksTools, CanBurn
  <2>2. /\ b \in Agents /\ b.chain = agent.chain /\ b.lastHash = agent.lastHash
        /\ b.lastProof = agent.lastProof
    BY <1>a, <2>1, BurnedSynapse
  <2>3. agent' = Issue(b, "think_agentic", now) \/ agent' = b
    BY <1>9 DEF ProviderAnswers, ProviderAsksTools
  <2> HIDE DEF b
  <2>4. agent'.lastProof = b.lastProof
    BY <2>2, <2>3, IssueReceipts
  <2> QED
    BY <2>1, <2>2, <2>4 DEF RingStays
<1>10. CASE CallSucceeds
  <2> DEFINE b == Burned(agent, ToolCost[req.tool])
             p == [id |-> ProofId(req.tool), prev |-> agent.lastProof]
  <2>1. req.tool \in Tools /\ ToolCost[req.tool] \in Nat /\ ToolCost[req.tool] <= agent.synapse
    BY <1>10, <1>a, ConstantTypes DEF CallSucceeds, CanBurn, Typed, InFlight
  <2>2. b \in Agents
    BY <1>a, <2>1, BurnedSynapse
  <2>3. /\ agent' = [b EXCEPT !.lastProof = ProofId(req.tool)]
        /\ proofs' = Append(proofs, p) /\ seams' = seams
    BY <1>10 DEF CallSucceeds, Proven
  <2> HIDE DEF b
  <2>4. agent'.lastProof = ProofId(req.tool)
    BY <2>2, <2>3 DEF Agents
  <2>5. p \in Proofs
    <3>1. ProofId(req.tool) \in ProofIds
      BY <2>1, ConstantTypes DEF ProofId, ProofIds, Typed, TypeOK
    <3>2. agent.lastProof \in {<<>>} \cup ProofIds
      BY <1>a, ConstantTypes DEF Agents, ProofIds, Typed, TypeOK
    <3> QED
      BY <3>1, <3>2 DEF Proofs
  <2>6. p.prev = agent.lastProof /\ p.id = ProofId(req.tool)
    OBVIOUS
  <2> HIDE DEF p
  <2> QED
    BY <2>3, <2>4, <2>5, <2>6 DEF RingGrows
<1>11. CASE \E t \in Tools : CallAllowed(t)
  BY <1>11, <1>b DEF CallAllowed
<1>12. CASE Cancel \/ Crash \/ Tick \/ SabbathBegins \/ SabbathEnds
  BY <1>12, <1>b DEF Cancel, Crash, Tick, SabbathBegins, SabbathEnds
<1> QED
  BY <1>1, <1>2, <1>3, <1>4, <1>5, <1>6, <1>7, <1>8, <1>9, <1>10, <1>11, <1>12
  DEF Next, Act, Think, Environment

PInv == IInv /\ proofs \in Seq(Proofs) /\ ProofsLinked

LEMMA NextLinked == PInv /\ [Next]_vars => PInv'
<1> SUFFICES ASSUME PInv, [Next]_vars PROVE (proofs \in Seq(Proofs))' /\ ProofsLinked'
  BY NextInvariant DEF PInv
<1>1. Typed /\ Typed'
  BY NextTyped DEF PInv, IInv
<1>2. CASE UNCHANGED vars
  BY <1>2 DEF vars, PInv, ProofsLinked
<1>3. CASE RingStays
  BY <1>3 DEF RingStays, PInv, ProofsLinked
<1>4. CASE RingGrows
  <2>1. PICK p \in Proofs : /\ proofs' = Append(proofs, p) /\ p.prev = agent.lastProof
                            /\ agent'.lastProof = p.id /\ seams' = seams
    BY <1>4 DEF RingGrows
  <2> DEFINE n == Len(proofs)
  <2>2. /\ n \in Nat /\ Len(proofs') = n + 1 /\ proofs'[n + 1] = p /\ proofs' # <<>>
        /\ proofs' \in Seq(Proofs) /\ \A i \in 1..n : proofs'[i] = proofs[i]
    BY <2>1 DEF PInv
  <2>3. ASSUME NEW i \in 2..(n + 1)
        PROVE  proofs'[i].prev = proofs'[i - 1].id \/ i \in seams
    <3>1. CASE i \in 2..n
      <4>1. i \in 1..n /\ i - 1 \in 1..n
        BY <2>2, <3>1
      <4> QED
        BY <2>2, <3>1, <4>1 DEF PInv, ProofsLinked
    <3>2. CASE i = n + 1
      <4>1. n \in 1..n /\ i - 1 = n /\ proofs # <<>>
        BY <2>2, <2>3, <3>2 DEF PInv
      <4>2. agent.lastProof = proofs[n].id \/ n + 1 \in seams
        BY <4>1 DEF PInv, ProofsLinked
      <4> QED
        BY <2>1, <2>2, <3>2, <4>1, <4>2
    <3> QED
      BY <2>2, <2>3, <3>1, <3>2
  <2> QED
    BY <2>1, <2>2, <2>3 DEF ProofsLinked
<1>5. CASE Restart
  BY <1>5 DEF Restart, ProofsLinked
<1>6. CASE Reload
  BY <1>6 DEF Reload, PInv, ProofsLinked
<1> QED
  BY <1>1, <1>2, <1>3, <1>4, <1>5, <1>6, StepProves

\* Each ActReceipt of this boot names the one issued before it and the agent
\* carries the newest, but where a resume took her back: no hang-up, key rotation
\* or failed save breaks the link.
THEOREM RingLinked == Spec => []ProofsLinked
<1>1. Init => PInv
  <2> SUFFICES ASSUME Init PROVE proofs \in Seq(Proofs) /\ ProofsLinked
    BY InitInvariant DEF PInv
  <2> QED
    BY DEF Init, ProofsLinked
<1>2. PInv /\ [Next]_vars => PInv'
  BY NextLinked
<1>3. PInv => ProofsLinked
  BY DEF PInv
<1> QED
  BY <1>1, <1>2, <1>3, PTL DEF Spec
=============================================================================

----------------------------- MODULE StewardAct -----------------------------
(***************************************************************************)
(* The Steward's act path (omokoda-core/src/interpreter.rs, Statement::Act *)
(* and think_agentic).  One resident agent; one request at a time, since   *)
(* server.rs holds the steward mutex over a whole dispatch.  A request is  *)
(* split at its awaits: there the wall clock moves, the client may hang up *)
(* (axum drops the future: Cancel) and the process may die (Crash).  What  *)
(* runs between two awaits is one action.                                  *)
(*                                                                         *)
(* The agent's serialised state is the record `agent'; the cooldown table  *)
(* and the ring of ActReceipts live in memory only.  Synapse is counted in *)
(* coarse units, a receipt hash is a fresh number (Receipt hashes a nonce  *)
(* and its predecessor), an ActReceipt hash is the tuple of the fields     *)
(* that ActReceipt::new really feeds to the hasher.                        *)
(***************************************************************************)
EXTENDS Integers, Sequences, FiniteSets, SequencesExt

CONSTANTS
  Tools,          \* tools the agent may call
  Irreversible,   \* those RhythmGate::classify_reversibility calls irreversible
  Cooldown,       \* [Tools -> Nat]  seconds of cooldown after an act
  ToolCost,       \* [Tools -> Nat]  estimate_tool_cost
  ActCost,        \* the second burn of an act: 5000 + usage
  ThinkCost,      \* the burn of an agentic turn: max(usage, 1000)
  Penalty,        \* EXCEED_PENALTY_SYNAPSE of the Busy Beaver governor
  DecayLoss,      \* the most one idle period takes away
  InitialSynapse,
  SynapseFloor,   \* an agentic turn needs this much (100.0)
  RotateEvery,    \* acts between two memory key rotations (100)
  MaxTurns,       \* turns of an agentic think (clamped to 1..25)
  Kinds,          \* which requests clients send: subset of {"act", "think"}
  MaxCalls,       \* bound: tool calls the model asks for in one turn
  MaxRequests,    \* bound: requests sent
  MaxTime,        \* bound: seconds on the clock
  MaxCrashes      \* bound: crashes

ASSUME StewardAssumption ==
  /\ Irreversible \subseteq Tools /\ "think_agentic" \notin Tools
  /\ Cooldown \in [Tools -> Nat] /\ ToolCost \in [Tools -> Nat]
  /\ {ActCost, ThinkCost, Penalty, DecayLoss, InitialSynapse, SynapseFloor} \subseteq Nat
  /\ RotateEvery \in Nat \ {0} /\ MaxTurns \in Nat \ {0} /\ MaxCalls \in Nat \ {0}
  /\ {MaxRequests, MaxTime, MaxCrashes} \subseteq Nat
  /\ Kinds \subseteq {"act", "think"}

VARIABLES
  pc,        \* where the request in flight is suspended
  req,       \* the request in flight, kept until the next one
  agent,     \* AgentSnapshot of the resident agent
  expiry,    \* CooldownTracker, memory only: [Tools -> Nat]
  proofs,    \* recent_act_receipts, memory only
  disk,      \* the agent file
  now,       \* wall clock, seconds
  sabbath,   \* "before", "during" or "after" the UTC Saturday
  effects,   \* ghost: requests whose tool really ran
  hashes,    \* ghost: receipt ids handed out
  boot,      \* ghost: process starts so far
  seams      \* ghost: places in proofs before which she was loaded afresh

vars == <<pc, req, agent, expiry, proofs, disk, now, sabbath,
          effects, hashes, boot, seams>>

Genesis == 0                 \* previous_hash of the first receipt
NoTool == "none"
Torn == [file |-> "torn"]
Snapshot(a) == [file |-> "whole", agent |-> a]
Readable(d) == d.file = "whole"

Awaits == {"report", "review", "execute", "refresh", "audit", "relay",
           "provider", "gateCall", "callTool"}

\* Mutant: the gate looks at the requested tool alone.
AnyCooling_ownTool == expiry[req.tool] > now
AnyCooling == \E t \in Tools : expiry[t] > now

Init ==
  /\ pc = "idle"
  /\ req = [id |-> 0, kind |-> "act", tool |-> NoTool, ran |-> "no", receipted |-> TRUE,
            answer |-> "none", began |-> 0, settled |-> 0, turn |-> 0, calls |-> 0]
  /\ agent = [synapse |-> InitialSynapse, acts |-> 0, chain |-> <<>>,
              lastHash |-> Genesis, lastProof |-> <<>>]
  /\ expiry = [t \in Tools |-> 0]
  /\ proofs = <<>>
  /\ disk = Snapshot(agent)          \* birth saved her
  /\ now = 0 /\ sabbath = "before"
  /\ effects = {} /\ hashes = 0 /\ boot = 1 /\ seams = {}

\* What only the environment moves.
Clock == <<now, sabbath, boot, seams>>

Return(answer) ==
  pc' = "idle" /\ req' = [req EXCEPT !.answer = answer]

(***************************************************************************)
(* A direct act, up to the tool.                                           *)
(***************************************************************************)
\* An unknown tool, or one above the agent's tier, answers Err and changes
\* nothing, so no step stands for it.
AskAct(t) ==
  /\ pc = "idle" /\ "act" \in Kinds /\ req.id < MaxRequests
  /\ pc' \in {"report", "review"}            \* permission denied, or review_act
  /\ req' = [req EXCEPT !.id = @ + 1, !.kind = "act", !.tool = t, !.ran = "no",
                        !.receipted = FALSE, !.answer = "none"]
  /\ UNCHANGED <<agent, expiry, proofs, effects, hashes, disk, Clock>>

ReportDenial ==
  /\ pc = "report" /\ Return("error")
  /\ UNCHANGED <<agent, expiry, proofs, effects, hashes, disk, Clock>>

ReviewBlocks ==
  /\ pc = "review" /\ Return("error")
  /\ UNCHANGED <<agent, expiry, proofs, effects, hashes, disk, Clock>>

\* Every outcome past the review first pays for the idle time.
Decay ==
  \E d \in 0..DecayLoss :
    /\ d <= agent.synapse
    /\ agent' = [agent EXCEPT !.synapse = @ - d]

\* CooldownTracker::remaining of this tool, then the Sabbath, then a hook or
\* one of the seven gates; the Rhythm gate halts while any tool is cooling.
Queued(t) == expiry[t] <= now /\ t \in Irreversible /\ sabbath = "during"

RhythmQueues ==
  /\ pc = "review" /\ Decay /\ Queued(req.tool)
  /\ Return("queued")
  /\ UNCHANGED <<expiry, proofs, effects, hashes, disk, Clock>>

GatesRefuse ==
  /\ pc = "review" /\ Decay /\ ~Queued(req.tool)
  /\ Return("error")
  /\ UNCHANGED <<expiry, proofs, effects, hashes, disk, Clock>>

GatesPass ==
  /\ pc = "review" /\ Decay /\ ~Queued(req.tool) /\ ~AnyCooling
  /\ pc' = "execute" /\ req' = [req EXCEPT !.began = now]
  /\ UNCHANGED <<expiry, proofs, effects, hashes, disk, Clock>>

\* The tool acts on the world while its future is still pending.
ToolEffect ==
  /\ pc \in {"execute", "callTool"} /\ req.ran = "no"
  /\ req' = [req EXCEPT !.ran = "effect"]
  /\ effects' = effects \cup {req.id}
  /\ UNCHANGED <<pc, agent, expiry, proofs, hashes, disk, Clock>>

\* An error, or the per-tool timeout, before or after the effect.
ToolFails ==
  /\ pc = "execute" /\ Return("error")
  /\ UNCHANGED <<agent, expiry, proofs, effects, hashes, disk, Clock>>

(***************************************************************************)
(* A direct act, from the tool's result on.                                *)
(***************************************************************************)
\* Mutant: a result is taken for granted once the tool was called.
ToolReturned_assumed == pc = "execute"
ToolReturned == pc = "execute" /\ req.ran = "effect"

\* AgentCore::burn_synapse refuses what the balance does not cover.
\* Mutant: any positive balance will do.
CanBurn_overdraft(amount) == agent.synapse > 0
CanBurn(amount) == agent.synapse >= amount

\* Not enough for the tool: the error leaves no cooldown, no receipt, no save.
SettleUnpaidTool ==
  /\ ToolReturned /\ ~CanBurn(ToolCost[req.tool])
  /\ pc' = "idle" /\ req' = [req EXCEPT !.ran = "ok", !.answer = "error"]
  /\ UNCHANGED <<agent, expiry, proofs, effects, hashes, disk, Clock>>

SetCooldown ==
  expiry' = [expiry EXCEPT ![req.tool] = now + Cooldown[req.tool]]

Burned(a, amount) == [a EXCEPT !.synapse = @ - amount]

\* The post-act hook denies, or the balance does not cover the act itself.
SettleDenied ==
  /\ ToolReturned /\ CanBurn(ToolCost[req.tool])
  /\ agent' = Burned(agent, ToolCost[req.tool])
  /\ SetCooldown
  /\ pc' = "idle" /\ req' = [req EXCEPT !.ran = "ok", !.answer = "error"]
  /\ UNCHANGED <<proofs, effects, hashes, disk, Clock>>

\* Mutant: record forgets to advance last_hash.
Issue_sameLastHash(a, what, settled) ==
  [a EXCEPT !.chain = Append(@, [id |-> hashes + 1, prev |-> a.lastHash, what |-> what,
                                 request |-> req.id, boot |-> boot,
                                 began |-> req.began, settled |-> settled])]

\* Mutant: the chain is capped like the ring of ActReceipts.
Issue_ring(a, what, settled) ==
  [a EXCEPT !.chain = <<[id |-> hashes + 1, prev |-> a.lastHash, what |-> what,
                         request |-> req.id, boot |-> boot,
                         began |-> req.began, settled |-> settled]>>,
            !.lastHash = hashes + 1]

\* Receipt::new_merkle links to last_hash, ReceiptStore::record appends.
Issue(a, what, settled) ==
  [a EXCEPT !.chain = Append(@, [id |-> hashes + 1, prev |-> a.lastHash, what |-> what,
                                 request |-> req.id, boot |-> boot,
                                 began |-> req.began, settled |-> settled]),
            !.lastHash = hashes + 1]

\* Mutant: the penalty is credited.
Penalised_bonus(a) == {a, [a EXCEPT !.synapse = @ + Penalty]}

\* The governor's penalty is clamped to the balance.
Penalised(a) ==
  {a, [a EXCEPT !.synapse = IF @ < Penalty THEN 0 ELSE @ - Penalty]}

RecordAct(a, settled) ==
  /\ agent' \in {Issue(b, req.tool, settled) : b \in Penalised(a)}
  /\ hashes' = hashes + 1
  /\ pc' = "audit"

\* Every RotateEvery acts, refresh_seal_dek().await comes before the receipt.
SettleCommit ==
  /\ ToolReturned /\ CanBurn(ToolCost[req.tool] + ActCost)
  /\ SetCooldown
  /\ LET acts == (agent.acts + 1) % RotateEvery
         paid == [Burned(agent, ToolCost[req.tool] + ActCost) EXCEPT !.acts = acts]
     IN  \/ /\ acts # 0 /\ RecordAct(paid, now)
            /\ req' = [req EXCEPT !.ran = "ok", !.settled = now, !.receipted = TRUE]
         \/ /\ acts = 0 /\ agent' = paid /\ pc' = "refresh"
            /\ req' = [req EXCEPT !.ran = "ok", !.settled = now]
            /\ UNCHANGED hashes
  /\ UNCHANGED <<proofs, effects, disk, Clock>>

Refreshed ==
  /\ pc = "refresh" /\ RecordAct(agent, req.settled)
  /\ req' = [req EXCEPT !.receipted = TRUE]
  /\ UNCHANGED <<expiry, proofs, effects, disk, Clock>>

\* Both verdicts of the audit only publish an event.
Audited ==
  /\ pc = "audit" /\ pc' = "relay"
  /\ UNCHANGED <<req, agent, expiry, proofs, effects, hashes, disk, Clock>>

(***************************************************************************)
(* auto_save: secure_write truncates the file, then fills it; whatever     *)
(* goes wrong is dropped and the request still answers Ok.                 *)
(***************************************************************************)
OpenFile ==
  /\ disk' = Torn /\ pc' = "save" /\ UNCHANGED req

CannotOpenFile ==
  /\ Return("ok") /\ UNCHANGED disk

Relayed ==
  /\ pc = "relay" /\ (OpenFile \/ CannotOpenFile)
  /\ UNCHANGED <<agent, expiry, proofs, effects, hashes, Clock>>

FillFile ==
  /\ pc = "save" /\ Return("ok")
  /\ \/ disk' = Snapshot(agent)
     \/ UNCHANGED disk                          \* disk full: left truncated
  /\ UNCHANGED <<agent, expiry, proofs, effects, hashes, Clock>>

(***************************************************************************)
(* think_agentic: a loop of provider turns, each with tool calls.          *)
(***************************************************************************)
\* The head of the loop; r is the request with one more turn to take.
NextTurn(r) ==
  \/ /\ r.turn < MaxTurns /\ agent'.synapse >= SynapseFloor
     /\ pc' = "provider" /\ req' = [r EXCEPT !.turn = @ + 1]
  \/ /\ r.turn >= MaxTurns \/ agent'.synapse < SynapseFloor
     /\ pc' = "idle" /\ req' = [r EXCEPT !.answer = "error"]

AskThink ==
  /\ pc = "idle" /\ "think" \in Kinds /\ req.id < MaxRequests
  /\ UNCHANGED agent
  /\ NextTurn([req EXCEPT !.id = @ + 1, !.kind = "think", !.tool = NoTool, !.ran = "no",
                          !.receipted = FALSE, !.answer = "none", !.turn = 0])
  /\ UNCHANGED <<expiry, proofs, effects, hashes, disk, Clock>>

\* The provider fails, or its answer costs more than the balance.
ProviderFails ==
  /\ pc = "provider" /\ Return("error")
  /\ UNCHANGED <<agent, expiry, proofs, effects, hashes, disk, Clock>>

\* Text ends the loop: receipt, then auto_save with no await in between.
ProviderAnswers ==
  /\ pc = "provider" /\ CanBurn(ThinkCost)
  /\ agent' = Issue(Burned(agent, ThinkCost), "think_agentic", now)
  /\ hashes' = hashes + 1
  /\ \/ OpenFile
     \/ CannotOpenFile
  /\ UNCHANGED <<expiry, proofs, effects, Clock>>

ProviderAsksTools ==
  /\ pc = "provider" /\ CanBurn(ThinkCost)
  /\ agent' = Burned(agent, ThinkCost)
  /\ \E n \in 1..MaxCalls : req' = [req EXCEPT !.calls = n]
  /\ pc' = "gateCall"
  /\ UNCHANGED <<expiry, proofs, effects, hashes, disk, Clock>>

\* Mutant: a call whose result is an error is made again.
CallDone_again ==
  /\ pc' = "gateCall" /\ req' = [req EXCEPT !.tool = NoTool, !.ran = "no"]

\* A call is over, whatever came of it; its error is text for the model.
CallDone ==
  LET r == [req EXCEPT !.calls = @ - 1, !.tool = NoTool, !.ran = "no"]
  IN  \/ r.calls > 0 /\ pc' = "gateCall" /\ req' = r
      \/ r.calls = 0 /\ NextTurn(r)

\* Tier, Oya, permission, causal gate, vessel, constraint: any may refuse.
CallRefused ==
  /\ pc = "gateCall" /\ UNCHANGED agent /\ CallDone
  /\ UNCHANGED <<expiry, proofs, effects, hashes, disk, Clock>>

CallAllowed(t) ==
  /\ pc = "gateCall" /\ pc' = "callTool"
  /\ req' = [req EXCEPT !.tool = t, !.began = now]
  /\ UNCHANGED <<agent, expiry, proofs, effects, hashes, disk, Clock>>

\* The tool fails, or has run and cannot be paid for: no ActReceipt.
CallFails ==
  /\ pc = "callTool" /\ UNCHANGED agent /\ CallDone
  /\ UNCHANGED <<expiry, proofs, effects, hashes, disk, Clock>>

\* ActReceipt::new hashes agent, tool, output and second, and nothing else;
\* outputs of one tool within a second are taken to be equal.
ProofId(t) == <<t, now>>

\* Mutant: the hash of the newest proof is kept in the ring only.
Proven_ringOnly(a, t) == a
Proven(a, t) == [a EXCEPT !.lastProof = ProofId(t)]

CallSucceeds ==
  /\ pc = "callTool" /\ req.ran = "effect" /\ CanBurn(ToolCost[req.tool])
  /\ proofs' = Append(proofs, [id |-> ProofId(req.tool), prev |-> agent.lastProof])
  /\ agent' = Proven(Burned(agent, ToolCost[req.tool]), req.tool)
  /\ CallDone
  /\ UNCHANGED <<expiry, effects, hashes, disk, Clock>>

(***************************************************************************)
(* The environment.                                                        *)
(***************************************************************************)
\* The client hangs up: axum drops the dispatch future at its await.
Cancel ==
  /\ pc \in Awaits /\ Return("cancelled")
  /\ UNCHANGED <<agent, expiry, proofs, effects, hashes, disk, Clock>>

Crash ==
  /\ pc # "down" /\ boot <= MaxCrashes
  /\ pc' = "down"
  /\ UNCHANGED <<req, agent, expiry, proofs, effects, hashes, disk, Clock>>

\* try_load_owner: a file that does not parse leaves the kernel without her.
Restart ==
  /\ pc = "down" /\ Readable(disk)
  /\ pc' = "idle" /\ boot' = boot + 1
  /\ agent' = disk.agent
  /\ expiry' = [t \in Tools |-> 0] /\ proofs' = <<>> /\ seams' = {}
  /\ req' = [req EXCEPT !.receipted = TRUE, !.ran = "no", !.answer = "none"]
  /\ UNCHANGED <<effects, hashes, disk, now, sabbath>>

\* An operator resumes her while she runs: memory goes back to the file, but the
\* cooldowns and the ring of ActReceipts are not the agent's and stay.
Reload ==
  /\ pc = "idle" /\ Readable(disk)
  /\ agent' = disk.agent
  /\ seams' = IF agent'.lastProof = agent.lastProof THEN seams
              ELSE seams \cup {Len(proofs) + 1}
  /\ UNCHANGED <<pc, req, expiry, proofs, effects, hashes, disk, now, sabbath, boot>>

Tick ==
  /\ now < MaxTime /\ now' = now + 1
  /\ UNCHANGED <<pc, req, agent, expiry, proofs, effects, hashes, disk, sabbath, boot, seams>>

SabbathBegins ==
  /\ sabbath = "before" /\ sabbath' = "during"
  /\ UNCHANGED <<pc, req, agent, expiry, proofs, effects, hashes, disk, now, boot, seams>>

SabbathEnds ==
  /\ sabbath = "during" /\ sabbath' = "after"
  /\ UNCHANGED <<pc, req, agent, expiry, proofs, effects, hashes, disk, now, boot, seams>>

Act == \/ \E t \in Tools : AskAct(t)
       \/ ReportDenial \/ ReviewBlocks \/ RhythmQueues \/ GatesRefuse \/ GatesPass
       \/ ToolEffect \/ ToolFails \/ SettleUnpaidTool \/ SettleDenied \/ SettleCommit
       \/ Refreshed \/ Audited \/ Relayed \/ FillFile

Think == \/ AskThink \/ ProviderFails \/ ProviderAnswers \/ ProviderAsksTools
         \/ CallRefused \/ CallFails \/ CallSucceeds
         \/ \E t \in Tools : CallAllowed(t)

Environment == Cancel \/ Crash \/ Restart \/ Reload \/ Tick \/ SabbathBegins \/ SabbathEnds

Next == Act \/ Think \/ Environment

Spec == Init /\ [][Next]_vars

\* Tools, providers, Oya and Sango answer or time out, so a dispatch that is
\* not dropped leaves those awaits.  The calls to Zangbeto and to the Seal
\* commands have no timeout: nothing is assumed of them.  Nobody promises that
\* a client asks or that the kernel is started again.  The Sabbath passes.
Unbounded == {"report", "review", "refresh", "audit"}
Serve == pc \notin {"idle"} \cup Unbounded /\ (Act \/ Think)
FairSpec == Spec /\ WF_vars(Serve) /\ WF_vars(SabbathBegins) /\ WF_vars(SabbathEnds)

(***************************************************************************)
(* Properties.                                                             *)
(***************************************************************************)
Receipts == [id : 1..hashes, prev : 0..hashes, what : Tools \cup {"think_agentic"},
             request : 1..MaxRequests, boot : 1..boot, began : 0..now, settled : 0..now]

Agents == [synapse : 0..InitialSynapse, acts : 0..(RotateEvery - 1),
           chain : Seq(Receipts), lastHash : 0..hashes,
           lastProof : {<<>>} \cup (Tools \X (0..now))]

Requests == [id : 0..MaxRequests, kind : {"act", "think"}, tool : Tools \cup {NoTool},
             ran : {"no", "effect", "ok"}, receipted : BOOLEAN,
             answer : {"none", "ok", "error", "queued", "cancelled"},
             began : 0..now, settled : 0..now, turn : 0..MaxTurns, calls : 0..MaxCalls]

\* Types; the balance never goes below zero nor above what she was born with.
TypeOK ==
  /\ pc \in Awaits \cup {"idle", "save", "down"}
  /\ req \in Requests
  /\ agent \in Agents
  /\ disk = Torn \/ (disk = Snapshot(disk.agent) /\ disk.agent \in Agents)
  /\ expiry \in [Tools -> Nat] /\ now \in 0..MaxTime
  /\ sabbath \in {"before", "during", "after"}
  /\ effects \subseteq 1..MaxRequests /\ hashes \in Nat /\ boot \in 1..(MaxCrashes + 1)

Linked(a) ==
  /\ \A i \in 1..Len(a.chain) :
       a.chain[i].prev = IF i = 1 THEN Genesis ELSE a.chain[i - 1].id
  /\ a.lastHash = IF a.chain = <<>> THEN Genesis ELSE a.chain[Len(a.chain)].id

\* ReceiptStore::verify_chain holds of the chain in memory and of the chain in
\* every readable agent file, through cancelled requests, crashes and restarts
\* from older snapshots.
ChainVerifies == Linked(agent) /\ (Readable(disk) => Linked(disk.agent))

\* A restart can only lose the newest receipts: the file never holds a chain
\* that the running agent has forked away from.
DiskIsPrefix == Readable(disk) => IsPrefix(disk.agent.chain, agent.chain)

Fee(r) == IF r.what \in Tools THEN ToolCost[r.what] + ActCost ELSE ThinkCost
Fees(c) == SumFunction([i \in DOMAIN c |-> Fee(c[i])])

\* Every receipt was paid for out of the balance she was born with, and no
\* crash brings the money back and keeps the receipt.
ReceiptsPaid ==
  /\ agent.synapse + Fees(agent.chain) <= InitialSynapse
  /\ Readable(disk) => disk.agent.synapse + Fees(disk.agent.chain) <= InitialSynapse

\* An act receipt stands for a tool that really ran, no request, however it was
\* cut short and whatever the restart lost, has two of them, and a direct act
\* answered with the tool's result has one.
ReceiptsWitnessed ==
  /\ \A i \in 1..Len(agent.chain) : agent.chain[i].what \in Tools =>
       /\ agent.chain[i].request \in effects
       /\ \A j \in 1..Len(agent.chain) :
            agent.chain[j].request = agent.chain[i].request => i = j
  /\ req.kind = "act" /\ req.answer = "ok" => req.receipted /\ req.id \in effects

\* Within one boot, a direct act passes its gates only when the cooldown of
\* every earlier act on the chain is over, whatever tool that was (the Rhythm
\* gate is per agent, the rhythm tracker per tool), a resume in between or not.
DirectActsSpaced ==
  \A i, j \in 1..Len(agent.chain) :
    LET a == agent.chain[i]
        b == agent.chain[j]
    IN  (i < j /\ {a.what, b.what} \subseteq Tools /\ a.boot = b.boot) =>
           b.began >= a.settled + Cooldown[a.what]

\* Each ActReceipt of this boot names the one issued before it, and the agent
\* carries the newest, which is what survives a restart: but for a resume, which
\* takes her back to the one she was saved with.
ProofsLinked ==
  /\ \A i \in 2..Len(proofs) : proofs[i].prev = proofs[i - 1].id \/ i \in seams
  /\ proofs # <<>> => agent.lastProof = proofs[Len(proofs)].id \/ Len(proofs) + 1 \in seams

\* Unless an enforcer or Seal stalls it, every request is answered: the agentic
\* loop ends, and no error path leaves the steward locked.
RequestsAnswered ==
  pc \notin {"idle", "down"} ~> pc \in {"idle", "down"} \cup Unbounded
=============================================================================

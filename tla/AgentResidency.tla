--------------------------- MODULE AgentResidency ---------------------------
(***************************************************************************)
(* Which agent lives where: the owner's steward and the guests pool of     *)
(* server.rs, the agent files and the owner_agent_id pointer of            *)
(* interpreter.rs, across births, resumes, saves, crashes and restarts.    *)
(*                                                                         *)
(* An agent is reduced to its receipt chain.  Each steward has a mutex of  *)
(* its own, so the owner's and the guest's dispatches interleave; a file   *)
(* is truncated and then filled, and the process may die in between.       *)
(***************************************************************************)
EXTENDS Integers, Sequences, FiniteSets, SequencesExt

CONSTANTS
  Ids,         \* agent ids that births mint
  NoAgent,
  MaxActs,     \* bound: acts of all agents together
  MaxCrashes   \* bound: crashes of the process

ASSUME ResidencyAssumption ==
  /\ NoAgent \notin Ids /\ MaxActs \in Nat /\ MaxCrashes \in Nat

\* The process-wide steward, and one place in the guests pool.
Stewards == {"owner", "guest"}

VARIABLES
  pc,        \* [Stewards -> {"idle", "write", "again", "mark", "register"}]
  onward,    \* [Stewards -> {"idle", "again", "mark", "register"}]  where a save returns to
  holds,     \* [Stewards -> Ids \cup {NoAgent}]  Steward::agent
  chain,     \* [Stewards -> Seq(Nat)]  her receipts in memory
  file,      \* [Ids -> missing, torn or whole with a chain]
  pointer,   \* owner_agent_id: Ids \cup {NoAgent}
  up,        \* the process runs
  acts,      \* ghost: acts so far, numbers the receipts
  crashes,   \* ghost
  born,      \* ghost: ids minted
  owners,    \* ghost: ids minted by a sovereign birth
  shared,    \* ghost: ids two stewards have held at once
  kept       \* ghost: [Ids -> Seq(Nat)]  longest chain a save completed

vars == <<pc, onward, holds, chain, file, pointer, up, acts, crashes, born, owners, shared, kept>>

Missing == [state |-> "missing", chain |-> <<>>]
Torn == [state |-> "torn", chain |-> <<>>]
Whole(c) == [state |-> "whole", chain |-> c]
Readable(i) == file[i].state = "whole"

Init ==
  /\ pc = [s \in Stewards |-> "idle"] /\ onward = [s \in Stewards |-> "idle"]
  /\ holds = [s \in Stewards |-> NoAgent] /\ chain = [s \in Stewards |-> <<>>]
  /\ file = [i \in Ids |-> Missing] /\ pointer = NoAgent /\ up = TRUE
  /\ acts = 0 /\ crashes = 0 /\ born = {} /\ owners = {} /\ shared = {}
  /\ kept = [i \in Ids |-> <<>>]

Idle(s) == up /\ pc[s] = "idle"

\* auto_save of agent i, then on to `next': fs::write truncates first, and an
\* error is ignored.
BeginSave(s, i, next) ==
  \/ /\ file' = [file EXCEPT ![i] = Torn]
     /\ pc' = [pc EXCEPT ![s] = "write"] /\ onward' = [onward EXCEPT ![s] = next]
  \/ pc' = [pc EXCEPT ![s] = next] /\ UNCHANGED <<file, onward>>

FillFile(s) ==
  /\ up /\ pc[s] = "write"
  /\ \/ file' = [file EXCEPT ![holds[s]] = Whole(chain[s])]
        /\ kept' = [kept EXCEPT ![holds[s]] = IF Len(@) < Len(chain[s]) THEN chain[s] ELSE @]
     \/ UNCHANGED <<file, kept>>                  \* disk full
  /\ pc' = [pc EXCEPT ![s] = onward[s]]
  /\ UNCHANGED <<onward, holds, chain, pointer, up, acts, crashes, born, owners, shared>>

\* birth() saves before it returns to the dispatcher.
Mint(s, i) ==
  /\ i \notin born /\ born' = born \cup {i}
  /\ holds' = [holds EXCEPT ![s] = i] /\ chain' = [chain EXCEPT ![s] = <<>>]
  /\ BeginSave(s, i, "again")

\* Mutant: a repeated birth call is not refused.
Vacant_always(s) == TRUE
Vacant(s) == holds[s] = NoAgent

\* A sovereign birth over a resident agent is refused and changes nothing.
SovereignBirth(i) ==
  /\ Idle("owner") /\ Vacant("owner")
  /\ Mint("owner", i) /\ owners' = owners \cup {i}
  /\ UNCHANGED <<pointer, up, acts, crashes, shared, kept>>

\* A guest gets a steward of her own in the pool.
GuestBirth(i) ==
  /\ Idle("guest") /\ holds["guest"] = NoAgent
  /\ Mint("guest", i)
  /\ UNCHANGED <<pointer, up, acts, crashes, owners, shared, kept>>

\* Mutant: a guest's birth goes on to the owner's pointer too.
SaveAgain_bothMark(s) ==
  /\ up /\ pc[s] = "again"
  /\ BeginSave(s, holds[s], "mark")
  /\ UNCHANGED <<holds, chain, pointer, up, acts, crashes, born, owners, shared, kept>>

\* The dispatcher saves again; only a sovereign birth goes on to the pointer.
SaveAgain(s) ==
  /\ up /\ pc[s] = "again"
  /\ BeginSave(s, holds[s], IF s = "owner" THEN "mark" ELSE "register")
  /\ UNCHANGED <<holds, chain, pointer, up, acts, crashes, born, owners, shared, kept>>

\* Or the metadata named an unknown provider, and the birth answers Err: the
\* owner's steward keeps the newborn, the guest's is dropped.
BirthFails(s) ==
  /\ up /\ pc[s] = "again"
  /\ pc' = [pc EXCEPT ![s] = "idle"]
  /\ holds' = [holds EXCEPT !["guest"] = IF s = "guest" THEN NoAgent ELSE @]
  /\ chain' = [chain EXCEPT !["guest"] = IF s = "guest" THEN <<>> ELSE @]
  /\ UNCHANGED <<onward, file, pointer, up, acts, crashes, born, owners, shared, kept>>

\* write_owner_pointer: fs::write, whose error is ignored and may leave the
\* pointer file as it was or empty.
MarkOwner ==
  /\ up /\ pc["owner"] = "mark"
  /\ pointer' \in {pointer, NoAgent, holds["owner"]}
  /\ pc' = [pc EXCEPT !["owner"] = "register"]
  /\ UNCHANGED <<onward, holds, chain, file, up, acts, crashes, born, owners, shared, kept>>

\* Vantage, the chain and the relay each may give the newborn a key or an id
\* to save.  Their calls are awaited.
RegisterSave(s) ==
  /\ up /\ pc[s] = "register" /\ BeginSave(s, holds[s], "register")
  /\ UNCHANGED <<holds, chain, pointer, up, acts, crashes, born, owners, shared, kept>>

BirthEnds(s) ==
  /\ up /\ pc[s] = "register" /\ pc' = [pc EXCEPT ![s] = "idle"]
  /\ UNCHANGED <<onward, holds, chain, file, pointer, up, acts, crashes, born, owners, shared, kept>>

\* The client hangs up: a guest who is not in the pool yet is dropped.
HangUp(s) ==
  /\ up /\ pc[s] = "register" /\ pc' = [pc EXCEPT ![s] = "idle"]
  /\ holds' = [holds EXCEPT !["guest"] = IF s = "guest" THEN NoAgent ELSE @]
  /\ chain' = [chain EXCEPT !["guest"] = IF s = "guest" THEN <<>> ELSE @]
  /\ UNCHANGED <<onward, file, pointer, up, acts, crashes, born, owners, shared, kept>>

\* An act commits its receipt and saves.
Act(s) ==
  /\ Idle(s) /\ holds[s] # NoAgent /\ acts < MaxActs
  /\ acts' = acts + 1
  /\ chain' = [chain EXCEPT ![s] = Append(@, acts')]
  /\ BeginSave(s, holds[s], "idle")
  /\ UNCHANGED <<holds, pointer, up, crashes, born, owners, shared, kept>>

\* Mutant: resuming makes her the owner.
ResumedPointer_resumed(i) == i
ResumedPointer(i) == pointer

\* resume_handler: any readable agent, onto the owner's steward; what that
\* steward held and had not saved is gone.  Guests in the pool stay there.
Resume(i) ==
  /\ Idle("owner") /\ Readable(i)
  /\ holds' = [holds EXCEPT !["owner"] = i]
  /\ chain' = [chain EXCEPT !["owner"] = file[i].chain]
  /\ shared' = IF holds["guest"] = i THEN shared \cup {i} ELSE shared
  /\ pointer' = ResumedPointer(i)
  /\ UNCHANGED <<pc, onward, file, up, acts, crashes, born, owners, kept>>

Crash ==
  /\ up /\ crashes < MaxCrashes
  /\ up' = FALSE /\ crashes' = crashes + 1
  /\ pc' = [s \in Stewards |-> "idle"]
  /\ holds' = [s \in Stewards |-> NoAgent] /\ chain' = [s \in Stewards |-> <<>>]
  /\ UNCHANGED <<onward, file, pointer, acts, born, owners, shared, kept>>

\* try_load_owner: the pointer, if her file parses; nobody otherwise.
LoadedOwner ==
  IF pointer # NoAgent /\ Readable(pointer) THEN pointer ELSE NoAgent

\* Mutant: the history is rebuilt from the moment of birth.
LoadedChain_blank(i) == <<>>
LoadedChain(i) == file[i].chain

\* The pool of guests is not restored.
Restart ==
  /\ ~up /\ up' = TRUE
  /\ holds' = [holds EXCEPT !["owner"] = LoadedOwner]
  /\ chain' = [chain EXCEPT !["owner"] =
                 IF LoadedOwner = NoAgent THEN <<>> ELSE LoadedChain(LoadedOwner)]
  /\ UNCHANGED <<pc, onward, file, pointer, acts, crashes, born, owners, shared, kept>>

Next ==
  \/ \E i \in Ids : SovereignBirth(i) \/ GuestBirth(i) \/ Resume(i)
  \/ \E s \in Stewards : FillFile(s) \/ SaveAgain(s) \/ BirthFails(s) \/ Act(s)
                        \/ RegisterSave(s) \/ BirthEnds(s) \/ HangUp(s)
  \/ MarkOwner \/ Crash \/ Restart

Spec == Init /\ [][Next]_vars

(***************************************************************************)
(* Properties.                                                             *)
(***************************************************************************)
Chains == Seq(1..acts)

\* Types; and a guest's steward never gets to write the owner's pointer.
TypeOK ==
  /\ pc \in [Stewards -> {"idle", "write", "again", "mark", "register"}] /\ pc["guest"] # "mark"
  /\ onward \in [Stewards -> {"idle", "again", "mark", "register"}]
  /\ holds \in [Stewards -> Ids \cup {NoAgent}] /\ chain \in [Stewards -> Chains]
  /\ file \in [Ids -> [state : {"missing", "torn", "whole"}, chain : Chains]]
  /\ pointer \in Ids \cup {NoAgent} /\ up \in BOOLEAN
  /\ acts \in 0..MaxActs /\ crashes \in 0..MaxCrashes
  /\ owners \subseteq born /\ born \subseteq Ids /\ shared \subseteq born
  /\ kept \in [Ids -> Chains]

\* The pointer only ever names an agent of a sovereign birth: hosting a guest,
\* resuming her onto the owner's steward and letting her act there leave the
\* owner who she was.
PointerNamesOwner == pointer \in owners \cup {NoAgent}

\* The owner's pointer moves from one agent to another only when the first
\* one's file can no longer be read, or was never marked.
OwnerKeptWhileReadable ==
  [][(pointer # NoAgent /\ pointer' \notin {pointer, NoAgent}) => ~Readable(pointer)]_vars

\* A steward whose agent no other steward ever held is never behind the file,
\* and the file of such an agent, as long as it can be read, keeps every receipt
\* that a save once completed: a restart loses an unsaved suffix at most.
SoleHolderAhead ==
  /\ \A s \in Stewards :
       (holds[s] # NoAgent /\ holds[s] \notin shared /\ Readable(holds[s]))
         => IsPrefix(file[holds[s]].chain, chain[s])
  /\ \A i \in Ids \ shared : Readable(i) => IsPrefix(kept[i], file[i].chain)
=============================================================================

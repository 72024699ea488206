------------------------ MODULE AgentResidencyProofs ------------------------
(***************************************************************************)
(* Who lives where, for any number of agents, acts and crashes.            *)
(***************************************************************************)
EXTENDS AgentResidency, TLAPS

(***************************************************************************)
(* The strengthening.  Places: what a steward holds was born, nothing is   *)
(* held or under way in a process that is down, two stewards hold one      *)
(* agent only if she is shared, a guest's save does not go on to the       *)
(* pointer, and an id not yet minted has left no trace.  Pointing: during a birth on the owner's steward, and while it   *)
(* is vacant, no file that can be read is the pointer's.  Ahead: as        *)
(* SoleHolderAhead, and what was kept is a prefix of what is in memory,    *)
(* without which a save could not extend it.                               *)
(***************************************************************************)
Held(s) ==
  /\ holds[s] = NoAgent => pc[s] = "idle"
  /\ holds[s] # NoAgent => holds[s] \in born
  /\ ~up => holds[s] = NoAgent

Places ==
  /\ \A s \in Stewards : Held(s)
  /\ holds["guest"] \notin owners /\ onward["guest"] # "mark"
  /\ holds["owner"] = holds["guest"] => holds["owner"] \in shared \cup {NoAgent}
  /\ \A i \in Ids \ born : file[i] = Missing /\ kept[i] = <<>>

InBirth ==
  \/ pc["owner"] \in {"again", "mark"}
  \/ pc["owner"] = "write" /\ onward["owner"] \in {"again", "mark"}

Pointing ==
  /\ PointerNamesOwner
  /\ InBirth => holds["owner"] \in owners /\ pointer # holds["owner"]
  /\ up /\ (InBirth \/ holds["owner"] = NoAgent) /\ pointer # NoAgent => ~Readable(pointer)

AheadIn(s) ==
  holds[s] \notin shared \cup {NoAgent} =>
    /\ Readable(holds[s]) => IsPrefix(file[holds[s]].chain, chain[s])
    /\ IsPrefix(kept[holds[s]], chain[s])

Ahead ==
  /\ \A s \in Stewards : AheadIn(s)
  /\ \A i \in Ids \ shared : Readable(i) => IsPrefix(kept[i], file[i].chain)

IInv == TypeOK /\ Places /\ Pointing /\ Ahead

-----------------------------------------------------------------------------
LEMMA PrefixSelf ==
  ASSUME NEW S, NEW c \in Seq(S)
  PROVE  IsPrefix(c, c) /\ IsPrefix(<<>>, c)
BY DEF IsPrefix

LEMMA PrefixAppend ==
  ASSUME NEW S, NEW c \in Seq(S), NEW d \in Seq(S), NEW r \in S, IsPrefix(d, c)
  PROVE  IsPrefix(d, Append(c, r))
<1>1. Len(d) <= Len(c) /\ Len(d) \in Nat /\ Len(c) \in Nat /\ Len(Append(c, r)) = Len(c) + 1
  BY DEF IsPrefix
<1>2. \A i \in 1..Len(d) : c[i] = Append(c, r)[i]
  BY <1>1
<1>3. SubSeq(c, 1, Len(d)) = SubSeq(Append(c, r), 1, Len(d))
  BY <1>1, <1>2
<1> QED
  BY <1>1, <1>3 DEF IsPrefix

\* The numbers of the acts grow, and a chain of earlier ones stays typed.
LEMMA ChainsGrow ==
  ASSUME acts \in Nat, acts' \in Nat, acts <= acts'
  PROVE  \A c \in Chains : c \in Chains'
<1> SUFFICES ASSUME NEW c \in Seq(1..acts) PROVE c \in Seq(1..acts')
  BY DEF Chains
<1>1. \A i \in 1..Len(c) : c[i] \in 1..acts'
  OBVIOUS
<1> QED
  BY <1>1

(***************************************************************************)
(* A quiet step: somebody's file may be torn, somebody's pc moves on, and  *)
(* who is where and what they carry stays.                                 *)
(***************************************************************************)
Quiet ==
  /\ UNCHANGED <<holds, chain, up, acts, crashes, born, owners, shared, kept>>
  /\ \A i \in Ids : file'[i] = file[i] \/ (i \in born /\ file'[i] = Torn)
  /\ \A s \in Stewards : pc'[s] = pc[s] \/ holds[s] # NoAgent
  /\ onward["guest"] # "mark" => onward'["guest"] # "mark"

LEMMA QuietKeeps ==
  ASSUME IInv, Quiet
  PROVE  Places' /\ Ahead'
<1>1. Places'
  BY DEF IInv, Places, Held, Quiet
<1>2. \A i \in Ids : Readable(i)' => Readable(i) /\ file'[i] = file[i]
  BY DEF Quiet, Readable, Torn
<1>3. \A s \in Stewards : holds[s] # NoAgent => holds[s] \in Ids
  BY DEF IInv, TypeOK
<1>4. Ahead'
  <2>1. \A s \in Stewards : AheadIn(s)'
    BY <1>2, <1>3 DEF IInv, Ahead, AheadIn, Quiet
  <2>2. \A i \in Ids \ shared' : Readable(i)' => IsPrefix(kept'[i], file'[i].chain)
    BY <1>2 DEF IInv, Ahead, Quiet
  <2> QED
    BY <2>1, <2>2 DEF Ahead
<1> QED
  BY <1>1, <1>4

\* What the start of a save does.
LEMMA SaveShape ==
  ASSUME TypeOK, NEW s \in Stewards, NEW i \in Ids,
         NEW next \in {"idle", "again", "mark", "register"}, BeginSave(s, i, next),
         s = "guest" => next # "mark"
  PROVE  /\ \A j \in Ids : file'[j] = file[j] \/ (j = i /\ file'[j] = Torn)
         /\ file' \in [Ids -> [state : {"missing", "torn", "whole"}, chain : Chains]]
         /\ pc' \in [Stewards -> {"idle", "write", "again", "mark", "register"}]
         /\ pc'["guest"] # "mark"
         /\ onward' \in [Stewards -> {"idle", "again", "mark", "register"}]
         /\ onward["guest"] # "mark" => onward'["guest"] # "mark"
         /\ pc'[s] = next \/ (pc'[s] = "write" /\ onward'[s] = next)
         /\ \A t \in Stewards \ {s} : pc'[t] = pc[t] /\ onward'[t] = onward[t]
<1>1. Torn \in [state : {"missing", "torn", "whole"}, chain : Chains]
  BY DEF Torn, Chains
<1>2. CASE /\ file' = [file EXCEPT ![i] = Torn]
           /\ pc' = [pc EXCEPT ![s] = "write"] /\ onward' = [onward EXCEPT ![s] = next]
  BY <1>1, <1>2 DEF TypeOK, Stewards
<1>3. CASE pc' = [pc EXCEPT ![s] = next] /\ UNCHANGED <<file, onward>>
  BY <1>3 DEF TypeOK, Stewards
<1> QED
  BY <1>2, <1>3 DEF BeginSave

-----------------------------------------------------------------------------
LEMMA InitHolds == Init => IInv
<1> SUFFICES ASSUME Init PROVE IInv
  OBVIOUS
<1>1. TypeOK
  BY ResidencyAssumption DEF Init, TypeOK, Stewards, Chains, Missing
<1>2. Places /\ Pointing
  BY ResidencyAssumption
  DEF Init, Places, Held, Pointing, PointerNamesOwner, InBirth, Stewards
<1>3. Ahead
  BY DEF Init, Ahead, AheadIn, Readable, Missing
<1> QED
  BY <1>1, <1>2, <1>3 DEF IInv

(***************************************************************************)
(* Births.                                                                 *)
(***************************************************************************)
LEMMA MintKeeps ==
  ASSUME IInv, NEW s \in Stewards, NEW i \in Ids,
         Mint(s, i), up, pc[s] = "idle", holds[s] = NoAgent,
         UNCHANGED <<pointer, up, acts, crashes, shared, kept>>,
         owners' = IF s = "owner" THEN owners \cup {i} ELSE owners
  PROVE  IInv'
<1>1. /\ i \notin born /\ born' = born \cup {i}
      /\ holds' = [holds EXCEPT ![s] = i] /\ chain' = [chain EXCEPT ![s] = <<>>]
      /\ BeginSave(s, i, "again")
  BY DEF Mint
<1>2. /\ \A j \in Ids : file'[j] = file[j] \/ (j = i /\ file'[j] = Torn)
      /\ file' \in [Ids -> [state : {"missing", "torn", "whole"}, chain : Chains]]
      /\ pc' \in [Stewards -> {"idle", "write", "again", "mark", "register"}]
      /\ pc'["guest"] # "mark"
      /\ onward' \in [Stewards -> {"idle", "again", "mark", "register"}]
      /\ onward["guest"] # "mark" => onward'["guest"] # "mark"
      /\ pc'[s] = "again" \/ (pc'[s] = "write" /\ onward'[s] = "again")
      /\ \A t \in Stewards \ {s} : pc'[t] = pc[t] /\ onward'[t] = onward[t]
  BY <1>1, SaveShape DEF IInv
<1>3. i # NoAgent /\ i \notin shared /\ i \notin owners /\ i # pointer
      /\ \A t \in Stewards : holds[t] # i
  BY <1>1, ResidencyAssumption
  DEF IInv, TypeOK, Places, Held, Pointing, PointerNamesOwner
<1>4. TypeOK'
  <2>1. <<>> \in Chains /\ Chains' = Chains
    BY DEF Chains
  <2>2. holds' \in [Stewards -> Ids \cup {NoAgent}] /\ chain' \in [Stewards -> Chains]
    BY <1>1, <2>1 DEF IInv, TypeOK
  <2> QED
    BY <1>1, <1>2, <2>1, <2>2 DEF IInv, TypeOK
<1>5. /\ holds'[s] = i /\ chain'[s] = <<>> /\ kept[i] = <<>>
      /\ \A t \in Stewards \ {s} : holds'[t] = holds[t] /\ chain'[t] = chain[t]
  BY <1>1 DEF IInv, TypeOK, Places
<1>6. Places'
  BY <1>1, <1>2, <1>3, <1>5 DEF IInv, Places, Held, Stewards
<1>7. ~Readable(i)' /\ \A j \in Ids : Readable(j)' => Readable(j) /\ file'[j] = file[j]
  BY <1>1, <1>2 DEF IInv, Places, Readable, Missing, Torn
<1>8. Pointing'
  <2>1. PointerNamesOwner'
    BY DEF IInv, Pointing, PointerNamesOwner
  <2>2. pointer # NoAgent => pointer \in Ids
    BY DEF IInv, TypeOK
  <2>3. CASE s = "owner"
    BY <2>1, <2>2, <2>3, <1>3, <1>5, <1>7 DEF IInv, Pointing, PointerNamesOwner
  <2>4. CASE s = "guest"
    <3>1. InBirth' = InBirth /\ holds'["owner"] = holds["owner"]
      BY <2>4, <1>2, <1>5 DEF InBirth, Stewards
    <3> QED
      BY <2>1, <2>2, <2>4, <3>1, <1>7 DEF IInv, Pointing
  <2> QED
    BY <2>3, <2>4 DEF Stewards
<1>9. Ahead'
  <2>1. IsPrefix(<<>>, <<>>)
    BY DEF IsPrefix
  <2>2. \A t \in Stewards : holds[t] # NoAgent => holds[t] \in Ids
    BY DEF IInv, TypeOK
  <2>3. \A t \in Stewards : AheadIn(t)'
    BY <2>1, <2>2, <1>5, <1>7 DEF IInv, Ahead, AheadIn
  <2> QED
    BY <2>3, <1>7 DEF IInv, Ahead
<1> QED
  BY <1>4, <1>6, <1>8, <1>9 DEF IInv

LEMMA BirthKeeps ==
  ASSUME IInv, NEW i \in Ids, SovereignBirth(i) \/ GuestBirth(i)
  PROVE  IInv'
<1>1. "owner" \in Stewards /\ "guest" \in Stewards
  BY DEF Stewards
<1>2. CASE SovereignBirth(i)
  BY <1>1, <1>2, MintKeeps DEF SovereignBirth, Idle, Vacant
<1>3. CASE GuestBirth(i)
  BY <1>1, <1>3, MintKeeps DEF GuestBirth, Idle
<1> QED
  BY <1>2, <1>3

\* The saves that follow, and the mark between them.
LEMMA BirthGoesOn ==
  ASSUME IInv, NEW s \in Stewards, SaveAgain(s) \/ RegisterSave(s) \/ BirthEnds(s)
  PROVE  IInv'
<1>1. holds[s] \in Ids /\ holds[s] \in born /\ holds[s] # NoAgent
  BY DEF IInv, TypeOK, Places, Held, SaveAgain, RegisterSave, BirthEnds
<1>2. CASE SaveAgain(s) \/ RegisterSave(s)
  <2> DEFINE next == IF SaveAgain(s) /\ s = "owner" THEN "mark" ELSE "register"
  <2>1. BeginSave(s, holds[s], next)
    <3>1. CASE SaveAgain(s)
      BY <3>1 DEF SaveAgain
    <3>2. CASE RegisterSave(s) /\ ~SaveAgain(s)
      BY <3>2 DEF RegisterSave
    <3> QED
      BY <1>2, <3>1, <3>2
  <2>2. next \in {"mark", "register"} /\ (s = "guest" => next # "mark")
        /\ (next = "mark" => s = "owner" /\ pc[s] = "again")
    BY DEF SaveAgain
  <2>3. UNCHANGED <<holds, chain, pointer, up, acts, crashes, born, owners, shared, kept>>
    BY <1>2 DEF SaveAgain, RegisterSave
  <2> HIDE DEF next
  <2>4. /\ \A j \in Ids : file'[j] = file[j] \/ (j = holds[s] /\ file'[j] = Torn)
        /\ file' \in [Ids -> [state : {"missing", "torn", "whole"}, chain : Chains]]
        /\ pc' \in [Stewards -> {"idle", "write", "again", "mark", "register"}]
        /\ pc'["guest"] # "mark"
        /\ onward' \in [Stewards -> {"idle", "again", "mark", "register"}]
        /\ onward["guest"] # "mark" => onward'["guest"] # "mark"
        /\ pc'[s] = next \/ (pc'[s] = "write" /\ onward'[s] = next)
        /\ \A t \in Stewards \ {s} : pc'[t] = pc[t] /\ onward'[t] = onward[t]
    BY <1>1, <2>1, <2>2, SaveShape DEF IInv
  <2>5. TypeOK'
    <3>1. Chains' = Chains
      BY <2>3 DEF Chains
    <3> QED
      BY <2>3, <2>4, <3>1 DEF IInv, TypeOK
  <2>6. Quiet
    BY <1>1, <2>3, <2>4 DEF Quiet
  <2>7. InBirth' => InBirth
    BY <2>2, <2>4 DEF InBirth, Stewards
  <2>8. Pointing'
    BY <2>3, <2>4, <2>7 DEF IInv, TypeOK, Pointing, PointerNamesOwner, Readable, Torn
  <2> QED
    BY <2>5, <2>6, <2>8, QuietKeeps DEF IInv
<1>3. CASE BirthEnds(s)
  <2>1. TypeOK'
    BY <1>3 DEF IInv, TypeOK, BirthEnds, Chains
  <2>2. Quiet
    BY <1>1, <1>3 DEF IInv, TypeOK, Quiet, BirthEnds
  <2>3. InBirth' => InBirth
    BY <1>3 DEF IInv, TypeOK, InBirth, BirthEnds
  <2>4. Pointing'
    BY <1>3, <2>3 DEF IInv, Pointing, PointerNamesOwner, Readable, BirthEnds
  <2> QED
    BY <2>1, <2>2, <2>4, QuietKeeps DEF IInv
<1> QED
  BY <1>2, <1>3

LEMMA MarkKeeps ==
  ASSUME IInv, MarkOwner
  PROVE  IInv'
<1> USE DEF MarkOwner
<1>1. holds["owner"] \in owners /\ holds["owner"] # NoAgent /\ "owner" \in Stewards
  BY ResidencyAssumption DEF IInv, TypeOK, Pointing, InBirth, Places, Held, Stewards
<1>2. TypeOK'
  <2>1. holds["owner"] \in Ids \cup {NoAgent} /\ Chains' = Chains
    BY <1>1 DEF IInv, TypeOK, Chains
  <2> QED
    BY <2>1 DEF IInv, TypeOK, Stewards
<1>3. Quiet
  BY <1>1 DEF IInv, TypeOK, Quiet
<1>4. ~InBirth' /\ holds'["owner"] # NoAgent
  BY <1>1 DEF IInv, TypeOK, InBirth
<1>5. Pointing'
  BY <1>1, <1>4 DEF IInv, Pointing, PointerNamesOwner
<1> QED
  BY <1>2, <1>3, <1>5, QuietKeeps DEF IInv

\* A birth that fails or is hung up on: the guest is dropped, her file stays.
LEMMA DropKeeps ==
  ASSUME IInv, NEW s \in Stewards, BirthFails(s) \/ HangUp(s)
  PROVE  IInv'
<1>1. /\ up /\ pc[s] # "idle" /\ pc' = [pc EXCEPT ![s] = "idle"]
      /\ holds' = [holds EXCEPT !["guest"] = IF s = "guest" THEN NoAgent ELSE @]
      /\ chain' = [chain EXCEPT !["guest"] = IF s = "guest" THEN <<>> ELSE @]
      /\ UNCHANGED <<onward, file, pointer, up, acts, crashes, born, owners, shared, kept>>
  BY DEF BirthFails, HangUp
<1>2. TypeOK'
  <2>1. <<>> \in Chains /\ Chains' = Chains
    BY <1>1 DEF Chains
  <2>2. holds' \in [Stewards -> Ids \cup {NoAgent}] /\ chain' \in [Stewards -> Chains]
    BY <1>1, <2>1 DEF IInv, TypeOK, Stewards
  <2> QED
    BY <1>1, <2>1, <2>2 DEF IInv, TypeOK, Stewards
<1>3. /\ holds'["owner"] = holds["owner"] /\ chain'["owner"] = chain["owner"]
      /\ \/ s = "guest" /\ holds'["guest"] = NoAgent
         \/ holds'["guest"] = holds["guest"] /\ chain'["guest"] = chain["guest"]
      /\ pc'[s] = "idle" /\ \A t \in Stewards \ {s} : pc'[t] = pc[t]
  BY <1>1 DEF IInv, TypeOK, Stewards
<1>4. Places'
  BY <1>1, <1>3, ResidencyAssumption DEF IInv, TypeOK, Places, Held, Stewards
<1>5. Pointing'
  <2>1. InBirth' => InBirth
    BY <1>1, <1>3 DEF InBirth, Stewards
  <2> QED
    BY <1>1, <1>3, <2>1 DEF IInv, Pointing, PointerNamesOwner, Readable
<1>6. Ahead'
  BY <1>1, <1>3 DEF IInv, Ahead, AheadIn, Readable, Stewards
<1> QED
  BY <1>2, <1>4, <1>5, <1>6 DEF IInv

-----------------------------------------------------------------------------
(***************************************************************************)
(* A save completes: the file becomes what its writer has in memory.       *)
(***************************************************************************)
LEMMA FillKeeps ==
  ASSUME IInv, NEW s \in Stewards, FillFile(s)
  PROVE  IInv'
<1> DEFINE i == holds[s]
           new == IF Len(kept[i]) < Len(chain[s]) THEN chain[s] ELSE kept[i]
<1>1. /\ up /\ pc[s] = "write" /\ pc' = [pc EXCEPT ![s] = onward[s]]
      /\ UNCHANGED <<onward, holds, chain, pointer, up, acts, crashes, born, owners, shared>>
  BY DEF FillFile
<1>2. \/ UNCHANGED <<file, kept>>
      \/ file' = [file EXCEPT ![i] = Whole(chain[s])] /\ kept' = [kept EXCEPT ![i] = new]
  BY DEF FillFile
<1>3. i \in Ids /\ i \in born /\ i # NoAgent
  BY <1>1 DEF IInv, TypeOK, Places, Held
<1>4. chain[s] \in Chains /\ kept[i] \in Chains /\ new \in Chains /\ Chains' = Chains
  BY <1>1, <1>3 DEF IInv, TypeOK, Chains
<1>5. TypeOK'
  <2>1. Whole(chain[s]) \in [state : {"missing", "torn", "whole"}, chain : Chains]
    BY <1>4 DEF Whole
  <2>2. file' \in [Ids -> [state : {"missing", "torn", "whole"}, chain : Chains]]
        /\ kept' \in [Ids -> Chains]
    <3>1. file \in [Ids -> [state : {"missing", "torn", "whole"}, chain : Chains]]
          /\ kept \in [Ids -> Chains]
      BY DEF IInv, TypeOK
    <3> HIDE DEF new
    <3> QED
      BY <1>2, <1>4, <2>1, <3>1
  <2>3. pc' \in [Stewards -> {"idle", "write", "again", "mark", "register"}]
        /\ pc'["guest"] # "mark"
    BY <1>1 DEF IInv, TypeOK, Places, Stewards
  <2> QED
    BY <1>1, <1>4, <2>2, <2>3 DEF IInv, TypeOK
<1>6. /\ \A j \in Ids : j # i => file'[j] = file[j] /\ kept'[j] = kept[j]
      /\ UNCHANGED <<file, kept>> \/ (file'[i] = Whole(chain[s]) /\ kept'[i] = new)
  <2> HIDE DEF new
  <2> QED
    BY <1>2, <1>3 DEF IInv, TypeOK
<1>7. Places'
  BY <1>1, <1>3, <1>6 DEF IInv, TypeOK, Places, Held
<1>8. Pointing'
  <2>1. InBirth' = InBirth
    BY <1>1 DEF IInv, TypeOK, InBirth
  <2>2. pointer # NoAgent => pointer \in Ids /\ pointer \in owners
    BY DEF IInv, TypeOK, Pointing, PointerNamesOwner
  <2>3. InBirth \/ holds["owner"] = NoAgent => i # pointer
    BY <1>1, <1>3, <2>2 DEF IInv, Pointing, Places, Held, Stewards
  <2> QED
    BY <1>1, <1>6, <2>1, <2>2, <2>3 DEF IInv, Pointing, PointerNamesOwner, Readable
<1>9. Ahead'
  <2>1. CASE UNCHANGED <<file, kept>>
    BY <1>1, <2>1 DEF IInv, Ahead, AheadIn, Readable
  <2>2. CASE file'[i] = Whole(chain[s]) /\ kept'[i] = new
    <3>1. IsPrefix(chain[s], chain[s])
      BY <1>4, PrefixSelf DEF Chains
    <3>2. i \notin shared => IsPrefix(new, chain[s])
      BY <1>3, <3>1 DEF IInv, Ahead, AheadIn
    <3>3. AheadIn(s)'
      BY <1>1, <2>2, <3>1, <3>2 DEF AheadIn, Whole
    <3>4. ASSUME NEW t \in Stewards, t # s PROVE AheadIn(t)'
      <4>1. CASE holds[t] = i
        BY <1>1, <1>3, <3>4, <4>1 DEF IInv, Places, Stewards, AheadIn
      <4>2. CASE holds[t] # i
        <5>1. holds[t] # NoAgent => holds[t] \in Ids
          BY DEF IInv, TypeOK
        <5> QED
          BY <1>1, <1>6, <4>2, <5>1 DEF IInv, Ahead, AheadIn, Readable
      <4> QED
        BY <4>1, <4>2
    <3>5. ASSUME NEW j \in Ids \ shared, Readable(j)'
          PROVE  IsPrefix(kept'[j], file'[j].chain)
      BY <1>6, <2>2, <3>2, <3>5 DEF IInv, Ahead, Readable, Whole
    <3> QED
      BY <1>1, <3>3, <3>4, <3>5 DEF Ahead
  <2> QED
    BY <1>6, <2>1, <2>2
<1> QED
  BY <1>5, <1>7, <1>8, <1>9 DEF IInv

\* An act extends the chain and starts a save.
LEMMA ActKeeps ==
  ASSUME IInv, NEW s \in Stewards, Act(s)
  PROVE  IInv'
<1> DEFINE i == holds[s]
<1>1. /\ up /\ pc[s] = "idle" /\ i # NoAgent /\ acts < MaxActs /\ acts' = acts + 1
      /\ chain' = [chain EXCEPT ![s] = Append(@, acts')]
      /\ BeginSave(s, i, "idle")
      /\ UNCHANGED <<holds, pointer, up, crashes, born, owners, shared, kept>>
  BY DEF Act, Idle
<1>2. i \in Ids /\ i \in born /\ acts \in Nat /\ acts' \in Nat /\ acts' \in 1..acts'
      /\ acts' \in 0..MaxActs /\ MaxActs \in Nat
  BY <1>1, ResidencyAssumption DEF IInv, TypeOK, Places, Held
<1>3. /\ \A j \in Ids : file'[j] = file[j] \/ (j = i /\ file'[j] = Torn)
      /\ file' \in [Ids -> [state : {"missing", "torn", "whole"}, chain : Chains]]
      /\ pc' \in [Stewards -> {"idle", "write", "again", "mark", "register"}]
      /\ pc'["guest"] # "mark"
      /\ onward' \in [Stewards -> {"idle", "again", "mark", "register"}]
      /\ onward["guest"] # "mark" => onward'["guest"] # "mark"
      /\ pc'[s] = "idle" \/ (pc'[s] = "write" /\ onward'[s] = "idle")
      /\ \A t \in Stewards \ {s} : pc'[t] = pc[t] /\ onward'[t] = onward[t]
  BY <1>1, <1>2, SaveShape DEF IInv
<1>4. \A c \in Chains : c \in Chains'
  BY <1>1, <1>2, ChainsGrow
<1>5. /\ chain[s] \in Chains' /\ Append(chain[s], acts') \in Chains'
      /\ \A t \in Stewards : chain[t] \in Chains'
  <2>1. \A t \in Stewards : chain[t] \in Chains'
    BY <1>4 DEF IInv, TypeOK
  <2>2. chain[s] \in Seq(1..acts')
    BY <2>1 DEF Chains
  <2>3. Append(chain[s], acts') \in Seq(1..acts')
    BY <2>2, <1>2
  <2> QED
    BY <2>1, <2>3 DEF Chains
<1>6. /\ chain'[s] = Append(chain[s], acts')
      /\ \A t \in Stewards \ {s} : chain'[t] = chain[t]
  BY <1>1 DEF IInv, TypeOK
<1>7. TypeOK'
  <2>1. chain' \in [Stewards -> Chains']
    BY <1>1, <1>5 DEF IInv, TypeOK
  <2>2. file' \in [Ids -> [state : {"missing", "torn", "whole"}, chain : Chains']]
    BY <1>3, <1>4
  <2>3. kept' \in [Ids -> Chains']
    BY <1>1, <1>4 DEF IInv, TypeOK
  <2> QED
    BY <1>1, <1>2, <1>3, <2>1, <2>2, <2>3 DEF IInv, TypeOK
<1>8. Places'
  BY <1>1, <1>2, <1>3 DEF IInv, Places, Held
<1>9. \A j \in Ids : Readable(j)' => Readable(j) /\ file'[j] = file[j]
  BY <1>3 DEF Readable, Torn
<1>10. Pointing'
  <2>1. InBirth' => InBirth
    BY <1>1, <1>3 DEF InBirth, Stewards
  <2> QED
    BY <1>1, <1>9, <2>1 DEF IInv, TypeOK, Pointing, PointerNamesOwner
<1>11. Ahead'
  <2>1. \A t \in Stewards : holds[t] # NoAgent => holds[t] \in Ids
    BY DEF IInv, TypeOK
  <2>2. \A t \in Stewards \ {s} : AheadIn(t)'
    BY <1>1, <1>6, <1>9, <2>1 DEF IInv, Ahead, AheadIn
  <2>3. AheadIn(s)'
    <3>1. /\ kept[i] \in Seq(1..acts') /\ file[i].chain \in Seq(1..acts')
          /\ chain[s] \in Seq(1..acts')
      <4>1. kept[i] \in Chains /\ file[i].chain \in Chains
        BY <1>2 DEF IInv, TypeOK
      <4> QED
        BY <4>1, <1>4, <1>5 DEF Chains
    <3>2. /\ IsPrefix(kept[i], chain[s]) => IsPrefix(kept[i], Append(chain[s], acts'))
          /\ IsPrefix(file[i].chain, chain[s])
               => IsPrefix(file[i].chain, Append(chain[s], acts'))
      BY <3>1, <1>2, PrefixAppend
    <3> QED
      BY <1>1, <1>2, <1>6, <1>9, <3>2 DEF IInv, Ahead, AheadIn
  <2>4. \A j \in Ids \ shared' : Readable(j)' => IsPrefix(kept'[j], file'[j].chain)
    BY <1>1, <1>9 DEF IInv, Ahead
  <2> QED
    BY <2>2, <2>3, <2>4 DEF Ahead
<1> QED
  BY <1>7, <1>8, <1>10, <1>11 DEF IInv

-----------------------------------------------------------------------------
(***************************************************************************)
(* A readable file is loaded: its chain is all that counts from then on.   *)
(***************************************************************************)
LEMMA ResumeKeeps ==
  ASSUME IInv, NEW i \in Ids, Resume(i)
  PROVE  IInv'
<1>1. /\ up /\ pc["owner"] = "idle" /\ Readable(i)
      /\ holds' = [holds EXCEPT !["owner"] = i]
      /\ chain' = [chain EXCEPT !["owner"] = file[i].chain]
      /\ shared' = IF holds["guest"] = i THEN shared \cup {i} ELSE shared
      /\ UNCHANGED <<pointer, pc, onward, file, up, acts, crashes, born, owners, kept>>
  BY DEF Resume, Idle, ResumedPointer
<1>2. /\ holds'["owner"] = i /\ chain'["owner"] = file[i].chain
      /\ holds'["guest"] = holds["guest"] /\ chain'["guest"] = chain["guest"]
  BY <1>1 DEF IInv, TypeOK, Stewards
<1>3. i \in born /\ i # NoAgent
  BY <1>1, ResidencyAssumption DEF IInv, Places, Readable, Missing
<1>4. TypeOK'
  <2>1. file[i].chain \in Chains /\ Chains' = Chains
    BY <1>1 DEF IInv, TypeOK, Chains
  <2>2. holds' \in [Stewards -> Ids \cup {NoAgent}] /\ chain' \in [Stewards -> Chains]
    BY <1>1, <2>1 DEF IInv, TypeOK
  <2> QED
    BY <1>1, <1>3, <2>1, <2>2 DEF IInv, TypeOK
<1>5. Places'
  BY <1>1, <1>2, <1>3 DEF IInv, Places, Held, Stewards
<1>6. Pointing'
  BY <1>1, <1>2, <1>3 DEF IInv, Pointing, PointerNamesOwner, InBirth, Readable
<1>7. Ahead'
  <2>1. IsPrefix(file[i].chain, file[i].chain)
    <3>1. file[i].chain \in Seq(1..acts)
      BY DEF IInv, TypeOK, Chains
    <3> QED
      BY <3>1, PrefixSelf
  <2>2. i \notin shared => IsPrefix(kept[i], file[i].chain)
    BY <1>1 DEF IInv, Ahead
  <2>3. AheadIn("owner")' /\ AheadIn("guest")'
    BY <1>1, <1>2, <2>1, <2>2 DEF IInv, Ahead, AheadIn, Readable, Stewards
  <2> QED
    BY <1>1, <2>3 DEF IInv, Ahead, Readable, Stewards
<1> QED
  BY <1>4, <1>5, <1>6, <1>7 DEF IInv

LEMMA CrashKeeps ==
  ASSUME IInv, Crash
  PROVE  IInv'
<1> USE DEF Crash
<1>1. TypeOK'
  <2>1. <<>> \in Chains /\ Chains' = Chains
    BY DEF Chains
  <2>2. /\ pc' \in [Stewards -> {"idle", "write", "again", "mark", "register"}]
        /\ pc'["guest"] # "mark"
        /\ holds' \in [Stewards -> Ids \cup {NoAgent}] /\ chain' \in [Stewards -> Chains]
    BY <2>1 DEF Stewards
  <2>3. crashes' \in 0..MaxCrashes
    <3>1. crashes \in 0..MaxCrashes /\ crashes < MaxCrashes /\ crashes' = crashes + 1
      BY DEF IInv, TypeOK
    <3> QED
      BY <3>1, ResidencyAssumption
  <2>4. up' \in BOOLEAN
    OBVIOUS
  <2> QED
    BY <2>1, <2>2, <2>3, <2>4 DEF IInv, TypeOK
<1>2. Places' /\ Pointing'
  BY ResidencyAssumption
  DEF IInv, TypeOK, Places, Held, Pointing, PointerNamesOwner, InBirth, Stewards
<1>3. Ahead'
  BY DEF IInv, Ahead, AheadIn, Readable
<1> QED
  BY <1>1, <1>2, <1>3 DEF IInv

LEMMA RestartKeeps ==
  ASSUME IInv, Restart
  PROVE  IInv'
<1> DEFINE o == LoadedOwner
           c == IF o = NoAgent THEN <<>> ELSE file[o].chain
<1>1. /\ ~up /\ up'
      /\ holds' = [holds EXCEPT !["owner"] = o] /\ chain' = [chain EXCEPT !["owner"] = c]
      /\ UNCHANGED <<pc, onward, file, pointer, acts, crashes, born, owners, shared, kept>>
  BY DEF Restart, LoadedChain
<1>2. /\ o \in Ids \cup {NoAgent}
      /\ o # NoAgent => Readable(o) /\ o \in born /\ o = pointer
      /\ o = NoAgent /\ pointer # NoAgent => ~Readable(pointer)
  BY DEF IInv, TypeOK, Pointing, PointerNamesOwner, LoadedOwner
<1>3. \A s \in Stewards : holds[s] = NoAgent /\ pc[s] = "idle"
  BY <1>1 DEF IInv, Places, Held
<1>4. c \in Chains /\ Chains' = Chains
  <2>1. <<>> \in Chains /\ Chains' = Chains
    BY <1>1 DEF Chains
  <2>2. o # NoAgent => file[o].chain \in Chains
    BY <1>2 DEF IInv, TypeOK
  <2> QED
    BY <2>1, <2>2
<1> HIDE DEF o, c
<1>5. holds'["owner"] = o /\ chain'["owner"] = c /\ holds'["guest"] = NoAgent
  BY <1>1, <1>3 DEF IInv, TypeOK, Stewards
<1>6. TypeOK'
  <2>1. holds' \in [Stewards -> Ids \cup {NoAgent}] /\ chain' \in [Stewards -> Chains]
    BY <1>1, <1>2, <1>4 DEF IInv, TypeOK
  <2> QED
    BY <1>1, <1>4, <2>1 DEF IInv, TypeOK
<1>7. Places'
  BY <1>1, <1>2, <1>3, <1>5 DEF IInv, Places, Held, Stewards
<1>8. Pointing'
  BY <1>1, <1>2, <1>3, <1>5
  DEF IInv, Pointing, PointerNamesOwner, InBirth, Readable, Stewards
<1>9. Ahead'
  <2>1. o # NoAgent => IsPrefix(c, c) /\ c = file[o].chain
    BY <1>4, PrefixSelf DEF c, Chains
  <2>2. o \notin shared \cup {NoAgent} => IsPrefix(kept[o], file[o].chain)
    BY <1>2 DEF IInv, Ahead
  <2>3. AheadIn("owner")' /\ AheadIn("guest")'
    BY <1>1, <1>5, <2>1, <2>2 DEF AheadIn
  <2> QED
    BY <1>1, <2>3 DEF IInv, Ahead, Readable, Stewards
<1> QED
  BY <1>6, <1>7, <1>8, <1>9 DEF IInv

LEMMA StepHolds == IInv /\ [Next]_vars => IInv'
<1> SUFFICES ASSUME IInv, [Next]_vars PROVE IInv'
  OBVIOUS
<1>1. CASE \E i \in Ids : SovereignBirth(i) \/ GuestBirth(i)
  BY <1>1, BirthKeeps
<1>2. CASE \E i \in Ids : Resume(i)
  BY <1>2, ResumeKeeps
<1>3. CASE \E s \in Stewards : SaveAgain(s) \/ RegisterSave(s) \/ BirthEnds(s)
  BY <1>3, BirthGoesOn
<1>4. CASE \E s \in Stewards : BirthFails(s) \/ HangUp(s)
  BY <1>4, DropKeeps
<1>5. CASE \E s \in Stewards : FillFile(s)
  BY <1>5, FillKeeps
<1>6. CASE \E s \in Stewards : Act(s)
  BY <1>6, ActKeeps
<1>7. CASE MarkOwner \/ Crash \/ Restart
  BY <1>7, MarkKeeps, CrashKeeps, RestartKeeps
<1>8. CASE UNCHANGED vars
  <2> USE <1>8 DEF vars
  <2>1. TypeOK'
    BY DEF IInv, TypeOK, Chains
  <2>2. Places' /\ Pointing'
    BY DEF IInv, Places, Held, Pointing, PointerNamesOwner, InBirth, Readable
  <2>3. Ahead'
    BY DEF IInv, Ahead, AheadIn, Readable
  <2> QED
    BY <2>1, <2>2, <2>3 DEF IInv
<1> QED
  BY <1>1, <1>2, <1>3, <1>4, <1>5, <1>6, <1>7, <1>8 DEF Next

\* The invariant the other theorems rest on.
THEOREM ResidencyInvariant == Spec => []IInv
<1> QED
  BY InitHolds, StepHolds, PTL DEF Spec

\* Types, and that a guest's steward never gets to write the pointer.
THEOREM TypeCorrect == Spec => []TypeOK
<1>1. IInv => TypeOK
  BY DEF IInv
<1> QED
  BY <1>1, ResidencyInvariant, PTL

\* The pointer only ever names an agent of a sovereign birth, whoever is hosted
\* or resumed (interpreter.rs write_owner_pointer, server.rs resume_handler).
THEOREM OwnerIsSovereign == Spec => []PointerNamesOwner
<1>1. IInv => PointerNamesOwner
  BY DEF IInv, Pointing
<1> QED
  BY <1>1, ResidencyInvariant, PTL

\* A steward who alone holds an agent is never behind her file, and the file, while
\* it can be read, has every receipt a save completed (session.rs save, load).
THEOREM NoReceiptForgotten == Spec => []SoleHolderAhead
<1>1. IInv => SoleHolderAhead
  BY DEF IInv, Ahead, AheadIn, SoleHolderAhead
<1> QED
  BY <1>1, ResidencyInvariant, PTL

\* The owner is replaced only when her file cannot be read: a restart finds her
\* otherwise, and a sovereign birth over a resident is refused.
THEOREM OwnerStays == Spec => OwnerKeptWhileReadable
<1> DEFINE Stays ==
      (pointer # NoAgent /\ pointer' \notin {pointer, NoAgent}) => ~Readable(pointer)
<1>1. IInv /\ [Next]_vars => [Stays]_vars
  <2> SUFFICES ASSUME IInv, Next, pointer # NoAgent, pointer' \notin {pointer, NoAgent}
               PROVE  ~Readable(pointer)
    OBVIOUS
  <2>1. MarkOwner
    BY DEF Next, SovereignBirth, GuestBirth, Resume, ResumedPointer, FillFile, SaveAgain,
           BirthFails, Act, RegisterSave, BirthEnds, HangUp, Crash, Restart
  <2> QED
    BY <2>1 DEF MarkOwner, IInv, Pointing, InBirth
<1> QED
  BY <1>1, ResidencyInvariant, PTL DEF Spec, OwnerKeptWhileReadable
=============================================================================

----------------------------- MODULE SwarmProofs -----------------------------
(***************************************************************************)
(* The review council, for any councillors, weights and callers and any    *)
(* order of opinions and timeouts; and the sovereign agents, for any       *)
(* agents, weights, reports, crashes and respawns.                         *)
(***************************************************************************)
EXTENDS Council, Sovereigns, Sums

(***************************************************************************)
(* The review council.                                                     *)
(***************************************************************************)
Opinions == [id : Councillors, severity : OpinionSeverities]

CouncilTypes ==
  /\ review \in [Councillors -> {"running", "sent", "dead", "heard"}]
  /\ severity \in [Councillors -> OpinionSeverities \cup {"none"}]
  /\ timeouts \in SUBSET Councillors
  /\ opinions \in Seq(Opinions) /\ status \in {"deliberating", "concluded"}

HasSpoken(c) == review[c] = "heard"

\* An opinion is the one its author sent, and each author heard has one.
OpinionsTrue ==
  /\ \A c \in Councillors : review[c] \in {"sent", "heard"} => severity[c] \in OpinionSeverities
  /\ \A k \in 1..Len(opinions) :
       HasSpoken(opinions[k].id) /\ opinions[k].severity = severity[opinions[k].id]
  /\ \A c \in Councillors : HasSpoken(c) => \E k \in 1..Len(opinions) : opinions[k].id = c

\* The session is over when nobody is waited for, and its verdict is then that
\* of the opinions there are.
SessionSettled ==
  /\ pending = {c \in Councillors : ~HasSpoken(c) /\ c \in timeouts}
  /\ status = "concluded" <=> pending = {}
  /\ status = "concluded" => verdict = Aggregate(opinions)

CouncilInv == CouncilTypes /\ OpinionsTrue /\ SessionSettled

LEMMA InitCouncilHolds == InitCouncil => CouncilInv
<1> SUFFICES ASSUME InitCouncil PROVE CouncilInv
  OBVIOUS
<1>1. CouncilTypes
  BY DEF InitCouncil, CouncilTypes
<1>2. OpinionsTrue
  BY DEF InitCouncil, OpinionsTrue, HasSpoken
<1>3. SessionSettled
  BY CouncilAssumption DEF InitCouncil, SessionSettled, HasSpoken
<1> QED
  BY <1>1, <1>2, <1>3 DEF CouncilInv

\* Settling follows the ones still waited for, of whom there are fewer.
LEMMA SettleSettles ==
  ASSUME NEW ops, Settle(ops), pending' \subseteq pending, status \in {"deliberating", "concluded"},
         status = "concluded" <=> pending = {}
  PROVE  /\ status' \in {"deliberating", "concluded"}
         /\ status' = "concluded" <=> pending' = {}
         /\ status' = "concluded" => verdict' = Aggregate(ops)
BY DEF Settle, Conclude

LEMMA PutFirst ==
  ASSUME NEW S, NEW q \in Seq(S), NEW x \in S
  PROVE  /\ <<x>> \o q \in Seq(S) /\ Len(<<x>> \o q) = Len(q) + 1 /\ Len(q) \in Nat
         /\ (<<x>> \o q)[1] = x
         /\ \A k \in 1..Len(q) : (<<x>> \o q)[k + 1] = q[k]
OBVIOUS

LEMMA Authors ==
  ASSUME CouncilTypes, NEW k \in 1..Len(opinions)
  PROVE  opinions[k].id \in Councillors
<1>1. opinions[k] \in Opinions
  BY DEF CouncilTypes
<1> QED
  BY <1>1 DEF Opinions

LEMMA HearOpinionKeeps ==
  ASSUME CouncilInv, NEW c \in Councillors, HearOpinion(c)
  PROVE  CouncilInv'
<1> DEFINE x == [id |-> c, severity |-> severity[c]]
<1>1. /\ review[c] = "sent" /\ review' = [review EXCEPT ![c] = "heard"]
      /\ opinions' = <<x>> \o opinions /\ pending' = pending \ {c} /\ Settle(opinions')
      /\ UNCHANGED <<severity, timeouts>>
  BY DEF HearOpinion
<1>2. x \in Opinions /\ x.id = c /\ x.severity = severity[c]
  BY <1>1 DEF CouncilInv, OpinionsTrue, Opinions
<1> HIDE DEF x
<1>3. /\ opinions' \in Seq(Opinions) /\ Len(opinions') = Len(opinions) + 1
      /\ Len(opinions) \in Nat /\ opinions'[1] = x
      /\ \A k \in 1..Len(opinions) : opinions'[k + 1] = opinions[k]
  BY <1>1, <1>2, PutFirst DEF CouncilInv, CouncilTypes
<1>4. /\ review' \in [Councillors -> {"running", "sent", "dead", "heard"}]
      /\ \A d \in Councillors : HasSpoken(d)' <=> d = c \/ HasSpoken(d)
      /\ \A d \in Councillors : review'[d] \in {"sent", "heard"} => review[d] \in {"sent", "heard"}
  BY <1>1 DEF CouncilInv, CouncilTypes, HasSpoken
<1>5. SessionSettled' /\ status' \in {"deliberating", "concluded"}
  <2>1. pending' = {d \in Councillors : ~HasSpoken(d)' /\ d \in timeouts'}
    BY <1>1, <1>4 DEF CouncilInv, SessionSettled
  <2>2. /\ status' \in {"deliberating", "concluded"}
        /\ status' = "concluded" <=> pending' = {}
        /\ status' = "concluded" => verdict' = Aggregate(opinions')
    BY <1>1, SettleSettles DEF CouncilInv, SessionSettled, CouncilTypes
  <2>3. status' = "concluded" => verdict' = Aggregate(opinions)'
    BY <2>2
  <2> QED
    BY <2>1, <2>2, <2>3 DEF SessionSettled
<1>6. CouncilTypes'
  BY <1>1, <1>3, <1>4, <1>5 DEF CouncilInv, CouncilTypes
<1>7. OpinionsTrue'
  <2>1. \A d \in Councillors : review'[d] \in {"sent", "heard"} => severity'[d] \in OpinionSeverities
    BY <1>1, <1>4 DEF CouncilInv, OpinionsTrue
  <2>2. ASSUME NEW k \in 1..Len(opinions')
        PROVE  /\ review'[opinions'[k].id] = "heard"
               /\ opinions'[k].severity = severity'[opinions'[k].id]
    <3>1. k = 1 \/ (k - 1 \in 1..Len(opinions) /\ k = (k - 1) + 1)
      BY <1>3
    <3>2. CASE k = 1
      BY <3>2, <1>1, <1>2, <1>3, <1>4 DEF HasSpoken
    <3>3. CASE k - 1 \in 1..Len(opinions) /\ k = (k - 1) + 1
      <4>1. opinions'[k] = opinions[k - 1] /\ opinions[k - 1].id \in Councillors
        BY <3>3, <1>3, Authors DEF CouncilInv
      <4>2. HasSpoken(opinions[k - 1].id)
            /\ opinions[k - 1].severity = severity[opinions[k - 1].id]
        BY <3>3 DEF CouncilInv, OpinionsTrue
      <4> QED
        BY <4>1, <4>2, <1>1, <1>4 DEF HasSpoken
    <3> QED
      BY <3>1, <3>2, <3>3
  <2>3. ASSUME NEW d \in Councillors, HasSpoken(d)'
        PROVE  \E k \in 1..Len(opinions') : opinions'[k].id = d
    <3>1. CASE d = c
      <4>1. 1 \in 1..Len(opinions')
        BY <1>3
      <4> QED
        BY <3>1, <4>1, <1>2, <1>3
    <3>2. CASE d # c
      <4>1. PICK k \in 1..Len(opinions) : opinions[k].id = d
        BY <3>2, <2>3, <1>4 DEF CouncilInv, OpinionsTrue
      <4>2. k + 1 \in 1..Len(opinions')
        BY <1>3
      <4> QED
        BY <4>1, <4>2, <1>3
    <3> QED
      BY <3>1, <3>2
  <2> QED
    BY <2>1, <2>2, <2>3 DEF OpinionsTrue, HasSpoken
<1> QED
  BY <1>5, <1>6, <1>7 DEF CouncilInv

LEMMA HearTimeoutKeeps ==
  ASSUME CouncilInv, NEW c \in Councillors, HearTimeout(c)
  PROVE  CouncilInv'
<1>1. timeouts' = timeouts \ {c} /\ UNCHANGED <<review, severity, opinions>>
  BY DEF HearTimeout
<1>2. OpinionsTrue'
  BY <1>1 DEF CouncilInv, OpinionsTrue, HasSpoken
<1>3. CASE c \in pending
  <2>1. pending' = pending \ {c} /\ Settle(opinions)
    BY <1>3 DEF HearTimeout
  <2>2. pending' = {d \in Councillors : ~HasSpoken(d)' /\ d \in timeouts'}
    BY <1>1, <2>1 DEF CouncilInv, SessionSettled, HasSpoken
  <2>3. /\ status' \in {"deliberating", "concluded"}
        /\ status' = "concluded" <=> pending' = {}
        /\ status' = "concluded" => verdict' = Aggregate(opinions)
    BY <2>1, SettleSettles DEF CouncilInv, SessionSettled, CouncilTypes
  <2>4. status' = "concluded" => verdict' = Aggregate(opinions)'
    BY <1>1, <2>3
  <2> QED
    BY <1>1, <1>2, <2>2, <2>3, <2>4 DEF CouncilInv, CouncilTypes, SessionSettled
<1>4. CASE c \notin pending
  <2>1. UNCHANGED <<pending, status, verdict>>
    BY <1>4 DEF HearTimeout
  <2>2. pending' = {d \in Councillors : ~HasSpoken(d)' /\ d \in timeouts'}
    BY <1>1, <1>4, <2>1 DEF CouncilInv, SessionSettled, HasSpoken
  <2>3. status' = "concluded" => verdict' = Aggregate(opinions)'
    BY <1>1, <2>1 DEF CouncilInv, SessionSettled
  <2> QED
    BY <1>1, <1>2, <2>1, <2>2, <2>3 DEF CouncilInv, CouncilTypes, SessionSettled
<1> QED
  BY <1>3, <1>4

\* Steps of the councillors' own processes and of the callers.
LEMMA OutsideKeeps ==
  ASSUME CouncilInv, UNCHANGED <<timeouts, pending, opinions, status, verdict>>,
         \/ UNCHANGED <<review, severity>>
         \/ \E c \in Councillors : SendOpinion(c) \/ ReviewDies(c)
  PROVE  CouncilInv'
<1>1. /\ review' \in [Councillors -> {"running", "sent", "dead", "heard"}]
      /\ severity' \in [Councillors -> OpinionSeverities \cup {"none"}]
      /\ \A c \in Councillors :
           /\ HasSpoken(c)' <=> HasSpoken(c)
           /\ HasSpoken(c) => severity'[c] = severity[c]
           /\ review'[c] \in {"sent", "heard"} => severity'[c] \in OpinionSeverities
  BY DEF SendOpinion, ReviewDies, CouncilInv, CouncilTypes, OpinionsTrue, HasSpoken
<1>2. CouncilTypes'
  BY <1>1 DEF CouncilInv, CouncilTypes
<1>3. OpinionsTrue'
  <2>1. \A k \in 1..Len(opinions) : opinions[k].id \in Councillors
    BY Authors DEF CouncilInv
  <2> QED
    BY <1>1, <2>1 DEF CouncilInv, OpinionsTrue
<1>4. SessionSettled'
  <2>1. Aggregate(opinions)' = Aggregate(opinions)
    OBVIOUS
  <2> QED
    BY <1>1, <2>1 DEF CouncilInv, SessionSettled
<1> QED
  BY <1>2, <1>3, <1>4 DEF CouncilInv

LEMMA CouncilStepHolds == CouncilInv /\ [CouncilNext]_councilVars => CouncilInv'
<1> SUFFICES ASSUME CouncilInv, [CouncilNext]_councilVars PROVE CouncilInv'
  OBVIOUS
<1>1. CASE \E c \in Councillors : HearOpinion(c) \/ HearTimeout(c)
  BY <1>1, HearOpinionKeeps, HearTimeoutKeeps
<1>2. CASE \E c \in Councillors : SendOpinion(c) \/ ReviewDies(c)
  <2>1. UNCHANGED <<timeouts, pending, opinions, status, verdict>>
    BY <1>2 DEF SendOpinion, ReviewDies, session
  <2> QED
    BY <1>2, <2>1, OutsideKeeps
<1>3. CASE UNCHANGED councilVars \/ \E k \in Callers : Await(k) \/ HearAwait(k) \/ GiveUp(k)
  <2>1. UNCHANGED <<review, severity, timeouts, pending, opinions, status, verdict>>
    BY <1>3 DEF Await, HearAwait, GiveUp, councilVars, reviews, session
  <2> QED
    BY <2>1, OutsideKeeps
<1> QED
  BY <1>1, <1>2, <1>3 DEF CouncilNext

(***************************************************************************)
(* What aggregate chooses exists: a finite set has a greatest value.       *)
(***************************************************************************)
LEMMA Greatest ==
  ASSUME NEW S, IsFiniteSet(S), NEW f \in [S -> Int], NEW T \in SUBSET S, T # {}
  PROVE  \E x \in T : \A y \in T : f[y] <= f[x]
<1> DEFINE HasMax(U) == \E x \in U : \A y \in U : f[y] <= f[x]
<1> DEFINE D == {U \in SUBSET S : U # {} /\ ~HasMax(U)}
<1> SUFFICES ASSUME ~HasMax(T) PROVE FALSE
  OBVIOUS
<1>1. D \in SUBSET (SUBSET S) /\ T \in D
  OBVIOUS
<1>2. PICK U \in D : \A V \in SUBSET U : V # U => V \notin D
  <2> HIDE DEF D
  <2> QED
    BY <1>1, MinimalSubset
<1>3. PICK x \in U : TRUE
  BY <1>2
<1>4. U \in SUBSET S /\ x \in S /\ \A y \in U : f[y] \in Int
  BY <1>2, <1>3
<1>5. CASE U = {x}
  <2>1. \A y \in U : f[y] <= f[x]
    BY <1>4, <1>5
  <2> QED
    BY <1>2, <1>3, <2>1
<1>6. CASE U # {x}
  <2>1. U \ {x} \notin D /\ U \ {x} \in SUBSET S /\ U \ {x} # {}
    <3>1. U \ {x} \in SUBSET U /\ U \ {x} # U /\ U \ {x} # {}
      BY <1>3, <1>6
    <3> HIDE DEF D
    <3> QED
      BY <1>2, <1>4, <3>1
  <2>2. PICK m \in U \ {x} : \A y \in U \ {x} : f[y] <= f[m]
    BY <2>1
  <2>3. CASE f[x] <= f[m]
    BY <1>2, <2>2, <2>3
  <2>4. CASE ~(f[x] <= f[m])
    <3>1. \A y \in U : f[y] <= f[x]
      BY <1>4, <2>2, <2>4
    <3> QED
      BY <1>2, <1>3, <3>1
  <2> QED
    BY <2>3, <2>4
<1> QED
  BY <1>5, <1>6

LEMMA Least ==
  ASSUME NEW n \in Nat, NEW T \in SUBSET (1..n), T # {}
  PROVE  \E x \in T : \A y \in T : x <= y
<1> DEFINE f == [k \in 1..n |-> -k]
<1>1. IsFiniteSet(1..n) /\ f \in [1..n -> Int]
  BY FS_Interval
<1>2. \A k \in T : k \in Int /\ f[k] = -k
  OBVIOUS
<1> HIDE DEF f
<1>3. PICK x \in T : \A y \in T : f[y] <= f[x]
  BY <1>1, Greatest
<1>4. \A y \in T : x <= y
  BY <1>2, <1>3
<1> QED
  BY <1>4

\* Of the opinions of one severity, the best is one of a weightiest councillor.
LEMMA BestIsHeaviest ==
  ASSUME NEW ops \in Seq(Opinions), NEW s, NEW k \in 1..Len(ops), ops[k].severity = s
  PROVE  \E b \in 1..Len(ops) :
           /\ Best(ops, s) = ops[b].id /\ ops[b].severity = s
           /\ Weight[ops[k].id] <= Weight[ops[b].id]
<1> DEFINE n == Len(ops)
           w == [j \in 1..n |-> Weight[ops[j].id]]
           of == {j \in 1..n : ops[j].severity = s}
           top == {j \in of : \A i \in of : w[i] <= w[j]}
           b == CHOOSE j \in top : \A i \in top : j <= i
<1>1. n \in Nat /\ DOMAIN ops = 1..n /\ IsFiniteSet(1..n)
  BY FS_Interval
<1>2. w \in [1..n -> Int]
  <2>1. ASSUME NEW j \in 1..n PROVE Weight[ops[j].id] \in Int
    <3>1. ops[j] \in Opinions
      OBVIOUS
    <3> QED
      BY <3>1, CouncilAssumption DEF Opinions
  <2> QED
    BY <2>1
<1>3. k \in of /\ of \in SUBSET (1..n)
  OBVIOUS
<1>4. \E j \in of : \A i \in of : w[i] <= w[j]
  <2> HIDE DEF of, w, n
  <2> QED
    BY <1>1, <1>2, <1>3, Greatest
<1>5. top # {} /\ top \in SUBSET (1..n)
  BY <1>3, <1>4
<1>6. \E j \in top : \A i \in top : j <= i
  <2> HIDE DEF top, n
  <2> QED
    BY <1>1, <1>5, Least
<1>7. b \in top
  BY <1>6
<1>8. b \in 1..n /\ ops[b].severity = s /\ w[k] <= w[b]
  <2> HIDE DEF b, w
  <2> QED
    BY <1>3, <1>7
<1>9. w[k] = Weight[ops[k].id] /\ w[b] = Weight[ops[b].id]
  <2> HIDE DEF b
  <2> QED
    BY <1>8
<1>10. Best(ops, s) = ops[b].id
  <2>1. of = {j \in DOMAIN ops : ops[j].severity = s}
    BY <1>1
  <2>2. top = {j \in of : \A i \in of : Weight[ops[i].id] <= Weight[ops[j].id]}
    <3>1. \A i \in of : w[i] = Weight[ops[i].id]
      OBVIOUS
    <3> HIDE DEF w, of
    <3> QED
      BY <3>1
  <2> HIDE DEF of
  <2> QED
    BY <2>1, <2>2 DEF Best
<1> QED
  BY <1>8, <1>9, <1>10

Rank(s) == CHOOSE i \in DOMAIN SeverityOrder : SeverityOrder[i] = s

LEMMA RankInverts ==
  /\ DOMAIN SeverityOrder = 1..4
  /\ \A i \in 1..4 : Rank(SeverityOrder[i]) = i
  /\ \A s \in OpinionSeverities : Rank(s) \in 1..4 /\ SeverityOrder[Rank(s)] = s
<1>1. DOMAIN SeverityOrder = 1..4
  BY DEF SeverityOrder
<1>2. \A i, j \in 1..4 : SeverityOrder[i] = SeverityOrder[j] => i = j
  BY DEF SeverityOrder
<1>3. ASSUME NEW i \in 1..4 PROVE Rank(SeverityOrder[i]) = i
  BY <1>1, <1>2 DEF Rank
<1>4. ASSUME NEW s \in OpinionSeverities PROVE Rank(s) \in 1..4 /\ SeverityOrder[Rank(s)] = s
  <2>1. PICK i \in 1..4 : SeverityOrder[i] = s
    BY <1>1, CouncilAssumption
  <2> QED
    BY <1>1, <2>1 DEF Rank
<1> QED
  BY <1>1, <1>3, <1>4

\* The highest severity is one that was given, and none given is graver.
LEMMA HighestIsGravest ==
  ASSUME NEW ops \in Seq(Opinions), NEW k \in 1..Len(ops)
  PROVE  /\ \E j \in 1..Len(ops) : ops[j].severity = Highest(ops)
         /\ Rank(Highest(ops)) <= Rank(ops[k].severity)
<1> DEFINE said == {i \in DOMAIN SeverityOrder :
                      \E j \in DOMAIN ops : ops[j].severity = SeverityOrder[i]}
           h == CHOOSE i \in said : \A j \in said : i <= j
<1>1. DOMAIN ops = 1..Len(ops) /\ ops[k] \in Opinions /\ ops[k].severity \in OpinionSeverities
  <2>1. DOMAIN ops = 1..Len(ops) /\ ops[k] \in Opinions
    OBVIOUS
  <2> QED
    BY <2>1 DEF Opinions
<1>2. Rank(ops[k].severity) \in said
  BY <1>1, RankInverts
<1>3. said \in SUBSET (1..4)
  BY RankInverts
<1>4. \E i \in said : \A j \in said : i <= j
  <2> HIDE DEF said
  <2> QED
    BY <1>2, <1>3, Least
<1>5. h \in said /\ \A j \in said : h <= j
  BY <1>4
<1>6. Highest(ops) = SeverityOrder[h]
  BY <1>2 DEF Highest
<1>7. \E j \in 1..Len(ops) : ops[j].severity = SeverityOrder[h]
  <2> HIDE DEF h
  <2> QED
    BY <1>1, <1>5
<1>8. Rank(Highest(ops)) = h
  <2> HIDE DEF h, said
  <2> QED
    BY <1>3, <1>5, <1>6, RankInverts
<1>9. h <= Rank(ops[k].severity)
  <2> HIDE DEF h, said
  <2> QED
    BY <1>2, <1>5
<1> QED
  BY <1>6, <1>7, <1>8, <1>9

\* The invariant of a session.
THEOREM CouncilInvariant == CouncilSpec => []CouncilInv
<1> QED
  BY InitCouncilHolds, CouncilStepHolds, PTL DEF CouncilSpec

\* A session is over when every councillor was heard or timed out, and its verdict
\* then weighs every opinion heard, those after a timeout included, for any
\* councillors and weights (council.ex handle_info, aggregate).
THEOREM VerdictsTally == CouncilSpec => []VerdictIsTally
<1>1. CouncilInv => VerdictIsTally
  <2> SUFFICES ASSUME CouncilInv PROVE VerdictIsTally
    OBVIOUS
  <2> DEFINE Heard == {c \in Councillors : review[c] = "heard"}
             Of(s) == {c \in Heard : severity[c] = s}
             n == Len(opinions)
  <2>0. /\ opinions \in Seq(Opinions) /\ n \in Nat /\ DOMAIN opinions = 1..n
        /\ \A k \in 1..n : opinions[k].id \in Heard
                           /\ opinions[k].severity = severity[opinions[k].id]
        /\ \A c \in Heard : \E k \in 1..n : opinions[k].id = c
    BY Authors DEF CouncilInv, CouncilTypes, OpinionsTrue, HasSpoken
  <2>1. status = "concluded" <=> \A c \in Councillors : c \in Heard \/ c \notin timeouts
    BY DEF CouncilInv, SessionSettled, HasSpoken
  <2>2. ASSUME status = "concluded"
        PROVE  /\ verdict.findings = {[id |-> c, severity |-> severity[c]] : c \in Heard}
               /\ \A c \in Heard :
                    /\ Rank(verdict.highest) <= Rank(severity[c])
                    /\ verdict.best[severity[c]] \in Of(severity[c])
                    /\ Weight[c] <= Weight[verdict.best[severity[c]]]
               /\ Heard # {} => Of(verdict.highest) # {}
    <3>1. verdict = Aggregate(opinions)
      BY <2>2 DEF CouncilInv, SessionSettled
    <3>2. CASE opinions = <<>>
      <4>1. Heard = {} /\ verdict.findings = {}
        BY <3>1, <3>2, <2>0 DEF Aggregate, NoVerdict
      <4> QED
        BY <4>1
    <3>3. CASE opinions # <<>>
      <4>1. /\ verdict.highest = Highest(opinions)
            /\ verdict.findings = {opinions[k] : k \in 1..n}
            /\ \A k \in 1..n : verdict.best[opinions[k].severity] = Best(opinions, opinions[k].severity)
        BY <3>1, <3>3, <2>0 DEF Aggregate
      <4>2. verdict.findings = {[id |-> c, severity |-> severity[c]] : c \in Heard}
        <5>1. ASSUME NEW k \in 1..n
              PROVE  opinions[k] = [id |-> opinions[k].id, severity |-> severity[opinions[k].id]]
          <6>1. opinions[k] \in Opinions
            BY <2>0
          <6>2. opinions[k] = [id |-> opinions[k].id, severity |-> opinions[k].severity]
            BY <6>1 DEF Opinions
          <6> QED
            BY <6>2, <2>0
        <5> QED
          BY <5>1, <4>1, <2>0
      <4>3. ASSUME NEW c \in Heard
            PROVE  /\ Rank(verdict.highest) <= Rank(severity[c])
                   /\ verdict.best[severity[c]] \in Of(severity[c])
                   /\ Weight[c] <= Weight[verdict.best[severity[c]]]
                   /\ Of(verdict.highest) # {}
        <5>1. PICK k \in 1..n : opinions[k].id = c
          BY <2>0
        <5>2. opinions[k].severity = severity[c]
          BY <5>1, <2>0
        <5>3. PICK b \in 1..n : /\ Best(opinions, severity[c]) = opinions[b].id
                                /\ opinions[b].severity = severity[c]
                                /\ Weight[opinions[k].id] <= Weight[opinions[b].id]
          BY <2>0, <5>2, BestIsHeaviest
        <5>4. verdict.best[severity[c]] = opinions[b].id
          BY <4>1, <5>2, <5>3
        <5>5. opinions[b].id \in Of(severity[c])
          BY <2>0, <5>3
        <5>6. /\ Rank(Highest(opinions)) <= Rank(severity[c])
              /\ \E j \in 1..n : opinions[j].severity = Highest(opinions)
          BY <2>0, <5>2, HighestIsGravest
        <5> QED
          BY <2>0, <4>1, <5>1, <5>3, <5>4, <5>5, <5>6
      <4> QED
        BY <4>2, <4>3
    <3> QED
      BY <3>2, <3>3
  <2> QED
    BY <2>1, <2>2 DEF VerdictIsTally, Rank
<1> QED
  BY <1>1, CouncilInvariant, PTL

-----------------------------------------------------------------------------
(***************************************************************************)
(* The sovereign agents.  Types first; a DOWN message in the mailbox names *)
(* a process that was started.                                             *)
(***************************************************************************)
Weights == [Principles -> Int]
Worker(n) == [pid : 0..n, role : Roles, weights : Weights, count : Nat]
ProcessRecord == [agent : Agents, role : Roles, weights : Weights,
                  origin : {"spawn", "rebirth", "restart"}, alive : BOOLEAN]
Mail(n) ==
  [kind : {"spawn"}, agent : Agents, role : Roles, weights : Weights]
    \cup [kind : {"violation"}, agent : Agents, principle : Principles, severity : {"warn", "block"}]
    \cup [kind : {"rebirth"}, agent : Agents] \cup [kind : {"DOWN"}, pid : 1..n]
Lesson == [agent : Agents, weights : Weights]
Telling == [kind : {"lesson", "retire"}, agent : Agents, weights : Weights]

SupervisorTypes ==
  /\ procs \in Seq(ProcessRecord) /\ workers \in [Agents -> Worker(Len(procs))]
  /\ monitorRefs \subseteq 1..Len(procs) /\ mailbox \in Seq(Mail(Len(procs)))
  /\ timers \in [Agents -> Nat] /\ spawns \in [Agents -> Nat] /\ reborn \in [Agents -> Nat]

(***************************************************************************)
(* The rebirths.  Those granted were taken, or their timer runs, or their  *)
(* message waits; a worker may yet be granted as many as its count leaves. *)
(***************************************************************************)
WaitSet(q, a) == {i \in DOMAIN q : q[i].kind = "rebirth" /\ q[i].agent = a}
Waits(q, a) == Cardinality(WaitSet(q, a))

Owing(count) == IF count < MaxRebirths - 1 THEN MaxRebirths - 1 - count ELSE 0

Balanced(n, taken, running, waiting, count) ==
  LET granted == taken + running + waiting
  IN  IF n = 0 THEN granted = 0 ELSE granted + Owing(count) <= (MaxRebirths - 1) * n

Rationed ==
  \A a \in Agents :
    Balanced(spawns[a], reborn[a], timers[a], Waits(mailbox, a), workers[a].count)

\* Of an agent never spawned nothing runs, and nothing is in the map.
Unspawned ==
  \A a \in Agents : spawns[a] = 0 =>
    workers[a].pid = 0 /\ \A p \in DOMAIN procs : procs[p].agent # a

(***************************************************************************)
(* The Hive.  A retirement comes right after the lesson it was sent with:  *)
(* behind it in the mailbox, or as the newest lesson, unless pruned.       *)
(***************************************************************************)
HiveTypes ==
  hiveBox \in Seq(Telling) /\ lessons \in Seq(Lesson) /\ retired \in Seq(Lesson)

Taught(m) == [agent |-> m.agent, weights |-> m.weights]

Paired ==
  \A k \in 1..Len(hiveBox) : hiveBox[k].kind = "retire" =>
    IF k = 1 THEN lessons = <<>> \/ lessons[1] = Taught(hiveBox[1])
    ELSE hiveBox[k - 1].kind = "lesson" /\ Taught(hiveBox[k - 1]) = Taught(hiveBox[k])

HiveInv == HiveTypes /\ Paired

SovereignInv ==
  SupervisorTypes /\ SoleUnderCurrentWeights /\ Rationed /\ Unspawned

-----------------------------------------------------------------------------
LEMMA WaitFinite ==
  ASSUME NEW S, NEW q \in Seq(S), NEW a
  PROVE  IsFiniteSet(WaitSet(q, a)) /\ Waits(q, a) \in Nat
<1>1. WaitSet(q, a) \subseteq 1..Len(q) /\ IsFiniteSet(1..Len(q))
  BY FS_Interval DEF WaitSet
<1> QED
  BY <1>1, FS_Subset, FS_CardinalityType DEF Waits

LEMMA WaitPosted ==
  ASSUME NEW S, NEW q \in Seq(S), NEW m \in S, NEW a
  PROVE  Waits(Append(q, m), a) =
           Waits(q, a) + (IF m.kind = "rebirth" /\ m.agent = a THEN 1 ELSE 0)
<1>1. /\ DOMAIN Append(q, m) = 1..(Len(q) + 1) /\ DOMAIN q = 1..Len(q) /\ Len(q) \in Nat
      /\ \A i \in 1..Len(q) : Append(q, m)[i] = q[i]
      /\ Append(q, m)[Len(q) + 1] = m
  OBVIOUS
<1>2. CASE m.kind = "rebirth" /\ m.agent = a
  <2>1. WaitSet(Append(q, m), a) = WaitSet(q, a) \cup {Len(q) + 1}
    BY <1>1, <1>2 DEF WaitSet
  <2>2. Len(q) + 1 \notin WaitSet(q, a)
    BY <1>1 DEF WaitSet
  <2> QED
    BY <1>2, <2>1, <2>2, WaitFinite, FS_AddElement DEF Waits
<1>3. CASE ~(m.kind = "rebirth" /\ m.agent = a)
  <2>1. WaitSet(Append(q, m), a) = WaitSet(q, a)
    BY <1>1, <1>3 DEF WaitSet
  <2>2. Waits(q, a) \in Nat
    BY WaitFinite
  <2> QED
    BY <1>3, <2>1, <2>2 DEF Waits
<1> QED
  BY <1>2, <1>3

LEMMA WaitTaken ==
  ASSUME NEW S, NEW q \in Seq(S), q # <<>>, NEW a
  PROVE  Waits(q, a) =
           Waits(Tail(q), a) + (IF Head(q).kind = "rebirth" /\ Head(q).agent = a THEN 1 ELSE 0)
<1> DEFINE later == WaitSet(q, a) \ {1}
           shift == [i \in WaitSet(Tail(q), a) |-> i + 1]
<1>1. /\ DOMAIN q = 1..Len(q) /\ DOMAIN Tail(q) = 1..(Len(q) - 1) /\ Tail(q) \in Seq(S)
      /\ Len(q) \in Nat /\ Len(q) >= 1 /\ Head(q) = q[1]
      /\ \A i \in 1..(Len(q) - 1) : Tail(q)[i] = q[i + 1]
  OBVIOUS
<1>2. shift \in Bijection(WaitSet(Tail(q), a), later)
  <2>1. ASSUME NEW i \in WaitSet(Tail(q), a) PROVE shift[i] \in later /\ i \in Int
    BY <1>1 DEF WaitSet
  <2>2. ASSUME NEW j \in later
        PROVE  j - 1 \in WaitSet(Tail(q), a) /\ shift[j - 1] = j
    <3>1. j \in 1..Len(q) /\ j # 1 /\ q[j].kind = "rebirth" /\ q[j].agent = a
      BY <1>1 DEF WaitSet
    <3>2. j - 1 \in 1..(Len(q) - 1) /\ (j - 1) + 1 = j
      BY <1>1, <3>1
    <3> QED
      BY <1>1, <3>1, <3>2 DEF WaitSet
  <2>3. shift \in [WaitSet(Tail(q), a) -> later]
    BY <2>1
  <2>4. \A i, j \in WaitSet(Tail(q), a) : shift[i] = shift[j] => i = j
    BY <2>1
  <2> HIDE DEF shift, later
  <2> QED
    BY <2>2, <2>3, <2>4 DEF Bijection, Injection, Surjection, IsInjective
<1>3. IsFiniteSet(later) /\ Cardinality(later) = Waits(Tail(q), a)
  <2>1. ExistsBijection(WaitSet(Tail(q), a), later)
    BY <1>2 DEF ExistsBijection
  <2> HIDE DEF later
  <2> QED
    BY <1>1, <2>1, WaitFinite, FS_Bijection DEF Waits
<1>4. CASE Head(q).kind = "rebirth" /\ Head(q).agent = a
  <2>1. WaitSet(q, a) = later \cup {1} /\ 1 \notin later
    BY <1>1, <1>4 DEF WaitSet
  <2> HIDE DEF later
  <2>2. Cardinality(later \cup {1}) = Cardinality(later) + 1
    BY <1>3, <2>1, FS_AddElement
  <2> QED
    BY <1>3, <1>4, <2>1, <2>2 DEF Waits
<1>5. CASE ~(Head(q).kind = "rebirth" /\ Head(q).agent = a)
  <2>1. WaitSet(q, a) = later
    BY <1>1, <1>5 DEF WaitSet
  <2> HIDE DEF later
  <2>2. Waits(Tail(q), a) \in Nat
    BY <1>1, WaitFinite
  <2>3. Waits(q, a) = Waits(Tail(q), a)
    BY <1>3, <2>1 DEF Waits
  <2> QED
    BY <1>5, <2>2, <2>3
<1> QED
  BY <1>4, <1>5

\* What waited before m was posted waits still.
LEMMA MailGrows ==
  ASSUME NEW m \in Nat, NEW n \in Nat, m <= n, NEW q \in Seq(Mail(m))
  PROVE  q \in Seq(Mail(n))
<1>1. Mail(m) \subseteq Mail(n)
  <2>1. 1..m \subseteq 1..n
    OBVIOUS
  <2> QED
    BY <2>1 DEF Mail
<1> QED
  BY <1>1

\* Taking the first message of the mailbox.
LEMMA MailTaken ==
  ASSUME SupervisorTypes, mailbox # <<>>
  PROVE  /\ Head(mailbox) \in Mail(Len(procs)) /\ Tail(mailbox) \in Seq(Mail(Len(procs)))
         /\ \A a \in Agents :
              /\ Waits(mailbox, a) \in Nat /\ Waits(Tail(mailbox), a) \in Nat
              /\ Waits(mailbox, a) = Waits(Tail(mailbox), a) +
                   (IF Head(mailbox).kind = "rebirth" /\ Head(mailbox).agent = a THEN 1 ELSE 0)
<1>1. mailbox \in Seq(Mail(Len(procs)))
  BY DEF SupervisorTypes
<1>2. Head(mailbox) \in Mail(Len(procs)) /\ Tail(mailbox) \in Seq(Mail(Len(procs)))
  BY <1>1
<1> QED
  BY <1>1, <1>2, WaitTaken, WaitFinite

\* A DOWN message is posted to the supervisor only for a process it watches.
LEMMA DownPosted ==
  ASSUME SupervisorTypes, NEW n \in Nat, Len(procs) <= n, NEW q \in Seq(Mail(n)), NEW p
  PROVE  q \o Down(p) \in Seq(Mail(n)) /\ \A a \in Agents : Waits(q \o Down(p), a) = Waits(q, a)
<1>1. CASE p \in monitorRefs
  <2> DEFINE m == [kind |-> "DOWN", pid |-> p]
  <2>1. p \in 1..n
    <3>1. Len(procs) \in Nat /\ p \in 1..Len(procs)
      BY <1>1 DEF SupervisorTypes
    <3> QED
      BY <3>1
  <2>2. m \in Mail(n) /\ m.kind # "rebirth"
    BY <2>1 DEF Mail
  <2>3. q \o Down(p) = Append(q, m)
    BY <1>1 DEF Down
  <2> HIDE DEF m
  <2>4. Append(q, m) \in Seq(Mail(n))
    BY <2>2
  <2>5. \A a \in Agents : Waits(Append(q, m), a) = Waits(q, a) + 0 /\ Waits(q, a) \in Nat
    BY <2>2, WaitPosted, WaitFinite
  <2> QED
    BY <2>3, <2>4, <2>5
<1>2. CASE p \notin monitorRefs
  <2>1. q \o Down(p) = q
    BY <1>2 DEF Down
  <2> QED
    BY <2>1
<1> QED
  BY <1>1, <1>2

\* What each event does to an agent's account of rebirths.
LEMMA AccountKept ==
  ASSUME NEW n \in Nat, NEW r \in Nat, NEW t \in Nat, NEW w \in Nat, NEW c \in Nat
  PROVE  /\ \A v \in Nat : v <= w /\ Balanced(n, r, t, w, c) => Balanced(n, r, t, v, c)
         /\ Balanced(n, r, t, w + 1, c) => n # 0 /\ Balanced(n, r + 1, t, w, c)
         /\ t > 0 /\ Balanced(n, r, t, w, c) => Balanced(n, r, t - 1, w + 1, c)
<1> DEFINE ration == (MaxRebirths - 1) * n
<1>1. ration \in Int /\ Owing(c) \in Int
  BY SovereignsAssumption DEF Owing
<1> HIDE DEF ration
<1>2. \A x, y, z \in Nat : Balanced(n, x, y, z, c) <=>
         IF n = 0 THEN x + y + z = 0 ELSE x + y + z + Owing(c) <= ration
  BY DEF Balanced, ration
<1>3. \A v \in Nat : v <= w /\ Balanced(n, r, t, w, c) => Balanced(n, r, t, v, c)
  <2> SUFFICES ASSUME NEW v \in Nat, v <= w, Balanced(n, r, t, w, c) PROVE Balanced(n, r, t, v, c)
    OBVIOUS
  <2>1. IF n = 0 THEN r + t + w = 0 ELSE r + t + w + Owing(c) <= ration
    BY <1>2
  <2>2. IF n = 0 THEN r + t + v = 0 ELSE r + t + v + Owing(c) <= ration
    BY <1>1, <2>1
  <2> QED
    BY <1>2, <2>2
<1>4. Balanced(n, r, t, w + 1, c) => n # 0 /\ Balanced(n, r + 1, t, w, c)
  BY <1>1, <1>2
<1>5. t > 0 /\ Balanced(n, r, t, w, c) => Balanced(n, r, t - 1, w + 1, c)
  <2>1. t > 0 => t - 1 \in Nat
    OBVIOUS
  <2> QED
    BY <1>1, <1>2, <2>1
<1> QED
  BY <1>3, <1>4, <1>5

LEMMA AccountOpened ==
  ASSUME NEW n \in Nat, NEW r \in Nat, NEW t \in Nat, NEW w \in Nat, NEW c \in Nat,
         Balanced(n, r, t, w, c)
  PROVE  Balanced(n + 1, r, t, w, 0)
<1> DEFINE per == MaxRebirths - 1
<1>1. per \in Nat /\ Owing(0) = per /\ Owing(c) \in Nat
  BY SovereignsAssumption DEF Owing
<1> HIDE DEF per
<1>2. per * (n + 1) = per * n + per /\ per * n \in Nat /\ (n = 0 => per * n = 0)
  BY <1>1
<1>3. IF n = 0 THEN r + t + w = 0 ELSE r + t + w + Owing(c) <= per * n
  BY DEF Balanced, per
<1>4. r + t + w + Owing(0) <= per * (n + 1)
  BY <1>1, <1>2, <1>3
<1> QED
  BY <1>4 DEF Balanced, per

LEMMA AccountCharged ==
  ASSUME NEW n \in Nat, NEW r \in Nat, NEW t \in Nat, NEW w \in Nat, NEW c \in Nat, n # 0,
         Balanced(n, r, t, w, c)
  PROVE  Balanced(n, r, IF RebirthLeft(c + 1) THEN t + 1 ELSE t, w, c + 1)
<1> DEFINE ration == (MaxRebirths - 1) * n
<1>1. ration \in Int
  BY SovereignsAssumption
<1>2. r + t + w + Owing(c) <= ration
  BY DEF Balanced
<1> HIDE DEF ration
<1>3. Owing(c) \in Nat /\ Owing(c + 1) + (IF RebirthLeft(c + 1) THEN 1 ELSE 0) <= Owing(c)
      /\ Owing(c + 1) \in Nat
  BY SovereignsAssumption DEF Owing, RebirthLeft
<1>4. CASE RebirthLeft(c + 1)
  <2>1. r + (t + 1) + w + Owing(c + 1) <= ration
    BY <1>1, <1>2, <1>3, <1>4
  <2> QED
    BY <1>4, <2>1 DEF Balanced, ration
<1>5. CASE ~RebirthLeft(c + 1)
  <2>1. r + t + w + Owing(c + 1) <= ration
    BY <1>1, <1>2, <1>3, <1>5
  <2> QED
    BY <1>5, <2>1 DEF Balanced, ration
<1> QED
  BY <1>4, <1>5

\* A handler that starts and ends nothing, and grants nothing.
LEMMA MailOnly ==
  ASSUME SovereignInv, UNCHANGED <<workers, procs, timers, spawns, reborn>>,
         monitorRefs' \subseteq 1..Len(procs), mailbox' \in Seq(Mail(Len(procs))),
         \A a \in Agents : /\ Waits(mailbox', a) \in Nat /\ Waits(mailbox, a) \in Nat
                           /\ Waits(mailbox', a) <= Waits(mailbox, a)
  PROVE  SovereignInv'
<1>1. SupervisorTypes'
  BY DEF SovereignInv, SupervisorTypes
<1>2. SoleUnderCurrentWeights' /\ Unspawned'
  BY DEF SovereignInv, SoleUnderCurrentWeights, Unspawned, LiveOf
<1>3. Rationed'
  <2> SUFFICES ASSUME NEW a \in Agents
               PROVE  Balanced(spawns[a], reborn[a], timers[a], Waits(mailbox', a), workers[a].count)
    BY DEF Rationed
  <2>1. /\ spawns[a] \in Nat /\ reborn[a] \in Nat /\ timers[a] \in Nat /\ workers[a].count \in Nat
        /\ Balanced(spawns[a], reborn[a], timers[a], Waits(mailbox, a), workers[a].count)
    BY DEF SovereignInv, SupervisorTypes, Worker, Rationed
  <2> QED
    BY <2>1, AccountKept
<1> QED
  BY <1>1, <1>2, <1>3 DEF SovereignInv

\* Starting a process of an agent adds one live process, of that agent.
LEMMA ProcessStarted ==
  ASSUME SupervisorTypes, NEW a \in Agents, NEW r \in Roles, NEW w \in Weights,
         NEW o \in {"spawn", "rebirth"}, procs' = Started(a, r, w, o)
  PROVE  /\ procs' \in Seq(ProcessRecord) /\ Len(procs') = Len(procs) + 1 /\ Len(procs) \in Nat
         /\ DOMAIN procs' = 1..(Len(procs) + 1) /\ DOMAIN procs = 1..Len(procs)
         /\ \A p \in 1..Len(procs) : procs'[p] = procs[p]
         /\ procs'[Len(procs) + 1] =
              [agent |-> a, role |-> r, weights |-> w, origin |-> o, alive |-> TRUE]
         /\ \A b \in Agents \ {a} : LiveOf(b)' = LiveOf(b)
         /\ LiveOf(a)' = LiveOf(a) \cup {Len(procs) + 1}
<1> DEFINE new == [agent |-> a, role |-> r, weights |-> w, origin |-> o, alive |-> TRUE]
<1>1. new \in ProcessRecord /\ new.alive /\ new.agent = a
  BY DEF ProcessRecord
<1>2. procs' = Append(procs, new)
  BY DEF Started
<1>3. procs \in Seq(ProcessRecord)
  BY DEF SupervisorTypes
<1> HIDE DEF new
<1>4. /\ procs' \in Seq(ProcessRecord) /\ Len(procs') = Len(procs) + 1 /\ Len(procs) \in Nat
      /\ DOMAIN procs' = 1..(Len(procs) + 1) /\ DOMAIN procs = 1..Len(procs)
      /\ \A p \in 1..Len(procs) : procs'[p] = procs[p]
      /\ procs'[Len(procs) + 1] = new
  BY <1>1, <1>2, <1>3
<1>5. /\ \A b \in Agents \ {a} : LiveOf(b)' = LiveOf(b)
      /\ LiveOf(a)' = LiveOf(a) \cup {Len(procs) + 1}
  BY <1>1, <1>4 DEF LiveOf
<1> QED
  BY <1>4, <1>5 DEF new

\* The workers of a map that one start has brought up to date.
LEMMA WorkerBound ==
  ASSUME NEW n \in Nat, NEW k \in Worker(n)
  PROVE  /\ k \in Worker(n + 1) /\ k.pid \in 0..n /\ k.role \in Roles
         /\ k.weights \in Weights /\ k.count \in Nat
         /\ \A p \in 0..(n + 1) : [k EXCEPT !.pid = p] \in Worker(n + 1)
<1>1. 0..n \subseteq 0..(n + 1)
  OBVIOUS
<1> QED
  BY <1>1 DEF Worker

LEMMA SpawnSafe ==
  ASSUME SovereignInv, HandleSpawn
  PROVE  SovereignInv'
<1>0. SupervisorTypes /\ mailbox # <<>> /\ Head(mailbox).kind = "spawn"
  BY DEF SovereignInv, HandleSpawn, Receives
<1>n. PICK n \in Nat : n = Len(procs)
  BY <1>0 DEF SupervisorTypes
<1>1. /\ Head(mailbox) \in Mail(n) /\ Tail(mailbox) \in Seq(Mail(n)) /\ mailbox' = Tail(mailbox)
      /\ \A b \in Agents : /\ Waits(mailbox, b) \in Nat /\ Waits(mailbox', b) \in Nat
                           /\ Waits(mailbox', b) = Waits(mailbox, b)
  BY <1>0, <1>n, MailTaken DEF HandleSpawn
<1>2. PICK a \in Agents, r \in Roles, w \in Weights :
        a = Head(mailbox).agent /\ r = Head(mailbox).role /\ w = Head(mailbox).weights
  BY <1>0, <1>1 DEF Mail
<1>3. CASE NameTaken(a, r, w)
  <2>1. UNCHANGED <<workers, procs, timers, spawns, reborn, monitorRefs>>
    BY <1>2, <1>3 DEF HandleSpawn
  <2> QED
    BY <1>0, <1>n, <1>1, <2>1, MailOnly DEF SupervisorTypes
<1>4. CASE ~NameTaken(a, r, w)
  <2>1. /\ procs' = Started(a, r, w, "spawn")
        /\ workers' = [workers EXCEPT ![a] =
                        [pid |-> Len(procs'), role |-> r, weights |-> w, count |-> 0]]
        /\ monitorRefs' = monitorRefs \cup {Len(procs')}
        /\ spawns' = [spawns EXCEPT ![a] = @ + 1] /\ UNCHANGED <<timers, reborn>>
    BY <1>2, <1>4 DEF HandleSpawn
  <2>2. /\ procs' \in Seq(ProcessRecord) /\ Len(procs') = n + 1 /\ n \in Nat
        /\ DOMAIN procs' = 1..(n + 1) /\ DOMAIN procs = 1..n
        /\ \A p \in 1..n : procs'[p] = procs[p]
        /\ procs'[n + 1] =
             [agent |-> a, role |-> r, weights |-> w, origin |-> "spawn", alive |-> TRUE]
        /\ \A b \in Agents \ {a} : LiveOf(b)' = LiveOf(b)
        /\ LiveOf(a)' = LiveOf(a) \cup {n + 1}
    BY <1>0, <1>n, <2>1, ProcessStarted
  <2>3. \A b \in Agents \ {a} : workers'[b] = workers[b] /\ spawns'[b] = spawns[b]
    BY <1>0, <2>1 DEF SupervisorTypes
  <2>4. /\ workers'[a] = [pid |-> n + 1, role |-> r, weights |-> w, count |-> 0]
        /\ spawns'[a] = spawns[a] + 1
    BY <1>0, <1>2, <2>1, <2>2 DEF SupervisorTypes
  <2>5. \A b \in Agents : /\ workers[b] \in Worker(n) /\ spawns[b] \in Nat
                          /\ reborn[b] \in Nat /\ timers[b] \in Nat
    BY <1>0, <1>n DEF SupervisorTypes
  <2>6. SupervisorTypes'
    <3>1. [pid |-> n + 1, role |-> r, weights |-> w, count |-> 0] \in Worker(n + 1)
      BY <1>2, <2>2 DEF Worker
    <3>2. workers' \in [Agents -> Worker(n + 1)]
      BY <1>0, <1>2, <2>1, <2>2, <2>5, <3>1, WorkerBound DEF SupervisorTypes
    <3>3. monitorRefs' \subseteq 1..(n + 1)
      <4>1. monitorRefs \subseteq 1..n
        BY <1>0, <1>n DEF SupervisorTypes
      <4>2. 1..n \subseteq 1..(n + 1) /\ n + 1 \in 1..(n + 1)
        BY <2>2
      <4> QED
        BY <2>1, <2>2, <4>1, <4>2
    <3>4. mailbox' \in Seq(Mail(n + 1))
      <4>1. n + 1 \in Nat /\ n <= n + 1
        BY <2>2
      <4> QED
        BY <1>1, <2>2, <4>1, MailGrows
    <3>5. spawns' \in [Agents -> Nat]
      <4>1. spawns \in [Agents -> Nat] /\ spawns[a] + 1 \in Nat
        BY <1>0, <1>2, <2>5 DEF SupervisorTypes
      <4> QED
        BY <2>1, <4>1
    <3> QED
      BY <1>0, <2>1, <2>2, <3>2, <3>3, <3>4, <3>5 DEF SupervisorTypes
  <2>7. SoleUnderCurrentWeights'
    <3> SUFFICES ASSUME NEW b \in Agents
                 PROVE  /\ workers'[b].pid \in LiveOf(b)' =>
                             /\ procs'[workers'[b].pid].role = workers'[b].role
                             /\ procs'[workers'[b].pid].weights = workers'[b].weights
                        /\ spawns'[b] = 1 => \A p \in LiveOf(b)' :
                             p = workers'[b].pid \/ procs'[p].origin = "restart"
      BY DEF SoleUnderCurrentWeights
    <3>1. CASE b = a
      <4>1. spawns'[a] = 1 => LiveOf(a) = {}
        BY <1>2, <2>2, <2>4, <2>5 DEF SovereignInv, Unspawned, LiveOf
      <4>2. workers'[a].pid = n + 1 /\ workers'[a].weights = procs'[n + 1].weights
            /\ workers'[a].role = procs'[n + 1].role
        BY <2>2, <2>4
      <4> QED
        BY <2>2, <3>1, <4>1, <4>2
    <3>2. CASE b # a
      <4>1. LiveOf(b) \subseteq 1..n
        BY <2>2 DEF LiveOf
      <4> QED
        BY <2>2, <2>3, <3>2, <4>1 DEF SovereignInv, SoleUnderCurrentWeights
    <3> QED
      BY <3>1, <3>2
  <2>8. Unspawned'
    <3>1. spawns'[a] # 0
      BY <1>2, <2>4, <2>5
    <3>2. procs'[n + 1].agent = a
      BY <2>2
    <3>3. Unspawned
      BY DEF SovereignInv
    <3> SUFFICES ASSUME NEW b \in Agents, spawns'[b] = 0
                 PROVE  workers'[b].pid = 0 /\ \A p \in DOMAIN procs' : procs'[p].agent # b
      BY DEF Unspawned
    <3>4. b # a
      BY <3>1
    <3>5. \A p \in 1..n : procs'[p].agent # b
      BY <2>2, <2>3, <3>3, <3>4 DEF Unspawned
    <3> QED
      BY <2>2, <2>3, <3>2, <3>3, <3>4, <3>5 DEF Unspawned
  <2>9. Rationed'
    <3> SUFFICES ASSUME NEW b \in Agents
                 PROVE  Balanced(spawns'[b], reborn'[b], timers'[b], Waits(mailbox', b), workers'[b].count)
      BY DEF Rationed
    <3>1. Balanced(spawns[b], reborn[b], timers[b], Waits(mailbox, b), workers[b].count)
          /\ workers[b].count \in Nat
      BY <2>5 DEF SovereignInv, Rationed, Worker
    <3>2. CASE b = a
      <4>1. workers'[b].count = 0
        BY <2>4, <3>2
      <4>2. Balanced(spawns[b] + 1, reborn[b], timers[b], Waits(mailbox, b), 0)
        BY <1>1, <2>5, <3>1, AccountOpened
      <4> QED
        BY <1>1, <2>1, <2>4, <3>2, <4>1, <4>2
    <3>3. CASE b # a
      BY <1>1, <2>1, <2>3, <3>1, <3>3
    <3> QED
      BY <3>2, <3>3
  <2> QED
    BY <2>6, <2>7, <2>8, <2>9 DEF SovereignInv
<1> QED
  BY <1>3, <1>4

\* A message that is no rebirth joins or replaces one in the mailbox.
LEMMA MessagePosted ==
  ASSUME NEW n \in Nat, NEW q \in Seq(Mail(n)), NEW m \in Mail(n), m.kind # "rebirth"
  PROVE  /\ Append(q, m) \in Seq(Mail(n))
         /\ \A a \in Agents : Waits(Append(q, m), a) = Waits(q, a) /\ Waits(q, a) \in Nat
<1>1. \A a \in Agents : Waits(Append(q, m), a) = Waits(q, a) + 0 /\ Waits(q, a) \in Nat
  BY WaitPosted, WaitFinite
<1> QED
  BY <1>1

LEMMA MailStepsSafe ==
  ASSUME SovereignInv,
         \/ IgnoreViolation \/ HandleDown
         \/ \E a \in Agents, r \in Roles, w \in InitialWeights : SpawnSovereign(a, r, w)
         \/ \E a \in Agents, p \in Principles, s \in Severities : ReportViolation(a, p, s)
  PROVE  SovereignInv'
<1>0. SupervisorTypes
  BY DEF SovereignInv
<1>n. PICK n \in Nat : n = Len(procs)
  BY <1>0 DEF SupervisorTypes
<1>1. mailbox \in Seq(Mail(n)) /\ monitorRefs \subseteq 1..n
      /\ \A a \in Agents : Waits(mailbox, a) \in Nat
  BY <1>0, <1>n, WaitFinite DEF SupervisorTypes
<1>2. CASE IgnoreViolation
  <2>1. /\ mailbox # <<>> /\ mailbox' = Tail(mailbox) /\ Head(mailbox).kind = "violation"
        /\ UNCHANGED <<workers, procs, timers, spawns, reborn, monitorRefs>>
    BY <1>2 DEF IgnoreViolation, Receives
  <2>2. /\ mailbox' \in Seq(Mail(n))
        /\ \A a \in Agents : Waits(mailbox', a) \in Nat /\ Waits(mailbox', a) = Waits(mailbox, a)
    BY <1>0, <1>n, <2>1, MailTaken
  <2> QED
    BY <1>n, <1>1, <2>1, <2>2, MailOnly
<1>3. CASE HandleDown
  <2>1. /\ mailbox # <<>> /\ Head(mailbox).kind = "DOWN"
        /\ UNCHANGED <<workers, procs, timers, spawns, reborn>>
        /\ monitorRefs' \subseteq monitorRefs
        /\ mailbox' = Append(Tail(mailbox),
                             Violation(procs[Head(mailbox).pid].agent, "rhythm", "warn"))
    BY <1>3 DEF HandleDown, Receives
  <2>2. /\ Tail(mailbox) \in Seq(Mail(n)) /\ Head(mailbox) \in Mail(n)
        /\ \A a \in Agents : Waits(Tail(mailbox), a) = Waits(mailbox, a)
    BY <1>0, <1>n, <2>1, MailTaken
  <2>3. Head(mailbox).pid \in 1..n
    BY <2>1, <2>2 DEF Mail
  <2>4. PICK a \in Agents : a = procs[Head(mailbox).pid].agent
    <3>1. procs[Head(mailbox).pid] \in ProcessRecord
      BY <1>0, <1>n, <2>3 DEF SupervisorTypes
    <3> QED
      BY <3>1 DEF ProcessRecord
  <2> DEFINE m == Violation(a, "rhythm", "warn")
  <2>5. m \in Mail(n) /\ m.kind # "rebirth"
    BY SovereignsAssumption DEF Mail, Violation
  <2>6. mailbox' = Append(Tail(mailbox), m)
    BY <2>1, <2>4
  <2> HIDE DEF m
  <2>7. /\ mailbox' \in Seq(Mail(n))
        /\ \A b \in Agents : Waits(mailbox', b) \in Nat /\ Waits(mailbox', b) = Waits(mailbox, b)
    BY <2>2, <2>5, <2>6, MessagePosted
  <2> QED
    BY <1>n, <1>1, <2>1, <2>7, MailOnly
<1>4. ASSUME NEW a \in Agents, NEW r \in Roles, NEW w \in InitialWeights,
             SpawnSovereign(a, r, w)
      PROVE  SovereignInv'
  <2> DEFINE m == [kind |-> "spawn", agent |-> a, role |-> r, weights |-> w]
  <2>1. m \in Mail(n) /\ m.kind # "rebirth"
    <3>1. w \in Weights
      BY SovereignsAssumption DEF Weights
    <3> QED
      BY <3>1 DEF Mail
  <2>2. /\ mailbox' = Append(mailbox, m)
        /\ UNCHANGED <<workers, procs, timers, spawns, reborn, monitorRefs>>
    BY <1>4 DEF SpawnSovereign
  <2> HIDE DEF m
  <2>3. /\ mailbox' \in Seq(Mail(n))
        /\ \A b \in Agents : Waits(mailbox', b) \in Nat /\ Waits(mailbox', b) = Waits(mailbox, b)
    BY <1>1, <2>1, <2>2, MessagePosted
  <2> QED
    BY <1>n, <1>1, <2>2, <2>3, MailOnly
<1>5. ASSUME NEW a \in Agents, NEW p \in Principles, NEW s \in Severities, ReportViolation(a, p, s)
      PROVE  SovereignInv'
  <2> DEFINE m == Violation(a, p, s)
  <2>1. m \in Mail(n) /\ m.kind # "rebirth"
    BY SovereignsAssumption DEF Mail, Violation
  <2>2. /\ mailbox' = Append(mailbox, m)
        /\ UNCHANGED <<workers, procs, timers, spawns, reborn, monitorRefs>>
    BY <1>5 DEF ReportViolation
  <2> HIDE DEF m
  <2>3. /\ mailbox' \in Seq(Mail(n))
        /\ \A b \in Agents : Waits(mailbox', b) \in Nat /\ Waits(mailbox', b) = Waits(mailbox, b)
    BY <1>1, <2>1, <2>2, MessagePosted
  <2> QED
    BY <1>n, <1>1, <2>2, <2>3, MailOnly
<1> QED
  BY <1>2, <1>3, <1>4, <1>5

LEMMA RebirthSafe ==
  ASSUME SovereignInv, HandleRebirth
  PROVE  SovereignInv'
<1>0. SupervisorTypes /\ mailbox # <<>> /\ Head(mailbox).kind = "rebirth"
  BY DEF SovereignInv, HandleRebirth, Receives
<1>n. PICK n \in Nat : n = Len(procs)
  BY <1>0 DEF SupervisorTypes
<1>1. /\ Head(mailbox) \in Mail(n) /\ Tail(mailbox) \in Seq(Mail(n)) /\ mailbox' = Tail(mailbox)
      /\ \A b \in Agents : /\ Waits(mailbox, b) \in Nat /\ Waits(mailbox', b) \in Nat
                           /\ Waits(mailbox, b) = Waits(mailbox', b) +
                                (IF Head(mailbox).agent = b THEN 1 ELSE 0)
  BY <1>0, <1>n, MailTaken DEF HandleRebirth
<1>2. PICK a \in Agents : a = Head(mailbox).agent
  BY <1>0, <1>1 DEF Mail
<1>w. PICK r \in Roles, w \in Weights : r = workers[a].role /\ w = workers[a].weights
  BY <1>0 DEF SupervisorTypes, Worker
<1>3. CASE NameTaken(a, r, w)
  <2>1. UNCHANGED <<workers, procs, timers, spawns, reborn, monitorRefs>>
    BY <1>2, <1>w, <1>3 DEF HandleRebirth
  <2>2. \A b \in Agents : Waits(mailbox', b) <= Waits(mailbox, b)
    BY <1>1
  <2> QED
    BY <1>0, <1>n, <1>1, <2>1, <2>2, MailOnly DEF SupervisorTypes
<1>4. CASE ~NameTaken(a, r, w)
  <2>1. /\ procs' = Started(a, r, w, "rebirth")
        /\ workers' = [workers EXCEPT ![a].pid = Len(procs')]
        /\ monitorRefs' = monitorRefs \cup {Len(procs')}
        /\ reborn' = [reborn EXCEPT ![a] = @ + 1] /\ UNCHANGED <<timers, spawns>>
    BY <1>2, <1>w, <1>4 DEF HandleRebirth
  <2>2. /\ procs' \in Seq(ProcessRecord) /\ Len(procs') = n + 1 /\ n \in Nat
        /\ DOMAIN procs' = 1..(n + 1) /\ DOMAIN procs = 1..n
        /\ \A p \in 1..n : procs'[p] = procs[p]
        /\ procs'[n + 1] =
             [agent |-> a, role |-> r, weights |-> w, origin |-> "rebirth", alive |-> TRUE]
        /\ \A b \in Agents \ {a} : LiveOf(b)' = LiveOf(b)
        /\ LiveOf(a)' = LiveOf(a) \cup {n + 1}
    BY <1>0, <1>n, <2>1, ProcessStarted
  <2>3. \A b \in Agents \ {a} : workers'[b] = workers[b] /\ reborn'[b] = reborn[b]
    BY <1>0, <2>1 DEF SupervisorTypes
  <2>5. \A b \in Agents : /\ workers[b] \in Worker(n) /\ spawns[b] \in Nat
                          /\ reborn[b] \in Nat /\ timers[b] \in Nat
    BY <1>0, <1>n DEF SupervisorTypes
  <2>4. /\ workers'[a] = [workers[a] EXCEPT !.pid = n + 1] /\ reborn'[a] = reborn[a] + 1
        /\ workers'[a].pid = n + 1 /\ workers'[a].weights = w /\ workers'[a].role = r
        /\ workers'[a].count = workers[a].count
    <3>1. workers'[a] = [workers[a] EXCEPT !.pid = n + 1] /\ reborn'[a] = reborn[a] + 1
      BY <1>0, <2>1, <2>2 DEF SupervisorTypes
    <3> QED
      BY <1>w, <2>5, <3>1 DEF Worker
  <2>b. \A b \in Agents :
          /\ Balanced(spawns[b], reborn[b], timers[b], Waits(mailbox, b), workers[b].count)
          /\ workers[b].count \in Nat
    BY <2>5 DEF SovereignInv, Rationed, Worker
  <2>g. spawns[a] # 0 /\ Balanced(spawns[a], reborn[a] + 1, timers[a], Waits(Tail(mailbox), a), workers[a].count)
    <3>1. Waits(mailbox, a) = Waits(Tail(mailbox), a) + 1 /\ Waits(Tail(mailbox), a) \in Nat
      BY <1>1, <1>2
    <3>2. Balanced(spawns[a], reborn[a], timers[a], Waits(Tail(mailbox), a) + 1, workers[a].count)
      BY <2>b, <3>1
    <3> QED
      BY <2>5, <2>b, <3>1, <3>2, AccountKept
  <2>6. SupervisorTypes'
    <3>2. workers' \in [Agents -> Worker(n + 1)]
      <4>0. n + 1 \in 0..(n + 1)
        OBVIOUS
      <4>1. [workers[a] EXCEPT !.pid = n + 1] \in Worker(n + 1)
        BY <2>5, <4>0, WorkerBound
      <4>2. \A b \in Agents : workers'[b] \in Worker(n + 1)
        BY <2>3, <2>4, <2>5, <4>1, WorkerBound
      <4>3. workers' = [workers EXCEPT ![a] = [workers[a] EXCEPT !.pid = n + 1]]
        BY <1>0, <2>1, <2>2 DEF SupervisorTypes
      <4> QED
        BY <1>0, <4>2, <4>3 DEF SupervisorTypes
    <3>3. monitorRefs' \subseteq 1..(n + 1)
      <4>1. monitorRefs \subseteq 1..n
        BY <1>0, <1>n DEF SupervisorTypes
      <4>2. 1..n \subseteq 1..(n + 1) /\ n + 1 \in 1..(n + 1)
        BY <2>2
      <4> QED
        BY <2>1, <2>2, <4>1, <4>2
    <3>4. mailbox' \in Seq(Mail(n + 1))
      <4>1. n + 1 \in Nat /\ n <= n + 1
        BY <2>2
      <4> QED
        BY <1>1, <2>2, <4>1, MailGrows
    <3>5. reborn' \in [Agents -> Nat]
      <4>1. reborn \in [Agents -> Nat] /\ reborn[a] + 1 \in Nat
        BY <1>0, <2>5 DEF SupervisorTypes
      <4> QED
        BY <2>1, <4>1
    <3> QED
      BY <1>0, <2>1, <2>2, <3>2, <3>3, <3>4, <3>5 DEF SupervisorTypes
  <2>7. SoleUnderCurrentWeights'
    <3> SUFFICES ASSUME NEW b \in Agents
                 PROVE  /\ workers'[b].pid \in LiveOf(b)' =>
                             /\ procs'[workers'[b].pid].role = workers'[b].role
                             /\ procs'[workers'[b].pid].weights = workers'[b].weights
                        /\ spawns'[b] = 1 => \A p \in LiveOf(b)' :
                             p = workers'[b].pid \/ procs'[p].origin = "restart"
      BY DEF SoleUnderCurrentWeights
    <3>0. /\ LiveOf(b) \subseteq 1..n
          /\ workers[b].pid \in LiveOf(b) => /\ procs[workers[b].pid].role = workers[b].role
                                            /\ procs[workers[b].pid].weights = workers[b].weights
          /\ spawns[b] = 1 => \A p \in LiveOf(b) : p = workers[b].pid \/ procs[p].origin = "restart"
      BY <2>2 DEF LiveOf, SovereignInv, SoleUnderCurrentWeights
    <3>1. CASE b = a
      \* The old process has ended, or its configuration would have taken the name.
      <4>1. workers[a].pid \notin LiveOf(a)
        BY <1>4, <1>w, <3>0, <3>1 DEF NameTaken
      <4>2. workers'[a].pid = n + 1 /\ workers'[a].weights = procs'[n + 1].weights
            /\ workers'[a].role = procs'[n + 1].role
        BY <2>2, <2>4
      <4>3. \A p \in LiveOf(a) : spawns'[a] = 1 => procs'[p].origin = "restart"
        BY <2>1, <2>2, <3>0, <3>1, <4>1
      <4> QED
        BY <2>2, <3>1, <4>2, <4>3
    <3>2. CASE b # a
      BY <2>1, <2>2, <2>3, <3>0, <3>2
    <3> QED
      BY <3>1, <3>2
  <2>8. Unspawned'
    <3> SUFFICES ASSUME NEW b \in Agents, spawns[b] = 0
                 PROVE  workers'[b].pid = 0 /\ \A p \in DOMAIN procs' : procs'[p].agent # b
      BY <2>1 DEF Unspawned
    <3>1. b # a
      BY <2>g
    <3> QED
      BY <2>2, <2>3, <3>1 DEF SovereignInv, Unspawned
  <2>9. Rationed'
    <3> SUFFICES ASSUME NEW b \in Agents
                 PROVE  Balanced(spawns'[b], reborn'[b], timers'[b], Waits(mailbox', b), workers'[b].count)
      BY DEF Rationed
    <3>2. CASE b = a
      BY <1>1, <2>1, <2>4, <2>g, <3>2
    <3>3. CASE b # a
      <4>1. Waits(mailbox', b) = Waits(mailbox, b)
        BY <1>1, <1>2, <3>3
      <4> QED
        BY <2>1, <2>3, <2>b, <3>3, <4>1
    <3> QED
      BY <3>2, <3>3
  <2> QED
    BY <2>6, <2>7, <2>8, <2>9 DEF SovereignInv
<1> QED
  BY <1>3, <1>4

LEMMA AdjustedWeights ==
  ASSUME NEW w \in Weights, NEW p \in Principles, NEW s
  PROVE  AdjustWeights(w, p, s) \in Weights
<1>1. WeightDelta[p] \in Int
  BY SovereignsAssumption DEF WeightDelta
<1>2. (IF s = "block" THEN 2 ELSE 1) * WeightDelta[p] \in Int
  BY <1>1
<1>3. w \in [Principles -> Int] /\ w[p] \in Int
  BY DEF Weights
<1> QED
  BY <1>2, <1>3 DEF AdjustWeights, Weights

\* Ending a process takes it out of the live ones and changes nothing else.
LEMMA ProcessEnded ==
  ASSUME SupervisorTypes, NEW p \in 1..Len(procs)
  PROVE  LET ended == [procs EXCEPT ![p].alive = FALSE]
         IN  /\ ended \in Seq(ProcessRecord) /\ Len(ended) = Len(procs)
             /\ DOMAIN ended = 1..Len(procs) /\ DOMAIN procs = 1..Len(procs)
             /\ \A q \in 1..Len(procs) :
                  /\ ended[q].agent = procs[q].agent /\ ended[q].role = procs[q].role
                  /\ ended[q].weights = procs[q].weights
                  /\ ended[q].origin = procs[q].origin
                  /\ ended[q].alive = (procs[q].alive /\ q # p)
<1> DEFINE ended == [procs EXCEPT ![p].alive = FALSE]
           last == [procs[p] EXCEPT !.alive = FALSE]
<1>1. procs \in Seq(ProcessRecord) /\ procs[p] \in ProcessRecord
      /\ \A q \in 1..Len(procs) : procs[q] \in ProcessRecord
  BY DEF SupervisorTypes
<1>2. /\ last \in ProcessRecord /\ last.agent = procs[p].agent
      /\ last.role = procs[p].role /\ last.weights = procs[p].weights
      /\ last.origin = procs[p].origin /\ last.alive = FALSE
  BY <1>1 DEF ProcessRecord
<1>3. ended = [procs EXCEPT ![p] = last]
  BY <1>1
<1> HIDE DEF ended, last
<1>4. /\ ended \in Seq(ProcessRecord) /\ Len(ended) = Len(procs)
      /\ DOMAIN ended = 1..Len(procs) /\ DOMAIN procs = 1..Len(procs)
      /\ ended[p] = last /\ \A q \in 1..Len(procs) \ {p} : ended[q] = procs[q]
  BY <1>1, <1>2, <1>3
<1>5. \A q \in 1..Len(procs) : procs[q].alive \in BOOLEAN
  BY <1>1 DEF ProcessRecord
<1>6. \A q \in 1..Len(procs) :
        /\ ended[q].agent = procs[q].agent /\ ended[q].role = procs[q].role
        /\ ended[q].weights = procs[q].weights
        /\ ended[q].origin = procs[q].origin
        /\ ended[q].alive = (procs[q].alive /\ q # p)
  BY <1>2, <1>4, <1>5
<1> QED
  BY <1>4, <1>6 DEF ended

LEMMA TimerSafe ==
  ASSUME SovereignInv, NEW a \in Agents, TimerFires(a)
  PROVE  SovereignInv'
<1> DEFINE m == [kind |-> "rebirth", agent |-> a]
<1>0. SupervisorTypes
  BY DEF SovereignInv
<1>n. PICK n \in Nat : n = Len(procs)
  BY <1>0 DEF SupervisorTypes
<1>1. /\ timers[a] > 0 /\ timers' = [timers EXCEPT ![a] = @ - 1] /\ mailbox' = Append(mailbox, m)
      /\ UNCHANGED <<workers, procs, spawns, reborn, monitorRefs>>
  BY DEF TimerFires
<1>2. m \in Mail(n) /\ m.kind = "rebirth" /\ m.agent = a /\ mailbox \in Seq(Mail(n))
  BY <1>0, <1>n DEF Mail, SupervisorTypes
<1> HIDE DEF m
<1>3. /\ mailbox' \in Seq(Mail(n))
      /\ \A b \in Agents : /\ Waits(mailbox, b) \in Nat
                           /\ Waits(mailbox', b) = Waits(mailbox, b) + (IF b = a THEN 1 ELSE 0)
  <2>1. Append(mailbox, m) \in Seq(Mail(n))
    BY <1>2
  <2>2. \A b \in Agents : /\ Waits(mailbox, b) \in Nat
          /\ Waits(Append(mailbox, m), b) = Waits(mailbox, b) + (IF b = a THEN 1 ELSE 0)
    BY <1>2, WaitPosted, WaitFinite
  <2> QED
    BY <1>1, <2>1, <2>2
<1>4. \A b \in Agents : /\ spawns[b] \in Nat /\ reborn[b] \in Nat /\ timers[b] \in Nat
                        /\ workers[b].count \in Nat
                        /\ Balanced(spawns[b], reborn[b], timers[b], Waits(mailbox, b), workers[b].count)
  BY <1>0 DEF SupervisorTypes, Worker, SovereignInv, Rationed
<1>5. SupervisorTypes'
  <2>1. timers \in [Agents -> Nat] /\ timers[a] - 1 \in Nat
    BY <1>0, <1>1, <1>4 DEF SupervisorTypes
  <2>2. timers' \in [Agents -> Nat]
    BY <1>1, <2>1
  <2> QED
    BY <1>0, <1>n, <1>1, <1>3, <2>2 DEF SupervisorTypes
<1>6. SoleUnderCurrentWeights' /\ Unspawned'
  BY <1>1 DEF SovereignInv, SoleUnderCurrentWeights, Unspawned, LiveOf
<1>7. Rationed'
  <2> SUFFICES ASSUME NEW b \in Agents
               PROVE  Balanced(spawns'[b], reborn'[b], timers'[b], Waits(mailbox', b), workers'[b].count)
    BY DEF Rationed
  <2>1. CASE b = a
    <3>1. Balanced(spawns[b], reborn[b], timers[b] - 1, Waits(mailbox, b) + 1, workers[b].count)
      BY <1>1, <1>3, <1>4, <2>1, AccountKept
    <3>2. timers'[b] = timers[b] - 1
      BY <1>0, <1>1, <2>1 DEF SupervisorTypes
    <3> QED
      BY <1>1, <1>3, <2>1, <3>1, <3>2
  <2>2. CASE b # a
    <3>1. timers'[b] = timers[b] /\ Waits(mailbox', b) = Waits(mailbox, b)
      BY <1>0, <1>1, <1>3, <2>2 DEF SupervisorTypes
    <3> QED
      BY <1>1, <1>4, <3>1
  <2> QED
    BY <2>1, <2>2
<1> QED
  BY <1>5, <1>6, <1>7 DEF SovereignInv

LEMMA CrashSafe ==
  ASSUME SovereignInv, NEW p \in DOMAIN procs, Crash(p)
  PROVE  SovereignInv'
<1> DEFINE ended == [procs EXCEPT ![p].alive = FALSE]
           again == [procs[p] EXCEPT !.origin = "restart"]
<1>0. SupervisorTypes
  BY DEF SovereignInv
<1>n. PICK n \in Nat : n = Len(procs)
  BY <1>0 DEF SupervisorTypes
<1>1. /\ procs[p].alive /\ procs' = Append(ended, again) /\ mailbox' = mailbox \o Down(p)
      /\ UNCHANGED <<workers, monitorRefs, timers, spawns, reborn>>
  BY DEF Crash
<1>2. p \in 1..n /\ procs[p] \in ProcessRecord
  BY <1>0, <1>n DEF SupervisorTypes
<1>3. /\ again \in ProcessRecord /\ again.agent = procs[p].agent /\ again.origin = "restart"
      /\ again.role = procs[p].role /\ again.weights = procs[p].weights
  BY <1>2 DEF ProcessRecord
<1>4. /\ ended \in Seq(ProcessRecord) /\ Len(ended) = n
      /\ DOMAIN ended = 1..n /\ DOMAIN procs = 1..n
      /\ \A q \in 1..n :
           /\ ended[q].agent = procs[q].agent /\ ended[q].role = procs[q].role
           /\ ended[q].weights = procs[q].weights
           /\ ended[q].origin = procs[q].origin
           /\ ended[q].alive = (procs[q].alive /\ q # p)
  BY <1>0, <1>n, <1>2, ProcessEnded
<1> HIDE DEF ended, again
<1>5. /\ procs' \in Seq(ProcessRecord) /\ Len(procs') = n + 1 /\ DOMAIN procs' = 1..(n + 1)
      /\ procs'[n + 1] = again /\ \A q \in 1..n : procs'[q] = ended[q]
  BY <1>1, <1>3, <1>4
<1>6. \A b \in Agents : LiveOf(b) \subseteq 1..n /\ LiveOf(b)' \subseteq LiveOf(b) \cup {n + 1}
  <2>1. ASSUME NEW b \in Agents, NEW q \in LiveOf(b)', q # n + 1
        PROVE  q \in LiveOf(b)
    <3>1. q \in 1..n
      BY <1>5, <2>1 DEF LiveOf
    <3>2. procs'[q].alive /\ procs'[q].agent = b /\ procs'[q] = ended[q]
      BY <1>5, <3>1 DEF LiveOf
    <3> QED
      BY <1>4, <3>1, <3>2 DEF LiveOf
  <2> QED
    BY <1>4, <2>1 DEF LiveOf
<1>7. \A b \in Agents : /\ workers[b] \in Worker(n) /\ workers[b].pid \in 0..n
                        /\ workers[b].pid # n + 1 /\ workers[b] \in Worker(n + 1)
  <2>1. \A b \in Agents : workers[b] \in Worker(n)
    BY <1>0, <1>n DEF SupervisorTypes
  <2>2. \A b \in Agents : workers[b].pid \in 0..n
    BY <2>1 DEF Worker
  <2> QED
    BY <2>1, <2>2, WorkerBound
<1>8. /\ mailbox' \in Seq(Mail(n + 1))
      /\ \A b \in Agents : Waits(mailbox', b) = Waits(mailbox, b)
  <2>1. Len(procs) <= n + 1 /\ n + 1 \in Nat /\ mailbox \in Seq(Mail(n + 1))
    BY <1>0, <1>n, MailGrows DEF SupervisorTypes
  <2> QED
    BY <1>0, <1>1, <2>1, DownPosted
<1>9. SupervisorTypes'
  <2>1. workers' \in [Agents -> Worker(n + 1)]
    BY <1>0, <1>1, <1>7 DEF SupervisorTypes
  <2>2. monitorRefs' \subseteq 1..(n + 1)
    <3>1. monitorRefs \subseteq 1..n /\ 1..n \subseteq 1..(n + 1)
      BY <1>0, <1>n DEF SupervisorTypes
    <3> QED
      BY <1>1, <3>1
  <2> QED
    BY <1>0, <1>1, <1>5, <1>8, <2>1, <2>2 DEF SupervisorTypes
<1>10. SoleUnderCurrentWeights'
  <2> SUFFICES ASSUME NEW b \in Agents
               PROVE  /\ workers'[b].pid \in LiveOf(b)' =>
                           /\ procs'[workers'[b].pid].role = workers'[b].role
                           /\ procs'[workers'[b].pid].weights = workers'[b].weights
                      /\ spawns'[b] = 1 => \A q \in LiveOf(b)' :
                           q = workers'[b].pid \/ procs'[q].origin = "restart"
    BY DEF SoleUnderCurrentWeights
  <2>1. /\ workers[b].pid \in LiveOf(b) => /\ procs[workers[b].pid].role = workers[b].role
                                           /\ procs[workers[b].pid].weights = workers[b].weights
        /\ spawns[b] = 1 => \A q \in LiveOf(b) : q = workers[b].pid \/ procs[q].origin = "restart"
    BY DEF SovereignInv, SoleUnderCurrentWeights
  <2>2. workers[b].pid \in LiveOf(b)' => /\ procs'[workers[b].pid].role = workers[b].role
                                        /\ procs'[workers[b].pid].weights = workers[b].weights
    BY <1>4, <1>5, <1>6, <1>7, <2>1
  <2>3. ASSUME spawns[b] = 1, NEW q \in LiveOf(b)'
        PROVE  q = workers[b].pid \/ procs'[q].origin = "restart"
    BY <1>3, <1>4, <1>5, <1>6, <2>1, <2>3
  <2> QED
    BY <1>1, <2>2, <2>3
<1>11. Unspawned'
  <2>1. \A q \in DOMAIN procs' : \E o \in DOMAIN procs : procs'[q].agent = procs[o].agent
    BY <1>2, <1>3, <1>4, <1>5
  <2> QED
    BY <1>1, <2>1 DEF SovereignInv, Unspawned
<1>12. Rationed'
  BY <1>1, <1>8 DEF SovereignInv, Rationed
<1> QED
  BY <1>9, <1>10, <1>11, <1>12 DEF SovereignInv

LEMMA ViolationSafe ==
  ASSUME SovereignInv, HandleViolation
  PROVE  SovereignInv'
<1>0. SupervisorTypes /\ mailbox # <<>> /\ Head(mailbox).kind = "violation"
  BY DEF SovereignInv, HandleViolation, Receives
<1>n. PICK n \in Nat : n = Len(procs)
  BY <1>0 DEF SupervisorTypes
<1>1. /\ Head(mailbox) \in Mail(n) /\ Tail(mailbox) \in Seq(Mail(n))
      /\ \A b \in Agents : /\ Waits(mailbox, b) \in Nat /\ Waits(Tail(mailbox), b) \in Nat
                           /\ Waits(mailbox, b) = Waits(Tail(mailbox), b)
  BY <1>0, <1>n, MailTaken
<1>2. PICK a \in Agents, p \in Principles, s \in {"warn", "block"} :
        a = Head(mailbox).agent /\ p = Head(mailbox).principle /\ s = Head(mailbox).severity
  BY <1>0, <1>1 DEF Mail
<1>w. PICK w \in Worker(n) : w = workers[a]
  BY <1>0, <1>n DEF SupervisorTypes
<1>v. PICK new \in Weights : new = AdjustWeights(w.weights, p, s)
  BY AdjustedWeights DEF Worker
<1>3. /\ w.pid # 0 /\ workers' = [workers EXCEPT ![a].weights = new, ![a].count = @ + 1]
      /\ mailbox' = Tail(mailbox) \o (IF Terminated(a) THEN Down(w.pid) ELSE <<>>)
      /\ procs' = IF Terminated(a) THEN [procs EXCEPT ![w.pid].alive = FALSE] ELSE procs
      /\ timers' = IF RebirthLeft(w.count + 1) THEN [timers EXCEPT ![a] = @ + 1] ELSE timers
      /\ UNCHANGED <<monitorRefs, spawns, reborn>>
  BY <1>2, <1>w, <1>v DEF HandleViolation
<1>4. /\ w.pid \in 0..n /\ w.weights \in Weights /\ w.count \in Nat /\ w.count + 1 \in Nat
  BY DEF Worker
<1>5. /\ workers'[a] \in Worker(n) /\ workers'[a].pid = w.pid
      /\ workers'[a].role = w.role
      /\ workers'[a].weights = new /\ workers'[a].count = w.count + 1
      /\ \A b \in Agents \ {a} : workers'[b] = workers[b]
      /\ workers' \in [Agents -> Worker(n)]
  <2> DEFINE k == [[w EXCEPT !.weights = new] EXCEPT !.count = w.count + 1]
  <2>1. /\ k \in Worker(n) /\ k.pid = w.pid /\ k.role = w.role
        /\ k.weights = new /\ k.count = w.count + 1
    BY <1>4 DEF Worker
  <2>2. workers \in [Agents -> Worker(n)]
    BY <1>0, <1>n DEF SupervisorTypes
  <2>3. workers' = [workers EXCEPT ![a] = k]
    BY <1>3, <1>w, <2>2 DEF Worker
  <2> HIDE DEF k
  <2> QED
    BY <2>1, <2>2, <2>3
<1>6. /\ procs' \in Seq(ProcessRecord) /\ Len(procs') = n
      /\ DOMAIN procs' = 1..n /\ DOMAIN procs = 1..n
      /\ \A q \in 1..n :
           /\ procs'[q].agent = procs[q].agent /\ procs'[q].role = procs[q].role
           /\ procs'[q].weights = procs[q].weights
           /\ procs'[q].origin = procs[q].origin
           /\ procs'[q].alive = (procs[q].alive /\ ~(Terminated(a) /\ q = w.pid))
  <2>1. CASE Terminated(a)
    <3>1. w.pid \in 1..n
      BY <1>0, <1>n, <1>w, <2>1 DEF Terminated, LiveOf, SupervisorTypes
    <3> DEFINE ended == [procs EXCEPT ![w.pid].alive = FALSE]
    <3>2. /\ ended \in Seq(ProcessRecord) /\ Len(ended) = n
          /\ DOMAIN ended = 1..n /\ DOMAIN procs = 1..n
          /\ \A q \in 1..n :
               /\ ended[q].agent = procs[q].agent /\ ended[q].role = procs[q].role
               /\ ended[q].weights = procs[q].weights
               /\ ended[q].origin = procs[q].origin
               /\ ended[q].alive = (procs[q].alive /\ q # w.pid)
      BY <1>0, <1>n, <3>1, ProcessEnded
    <3>3. procs' = ended
      BY <1>3, <2>1
    <3> HIDE DEF ended
    <3> QED
      BY <2>1, <3>2, <3>3
  <2>2. CASE ~Terminated(a)
    <3>1. procs' = procs /\ procs \in Seq(ProcessRecord)
      BY <1>0, <1>3, <2>2 DEF SupervisorTypes
    <3>2. \A q \in 1..n : procs[q].alive \in BOOLEAN
      <4>1. \A q \in 1..n : procs[q] \in ProcessRecord
        BY <1>n, <3>1
      <4> QED
        BY <4>1 DEF ProcessRecord
    <3> QED
      BY <1>n, <2>2, <3>1, <3>2
  <2> QED
    BY <2>1, <2>2
<1>7. \A b \in Agents : LiveOf(b)' \subseteq LiveOf(b) /\ LiveOf(b) \subseteq 1..n
  BY <1>6 DEF LiveOf
<1>8. w.pid \notin LiveOf(a)'
  <2>1. w.pid \in LiveOf(a) => Terminated(a)
    BY <1>w DEF Terminated
  <2> QED
    BY <1>6, <1>7, <2>1 DEF LiveOf
<1>9. /\ mailbox' \in Seq(Mail(n))
      /\ \A b \in Agents : Waits(mailbox', b) = Waits(mailbox, b)
  <2>1. CASE Terminated(a)
    <3>1. mailbox' = Tail(mailbox) \o Down(w.pid)
      BY <1>3, <2>1
    <3>2. Len(procs) <= n
      BY <1>n
    <3>3. /\ Tail(mailbox) \o Down(w.pid) \in Seq(Mail(n))
          /\ \A b \in Agents : Waits(Tail(mailbox) \o Down(w.pid), b) = Waits(Tail(mailbox), b)
      BY <1>0, <1>1, <3>2, DownPosted
    <3> QED
      BY <1>1, <3>1, <3>3
  <2>2. CASE ~Terminated(a)
    <3>1. mailbox' = Tail(mailbox)
      BY <1>1, <1>3, <2>2
    <3> QED
      BY <1>1, <3>1
  <2> QED
    BY <2>1, <2>2
<1>10. /\ timers' \in [Agents -> Nat]
       /\ timers'[a] = IF RebirthLeft(w.count + 1) THEN timers[a] + 1 ELSE timers[a]
       /\ \A b \in Agents \ {a} : timers'[b] = timers[b]
  <2>1. timers \in [Agents -> Nat] /\ timers[a] + 1 \in Nat
    BY <1>0 DEF SupervisorTypes
  <2> QED
    BY <1>3, <2>1
<1>11. SupervisorTypes'
  <2>1. monitorRefs' \subseteq 1..n
    BY <1>0, <1>n, <1>3 DEF SupervisorTypes
  <2> QED
    BY <1>0, <1>3, <1>5, <1>6, <1>9, <1>10, <2>1 DEF SupervisorTypes
<1>12. SoleUnderCurrentWeights'
  <2> SUFFICES ASSUME NEW b \in Agents
               PROVE  /\ workers'[b].pid \in LiveOf(b)' =>
                           /\ procs'[workers'[b].pid].role = workers'[b].role
                           /\ procs'[workers'[b].pid].weights = workers'[b].weights
                      /\ spawns'[b] = 1 => \A q \in LiveOf(b)' :
                           q = workers'[b].pid \/ procs'[q].origin = "restart"
    BY DEF SoleUnderCurrentWeights
  <2>1. /\ workers[b].pid \in LiveOf(b) => /\ procs[workers[b].pid].role = workers[b].role
                                           /\ procs[workers[b].pid].weights = workers[b].weights
        /\ spawns[b] = 1 => \A q \in LiveOf(b) : q = workers[b].pid \/ procs[q].origin = "restart"
    BY DEF SovereignInv, SoleUnderCurrentWeights
  <2>2. \A q \in LiveOf(b)' : /\ q \in LiveOf(b) /\ procs'[q].role = procs[q].role
                              /\ procs'[q].weights = procs[q].weights
                              /\ procs'[q].origin = procs[q].origin
    BY <1>6, <1>7
  <2>3. workers'[b].pid = workers[b].pid
    BY <1>5, <1>w
  <2>4. workers'[b].pid \in LiveOf(b)' => /\ procs'[workers'[b].pid].role = workers'[b].role
                                         /\ procs'[workers'[b].pid].weights = workers'[b].weights
    <3>1. CASE b = a
      BY <1>5, <1>8, <3>1
    <3>2. CASE b # a
      BY <1>5, <2>1, <2>2, <3>2
    <3> QED
      BY <3>1, <3>2
  <2> QED
    BY <1>3, <2>1, <2>2, <2>3, <2>4
<1>13. Unspawned'
  <2>1. \A b \in Agents : workers'[b].pid = workers[b].pid
    BY <1>5, <1>w
  <2>2. \A q \in DOMAIN procs' : q \in DOMAIN procs /\ procs'[q].agent = procs[q].agent
    BY <1>6
  <2>3. UNCHANGED spawns /\ Unspawned
    BY <1>3 DEF SovereignInv
  <2> QED
    BY <2>1, <2>2, <2>3 DEF Unspawned
<1>14. Rationed'
  <2> SUFFICES ASSUME NEW b \in Agents
               PROVE  Balanced(spawns'[b], reborn'[b], timers'[b], Waits(mailbox', b), workers'[b].count)
    BY DEF Rationed
  <2>1. Balanced(spawns[b], reborn[b], timers[b], Waits(mailbox, b), workers[b].count)
    BY DEF SovereignInv, Rationed
  <2>2. CASE b = a
    <3>1. /\ spawns[a] \in Nat /\ reborn[a] \in Nat /\ timers[a] \in Nat
          /\ spawns[a] # 0
      BY <1>0, <1>3, <1>w DEF SupervisorTypes, SovereignInv, Unspawned
    <3>2. Balanced(spawns[a], reborn[a], timers[a], Waits(mailbox, a), w.count)
      BY <1>w, <2>1, <2>2
    <3>3. Balanced(spawns[a], reborn[a], IF RebirthLeft(w.count + 1) THEN timers[a] + 1 ELSE timers[a],
                   Waits(mailbox, a), w.count + 1)
      BY <1>1, <1>4, <3>1, <3>2, AccountCharged
    <3> QED
      BY <1>3, <1>5, <1>9, <1>10, <2>2, <3>3
  <2>3. CASE b # a
    BY <1>3, <1>5, <1>9, <1>10, <2>1, <2>3
  <2> QED
    BY <2>2, <2>3
<1> QED
  BY <1>11, <1>12, <1>13, <1>14 DEF SovereignInv

\* A state the supervisor, its agents and its mailbox are not touched in.
LEMMA SupervisorIdle ==
  ASSUME SovereignInv, UNCHANGED <<supervisor, procs, spawns, reborn>>
  PROVE  SovereignInv'
<1>1. UNCHANGED <<workers, monitorRefs, mailbox, timers, procs, spawns, reborn>>
  BY DEF supervisor
<1> QED
  BY <1>1 DEF SovereignInv, SupervisorTypes, SoleUnderCurrentWeights, LiveOf, Rationed, Unspawned

\* The sovereigns' invariant holds however spawns, reports, crashes, overdue
\* timers and the handlers interleave (constitutional_supervisor.ex).
THEOREM SupervisorInvariant == Spec => []SovereignInv
<1>1. Init => SovereignInv
  <2> SUFFICES ASSUME Init PROVE SovereignInv
    OBVIOUS
  <2>1. /\ workers = [a \in Agents |-> NoWorker] /\ procs = <<>> /\ mailbox = <<>>
        /\ monitorRefs = {} /\ timers = [a \in Agents |-> 0]
        /\ spawns = [a \in Agents |-> 0] /\ reborn = [a \in Agents |-> 0]
    BY DEF Init
  <2>2. NoWorker \in Worker(0) /\ NoWorker.pid = 0 /\ NoWorker.count = 0
    <3>1. 0 \in 0..0
      OBVIOUS
    <3>2. (CHOOSE r \in Roles : TRUE) \in Roles
      BY SovereignsAssumption
    <3> QED
      BY <3>1, <3>2 DEF NoWorker, Worker, Weights
  <2>3. Len(procs) = 0 /\ DOMAIN procs = {} /\ procs \in Seq(ProcessRecord)
    BY <2>1
  <2>4. SupervisorTypes
    <3>1. workers \in [Agents -> Worker(0)]
      BY <2>1, <2>2
    <3>2. mailbox \in Seq(Mail(0)) /\ monitorRefs \subseteq 1..0
      BY <2>1
    <3>3. timers \in [Agents -> Nat] /\ spawns \in [Agents -> Nat] /\ reborn \in [Agents -> Nat]
      BY <2>1
    <3> QED
      BY <2>3, <3>1, <3>2, <3>3 DEF SupervisorTypes
  <2>5. SoleUnderCurrentWeights /\ Unspawned
    BY <2>1, <2>2, <2>3 DEF SoleUnderCurrentWeights, LiveOf, Unspawned
  <2>6. Rationed
    <3>1. \A a \in Agents : WaitSet(mailbox, a) = {}
      BY <2>1 DEF WaitSet
    <3>2. \A a \in Agents : Waits(mailbox, a) = 0
      BY <3>1, FS_EmptySet DEF Waits
    <3> QED
      BY <2>1, <3>2 DEF Rationed, Balanced
  <2> QED
    BY <2>4, <2>5, <2>6 DEF SovereignInv
<1>2. SovereignInv /\ [Next]_vars => SovereignInv'
  <2> SUFFICES ASSUME SovereignInv, [Next]_vars PROVE SovereignInv'
    OBVIOUS
  <2>1. CASE Handle
    BY <2>1, SpawnSafe, MailStepsSafe, ViolationSafe, RebirthSafe DEF Handle
  <2>2. CASE HiveHandle
    BY <2>2, SupervisorIdle DEF HiveHandle
  <2>3. CASE HivePrune
    BY <2>3, SupervisorIdle DEF HivePrune
  <2>4. ASSUME NEW a \in Agents, TimerFires(a) PROVE SovereignInv'
    BY <2>4, TimerSafe
  <2>5. ASSUME NEW a \in Agents, NEW r \in Roles, NEW w \in InitialWeights,
               SpawnSovereign(a, r, w)
        PROVE  SovereignInv'
    BY <2>5, MailStepsSafe
  <2>6. ASSUME NEW a \in Agents, NEW p \in Principles, NEW s \in Severities, ReportViolation(a, p, s)
        PROVE  SovereignInv'
    BY <2>6, MailStepsSafe
  <2>7. ASSUME NEW p \in DOMAIN procs, Crash(p) PROVE SovereignInv'
    BY <2>7, CrashSafe
  <2>8. CASE UNCHANGED vars
    BY <2>8, SupervisorIdle DEF vars
  <2> QED
    BY <2>1, <2>2, <2>3, <2>4, <2>5, <2>6, <2>7, <2>8 DEF Next
<1> QED
  BY <1>1, <1>2, PTL DEF Spec

\* The process the supervisor tracks runs under the role and the weights it
\* holds, and of an agent spawned once nothing else runs but what was put back
\* after a crash (constitutional_supervisor.ex handle_cast violation, handle_info
\* rebirth), for any agents, roles, weights, reports, crashes and respawns.
THEOREM OneSovereign == Spec => []SoleUnderCurrentWeights
<1>1. SovereignInv => SoleUnderCurrentWeights
  BY DEF SovereignInv
<1> QED
  BY <1>1, SupervisorInvariant, PTL

\* A spawn buys an agent at most MaxRebirths - 1 rebirths, those on their way
\* counted, although each termination comes back as a report of its own
\* (constitutional_supervisor.ex schedule_rebirth, handle_info DOWN).
THEOREM RebirthsRationed == Spec => []RebirthsBounded
<1>1. SovereignInv => RebirthsBounded
  <2> SUFFICES ASSUME SovereignInv, NEW a \in Agents
               PROVE  reborn[a] + timers[a] + Waits(mailbox, a) <= (MaxRebirths - 1) * spawns[a]
    BY DEF RebirthsBounded, Waits, WaitSet
  <2>1. /\ spawns[a] \in Nat /\ reborn[a] \in Nat /\ timers[a] \in Nat /\ workers[a].count \in Nat
        /\ Waits(mailbox, a) \in Nat
        /\ Balanced(spawns[a], reborn[a], timers[a], Waits(mailbox, a), workers[a].count)
    BY WaitFinite DEF SovereignInv, SupervisorTypes, Worker, Rationed
  <2>2. Owing(workers[a].count) \in Nat
    BY <2>1, SovereignsAssumption DEF Owing
  <2>3. CASE spawns[a] = 0
    <3>1. (MaxRebirths - 1) * spawns[a] = 0
      BY <2>3, SovereignsAssumption
    <3> QED
      BY <2>1, <2>3, <3>1 DEF Balanced
  <2>4. CASE spawns[a] # 0
    <3> DEFINE ration == (MaxRebirths - 1) * spawns[a]
    <3>1. ration \in Int
      BY <2>1, SovereignsAssumption
    <3>2. reborn[a] + timers[a] + Waits(mailbox, a) + Owing(workers[a].count) <= ration
      BY <2>1, <2>4 DEF Balanced
    <3> HIDE DEF ration
    <3>3. reborn[a] + timers[a] + Waits(mailbox, a) <= ration
      BY <2>1, <2>2, <3>1, <3>2
    <3> QED
      BY <3>3 DEF ration
  <2> QED
    BY <2>3, <2>4
<1> QED
  BY <1>1, SupervisorInvariant, PTL

-----------------------------------------------------------------------------
\* The newest lesson heads the list.
LEMMA Remembered ==
  ASSUME NEW l \in Lesson, lessons \in Seq(Lesson)
  PROVE  Remember(l) \in Seq(Lesson) /\ Remember(l) # <<>> /\ Remember(l)[1] = l
<1> DEFINE k == IF Len(lessons) < MaxLessons THEN Len(lessons) ELSE MaxLessons - 1
           rest == SubSeq(lessons, 1, k)
<1>1. k \in Nat /\ k <= Len(lessons)
  BY SovereignsAssumption
<1> HIDE DEF k
<1>2. rest \in Seq(Lesson)
  BY <1>1
<1>3. Remember(l) = <<l>> \o rest
  BY DEF Remember, k
<1> HIDE DEF rest
<1> QED
  BY <1>2, <1>3

\* The Hive's own state moves only with a message it takes, a pruning, and what
\* a violation tells it.
LEMMA HiveStep ==
  ASSUME SupervisorTypes, HiveInv, [Next]_vars
  PROVE  HiveInv'
<1>0. HiveTypes /\ Paired
  BY DEF HiveInv
<1>1. CASE HandleViolation
  <2> DEFINE a == Head(mailbox).agent
             new == AdjustWeights(workers[a].weights, Head(mailbox).principle, Head(mailbox).severity)
             lesson == [kind |-> "lesson", agent |-> a, weights |-> new]
             retire == [kind |-> "retire", agent |-> a, weights |-> new]
  <2>1. /\ mailbox # <<>> /\ Head(mailbox).kind = "violation"
        /\ (hiveBox' = Append(hiveBox, lesson) \/ hiveBox' = hiveBox \o <<lesson, retire>>)
        /\ UNCHANGED <<lessons, retired>>
    BY <1>1 DEF HandleViolation, Receives
  <2>2. a \in Agents /\ Head(mailbox).principle \in Principles
    <3>1. Head(mailbox) \in Mail(Len(procs))
      BY <2>1, MailTaken
    <3> QED
      BY <2>1, <3>1 DEF Mail
  <2>3. new \in Weights
    <3>1. workers[a] \in Worker(Len(procs))
      BY <2>2 DEF SupervisorTypes
    <3> QED
      BY <2>2, <3>1, AdjustedWeights DEF Worker
  <2> HIDE DEF a, new
  <2>4. lesson \in Telling /\ retire \in Telling
    BY <2>2, <2>3 DEF Telling
  <2>5. lesson.kind = "lesson" /\ retire.kind = "retire" /\ Taught(lesson) = Taught(retire)
    BY DEF Taught
  <2> HIDE DEF lesson, retire
  <2>b. hiveBox \in Seq(Telling) /\ Append(hiveBox, lesson) \in Seq(Telling)
    BY <1>0, <2>4 DEF HiveTypes
  <2>c. hiveBox \o <<lesson, retire>> = Append(Append(hiveBox, lesson), retire)
    BY <2>4, <2>b
  <2>d. \/ hiveBox' = Append(hiveBox, lesson)
        \/ hiveBox' = Append(Append(hiveBox, lesson), retire)
    BY <2>1, <2>c
  <2>6. HiveTypes'
    <3>1. hiveBox' \in Seq(Telling)
      BY <2>4, <2>b, <2>d
    <3> QED
      BY <1>0, <2>1, <3>1 DEF HiveTypes
  <2>7. /\ Len(hiveBox') \in {Len(hiveBox) + 1, Len(hiveBox) + 2} /\ Len(hiveBox) \in Nat
        /\ \A k \in 1..Len(hiveBox) : hiveBox'[k] = hiveBox[k]
        /\ hiveBox'[Len(hiveBox) + 1] = lesson
        /\ Len(hiveBox') = Len(hiveBox) + 2 => hiveBox'[Len(hiveBox) + 2] = retire
    <3>1. CASE hiveBox' = Append(hiveBox, lesson)
      BY <2>b, <3>1
    <3>2. CASE hiveBox' = Append(Append(hiveBox, lesson), retire)
      BY <2>4, <2>b, <3>2
    <3> QED
      BY <2>d, <3>1, <3>2
  <2>8. Paired'
    <3> SUFFICES ASSUME NEW k \in 1..Len(hiveBox'), hiveBox'[k].kind = "retire"
                 PROVE  IF k = 1 THEN lessons = <<>> \/ lessons[1] = Taught(hiveBox'[1])
                        ELSE /\ hiveBox'[k - 1].kind = "lesson"
                             /\ Taught(hiveBox'[k - 1]) = Taught(hiveBox'[k])
      BY <2>1 DEF Paired
    <3>1. CASE k <= Len(hiveBox)
      <4>1. k \in 1..Len(hiveBox) /\ (k # 1 => k - 1 \in 1..Len(hiveBox))
        BY <2>7, <3>1
      <4>2. hiveBox'[k] = hiveBox[k] /\ (k # 1 => hiveBox'[k - 1] = hiveBox[k - 1])
        BY <2>7, <4>1
      <4> QED
        BY <1>0, <4>1, <4>2 DEF Paired
    <3>2. CASE k > Len(hiveBox)
      <4>1. k = Len(hiveBox) + 2 /\ k # 1 /\ k - 1 = Len(hiveBox) + 1
        BY <2>5, <2>7, <3>2
      <4>2. hiveBox'[k] = retire /\ hiveBox'[k - 1] = lesson
        BY <2>7, <4>1
      <4> QED
        BY <2>5, <4>1, <4>2
    <3> QED
      BY <2>7, <3>1, <3>2
  <2> QED
    BY <2>6, <2>8 DEF HiveInv
<1>2. CASE HiveHandle
  <2> DEFINE m == Head(hiveBox)
  <2>1. /\ hiveBox # <<>> /\ hiveBox' = Tail(hiveBox)
        /\ IF m.kind = "lesson" THEN lessons' = Remember(Taught(m)) /\ UNCHANGED retired
           ELSE retired' = <<Taught(m)>> \o retired /\ UNCHANGED lessons
    BY <1>2 DEF HiveHandle, Taught
  <2>2. /\ m \in Telling /\ m = hiveBox[1] /\ Taught(m) \in Lesson /\ Len(hiveBox) \in Nat
        /\ Len(hiveBox) >= 1 /\ Len(hiveBox') = Len(hiveBox) - 1
        /\ \A k \in 1..(Len(hiveBox) - 1) : hiveBox'[k] = hiveBox[k + 1]
        /\ hiveBox' \in Seq(Telling)
    <3>1. /\ m \in Telling /\ m = hiveBox[1] /\ Len(hiveBox) \in Nat
          /\ Len(hiveBox) >= 1 /\ Len(hiveBox') = Len(hiveBox) - 1
          /\ \A k \in 1..(Len(hiveBox) - 1) : hiveBox'[k] = hiveBox[k + 1]
          /\ hiveBox' \in Seq(Telling)
      BY <1>0, <2>1 DEF HiveTypes
    <3>2. Taught(m) \in Lesson
      BY <3>1 DEF Telling, Lesson, Taught
    <3> QED
      BY <3>1, <3>2
  <2> HIDE DEF m
  <2>3. HiveTypes'
    <3>1. CASE m.kind = "lesson"
      <4>1. Remember(Taught(m)) \in Seq(Lesson)
        BY <1>0, <2>2, Remembered DEF HiveTypes
      <4> QED
        BY <1>0, <2>1, <2>2, <3>1, <4>1 DEF HiveTypes
    <3>2. CASE m.kind # "lesson"
      <4>1. <<Taught(m)>> \o retired \in Seq(Lesson)
        BY <1>0, <2>2 DEF HiveTypes
      <4> QED
        BY <1>0, <2>1, <2>2, <3>2, <4>1 DEF HiveTypes
    <3> QED
      BY <3>1, <3>2
  <2>4. Paired'
    <3> SUFFICES ASSUME NEW k \in 1..Len(hiveBox'), hiveBox'[k].kind = "retire"
                 PROVE  IF k = 1 THEN lessons' = <<>> \/ lessons'[1] = Taught(hiveBox'[1])
                        ELSE /\ hiveBox'[k - 1].kind = "lesson"
                             /\ Taught(hiveBox'[k - 1]) = Taught(hiveBox'[k])
      BY DEF Paired
    <3>1. /\ k + 1 \in 1..Len(hiveBox) /\ k + 1 # 1 /\ (k + 1) - 1 = k /\ k \in Nat
          /\ hiveBox'[k] = hiveBox[k + 1]
      BY <2>2
    <3>2. hiveBox[k].kind = "lesson" /\ Taught(hiveBox[k]) = Taught(hiveBox[k + 1])
      BY <1>0, <3>1 DEF Paired
    <3>3. CASE k = 1
      <4>1. m.kind = "lesson" /\ Taught(m) = Taught(hiveBox'[1])
        BY <2>2, <3>1, <3>2, <3>3
      <4>2. lessons'[1] = Taught(m)
        BY <1>0, <2>1, <2>2, <4>1, Remembered DEF HiveTypes
      <4> QED
        BY <3>3, <4>1, <4>2
    <3>4. CASE k # 1
      <4>1. k - 1 \in 1..(Len(hiveBox) - 1) /\ (k - 1) + 1 = k
        BY <2>2, <3>1, <3>4
      <4>2. hiveBox'[k - 1] = hiveBox[k]
        BY <2>2, <4>1
      <4> QED
        BY <3>1, <3>2, <3>4, <4>2
    <3> QED
      BY <3>3, <3>4
  <2> QED
    BY <2>3, <2>4 DEF HiveInv
<1>3. CASE HivePrune
  <2>1. PICK n \in 0..(Len(lessons) - 1) : lessons' = SubSeq(lessons, 1, n)
    BY <1>3 DEF HivePrune
  <2>2. UNCHANGED <<hiveBox, retired>>
    BY <1>3 DEF HivePrune
  <2>3. lessons' \in Seq(Lesson) /\ (lessons' # <<>> => lessons # <<>> /\ lessons'[1] = lessons[1])
    <3>1. lessons \in Seq(Lesson) /\ Len(lessons) \in Nat
      BY <1>0 DEF HiveTypes
    <3>2. n \in Nat /\ n <= Len(lessons)
      BY <3>1
    <3>3. /\ lessons' \in Seq(Lesson) /\ Len(lessons') = n
          /\ \A i \in 1..n : lessons'[i] = lessons[i]
      BY <2>1, <3>1, <3>2
    <3>4. CASE n = 0
      BY <3>3, <3>4
    <3>5. CASE n # 0
      BY <3>1, <3>2, <3>3, <3>5
    <3> QED
      BY <3>4, <3>5
  <2> QED
    BY <1>0, <2>2, <2>3 DEF HiveInv, HiveTypes, Paired
<1>4. CASE UNCHANGED hive
  BY <1>0, <1>4 DEF hive, HiveInv, HiveTypes, Paired
<1>5. HandleViolation \/ HiveHandle \/ HivePrune \/ UNCHANGED hive
  BY DEF Next, vars, hive, Handle, HandleSpawn, IgnoreViolation, HandleRebirth, HandleDown,
         TimerFires, SpawnSovereign, ReportViolation, Crash
<1> QED
  BY <1>1, <1>2, <1>3, <1>4, <1>5

\* What the Hive tells of a retired agent is what its last lesson taught, as far
\* as the Hive still remembers one: a full list and pruning lose old lessons
\* first (hive.ex handle_cast, handle_info prune), whatever the two limits.
THEOREM RetiredFaithfully == Spec => RetiredAsTaught
<1> DEFINE inv == SovereignInv /\ HiveInv
           tells == \A i \in DOMAIN lessons :
             (Len(retired') > Len(retired) /\ lessons[i].agent = retired'[1].agent
                /\ \A j \in 1..i - 1 : lessons[j].agent # lessons[i].agent)
             => lessons[i].weights = retired'[1].weights
<1>1. Init => HiveInv
  BY DEF Init, HiveInv, HiveTypes, Paired
<1>2. SovereignInv /\ HiveInv /\ [Next]_vars => HiveInv'
  BY HiveStep DEF SovereignInv
<1>3. HiveInv /\ [Next]_vars => [tells]_vars
  <2> SUFFICES ASSUME HiveInv, Next,
                      NEW i \in DOMAIN lessons,
                      Len(retired') > Len(retired), lessons[i].agent = retired'[1].agent,
                      \A j \in 1..i - 1 : lessons[j].agent # lessons[i].agent
               PROVE  lessons[i].weights = retired'[1].weights
    BY DEF tells
  <2>1. HiveTypes /\ Paired /\ Len(retired) \in Nat /\ i \in 1..Len(lessons) /\ lessons # <<>>
    BY DEF HiveInv, HiveTypes
  <2>2. ~UNCHANGED retired
    BY <2>1
  <2>3. HiveHandle
    BY <2>2 DEF Next, hive, Handle, HandleSpawn, IgnoreViolation, HandleViolation, HandleRebirth,
         HandleDown, HivePrune, TimerFires, SpawnSovereign, ReportViolation, Crash
  <2>4. hiveBox # <<>> /\ Head(hiveBox).kind # "lesson"
        /\ retired' = <<Taught(Head(hiveBox))>> \o retired
    BY <2>2, <2>3 DEF HiveHandle, Taught
  <2>5. /\ Head(hiveBox) = hiveBox[1] /\ 1 \in 1..Len(hiveBox) /\ Head(hiveBox) \in Telling
    BY <2>1, <2>4 DEF HiveTypes
  <2>6. Head(hiveBox).kind = "retire" /\ Taught(Head(hiveBox)) \in Lesson
    BY <2>4, <2>5 DEF Telling, Taught, Lesson
  <2>7. retired'[1] = Taught(Head(hiveBox))
    BY <2>1, <2>4, <2>6 DEF HiveTypes
  <2>8. lessons[1] = retired'[1]
    BY <2>1, <2>5, <2>6, <2>7 DEF Paired
  <2>9. i = 1
    <3>1. i # 1 => 1 \in 1..(i - 1)
      BY <2>1
    <3> QED
      BY <2>8, <3>1
  <2> QED
    BY <2>8, <2>9
<1> HIDE DEF tells
<1>4. Spec => [][tells]_vars
  BY <1>1, <1>2, <1>3, SupervisorInvariant, PTL DEF Spec
<1> QED
  BY <1>4 DEF RetiredAsTaught, tells
=============================================================================

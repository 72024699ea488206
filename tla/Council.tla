------------------------------- MODULE Council -------------------------------
(***************************************************************************)
(* A review council (omokoda-swarm, council.ex): one GenServer that sends  *)
(* a task to its councillors, hears their opinions or their timeouts, and  *)
(* answers whoever awaits the verdict.  Each councillor's review runs in a *)
(* process of its own and each timeout is a message of its own, so their   *)
(* messages come in any order: a handler takes any that was sent.          *)
(***************************************************************************)
EXTENDS Naturals, Sequences, FiniteSets

CONSTANTS
  Councillors,  \* their ids, distinct
  Weight,       \* [Councillors -> Nat]; an opinion's confidence is its author's weight
  OpinionSeverities,   \* what reviews of the instance can come to
  Callers,      \* processes that may await the verdict
  Nobody

SeverityOrder == <<"critical", "high", "medium", "low">>

ASSUME CouncilAssumption ==
  /\ Councillors # {} /\ IsFiniteSet(Councillors) /\ Weight \in [Councillors -> Nat]
  /\ OpinionSeverities \subseteq {SeverityOrder[i] : i \in DOMAIN SeverityOrder}
  /\ Nobody \notin Callers

VARIABLES
  review,    \* [Councillors -> "running", "sent", "dead" or "heard"]
  severity,  \* [Councillors -> what its opinion says]
  timeouts,  \* councillors whose timeout is still to be handled
  pending, opinions, status, verdict, caller,  \* the GenServer's state
  call       \* [Callers -> "none", "asked", "waiting", "answered" or "gone"]

reviews == <<review, severity, timeouts>>
session == <<pending, opinions, status, verdict, caller>>
councilVars == <<reviews, session, call>>

NoVerdict == [highest |-> "none", best |-> <<>>, findings |-> {}]

InitCouncil ==
  /\ review = [c \in Councillors |-> "running"]
  /\ severity = [c \in Councillors |-> "none"]
  /\ timeouts = Councillors
  /\ pending = Councillors /\ opinions = <<>>
  /\ status = "deliberating" /\ verdict = NoVerdict /\ caller = Nobody
  /\ call = [k \in Callers |-> "none"]

(***************************************************************************)
(* The councillors' processes.                                             *)
(***************************************************************************)
SendOpinion(c) ==
  /\ review[c] = "running" /\ review' = [review EXCEPT ![c] = "sent"]
  /\ \E s \in OpinionSeverities : severity' = [severity EXCEPT ![c] = s]
  /\ UNCHANGED <<timeouts, session, call>>

\* The call to the agent exits (a timeout, a crash) and takes the process along.
ReviewDies(c) ==
  /\ review[c] = "running" /\ review' = [review EXCEPT ![c] = "dead"]
  /\ UNCHANGED <<severity, timeouts, session, call>>

(***************************************************************************)
(* The verdict: of the opinions of each severity the first of the highest  *)
(* confidence; opinions are kept newest first.                             *)
(***************************************************************************)
\* Mutant: the severity of the opinion heard last.
Highest_latest(ops) == ops[1].severity

Highest(ops) ==
  LET said == {i \in DOMAIN SeverityOrder :
                 \E k \in DOMAIN ops : ops[k].severity = SeverityOrder[i]}
  IN  IF said = {} THEN "none"
      ELSE SeverityOrder[CHOOSE i \in said : \A j \in said : i <= j]

Best(ops, s) ==
  LET of == {k \in DOMAIN ops : ops[k].severity = s}
      top == {k \in of : \A j \in of : Weight[ops[j].id] <= Weight[ops[k].id]}
  IN  ops[CHOOSE k \in top : \A j \in top : k <= j].id

Aggregate(ops) ==
  IF ops = <<>> THEN NoVerdict
  ELSE [highest |-> Highest(ops),
        best |-> [s \in {ops[k].severity : k \in DOMAIN ops} |-> Best(ops, s)],
        findings |-> {ops[k] : k \in DOMAIN ops}]

(***************************************************************************)
(* The handlers.                                                           *)
(***************************************************************************)
\* Mutant: the verdict is stored and nobody is told.
Conclude_silent(ops) ==
  /\ status' = "concluded" /\ verdict' = Aggregate(ops)
  /\ UNCHANGED <<caller, call>>

\* The caller on record is answered, and stays on record.
Conclude(ops) ==
  /\ status' = "concluded" /\ verdict' = Aggregate(ops)
  /\ call' = IF caller = Nobody \/ call[caller] # "waiting" THEN call
             ELSE [call EXCEPT ![caller] = "answered"]
  /\ UNCHANGED caller

Settle(ops) ==
  IF pending' = {} THEN Conclude(ops) ELSE UNCHANGED <<status, verdict, caller, call>>

\* An opinion that comes after its councillor's timeout counts too, and after
\* the last timeout it concludes the session once more.
HearOpinion(c) ==
  /\ review[c] = "sent" /\ review' = [review EXCEPT ![c] = "heard"]
  /\ opinions' = <<[id |-> c, severity |-> severity[c]]>> \o opinions
  /\ pending' = pending \ {c}
  /\ Settle(opinions')
  /\ UNCHANGED <<severity, timeouts>>

HearTimeout(c) ==
  /\ c \in timeouts /\ timeouts' = timeouts \ {c}
  /\ UNCHANGED <<review, severity, opinions>>
  /\ IF c \in pending
     THEN pending' = pending \ {c} /\ Settle(opinions)
     ELSE UNCHANGED <<pending, status, verdict, caller, call>>

\* While the council deliberates a later caller takes the place of an earlier
\* one, whom nobody answers any more.
HearAwait(k) ==
  /\ call[k] = "asked"
  /\ IF status = "deliberating"
     THEN caller' = k /\ call' = [call EXCEPT ![k] = "waiting"]
     ELSE call' = [call EXCEPT ![k] = "answered"] /\ UNCHANGED caller
  /\ UNCHANGED <<reviews, pending, opinions, status, verdict>>

Await(k) ==
  /\ call[k] = "none" /\ call' = [call EXCEPT ![k] = "asked"]
  /\ UNCHANGED <<reviews, session>>

\* await/2 takes a timeout.
GiveUp(k) ==
  /\ call[k] = "waiting" /\ call' = [call EXCEPT ![k] = "gone"]
  /\ UNCHANGED <<reviews, session>>

CouncilNext ==
  \/ \E c \in Councillors :
       SendOpinion(c) \/ ReviewDies(c) \/ HearOpinion(c) \/ HearTimeout(c)
  \/ \E k \in Callers : Await(k) \/ HearAwait(k) \/ GiveUp(k)

\* A timer set fires and is handled; a review need never end.
CouncilFairness ==
  /\ \A c \in Councillors : WF_councilVars(HearTimeout(c))
  /\ \A k \in Callers : WF_councilVars(HearAwait(k))

CouncilSpec == InitCouncil /\ [][CouncilNext]_councilVars /\ CouncilFairness

(***************************************************************************)
(* Properties.                                                             *)
(***************************************************************************)
\* The session has concluded exactly when every councillor was heard or timed
\* out, and its verdict then covers every opinion heard, late ones included: as
\* grave as the gravest, and per severity that of the weightiest councillor.
VerdictIsTally ==
  LET Heard == {c \in Councillors : review[c] = "heard"}
      Rank(s) == CHOOSE i \in DOMAIN SeverityOrder : SeverityOrder[i] = s
      Of(s) == {c \in Heard : severity[c] = s}
  IN  /\ status = "concluded" <=> \A c \in Councillors : c \in Heard \/ c \notin timeouts
      /\ status = "concluded" =>
           /\ verdict.findings = {[id |-> c, severity |-> severity[c]] : c \in Heard}
           /\ \A c \in Heard :
                /\ Rank(verdict.highest) <= Rank(severity[c])
                /\ verdict.best[severity[c]] \in Of(severity[c])
                /\ Weight[c] <= Weight[verdict.best[severity[c]]]
           /\ Heard # {} => Of(verdict.highest) # {}

\* Whoever has a call on record gets the verdict, unless it gives up or another
\* caller displaces it: dead and endless reviews do not keep it waiting.
CallersAnswered ==
  \A k \in Callers :
    (caller = k /\ call[k] = "waiting") ~> (call[k] \in {"answered", "gone"} \/ caller # k)
=============================================================================

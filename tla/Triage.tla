------------------------------- MODULE Triage -------------------------------
(* Unknown failure reasons, and the classifications a model proposes for     *)
(* them: runs of scripts/triage.ts, one question to the model per reason, and *)
(* the table of proposals. Nothing reads an accepted proposal back.           *)
EXTENDS Naturals, Sequences, FiniteSets

CONSTANTS Reason,       \* raw failure reasons the taxonomy does not know
          Occurrences,  \* [Reason -> Nat]: the cases that failed with each
          TriageRun,    \* runs of the script
          Class,        \* what the model may answer
          MaxFailures   \* bound: questions the model does not answer, and deaths

ASSUME TriageAssumption == Occurrences \in [Reason -> Nat]

VARIABLES proposals,    \* taxonomy_proposals, by reason, oldest first
          runs,         \* each run: the reasons it has left, and its answer
          tried,        \* the reasons each run has an outcome for
          failures

tvars == <<proposals, runs, tried, failures>>

MIN_OCCURRENCES == 3

NotStarted == "not started"
Dead == "dead"

TriageInit ==
  /\ proposals = [r \in Reason |-> <<>>]
  /\ runs = [t \in TriageRun |-> [at |-> NotStarted, todo |-> {}, class |-> "none"]]
  /\ tried = [t \in TriageRun |-> {}]
  /\ failures = 0

\* findUnknownReasons: those seen often enough, the most frequent first.
UnknownReasons == {r \in Reason : Occurrences[r] >= MIN_OCCURRENCES}
MostSeen(S) == {r \in S : \A q \in S : Occurrences[r] >= Occurrences[q]}

FindUnknownReasons(t) ==
  /\ runs[t].at = NotStarted
  /\ runs' = [runs EXCEPT ![t].at = "asking", ![t].todo = UnknownReasons]
  /\ UNCHANGED <<proposals, tried, failures>>

\* The model answers with a class for the reason ...
Propose(t) ==
  /\ runs[t].at = "asking" /\ runs[t].todo # {}
  /\ \E class \in Class : runs' = [runs EXCEPT ![t].at = "recording", ![t].class = class]
  /\ UNCHANGED <<proposals, tried, failures>>

\* ... or not: the outcome says why, and the run goes on with the next.
GoOnAfter(t, r) == runs' = [runs EXCEPT ![t].todo = @ \ {r}]

ProposalFails(t) ==
  /\ runs[t].at = "asking" /\ failures < MaxFailures
  /\ failures' = failures + 1
  /\ \E r \in MostSeen(runs[t].todo) :
       /\ tried' = [tried EXCEPT ![t] = @ \union {r}]
       /\ GoOnAfter(t, r)
  /\ UNCHANGED proposals

Pending(r) == {i \in DOMAIN proposals[r] : proposals[r][i].status = "pending"}
NewProposal(class) == [status |-> "pending", class |-> class]

\* Faulty variant: each run adds a row of its own.
UpsertedStacked(r, class) == Append(proposals[r], NewProposal(class))
\* INSERT .. ON CONFLICT (raw_error_reason) WHERE status = 'pending' DO UPDATE.
Upserted(r, class) ==
  IF Pending(r) = {} THEN Append(proposals[r], NewProposal(class))
  ELSE [proposals[r] EXCEPT ![CHOOSE i \in Pending(r) : TRUE].class = class]

UpsertProposal(t) ==
  /\ runs[t].at = "recording"
  /\ \E r \in MostSeen(runs[t].todo) :
       /\ proposals' = [proposals EXCEPT ![r] = Upserted(r, runs[t].class)]
       /\ tried' = [tried EXCEPT ![t] = @ \union {r}]
       /\ runs' = [runs EXCEPT ![t] = [at |-> "asking", todo |-> @.todo \ {r}, class |-> "none"]]
  /\ UNCHANGED failures

\* The database refuses, or the script is stopped: no later reason is looked at.
TriageDies(t) ==
  /\ runs[t].at \in {"asking", "recording"} /\ runs[t].todo # {}
  /\ failures < MaxFailures
  /\ failures' = failures + 1
  /\ runs' = [runs EXCEPT ![t].at = Dead]
  /\ UNCHANGED <<proposals, tried>>

Reviewable(p) == p.status = "pending"

\* The repository's, which no route or script calls: a person's decision.
ReviewProposal(r, i, decision) ==
  /\ i \in DOMAIN proposals[r] /\ Reviewable(proposals[r][i])
  /\ proposals' = [proposals EXCEPT ![r][i].status = decision]
  /\ UNCHANGED <<runs, tried, failures>>

TriageStep(t) ==
  \/ FindUnknownReasons(t)
  \/ Propose(t)
  \/ ProposalFails(t)
  \/ UpsertProposal(t)
  \/ TriageDies(t)

TriageTypes ==
  /\ \A r \in Reason : \A i \in DOMAIN proposals[r] :
       /\ proposals[r][i].status \in {"pending", "accepted", "rejected"}
       /\ proposals[r][i].class \in Class
  /\ \A t \in TriageRun : runs[t].todo \subseteq Reason /\ tried[t] \subseteq Reason

\* Two runs at once, before and after reviews, leave at most one proposal of a reason
\* to review, and never one of a reason seen too rarely (taxonomy_proposals_pending_key).
OnePendingPerReason ==
  \A r \in Reason : /\ Cardinality(Pending(r)) <= 1
                    /\ proposals[r] # <<>> => r \in UnknownReasons

\* What a person decided stays as decided, class and all, whatever runs come later: a
\* fresh proposal is a row of its own (upsertProposal's WHERE, reviewProposal's guard).
DecisionStands ==
  [][\A r \in Reason : \A i \in DOMAIN proposals[r] :
       proposals[r][i].status # "pending" =>
         i \in DOMAIN proposals'[r] /\ proposals'[r][i] = proposals[r][i]]_tvars

\* A run that was not stopped has an outcome for every reason it found, and a reason it
\* could not classify costs that reason only (runTriage).
TriageReachesAll ==
  \A t \in TriageRun :
    runs[t].at = "asking" /\ runs[t].todo = {} => tried[t] = UnknownReasons

=============================================================================

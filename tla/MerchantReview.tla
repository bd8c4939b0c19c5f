---------------------------- MODULE MerchantReview ----------------------------
(***************************************************************************)
(* Merchant review: the functions of experiment-review.ts and the tables   *)
(* of 0006_merchant_review.sql their records are made for.  A function is  *)
(* pure and its inputs are rows that never change, so one step calls it    *)
(* and inserts what it returns; an INSERT that the primary key, a          *)
(* reference or a CHECK refuses changes nothing and is no step.            *)
(* Callers are people and services that know nothing of each other: any    *)
(* call may follow any other.                                              *)
(***************************************************************************)
EXTENDS Naturals, FiniteSets

CONSTANTS
  Plans,        \* experiment plans: [id, store, metric, guardrails]
  Reviews,      \* review ids
  MaxRows,      \* bound: rows in all tables together
  NoDecision    \* a lifecycle record without acceptanceDecisionId

\* The id of a plan is made of its agent run's id: two drafts of one run make two plans of
\* one id, and nothing compares more than ids.
ASSUME ReviewAssumption == MaxRows \in Nat

VARIABLES
  reviews,      \* experiment_plan_reviews
  views,        \* experiment_review_views
  decisions,    \* experiment_review_decisions
  lifecycle,    \* experiment_action_lifecycle_records
  candidates,   \* merchant_preference_candidates
  preferences   \* merchant_preferences

reviewVars == <<reviews, views, decisions, lifecycle, candidates, preferences>>

\* The validator's decisions, as a caller hands one over.
Validations == {"accept", "block", "needs_more_data"}

LifecycleStates == {"suggested", "drafted", "accepted", "rejected", "applied", "measured",
                    "kept", "reverted", "extended", "retest_needed"}

Allowed == [s \in LifecycleStates |->
  CASE s = "suggested" -> {"drafted"}
    [] s = "drafted" -> {"accepted", "rejected"}
    [] s = "accepted" -> {"applied"}
    [] s = "applied" -> {"measured"}
    [] s = "measured" -> {"kept", "reverted", "extended", "retest_needed"}
    [] OTHER -> {}]

CanTransition(from, to) == to \in Allowed[from]

\* The CHECK of experiment_action_lifecycle_records.
LifecycleCheck(row) ==
  \/ row.from = "suggested" /\ row.to = "drafted"
  \/ row.from = "drafted" /\ row.to \in {"accepted", "rejected"}
  \/ row.from = "accepted" /\ row.to = "applied" /\ row.acceptance # NoDecision
  \/ row.from = "applied" /\ row.to = "measured"
  \/ row.from = "measured" /\ row.to \in {"kept", "reverted", "extended", "retest_needed"}

\* What every row about a review copies from the submission.
AboutPlan(row, review) ==
  row.review = review.id /\ row.plan = review.plan.id /\ row.store = review.plan.store

Rows == Cardinality(reviews) + Cardinality(views) + Cardinality(decisions)
          + Cardinality(lifecycle) + Cardinality(candidates) + Cardinality(preferences)

\* Ids are the caller's; a fresh one counts the rows of its kind and review so far.
Fresh(table, kind, review) ==
  <<kind, review, 1 + Cardinality({row \in table : row.review = review})>>

ReviewInit ==
  /\ reviews = {} /\ views = {} /\ decisions = {}
  /\ lifecycle = {} /\ candidates = {} /\ preferences = {}

\* submitExperimentPlanForMerchantReview: only what the result handed over calls accepted.
\* Nobody asks whether it is this plan's result.  One plan, and several plans of one id, may
\* be submitted under several review ids; a review id is a primary key.
Submit(v, plan, validation) ==
  /\ Rows < MaxRows
  /\ validation = "accept"
  /\ \A review \in reviews : review.id # v
  /\ reviews' = reviews \cup {[id |-> v, plan |-> plan, validation |-> validation]}
  /\ UNCHANGED <<views, decisions, lifecycle, candidates, preferences>>

\* recordExperimentReviewViewed.
Viewed(review) ==
  [id |-> Fresh(views, "view", review.id), review |-> review.id, plan |-> review.plan.id,
   store |-> review.plan.store]

View(review) ==
  /\ Rows < MaxRows
  /\ views' = views \cup {Viewed(review)}
  /\ UNCHANGED <<reviews, decisions, lifecycle, candidates, preferences>>

\* decisionBase and its INSERT.  The submission is taken as it was submitted: earlier decisions
\* of the review are not looked at.
Decided(review, decision) ==
  [id |-> Fresh(decisions, "decision", review.id), review |-> review.id,
   plan |-> review.plan.id, store |-> review.plan.store, decision |-> decision]

Decide(review, decision) ==
  /\ Rows < MaxRows
  /\ decisions' = decisions \cup {Decided(review, decision)}
  /\ UNCHANGED <<reviews, views, lifecycle, candidates, preferences>>

Accept(review) == Decide(review, "accepted")
Reject(review) == Decide(review, "rejected")
Modify(review) == Decide(review, "modified")

\* recordActionLifecycleTransition.  The record is judged alone: neither the records before it
\* nor what the decision it names decided are looked at.  (An applied or reverted record needs
\* a rollbackRef too; nothing here reads it, and without it there is no record.)
Transition(review, from, to, acceptance) ==
  [id |-> Fresh(lifecycle, "lifecycle", review.id), review |-> review.id,
   plan |-> review.plan.id, store |-> review.plan.store, from |-> from, to |-> to,
   acceptance |-> acceptance]

RecordTransition(review, from, to, acceptance) ==
  /\ Rows < MaxRows
  /\ CanTransition(from, to)
  /\ to = "applied" => acceptance # NoDecision
  /\ lifecycle' = lifecycle \cup {Transition(review, from, to, acceptance)}
  /\ UNCHANGED <<reviews, views, decisions, candidates, preferences>>

Candidate(decision) ==
  [id |-> <<"candidate", decision.id, Cardinality(candidates)>>, review |-> decision.review,
   plan |-> decision.plan, store |-> decision.store, rejection |-> decision.id]

\* createPreferenceCandidateFromRejection: its argument's type and the reason it reads make it
\* a rejection.
CreateCandidate(decision) ==
  /\ Rows < MaxRows
  /\ decision.decision = "rejected"
  /\ candidates' = candidates \cup {Candidate(decision)}
  /\ UNCHANGED <<reviews, views, decisions, lifecycle, preferences>>

\* confirmMerchantPreference: a candidate may be confirmed again under another preference id.
Preference(candidate) ==
  [id |-> <<"preference", candidate.id, Cardinality(preferences)>>,
   candidate |-> candidate.id, store |-> candidate.store]

ConfirmPreference(candidate) ==
  /\ Rows < MaxRows
  /\ preferences' = preferences \cup {Preference(candidate)}
  /\ UNCHANGED <<reviews, views, decisions, lifecycle, candidates>>

\* The decision an applied record names is read by nobody else, so only that one is varied.
ReviewNext ==
  \/ \E v \in Reviews, plan \in Plans, validation \in Validations : Submit(v, plan, validation)
  \/ \E review \in reviews :
       \/ View(review) \/ Accept(review) \/ Reject(review) \/ Modify(review)
       \/ \E from, to \in LifecycleStates :
          \E acceptance \in
              IF to = "applied" THEN {d.id : d \in decisions} ELSE {NoDecision} :
            RecordTransition(review, from, to, acceptance)
  \/ \E decision \in decisions : CreateCandidate(decision)
  \/ \E candidate \in candidates : ConfirmPreference(candidate)

\* The keys, references and CHECKs of the six tables.
ReviewTypeOK ==
  /\ \A table \in {reviews, views, decisions, lifecycle, candidates, preferences} :
       \A x, y \in table : x.id = y.id => x = y
  /\ reviews \subseteq [id : Reviews, plan : Plans, validation : Validations]
  /\ \A row \in views \cup decisions \cup lifecycle \cup candidates :
       \E review \in reviews : AboutPlan(row, review)
  /\ \A d \in decisions : d.decision \in {"accepted", "modified", "rejected"}
  /\ \A row \in lifecycle :
       LifecycleCheck(row) /\ row.acceptance \in {d.id : d \in decisions} \cup {NoDecision}
  /\ \A c \in candidates : \E d \in decisions : d.id = c.rejection
  /\ \A p \in preferences : \E c \in candidates : c.id = p.candidate
===============================================================================

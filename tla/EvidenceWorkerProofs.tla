------------------------- MODULE EvidenceWorkerProofs -------------------------
(***************************************************************************)
(* Proofs about EvidenceWorker: the tables of the merchant review keep     *)
(* their keys and references, facts go back to a merchant's decision, and  *)
(* a verdict is what the snapshots support.                                *)
(***************************************************************************)
EXTENDS EvidenceWorker, FiniteSetTheorems, TLAPS

-------------------------------------------------------------------------------
\* Tables and their ids.

UniqueIds(table) == \A x, y \in table : x.id = y.id => x = y
OfReview(table, v) == {row \in table : row.review = v}

\* A table whose ids count the rows of their kind and review.
Counted(table, kind) ==
  /\ IsFiniteSet(table) /\ UniqueIds(table)
  /\ \A row \in table : \E k \in 1 .. Cardinality(OfReview(table, row.review)) :
       row.id = <<kind, row.review, k>>

\* A table whose ids count all its rows.
CountedAll(table, kind) ==
  /\ IsFiniteSet(table) /\ UniqueIds(table)
  /\ \A row \in table : \E of : \E k \in 0 .. Cardinality(table) - 1 : row.id = <<kind, of, k>>

LEMMA FreshIsNew ==
  ASSUME NEW table, NEW kind, NEW row, Counted(table, kind), row.id = Fresh(table, kind, row.review)
  PROVE  Counted(table \cup {row}, kind)
<1>. DEFINE v == row.review
            n == Cardinality(OfReview(table, v))
            T == table \cup {row}
<1>1. IsFiniteSet(table) /\ IsFiniteSet(T) BY FS_AddElement DEF Counted
<1>2. \A w : IsFiniteSet(OfReview(table, w)) /\ IsFiniteSet(OfReview(T, w))
  BY <1>1, FS_Subset DEF OfReview
<1>3. \A w : Cardinality(OfReview(table, w)) \in Nat /\ Cardinality(OfReview(T, w)) \in Nat
  BY <1>2, FS_CardinalityType
<1>4. row.id = <<kind, v, 1 + n>> BY DEF Fresh, OfReview
<1>5. ASSUME NEW x \in table PROVE x.id # row.id
  <2>1. PICK k \in 1 .. Cardinality(OfReview(table, x.review)) : x.id = <<kind, x.review, k>>
    BY DEF Counted
  <2>2. CASE x.review = v BY <1>3, <1>4, <2>1, <2>2
  <2>3. CASE x.review # v BY <1>4, <2>1, <2>3
  <2>. QED BY <2>2, <2>3
<1>6. row \notin table BY <1>5
<1>7. UniqueIds(T) BY <1>5 DEF Counted, UniqueIds
<1>8. \A w : Cardinality(OfReview(table, w)) =< Cardinality(OfReview(T, w))
  <2>1. \A w : OfReview(table, w) \subseteq OfReview(T, w) BY DEF OfReview
  <2>. QED BY <1>2, <2>1, FS_Subset
<1>9. Cardinality(OfReview(T, v)) = n + 1
  <2>1. OfReview(T, v) = OfReview(table, v) \cup {row} BY DEF OfReview
  <2>2. row \notin OfReview(table, v) BY <1>6 DEF OfReview
  <2>. QED BY <1>2, <2>1, <2>2, FS_AddElement
<1>10. ASSUME NEW x \in T
       PROVE  \E k \in 1 .. Cardinality(OfReview(T, x.review)) : x.id = <<kind, x.review, k>>
  <2>1. CASE x = row
    <3>1. 1 + n \in 1 .. Cardinality(OfReview(T, v)) BY <1>3, <1>9
    <3>. QED BY <1>4, <2>1, <3>1
  <2>2. CASE x \in table
    <3>1. PICK k \in 1 .. Cardinality(OfReview(table, x.review)) : x.id = <<kind, x.review, k>>
      BY <2>2 DEF Counted
    <3>2. k \in 1 .. Cardinality(OfReview(T, x.review)) BY <1>3, <1>8
    <3>. QED BY <3>1, <3>2
  <2>. QED BY <2>1, <2>2
<1>. QED BY <1>1, <1>7, <1>10 DEF Counted

LEMMA NextIsNew ==
  ASSUME NEW table, NEW kind, NEW row, NEW of, CountedAll(table, kind),
         row.id = <<kind, of, Cardinality(table)>>
  PROVE  CountedAll(table \cup {row}, kind)
<1>. DEFINE n == Cardinality(table)
            T == table \cup {row}
<1>1. IsFiniteSet(table) /\ IsFiniteSet(T) BY FS_AddElement DEF CountedAll
<1>2. n \in Nat BY <1>1, FS_CardinalityType
<1>3. ASSUME NEW x \in table PROVE x.id # row.id
  <2>1. \E o : \E k \in 0 .. n - 1 : x.id = <<kind, o, k>> BY DEF CountedAll
  <2>. QED BY <1>2, <2>1
<1>4. UniqueIds(T) BY <1>3 DEF CountedAll, UniqueIds
<1>5. Cardinality(T) = n + 1 BY <1>1, <1>3, FS_AddElement
<1>6. ASSUME NEW x \in T
      PROVE  \E o : \E k \in 0 .. Cardinality(T) - 1 : x.id = <<kind, o, k>>
  <2>1. CASE x = row
    <3>1. n \in 0 .. Cardinality(T) - 1 BY <1>2, <1>5
    <3>. QED BY <2>1, <3>1
  <2>2. CASE x \in table
    <3>1. PICK o : \E k \in 0 .. n - 1 : x.id = <<kind, o, k>> BY <2>2 DEF CountedAll
    <3>2. PICK k \in 0 .. n - 1 : x.id = <<kind, o, k>> BY <3>1
    <3>3. k \in 0 .. Cardinality(T) - 1 BY <1>2, <1>5
    <3>. QED BY <3>2, <3>3
  <2>. QED BY <2>1, <2>2
<1>. QED BY <1>1, <1>4, <1>6 DEF CountedAll


-------------------------------------------------------------------------------
\* The inductive invariant: the keys of the tables, what a row says of other rows, and what
\* the output was built from.

KeysOk ==
  /\ reviews \subseteq [id : Reviews, plan : Plans, validation : Validations] /\ UniqueIds(reviews)
  /\ Counted(views, "view") /\ Counted(decisions, "decision") /\ Counted(lifecycle, "lifecycle")
  /\ CountedAll(candidates, "candidate") /\ CountedAll(preferences, "preference")

FromReview(table) == \A row \in table : \E review \in reviews : AboutPlan(row, review)

LifecycleRowOk(row) ==
  LifecycleCheck(row) /\ row.acceptance \in {d.id : d \in decisions} \cup {NoDecision}

\* A candidate goes back to a rejection of its store.
CandidateOk(c) ==
  \E d \in decisions, review \in reviews :
    /\ c.rejection = d.id /\ d.decision = "rejected"
    /\ d.review = review.id /\ c.store = review.plan.store

PreferenceOk(p) == \E c \in candidates : p.candidate = c.id /\ p.store = c.store

RowsOk ==
  /\ FromReview(views) /\ FromReview(decisions) /\ FromReview(lifecycle) /\ FromReview(candidates)
  /\ \A review \in reviews : review.validation = "accept"
  /\ \A d \in decisions : d.decision \in {"accepted", "modified", "rejected"}
  /\ \A row \in lifecycle : LifecycleRowOk(row)
  /\ \A c \in candidates : CandidateOk(c)
  /\ \A p \in preferences : PreferenceOk(p)

\* An output is what the worker built from rows of the tables that fit together.
Fits(plan, guardrails, acceptance, applied, gap, before, after, earlier, later) ==
  LET built == Built(plan, guardrails, acceptance, applied, gap,
                     before, after, earlier, later) IN
  /\ acceptance.decision = "accepted"
  /\ MetricPairFits(plan, plan.metric, before, after)
  /\ \A g \in guardrails : GuardrailFits(plan, g, earlier[g.metric], later[g.metric])
  /\ TrajectoryFits(plan, acceptance, applied, built.effect, built.results)
  /\ EvidenceInputsFit(built.trajectory, gap, built.effect, built.results)

BuiltFrom(out, plan, guardrails, acceptance, applied, gap, before, after, earlier, later) ==
  /\ before \in Snapshots /\ after \in Snapshots
  /\ earlier \in AvailableFor(guardrails) /\ later \in AvailableFor(guardrails)
  /\ Fits(plan, guardrails, acceptance, applied, gap, before, after, earlier, later)
  /\ out = Built(plan, guardrails, acceptance, applied, gap, before, after, earlier, later)

OutOk(out) ==
  \E plan \in Plans, guardrails \in SUBSET Guardrails,
     acceptance \in decisions, applied \in lifecycle, gap \in Gaps :
    \E before, after, earlier, later :
      BuiltFrom(out, plan, guardrails, acceptance, applied, gap, before, after, earlier, later)

OutputOk ==
  /\ runs \in 0 .. MaxRuns /\ (output = {} <=> runs = 0)
  /\ \A out \in output : OutOk(out)

EvidenceInv == KeysOk /\ RowsOk /\ OutputOk

LEMMA InitEvidence == Init => EvidenceInv
<1>. SUFFICES ASSUME Init PROVE EvidenceInv OBVIOUS
<1>1. IsFiniteSet({}) BY FS_EmptySet
<1>2. KeysOk BY <1>1 DEF Init, ReviewInit, KeysOk, Counted, CountedAll, UniqueIds
<1>3. RowsOk BY DEF Init, ReviewInit, RowsOk, FromReview
<1>4. OutputOk BY WorkerAssumption DEF Init, OutputOk
<1>. QED BY <1>2, <1>3, <1>4 DEF EvidenceInv

\* Rows are only added: what a row says of other rows stays true.
LEMMA RowsStay ==
  ASSUME reviews \subseteq reviews', decisions \subseteq decisions',
         lifecycle \subseteq lifecycle', candidates \subseteq candidates'
  PROVE  /\ \A row, review : AboutPlan(row, review) => AboutPlan(row, review)'
         /\ \A row : LifecycleRowOk(row) => LifecycleRowOk(row)'
         /\ \A c : CandidateOk(c) => CandidateOk(c)'
         /\ \A p : PreferenceOk(p) => PreferenceOk(p)'
         /\ \A out : OutOk(out) => OutOk(out)'
<1>1. \A row, review : AboutPlan(row, review) => AboutPlan(row, review)' BY DEF AboutPlan
<1>2. \A row : LifecycleRowOk(row) => LifecycleRowOk(row)' BY DEF LifecycleRowOk, LifecycleCheck
<1>3. \A c : CandidateOk(c) => CandidateOk(c)' BY DEF CandidateOk
<1>4. \A p : PreferenceOk(p) => PreferenceOk(p)' BY DEF PreferenceOk
<1>5. \A out : OutOk(out) => OutOk(out)'
  <2>. SUFFICES ASSUME NEW out, OutOk(out) PROVE OutOk(out)' OBVIOUS
  <2>1. PICK plan \in Plans, guardrails \in SUBSET Guardrails,
             acceptance \in decisions, applied \in lifecycle, gap \in Gaps :
          \E before, after, earlier, later :
            BuiltFrom(out, plan, guardrails, acceptance, applied, gap,
                      before, after, earlier, later)
    BY DEF OutOk
  <2>2. acceptance \in decisions' /\ applied \in lifecycle' OBVIOUS
  <2>. QED BY <2>1, <2>2 DEF OutOk
<1>. QED BY <1>1, <1>2, <1>3, <1>4, <1>5

\* What stays of the invariant in a step of the review whose new rows are fit.
LEMMA ReviewStep ==
  ASSUME EvidenceInv, KeysOk', UNCHANGED <<output, runs>>,
         reviews \subseteq reviews', decisions \subseteq decisions',
         lifecycle \subseteq lifecycle', candidates \subseteq candidates',
         \A row \in (views' \cup decisions' \cup lifecycle' \cup candidates')
                      \ (views \cup decisions \cup lifecycle \cup candidates) :
           \E review \in reviews : AboutPlan(row, review),
         \A review \in reviews' \ reviews : review.validation = "accept",
         \A d \in decisions' \ decisions : d.decision \in {"accepted", "modified", "rejected"},
         \A row \in lifecycle' \ lifecycle : LifecycleRowOk(row),
         \A c \in candidates' \ candidates : CandidateOk(c),
         \A p \in preferences' \ preferences : PreferenceOk(p)
  PROVE  EvidenceInv'
<1>1. RowsOk /\ OutputOk BY DEF EvidenceInv
<1>2. \A row \in views' \cup decisions' \cup lifecycle' \cup candidates' :
        \E review \in reviews' : AboutPlan(row, review)'
  <2>. SUFFICES ASSUME NEW row \in views' \cup decisions' \cup lifecycle' \cup candidates'
                PROVE  \E review \in reviews' : AboutPlan(row, review)'
    OBVIOUS
  <2>1. \E review \in reviews : AboutPlan(row, review) BY <1>1 DEF RowsOk, FromReview
  <2>. QED BY <2>1, RowsStay
<1>3. FromReview(views)' /\ FromReview(decisions)' /\ FromReview(lifecycle)' /\ FromReview(candidates)'
  BY <1>2 DEF FromReview
<1>4. \A row \in lifecycle' : LifecycleRowOk(row)' BY <1>1, RowsStay DEF RowsOk
<1>5. \A c \in candidates' : CandidateOk(c)' BY <1>1, RowsStay DEF RowsOk
<1>6. \A p \in preferences' : PreferenceOk(p)' BY <1>1, RowsStay DEF RowsOk
<1>7. \A review \in reviews' : review.validation = "accept" BY <1>1 DEF RowsOk
<1>8. \A d \in decisions' : d.decision \in {"accepted", "modified", "rejected"} BY <1>1 DEF RowsOk
<1>9. RowsOk' BY <1>3, <1>4, <1>5, <1>6, <1>7, <1>8 DEF RowsOk
<1>10. OutputOk' BY <1>1, RowsStay DEF OutputOk
<1>. QED BY <1>9, <1>10 DEF EvidenceInv

-------------------------------------------------------------------------------
\* The actions of the review.

LEMMA SubmitKeeps ==
  ASSUME EvidenceInv, UNCHANGED <<output, runs>>, NEW v \in Reviews, NEW plan \in Plans,
         NEW validation \in Validations, Submit(v, plan, validation)
  PROVE  EvidenceInv'
<1>. DEFINE new == [id |-> v, plan |-> plan, validation |-> validation]
<1>1. /\ reviews' = reviews \cup {new} /\ validation = "accept"
      /\ \A review \in reviews : review.id # v
      /\ UNCHANGED <<views, decisions, lifecycle, candidates, preferences>>
  BY DEF Submit
<1>2. KeysOk'
  <2>1. UniqueIds(reviews') BY <1>1 DEF EvidenceInv, KeysOk, UniqueIds
  <2>2. reviews' \subseteq [id : Reviews, plan : Plans, validation : Validations]
    BY <1>1 DEF EvidenceInv, KeysOk
  <2>. QED BY <1>1, <2>1, <2>2 DEF EvidenceInv, KeysOk
<1>. QED BY <1>1, <1>2, ReviewStep

LEMMA ViewKeeps ==
  ASSUME EvidenceInv, UNCHANGED <<output, runs>>, NEW review \in reviews, View(review)
  PROVE  EvidenceInv'
<1>. DEFINE new == Viewed(review)
<1>1. /\ views' = views \cup {new}
      /\ UNCHANGED <<reviews, decisions, lifecycle, candidates, preferences>>
  BY DEF View
<1>2. /\ new.id = Fresh(views, "view", new.review)
      /\ AboutPlan(new, review)
  BY DEF Viewed, AboutPlan
<1>3. KeysOk'
  <2>1. Counted(views', "view") BY <1>1, <1>2, FreshIsNew DEF EvidenceInv, KeysOk
  <2>. QED BY <1>1, <2>1 DEF EvidenceInv, KeysOk
<1>. QED BY <1>1, <1>2, <1>3, ReviewStep

LEMMA DecideKeeps ==
  ASSUME EvidenceInv, UNCHANGED <<output, runs>>, NEW review \in reviews,
         NEW decision \in {"accepted", "modified", "rejected"}, Decide(review, decision)
  PROVE  EvidenceInv'
<1>. DEFINE new == Decided(review, decision)
<1>1. /\ decisions' = decisions \cup {new}
      /\ UNCHANGED <<reviews, views, lifecycle, candidates, preferences>>
  BY DEF Decide
<1>2. /\ new.id = Fresh(decisions, "decision", new.review)
      /\ AboutPlan(new, review) /\ new.decision = decision
  BY DEF Decided, AboutPlan
<1>3. KeysOk'
  <2>1. Counted(decisions', "decision") BY <1>1, <1>2, FreshIsNew DEF EvidenceInv, KeysOk
  <2>. QED BY <1>1, <2>1 DEF EvidenceInv, KeysOk
<1>. QED BY <1>1, <1>2, <1>3, ReviewStep

\* canTransitionActionLifecycle and the guard of an applied record say what the CHECK of the
\* table says.
LEMMA TransitionsPassTheCheck ==
  ASSUME NEW row, row.from \in LifecycleStates, CanTransition(row.from, row.to),
         row.to = "applied" => row.acceptance # NoDecision
  PROVE  LifecycleCheck(row)
<1>. DEFINE from == row.from
            to == row.to
<1>1. to \in CASE from = "suggested" -> {"drafted"}
               [] from = "drafted" -> {"accepted", "rejected"}
               [] from = "accepted" -> {"applied"}
               [] from = "applied" -> {"measured"}
               [] from = "measured" -> {"kept", "reverted", "extended", "retest_needed"}
               [] OTHER -> {}
  BY DEF CanTransition, Allowed
<1>2. CASE from = "suggested" BY <1>1, <1>2 DEF LifecycleCheck
<1>3. CASE from = "drafted" BY <1>1, <1>3 DEF LifecycleCheck
<1>4. CASE from = "accepted" BY <1>1, <1>4 DEF LifecycleCheck
<1>5. CASE from = "applied" BY <1>1, <1>5 DEF LifecycleCheck
<1>6. CASE from = "measured" BY <1>1, <1>6 DEF LifecycleCheck
<1>7. CASE from \notin {"suggested", "drafted", "accepted", "applied", "measured"}
  BY <1>1, <1>7
<1>. QED BY <1>2, <1>3, <1>4, <1>5, <1>6, <1>7

LEMMA TransitionKeeps ==
  ASSUME EvidenceInv, UNCHANGED <<output, runs>>, NEW review \in reviews,
         NEW from \in LifecycleStates, NEW to \in LifecycleStates,
         NEW acceptance \in IF to = "applied" THEN {d.id : d \in decisions} ELSE {NoDecision},
         RecordTransition(review, from, to, acceptance)
  PROVE  EvidenceInv'
<1>. DEFINE new == Transition(review, from, to, acceptance)
<1>1. /\ lifecycle' = lifecycle \cup {new} /\ CanTransition(from, to)
      /\ to = "applied" => acceptance # NoDecision
      /\ UNCHANGED <<reviews, views, decisions, candidates, preferences>>
  BY DEF RecordTransition
<1>2. /\ new.id = Fresh(lifecycle, "lifecycle", new.review)
      /\ new.from = from /\ new.to = to /\ new.acceptance = acceptance
      /\ AboutPlan(new, review)
  BY DEF Transition, AboutPlan
<1>3. KeysOk'
  <2>1. Counted(lifecycle', "lifecycle") BY <1>1, <1>2, FreshIsNew DEF EvidenceInv, KeysOk
  <2>. QED BY <1>1, <2>1 DEF EvidenceInv, KeysOk
<1>4. LifecycleRowOk(new)
  <2>1. LifecycleCheck(new)
    <3>. HIDE DEF new
    <3>. QED BY <1>1, <1>2, TransitionsPassTheCheck
  <2>2. acceptance \in {d.id : d \in decisions} \cup {NoDecision} OBVIOUS
  <2>. QED BY <1>2, <2>1, <2>2 DEF LifecycleRowOk
<1>. QED BY <1>1, <1>2, <1>3, <1>4, ReviewStep

LEMMA CandidateKeeps ==
  ASSUME EvidenceInv, UNCHANGED <<output, runs>>, NEW decision \in decisions,
         CreateCandidate(decision)
  PROVE  EvidenceInv'
<1>. DEFINE new == Candidate(decision)
<1>1. /\ candidates' = candidates \cup {new} /\ decision.decision = "rejected"
      /\ UNCHANGED <<reviews, views, decisions, lifecycle, preferences>>
  BY DEF CreateCandidate
<1>2. /\ new.id = <<"candidate", decision.id, Cardinality(candidates)>>
      /\ new.review = decision.review /\ new.plan = decision.plan
      /\ new.store = decision.store /\ new.rejection = decision.id
  BY DEF Candidate
<1>3. PICK review \in reviews : AboutPlan(decision, review)
  BY DEF EvidenceInv, RowsOk, FromReview
<1>4. AboutPlan(new, review) BY <1>2, <1>3 DEF AboutPlan
<1>5. CandidateOk(new) BY <1>1, <1>2, <1>3 DEF CandidateOk, AboutPlan
<1>6. KeysOk'
  <2>1. CountedAll(candidates', "candidate") BY <1>1, <1>2, NextIsNew DEF EvidenceInv, KeysOk
  <2>. QED BY <1>1, <2>1 DEF EvidenceInv, KeysOk
<1>. QED BY <1>1, <1>4, <1>5, <1>6, ReviewStep

LEMMA PreferenceKeeps ==
  ASSUME EvidenceInv, UNCHANGED <<output, runs>>, NEW candidate \in candidates,
         ConfirmPreference(candidate)
  PROVE  EvidenceInv'
<1>. DEFINE new == Preference(candidate)
<1>1. /\ preferences' = preferences \cup {new}
      /\ UNCHANGED <<reviews, views, decisions, lifecycle, candidates>>
  BY DEF ConfirmPreference
<1>2. /\ new.id = <<"preference", candidate.id, Cardinality(preferences)>>
      /\ new.candidate = candidate.id /\ new.store = candidate.store
  BY DEF Preference
<1>3. PreferenceOk(new) BY <1>2 DEF PreferenceOk
<1>4. KeysOk'
  <2>1. CountedAll(preferences', "preference") BY <1>1, <1>2, NextIsNew DEF EvidenceInv, KeysOk
  <2>. QED BY <1>1, <2>1 DEF EvidenceInv, KeysOk
<1>. QED BY <1>1, <1>3, <1>4, ReviewStep

LEMMA WorkerKeeps ==
  ASSUME EvidenceInv, NEW plan \in Plans, NEW guardrails \in SUBSET Guardrails,
         NEW acceptance \in decisions,
         NEW applied \in lifecycle, NEW gap \in Gaps,
         RunEvidenceWorker(plan, guardrails, acceptance, applied, gap)
  PROVE  EvidenceInv'
<1>1. /\ runs < MaxRuns /\ runs' = runs + 1 /\ UNCHANGED reviewVars
      /\ acceptance.decision = "accepted"
  BY DEF RunEvidenceWorker
<1>2. UNCHANGED <<reviews, views, decisions, lifecycle, candidates, preferences>>
  BY <1>1 DEF reviewVars
<1>3. PICK before \in Available(plan.metric) \ {NoSnapshot},
           after \in Available(plan.metric) \ {NoSnapshot} :
        /\ MetricPairFits(plan, plan.metric, before, after)
        /\ \E earlier, later \in AvailableFor(guardrails) :
             LET built == Built(plan, guardrails, acceptance, applied, gap,
                                before, after, earlier, later) IN
             /\ \A g \in guardrails :
                  GuardrailFits(plan, g, earlier[g.metric], later[g.metric])
             /\ TrajectoryFits(plan, acceptance, applied, built.effect, built.results)
             /\ EvidenceInputsFit(built.trajectory, gap, built.effect, built.results)
             /\ output' = {built}
  BY DEF RunEvidenceWorker
<1>4. PICK earlier \in AvailableFor(guardrails), later \in AvailableFor(guardrails) :
        LET built == Built(plan, guardrails, acceptance, applied, gap,
                           before, after, earlier, later) IN
        /\ \A g \in guardrails : GuardrailFits(plan, g, earlier[g.metric], later[g.metric])
        /\ TrajectoryFits(plan, acceptance, applied, built.effect, built.results)
        /\ EvidenceInputsFit(built.trajectory, gap, built.effect, built.results)
        /\ output' = {built}
  BY <1>3
<1>. DEFINE built == Built(plan, guardrails, acceptance, applied, gap,
                           before, after, earlier, later)
<1>5. before \in Snapshots /\ after \in Snapshots BY DEF Available
<1>6. Fits(plan, guardrails, acceptance, applied, gap, before, after, earlier, later)
  BY <1>1, <1>3, <1>4 DEF Fits
<1>7. BuiltFrom(built, plan, guardrails, acceptance, applied, gap, before, after, earlier, later)
  BY <1>5, <1>6 DEF BuiltFrom
<1>8. OutOk(built) BY <1>7 DEF OutOk
<1>. HIDE DEF built
<1>9. OutOk(built)' BY <1>2, <1>8, RowsStay
<1>10. OutputOk' BY <1>1, <1>4, <1>9, WorkerAssumption DEF EvidenceInv, OutputOk, built
<1>11. KeysOk' BY <1>2 DEF EvidenceInv, KeysOk
<1>12. RowsOk'
  BY <1>2 DEF EvidenceInv, RowsOk, FromReview, LifecycleRowOk, LifecycleCheck, CandidateOk,
              PreferenceOk, AboutPlan
<1>. QED BY <1>10, <1>11, <1>12 DEF EvidenceInv

THEOREM EvidenceInvariant == Spec => []EvidenceInv
<1>1. EvidenceInv /\ [Next]_vars => EvidenceInv'
  <2>. SUFFICES ASSUME EvidenceInv, [Next]_vars PROVE EvidenceInv' OBVIOUS
  <2>1. CASE ReviewNext /\ UNCHANGED <<output, runs>>
    <3>1. ASSUME NEW v \in Reviews, NEW plan \in Plans, NEW validation \in Validations,
                 Submit(v, plan, validation)
          PROVE  EvidenceInv'
      BY <2>1, <3>1, SubmitKeeps
    <3>2. ASSUME NEW review \in reviews, View(review) PROVE EvidenceInv'
      BY <2>1, <3>2, ViewKeeps
    <3>3. ASSUME NEW review \in reviews, Accept(review) \/ Reject(review) \/ Modify(review)
          PROVE  EvidenceInv'
      BY <2>1, <3>3, DecideKeeps DEF Accept, Reject, Modify
    <3>4. ASSUME NEW review \in reviews, NEW from \in LifecycleStates, NEW to \in LifecycleStates,
                 NEW acceptance \in IF to = "applied" THEN {d.id : d \in decisions}
                                    ELSE {NoDecision},
                 RecordTransition(review, from, to, acceptance)
          PROVE  EvidenceInv'
      BY <2>1, <3>4, TransitionKeeps
    <3>5. ASSUME NEW decision \in decisions, CreateCandidate(decision) PROVE EvidenceInv'
      BY <2>1, <3>5, CandidateKeeps
    <3>6. ASSUME NEW candidate \in candidates, ConfirmPreference(candidate) PROVE EvidenceInv'
      BY <2>1, <3>6, PreferenceKeeps
    <3>. QED BY <2>1, <3>1, <3>2, <3>3, <3>4, <3>5, <3>6 DEF ReviewNext
  <2>2. CASE \E plan \in Plans, guardrails \in SUBSET Guardrails,
                acceptance \in decisions, applied \in lifecycle, gap \in Gaps :
               RunEvidenceWorker(plan, guardrails, acceptance, applied, gap)
    BY <2>2, WorkerKeeps
  <2>3. CASE UNCHANGED vars
    <3>1. UNCHANGED <<reviews, views, decisions, lifecycle, candidates, preferences, output, runs>>
      BY <2>3 DEF vars, reviewVars
    <3>2. KeysOk' BY <3>1 DEF EvidenceInv, KeysOk
    <3>3. \A out : OutOk(out) => OutOk(out)' BY <3>1, RowsStay
    <3>4. OutputOk' BY <3>1, <3>3 DEF EvidenceInv, OutputOk
    <3>5. RowsOk'
      BY <3>1 DEF EvidenceInv, RowsOk, FromReview, LifecycleRowOk, LifecycleCheck, CandidateOk,
                  PreferenceOk, AboutPlan
    <3>. QED BY <3>2, <3>4, <3>5 DEF EvidenceInv
  <2>. QED BY <2>1, <2>2, <2>3 DEF Next
<1>. QED BY <1>1, InitEvidence, PTL DEF Spec

-------------------------------------------------------------------------------
\* What a pair of snapshots says.

Readable(s) == s # NoSnapshot /\ s.value \in Int \cup {NoValue} /\ s.denominator \in Nat

LEMMA SnapshotsAreReadable == \A s \in Snapshots : Readable(s)
BY WorkerAssumption DEF Readable

\* A status, a delta and an outcome agree on whether there is data, and with data the outcome
\* is the direction in which the value moved.
LEMMA OutcomesFollowData ==
  ASSUME NEW before, NEW after, Readable(before), Readable(after)
  PROVE  LET measured == Measured(before, after)
             outcome == OutcomeFor(measured.delta, measured.direction)
         IN  /\ measured.sampleStatus = "needs_more_data" <=> ~HasData(before, after)
             /\ measured.delta = NoValue <=> ~HasData(before, after)
             /\ outcome = "needs_more_data" <=> ~HasData(before, after)
             /\ outcome \in {"needs_more_data", "unchanged", "improved", "degraded"}
             /\ HasData(before, after) => (outcome = "improved" <=> Better(before, after))
             /\ HasData(before, after) /\ after.relation = before.relation =>
                  (outcome = "degraded" <=> Better(after, before))
<1>. DEFINE measured == Measured(before, after)
            outcome == OutcomeFor(measured.delta, measured.direction)
            status == SampleStatusFor(before, after)
<1>1. /\ measured.sampleStatus = status /\ measured.delta = DeltaValue(before, after)
      /\ measured.direction = DirectionFor(before.relation)
  BY DEF Measured
<1>2. status = "needs_more_data" <=> ~HasData(before, after)
  BY DEF SampleStatusFor, HasData, Missing, Readable
<1>3. CASE ~HasData(before, after)
  <2>1. measured.delta = NoValue BY <1>1, <1>2, <1>3 DEF DeltaValue
  <2>2. outcome = "needs_more_data" BY <2>1 DEF OutcomeFor
  <2>. QED BY <1>1, <1>2, <1>3, <2>1, <2>2
<1>4. CASE HasData(before, after)
  <2>1. before.value \in Int /\ after.value \in Int BY <1>4 DEF HasData, Readable
  <2>2. measured.delta = after.value - before.value BY <1>1, <1>2, <1>4 DEF DeltaValue
  <2>3. measured.delta # NoValue BY <2>1, <2>2, EvidenceAssumption
  <2>4. outcome = IF after.value - before.value = 0 THEN "unchanged"
                  ELSE IF (measured.direction = "higher_is_better") = (after.value - before.value > 0)
                       THEN "improved" ELSE "degraded"
    BY <2>2, <2>3 DEF OutcomeFor
  <2>5. measured.direction = "higher_is_better" <=> before.relation # "negative_guardrail"
    BY <1>1 DEF DirectionFor
  <2>6. CASE before.relation = "negative_guardrail"
    <3>1. outcome = IF after.value = before.value THEN "unchanged"
                    ELSE IF after.value < before.value THEN "improved" ELSE "degraded"
      BY <2>1, <2>4, <2>5, <2>6
    <3>. QED BY <1>1, <1>2, <1>4, <2>1, <2>3, <2>6, <3>1 DEF Better
  <2>7. CASE before.relation # "negative_guardrail"
    <3>1. outcome = IF after.value = before.value THEN "unchanged"
                    ELSE IF after.value > before.value THEN "improved" ELSE "degraded"
      BY <2>1, <2>4, <2>5, <2>7
    <3>. QED BY <1>1, <1>2, <1>4, <2>1, <2>3, <2>7, <3>1 DEF Better
  <2>. QED BY <2>6, <2>7
<1>. QED BY <1>3, <1>4

\* The same of a guardrail: it needs data, and it is degraded only if it must not degrade.
LEMMA GuardrailsFollowData ==
  ASSUME NEW id, NEW plan, NEW g, NEW before, NEW after,
         before = NoSnapshot \/ Readable(before), after = NoSnapshot \/ Readable(after),
         g.relation \in {"must_not_degrade", "monitor_only"},
         ~Missing(before, after) => after.relation = before.relation
  PROVE  LET result == GuardrailResult(id, plan, g, before, after)
             measured == result.measured
         IN  /\ measured.sampleStatus = "needs_more_data" <=> ~HasData(before, after)
             /\ measured.delta = NoValue <=> ~HasData(before, after)
             /\ result.outcome = "needs_more_data" <=> ~HasData(before, after)
             /\ result.outcome = "degraded" <=>
                  /\ g.relation = "must_not_degrade"
                  /\ HasData(before, after) /\ Better(after, before)
<1>. DEFINE result == GuardrailResult(id, plan, g, before, after)
            measured == result.measured
            outcome == OutcomeFor(measured.delta, measured.direction)
<1>1. /\ measured = IF Missing(before, after) THEN Unmeasured(g.metric)
                    ELSE Measured(before, after)
      /\ result.outcome = GuardrailOutcome(g.relation, measured)
  BY DEF GuardrailResult
<1>2. CASE Missing(before, after)
  <2>1. measured.sampleStatus = "needs_more_data" /\ measured.delta = NoValue
    BY <1>1, <1>2 DEF Unmeasured
  <2>2. outcome = "needs_more_data" BY <2>1 DEF OutcomeFor
  <2>3. result.outcome = "needs_more_data" BY <1>1, <2>2 DEF GuardrailOutcome
  <2>4. ~HasData(before, after) BY <1>2 DEF HasData
  <2>. QED BY <2>1, <2>3, <2>4
<1>3. CASE ~Missing(before, after)
  <2>1. Readable(before) /\ Readable(after) BY <1>3 DEF Missing
  <2>2. measured = Measured(before, after) BY <1>1, <1>3
  <2>3. /\ measured.sampleStatus = "needs_more_data" <=> ~HasData(before, after)
        /\ measured.delta = NoValue <=> ~HasData(before, after)
        /\ outcome = "needs_more_data" <=> ~HasData(before, after)
        /\ outcome \in {"needs_more_data", "unchanged", "improved", "degraded"}
        /\ HasData(before, after) => (outcome = "degraded" <=> Better(after, before))
    BY <1>3, <2>1, <2>2, OutcomesFollowData
  <2>4. result.outcome = IF outcome = "needs_more_data" THEN "needs_more_data"
                         ELSE IF g.relation = "monitor_only" THEN "observed"
                         ELSE IF outcome = "degraded" THEN "degraded" ELSE "passed"
    BY <1>1 DEF GuardrailOutcome
  <2>5. /\ result.outcome = "needs_more_data" <=> ~HasData(before, after)
        /\ result.outcome = "degraded" <=>
             /\ g.relation = "must_not_degrade"
             /\ HasData(before, after) /\ Better(after, before)
    <3>. HIDE DEF result, measured, outcome
    <3>1. CASE ~HasData(before, after) BY <2>3, <2>4, <3>1
    <3>2. CASE HasData(before, after)
      <4>1. CASE g.relation = "monitor_only" BY <2>3, <2>4, <3>2, <4>1
      <4>2. CASE g.relation = "must_not_degrade" BY <2>3, <2>4, <3>2, <4>2
      <4>. QED BY <4>1, <4>2
    <3>. QED BY <3>1, <3>2
  <2>. QED BY <2>3, <2>5
<1>. QED BY <1>2, <1>3

\* What an output holds of the rows and snapshots it was built from.
OutputIs(out, plan, guardrails, acceptance, applied, gap, before, after, earlier, later) ==
  /\ out.effect = ActionEffect(<<plan.id, before.date, after.date>>, plan, before, after)
  /\ out.results = {GuardrailResult(<<plan.id, g.metric>>, plan, g, earlier[g.metric],
                                    later[g.metric]) : g \in guardrails}
  /\ out.record.verdict = VerdictFor(out.effect, out.results)
  /\ out.trajectory.acceptance = acceptance.id /\ out.trajectory.applied = applied.id
  /\ out.record.adoptionRefs = {acceptance.id, applied.id}
  /\ out.record.guardrails = {r.id : r \in out.results}
  /\ out.input.plan = plan /\ out.input.guardrails = guardrails /\ out.input.gap = gap
  /\ out.input.before = before /\ out.input.after = after
  /\ out.input.earlier = earlier /\ out.input.later = later

GuardrailsReadable(guardrails, earlier, later) ==
  \A g \in guardrails :
    /\ earlier[g.metric] = NoSnapshot \/ Readable(earlier[g.metric])
    /\ later[g.metric] = NoSnapshot \/ Readable(later[g.metric])
    /\ g.relation \in {"must_not_degrade", "monitor_only"}
    /\ ~Missing(earlier[g.metric], later[g.metric]) =>
         later[g.metric].relation = earlier[g.metric].relation

LEMMA OutputFollowsSnapshots ==
  ASSUME NEW plan \in Plans, NEW guardrails \in SUBSET Guardrails,
         NEW acceptance, NEW applied, NEW gap, NEW before, NEW after,
         NEW earlier, NEW later, NEW out,
         BuiltFrom(out, plan, guardrails, acceptance, applied, gap,
                   before, after, earlier, later)
  PROVE  /\ OutputIs(out, plan, guardrails, acceptance, applied, gap, before, after, earlier, later)
         /\ GuardrailsReadable(guardrails, earlier, later)
<1>. DEFINE effect == ActionEffect(<<plan.id, before.date, after.date>>, plan, before, after)
            results == {GuardrailResult(<<plan.id, g.metric>>, plan, g, earlier[g.metric],
                                        later[g.metric]) : g \in guardrails}
            trajectory == Trajectory(<<plan.id>>, plan, acceptance, applied, effect, results)
            record == EvidenceRecord(<<plan.id, gap.id>>, trajectory, gap, effect, results)
<1>1. /\ out.effect = effect /\ out.results = results
      /\ out.trajectory = trajectory /\ out.record = record
      /\ out.input.plan = plan /\ out.input.guardrails = guardrails /\ out.input.gap = gap
      /\ out.input.before = before /\ out.input.after = after
      /\ out.input.earlier = earlier /\ out.input.later = later
  BY DEF BuiltFrom, Built
<1>2. /\ trajectory.verdict = VerdictFor(effect, results)
      /\ trajectory.acceptance = acceptance.id /\ trajectory.applied = applied.id
      /\ trajectory.adoptionRefs = {acceptance.id, applied.id}
  <2>. HIDE DEF effect, results
  <2>. QED BY DEF Trajectory
<1>3. /\ record.verdict = trajectory.verdict /\ record.adoptionRefs = trajectory.adoptionRefs
      /\ record.guardrails = {r.id : r \in results}
  <2>. HIDE DEF effect, results, trajectory
  <2>. QED BY DEF EvidenceRecord
<1>4. ASSUME NEW g \in guardrails
      PROVE  /\ earlier[g.metric] \in Available(g.metric)
             /\ later[g.metric] \in Available(g.metric)
  BY DEF BuiltFrom, AvailableFor, MetricsOf
<1>5. ASSUME NEW g \in guardrails
      PROVE  /\ earlier[g.metric] = NoSnapshot \/ Readable(earlier[g.metric])
             /\ later[g.metric] = NoSnapshot \/ Readable(later[g.metric])
             /\ g.relation \in {"must_not_degrade", "monitor_only"}
             /\ ~Missing(earlier[g.metric], later[g.metric]) =>
                  later[g.metric].relation = earlier[g.metric].relation
  <2>1. g.relation \in {"must_not_degrade", "monitor_only"} BY WorkerAssumption
  <2>2. \A s \in Available(g.metric) : s = NoSnapshot \/ (s \in Snapshots /\ s.metric = g.metric)
    BY DEF Available
  <2>3. \A s, t \in Available(g.metric) : ~Missing(s, t) => t.relation = s.relation
    BY <2>2, WorkerAssumption DEF Missing
  <2>. QED BY <1>4, <2>1, <2>2, <2>3, SnapshotsAreReadable
<1>. HIDE DEF effect, results, trajectory, record
<1>6. /\ out.record.verdict = VerdictFor(out.effect, out.results)
      /\ out.trajectory.acceptance = acceptance.id /\ out.trajectory.applied = applied.id
      /\ out.record.adoptionRefs = {acceptance.id, applied.id}
      /\ out.record.guardrails = {r.id : r \in out.results}
  BY <1>1, <1>2, <1>3
<1>. QED BY <1>1, <1>5, <1>6 DEF effect, results, OutputIs, GuardrailsReadable

LEMMA VerdictFollowsData ==
  ASSUME NEW plan \in Plans, NEW guardrails \in SUBSET Guardrails,
         NEW acceptance, NEW applied, NEW gap, NEW before, NEW after,
         NEW earlier, NEW later, NEW out,
         BuiltFrom(out, plan, guardrails, acceptance, applied, gap,
                   before, after, earlier, later)
  PROVE  LET verdict == out.record.verdict
             lacking == ~HasData(before, after) \/
                        \E g \in guardrails : ~HasData(earlier[g.metric], later[g.metric])
             broken == \E g \in guardrails :
                         /\ g.relation = "must_not_degrade"
                         /\ HasData(earlier[g.metric], later[g.metric])
                         /\ Better(later[g.metric], earlier[g.metric])
         IN  IF lacking THEN verdict = "needs_more_data"
             ELSE /\ verdict = "mixed_guardrail_degraded" <=> broken
                  /\ verdict = "clean_success" <=> (~broken /\ Better(before, after))
                  /\ verdict # "needs_more_data"
<1>. DEFINE verdict == out.record.verdict
            lacking == ~HasData(before, after) \/
                       \E g \in guardrails : ~HasData(earlier[g.metric], later[g.metric])
            broken == \E g \in guardrails :
                        /\ g.relation = "must_not_degrade"
                        /\ HasData(earlier[g.metric], later[g.metric])
                        /\ Better(later[g.metric], earlier[g.metric])
            Result(g) == GuardrailResult(<<plan.id, g.metric>>, plan, g, earlier[g.metric],
                                         later[g.metric])
<1>0. /\ OutputIs(out, plan, guardrails, acceptance, applied, gap, before, after, earlier, later)
      /\ GuardrailsReadable(guardrails, earlier, later)
  BY OutputFollowsSnapshots
<1>1. ASSUME NEW g \in guardrails
      PROVE  /\ Result(g).outcome = "needs_more_data" <=> ~HasData(earlier[g.metric], later[g.metric])
             /\ Result(g).outcome = "degraded" <=>
                  /\ g.relation = "must_not_degrade"
                  /\ HasData(earlier[g.metric], later[g.metric])
                  /\ Better(later[g.metric], earlier[g.metric])
  BY <1>0, GuardrailsFollowData DEF GuardrailsReadable
<1>2. /\ out.results = {Result(g) : g \in guardrails}
      /\ verdict = VerdictFor(out.effect, out.results)
  BY <1>0 DEF OutputIs
<1>3. /\ out.effect.outcome = "needs_more_data" <=> ~HasData(before, after)
      /\ HasData(before, after) => (out.effect.outcome = "improved" <=> Better(before, after))
  <2>1. out.effect = ActionEffect(<<plan.id, before.date, after.date>>, plan, before, after)
    BY <1>0 DEF OutputIs
  <2>2. out.effect.outcome = OutcomeFor(Measured(before, after).delta, Measured(before, after).direction)
    BY <2>1 DEF ActionEffect
  <2>3. Readable(before) /\ Readable(after) BY SnapshotsAreReadable DEF BuiltFrom
  <2>. QED BY <2>2, <2>3, OutcomesFollowData
<1>4. (\E r \in out.results : r.outcome = "needs_more_data") <=>
        \E g \in guardrails : ~HasData(earlier[g.metric], later[g.metric])
  <2>. HIDE DEF Result
  <2>. QED BY <1>1, <1>2
<1>5. (\E r \in out.results : r.outcome = "degraded") <=> broken
  <2>. HIDE DEF Result
  <2>. QED BY <1>1, <1>2
<1>6. verdict = IF lacking THEN "needs_more_data" ELSE IF broken THEN "mixed_guardrail_degraded"
                ELSE IF out.effect.outcome = "improved" THEN "clean_success" ELSE "no_clear_lift"
  <2>1. (out.effect.outcome = "needs_more_data" \/ \E r \in out.results : r.outcome = "needs_more_data")
          <=> lacking
    BY <1>3, <1>4
  <2>. HIDE DEF lacking, broken
  <2>. QED BY <1>2, <1>5, <2>1 DEF VerdictFor
<1>7. lacking \/ HasData(before, after) OBVIOUS
<1>8. IF lacking THEN verdict = "needs_more_data"
      ELSE /\ verdict = "mixed_guardrail_degraded" <=> broken
           /\ verdict = "clean_success" <=> (~broken /\ Better(before, after))
           /\ verdict # "needs_more_data"
  <2>. HIDE DEF lacking, broken, verdict
  <2>. QED BY <1>3, <1>6, <1>7
<1>. QED BY <1>8

-------------------------------------------------------------------------------
\* The theorems.

\* The verdict of an evidence record (verdictFor in evidence-store.ts) is what the snapshots of
\* its effect and of the guardrails handed over support, told again from their raw values, for
\* any plans and guardrails and any snapshots whose metrics have one relation each.
THEOREM VerdictsAreSound == Spec => []VerdictIsSound
<1>1. EvidenceInv => VerdictIsSound
  <2>. SUFFICES ASSUME EvidenceInv PROVE VerdictIsSound OBVIOUS
  <2>. SUFFICES ASSUME NEW out \in output
       PROVE  LET verdict == out.record.verdict
                  input == out.input
                  Pairs == {<<input.before, input.after>>} \cup
                           {<<input.earlier[m], input.later[m]>> : m \in MetricsOf(input.guardrails)}
                  broken == \E g \in input.guardrails :
                              /\ g.relation = "must_not_degrade"
                              /\ HasData(input.earlier[g.metric], input.later[g.metric])
                              /\ Better(input.later[g.metric], input.earlier[g.metric])
              IN IF \E pair \in Pairs : ~HasData(pair[1], pair[2]) THEN verdict = "needs_more_data"
                 ELSE /\ verdict = "mixed_guardrail_degraded" <=> broken
                      /\ verdict = "clean_success" <=>
                           (~broken /\ Better(input.before, input.after))
                      /\ verdict # "needs_more_data"
    BY DEF VerdictIsSound
  <2>1. OutOk(out) BY DEF EvidenceInv, OutputOk
  <2>2. PICK plan \in Plans, guardrails \in SUBSET Guardrails,
             acceptance \in decisions, applied \in lifecycle, gap \in Gaps :
          \E before, after, earlier, later :
            BuiltFrom(out, plan, guardrails, acceptance, applied, gap,
                      before, after, earlier, later)
    BY <2>1 DEF OutOk
  <2>3. PICK before, after, earlier, later :
          BuiltFrom(out, plan, guardrails, acceptance, applied, gap,
                    before, after, earlier, later)
    BY <2>2
  <2>4. /\ out.input.plan = plan /\ out.input.guardrails = guardrails
        /\ out.input.before = before /\ out.input.after = after
        /\ out.input.earlier = earlier /\ out.input.later = later
    <3>1. OutputIs(out, plan, guardrails, acceptance, applied, gap, before, after, earlier, later)
      BY <2>3, OutputFollowsSnapshots
    <3>. QED BY <3>1 DEF OutputIs
  <2>. DEFINE verdict == out.record.verdict
              lacking == ~HasData(before, after) \/
                         \E g \in guardrails : ~HasData(earlier[g.metric], later[g.metric])
              broken == \E g \in guardrails :
                          /\ g.relation = "must_not_degrade"
                          /\ HasData(earlier[g.metric], later[g.metric])
                          /\ Better(later[g.metric], earlier[g.metric])
              Pairs == {<<before, after>>} \cup
                       {<<earlier[m], later[m]>> : m \in MetricsOf(guardrails)}
  <2>5. IF lacking THEN verdict = "needs_more_data"
        ELSE /\ verdict = "mixed_guardrail_degraded" <=> broken
             /\ verdict = "clean_success" <=> (~broken /\ Better(before, after))
             /\ verdict # "needs_more_data"
    BY <2>3, VerdictFollowsData
  <2>6. (\E pair \in Pairs : ~HasData(pair[1], pair[2])) <=> lacking
    <3>. DEFINE p0 == <<before, after>>
                Pair(m) == <<earlier[m], later[m]>>
    <3>1. p0[1] = before /\ p0[2] = after OBVIOUS
    <3>2. \A m : Pair(m)[1] = earlier[m] /\ Pair(m)[2] = later[m] OBVIOUS
    <3>3. Pairs = {p0} \cup {Pair(m) : m \in MetricsOf(guardrails)} OBVIOUS
    <3>4. \A g \in guardrails : g.metric \in MetricsOf(guardrails) BY DEF MetricsOf
    <3>5. \A m \in MetricsOf(guardrails) : \E g \in guardrails : m = g.metric BY DEF MetricsOf
    <3>. HIDE DEF p0, Pair, Pairs
    <3>6. lacking => \E pair \in Pairs : ~HasData(pair[1], pair[2])
      <4>1. CASE ~HasData(before, after) BY <3>1, <3>3, <4>1
      <4>2. ASSUME NEW g \in guardrails, ~HasData(earlier[g.metric], later[g.metric])
            PROVE  \E pair \in Pairs : ~HasData(pair[1], pair[2])
        <5>1. Pair(g.metric) \in Pairs BY <3>3, <3>4
        <5>2. ~HasData(Pair(g.metric)[1], Pair(g.metric)[2]) BY <3>2, <4>2
        <5>. QED BY <5>1, <5>2
      <4>. QED BY <4>1, <4>2
    <3>7. ASSUME NEW pair \in Pairs, ~HasData(pair[1], pair[2]) PROVE lacking
      <4>1. CASE pair = p0 BY <3>1, <3>7, <4>1
      <4>2. CASE \E m \in MetricsOf(guardrails) : pair = Pair(m) BY <3>2, <3>5, <3>7, <4>2
      <4>. QED BY <3>3, <4>1, <4>2
    <3>. QED BY <3>6, <3>7
  <2>7. IF \E pair \in Pairs : ~HasData(pair[1], pair[2]) THEN verdict = "needs_more_data"
        ELSE /\ verdict = "mixed_guardrail_degraded" <=> broken
             /\ verdict = "clean_success" <=> (~broken /\ Better(before, after))
             /\ verdict # "needs_more_data"
    <3>. HIDE DEF lacking, broken, verdict, Pairs
    <3>. QED BY <2>5, <2>6
  <2>. QED BY <2>4, <2>7
<1>. QED BY <1>1, EvidenceInvariant, PTL

\* Of what evidence calls an adopted plan there is a review with an accepting validation result,
\* an acceptance in that review and a record that it was applied, all of the plan's id, and a
\* confirmed preference goes back to a rejection of its store (experiment-review.ts,
\* evidence-store.ts): whatever calls were made in whatever order, however many plans share an
\* id, and whatever validation results callers hand over.
THEOREM FactsFollow == Spec => []FactsFollowDecisions
<1>1. EvidenceInv => FactsFollowDecisions
  <2>. SUFFICES ASSUME EvidenceInv PROVE FactsFollowDecisions OBVIOUS
  <2>1. ASSUME NEW out \in output
        PROVE  /\ \E d \in decisions, review \in reviews :
                    /\ d.id = out.trajectory.acceptance /\ d.decision = "accepted"
                    /\ review.id = d.review /\ review.plan.id = out.input.plan.id
                    /\ review.validation = "accept"
               /\ \E row \in lifecycle : /\ row.id = out.trajectory.applied
                                         /\ row.to = "applied" /\ row.plan = out.input.plan.id
               /\ out.input.gap.store = out.input.plan.store
               /\ \A x \in out.results \cup {out.effect} :
                    {x.measured.before[1], x.measured.after[1]}
                      \in {{out.input.plan.store}, {"missing_before", "missing_after"}}
    <3>1. PICK plan \in Plans, guardrails \in SUBSET Guardrails,
               acceptance \in decisions, applied \in lifecycle, gap \in Gaps :
            \E before, after, earlier, later :
              BuiltFrom(out, plan, guardrails, acceptance, applied, gap,
                        before, after, earlier, later)
      BY DEF EvidenceInv, OutputOk, OutOk
    <3>2. PICK before, after, earlier, later :
            BuiltFrom(out, plan, guardrails, acceptance, applied, gap,
                      before, after, earlier, later)
      BY <3>1
    <3>. DEFINE built == Built(plan, guardrails, acceptance, applied, gap,
                               before, after, earlier, later)
    <3>3. OutputIs(out, plan, guardrails, acceptance, applied, gap, before, after, earlier, later)
      BY <3>2, OutputFollowsSnapshots
    <3>4. Fits(plan, guardrails, acceptance, applied, gap,
               before, after, earlier, later) BY <3>2 DEF BuiltFrom
    <3>5. /\ acceptance.plan = plan.id /\ acceptance.decision = "accepted"
          /\ applied.plan = plan.id /\ applied.to = "applied"
      BY <3>4 DEF Fits, TrajectoryFits
    <3>6. PICK review \in reviews : AboutPlan(acceptance, review)
      BY DEF EvidenceInv, RowsOk, FromReview
    <3>7. review.id = acceptance.review /\ review.plan.id = plan.id
      BY <3>5, <3>6 DEF AboutPlan
    <3>8. review.validation = "accept" BY DEF EvidenceInv, RowsOk
    <3>9. gap.store = plan.store
      <4>1. gap.store = built.effect.store BY <3>4 DEF Fits, EvidenceInputsFit
      <4>2. built.effect.store = plan.store BY DEF Built, ActionEffect
      <4>. QED BY <4>1, <4>2
    <3>10. ASSUME NEW s, NEW t, s.store = plan.store, t.store = plan.store
           PROVE  /\ Measured(s, t).before[1] = plan.store
                  /\ Measured(s, t).after[1] = plan.store
      BY <3>10 DEF Measured, SnapshotId
    <3>11. /\ out.effect.measured.before[1] = plan.store
           /\ out.effect.measured.after[1] = plan.store
      <4>1. out.effect.measured = Measured(before, after) BY <3>3 DEF OutputIs, ActionEffect
      <4>2. before.store = plan.store /\ after.store = plan.store
        BY <3>4 DEF Fits, MetricPairFits
      <4>. QED BY <3>10, <4>1, <4>2
    <3>12. ASSUME NEW x \in out.results
           PROVE  \/ x.measured.before[1] = plan.store /\ x.measured.after[1] = plan.store
                  \/ /\ x.measured.before[1] = "missing_before"
                     /\ x.measured.after[1] = "missing_after"
      <4>1. PICK g \in guardrails :
              x = GuardrailResult(<<plan.id, g.metric>>, plan, g, earlier[g.metric], later[g.metric])
        BY <3>3 DEF OutputIs
      <4>2. x.measured = IF Missing(earlier[g.metric], later[g.metric]) THEN Unmeasured(g.metric)
                         ELSE Measured(earlier[g.metric], later[g.metric])
        BY <4>1 DEF GuardrailResult
      <4>3. CASE Missing(earlier[g.metric], later[g.metric])
        <5>1. x.measured = Unmeasured(g.metric) BY <4>2, <4>3
        <5>. QED BY <5>1 DEF Unmeasured
      <4>4. CASE ~Missing(earlier[g.metric], later[g.metric])
        <5>1. earlier[g.metric].store = plan.store /\ later[g.metric].store = plan.store
          BY <3>4, <4>4 DEF Fits, GuardrailFits, MetricPairFits
        <5>. QED BY <3>10, <4>2, <4>4, <5>1
      <4>. QED BY <4>3, <4>4
    <3>13. \A x \in out.results \cup {out.effect} :
             {x.measured.before[1], x.measured.after[1]}
               \in {{plan.store}, {"missing_before", "missing_after"}}
      BY <3>11, <3>12
    <3>14. /\ out.input.plan = plan /\ out.input.gap = gap
           /\ out.trajectory.acceptance = acceptance.id /\ out.trajectory.applied = applied.id
      BY <3>3 DEF OutputIs
    <3>. QED BY <3>5, <3>7, <3>8, <3>9, <3>13, <3>14
  <2>2. ASSUME NEW p \in preferences
        PROVE  \E c \in candidates, d \in decisions, review \in reviews :
                 /\ p.candidate = c.id /\ c.rejection = d.id /\ d.decision = "rejected"
                 /\ d.review = review.id /\ p.store = review.plan.store
    <3>1. PICK c \in candidates : p.candidate = c.id /\ p.store = c.store
      BY DEF EvidenceInv, RowsOk, PreferenceOk
    <3>. QED BY <3>1 DEF EvidenceInv, RowsOk, CandidateOk
  <2>. QED BY <2>1, <2>2 DEF FactsFollowDecisions
<1>. QED BY <1>1, EvidenceInvariant, PTL

\* The tables keep their keys, references and CHECKs (0006_merchant_review.sql), and an output
\* what its schemas refine: no outcome without data, whatever guardrails are handed over.
THEOREM EvidenceTyped == Spec => []TypeOK
<1>1. EvidenceInv => ReviewTypeOK
  <2>. SUFFICES ASSUME EvidenceInv PROVE ReviewTypeOK OBVIOUS
  <2>1. \A table \in {reviews, views, decisions, lifecycle, candidates, preferences} :
          \A x, y \in table : x.id = y.id => x = y
    BY DEF EvidenceInv, KeysOk, Counted, CountedAll, UniqueIds
  <2>2. \A row \in views \cup decisions \cup lifecycle \cup candidates :
          \E review \in reviews : AboutPlan(row, review)
    BY DEF EvidenceInv, RowsOk, FromReview
  <2>3. \A row \in lifecycle :
          LifecycleCheck(row) /\ row.acceptance \in {d.id : d \in decisions} \cup {NoDecision}
    BY DEF EvidenceInv, RowsOk, LifecycleRowOk
  <2>4. \A c \in candidates : \E d \in decisions : d.id = c.rejection
    BY DEF EvidenceInv, RowsOk, CandidateOk
  <2>5. \A p \in preferences : \E c \in candidates : c.id = p.candidate
    BY DEF EvidenceInv, RowsOk, PreferenceOk
  <2>. QED BY <2>1, <2>2, <2>3, <2>4, <2>5 DEF ReviewTypeOK, EvidenceInv, KeysOk, RowsOk
<1>2. ASSUME EvidenceInv, NEW out \in output
      PROVE  /\ \A x \in out.results \cup {out.effect} :
                  (x.measured.sampleStatus = "needs_more_data")
                    = (x.outcome = "needs_more_data" /\ x.measured.delta = NoValue)
             /\ out.trajectory.applied \in out.record.adoptionRefs
  <2>1. PICK plan \in Plans, guardrails \in SUBSET Guardrails,
             acceptance \in decisions, applied \in lifecycle, gap \in Gaps :
          \E before, after, earlier, later :
            BuiltFrom(out, plan, guardrails, acceptance, applied, gap,
                      before, after, earlier, later)
    BY <1>2 DEF EvidenceInv, OutputOk, OutOk
  <2>2. PICK before, after, earlier, later :
          BuiltFrom(out, plan, guardrails, acceptance, applied, gap,
                    before, after, earlier, later)
    BY <2>1
  <2>3. /\ OutputIs(out, plan, guardrails, acceptance, applied, gap, before, after, earlier, later)
        /\ GuardrailsReadable(guardrails, earlier, later)
    BY <2>2, OutputFollowsSnapshots
  <2>4. (out.effect.measured.sampleStatus = "needs_more_data")
          = (out.effect.outcome = "needs_more_data" /\ out.effect.measured.delta = NoValue)
    <3>1. /\ out.effect.measured = Measured(before, after)
          /\ out.effect.outcome =
               OutcomeFor(Measured(before, after).delta, Measured(before, after).direction)
      BY <2>3 DEF OutputIs, ActionEffect
    <3>2. Readable(before) /\ Readable(after) BY <2>2, SnapshotsAreReadable DEF BuiltFrom
    <3>. QED BY <3>1, <3>2, OutcomesFollowData
  <2>5. ASSUME NEW x \in out.results
        PROVE  (x.measured.sampleStatus = "needs_more_data")
                 = (x.outcome = "needs_more_data" /\ x.measured.delta = NoValue)
    <3>1. PICK g \in guardrails :
            x = GuardrailResult(<<plan.id, g.metric>>, plan, g, earlier[g.metric], later[g.metric])
      BY <2>3 DEF OutputIs
    <3>. QED BY <2>3, <3>1, GuardrailsFollowData DEF GuardrailsReadable
  <2>6. out.trajectory.applied \in out.record.adoptionRefs BY <2>3 DEF OutputIs
  <2>. QED BY <2>4, <2>5, <2>6
<1>3. EvidenceInv => TypeOK BY <1>1, <1>2 DEF TypeOK, EvidenceInv, OutputOk
<1>. QED BY <1>3, EvidenceInvariant, PTL
===============================================================================

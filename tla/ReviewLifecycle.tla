---------------------------- MODULE ReviewLifecycle ----------------------------
(***************************************************************************)
(* The review queue of src/persistence: openCase, decide and apply, each   *)
(* one database transaction over the tables review_case,                   *)
(* review_decision_event and review_application_event.  The database runs  *)
(* one transaction at a time, so an operation is one step; a call that     *)
(* throws rolls back and is no step at all.  XOutcome(..) is what the call *)
(* returns in the current state.                                           *)
(*                                                                         *)
(* Rows are immutable, so a row stands for its own primary key: a decision *)
(* names its case by the case row.                                         *)
(***************************************************************************)
EXTENDS Naturals, FiniteSets

CONSTANTS
  Products,         \* booth_product ids
  Scenarios,        \* scenario ids
  Fields,           \* field paths
  Versions,         \* content/normalizer/registry version keys
  Targets,          \* the exact targets callers name
  Snapshots,        \* the evidence metadata callers pass
  DecisionReasons,  \* the decision reasons callers pass
  MaxTime           \* the latest timestamp a caller passes

ReviewTarget ==
  [product: Products, entity: Products \union Scenarios,
   field: Fields, version: Versions]

ReviewSnapshot ==
  [evidencedState: {"known", "unknown", "hold", "not_applicable"},
   confidence: {"high", "medium", "low", "unresolved"},
   initialReviewState: {"unreviewed", "needs_more_evidence"},
   evidenceCount: Nat,
   hasConflict: BOOLEAN,
   holdReason: STRING,  \* "none" stands for null
   containsAiEvidence: BOOLEAN]

AllReasons ==
  {"evidence_sufficient", "evidence_insufficient", "evidence_conflict",
   "incorrect_mapping", "unsupported_claim", "manual_policy_decision"}

Decisions == {"approved", "rejected", "needs_more_evidence"}
Times == 1..MaxTime

ASSUME ReviewConstants ==
  /\ Targets \subseteq ReviewTarget
  /\ Snapshots \subseteq ReviewSnapshot
  /\ DecisionReasons \subseteq AllReasons
  /\ MaxTime \in Nat
  /\ Products \intersect Scenarios = {}

VARIABLES
  catalog,       \* the <<product, entity>> pairs the product tables hold
  cases,         \* review_case
  decisions,     \* review_decision_event
  applications   \* review_application_event

reviewVars == <<cases, decisions, applications>>
vars == <<catalog, reviewVars>>

--------------------------------------------------------------------------------
(* Planning a case: src/review.ts *)

\* A snapshot carries a hold reason exactly when it is held.
ValidSnapshot(s) == (s.evidencedState = "hold") <=> (s.holdReason # "none")

CaseReasons ==
  {"hold_requires_resolution", "conflict_requires_resolution",
   "ai_candidate_requires_approval", "needs_more_evidence",
   "unresolved_confidence", "known_without_evidence",
   "low_confidence", "manual_review_requested"}

ReviewReasons(s, manual) ==
  {r \in CaseReasons :
     \/ r = "hold_requires_resolution" /\ s.evidencedState = "hold"
     \/ r = "conflict_requires_resolution" /\ s.hasConflict
     \/ r = "ai_candidate_requires_approval" /\ s.containsAiEvidence
     \/ r = "needs_more_evidence" /\ s.initialReviewState = "needs_more_evidence"
     \/ r = "unresolved_confidence" /\ s.confidence = "unresolved"
     \/ r = "known_without_evidence"
          /\ s.evidencedState = "known" /\ s.evidenceCount = 0
     \/ r = "low_confidence" /\ s.confidence = "low"
     \/ r = "manual_review_requested" /\ manual}

PriorityFor(reasons) ==
  IF reasons \intersect {"hold_requires_resolution",
                         "conflict_requires_resolution",
                         "ai_candidate_requires_approval"} # {}
    THEN "blocking"
  ELSE IF reasons \intersect {"needs_more_evidence", "unresolved_confidence",
                              "known_without_evidence"} # {}
    THEN "high"
  ELSE "normal"

\* The evidence can carry an approval.
Approvable(s) ==
  /\ s.evidencedState # "hold"
  /\ ~s.hasConflict
  /\ s.confidence \in {"high", "medium"}
  /\ s.evidencedState = "known" => s.evidenceCount > 0

\* Broken: an approval is checked for its reason only.
ApprovalByReason(s, decision, reason) ==
  \/ /\ decision = "approved"
     /\ reason \in {"evidence_sufficient", "manual_policy_decision"}
  \/ /\ decision # "approved"
     /\ reason \in {"evidence_conflict", "manual_policy_decision"}

DecisionAllowed(s, decision, reason) ==
  \/ /\ decision = "approved"
     /\ reason \in {"evidence_sufficient", "manual_policy_decision"}
     /\ Approvable(s)
  \/ /\ decision = "needs_more_evidence"
     /\ reason \in {"evidence_insufficient", "evidence_conflict",
                    "manual_policy_decision"}
  \/ /\ decision = "rejected"
     /\ reason \in {"evidence_conflict", "incorrect_mapping",
                    "unsupported_claim", "manual_policy_decision"}

--------------------------------------------------------------------------------
(* The rows *)

CaseRow ==
  [target: Targets, snapshot: Snapshots, reasons: SUBSET CaseReasons,
   priority: {"blocking", "high", "normal"}, createdAt: Times]

DecisionRow ==
  [case: CaseRow, decision: Decisions, reason: AllReasons, decidedAt: Times]

ApplicationRow ==
  [case: CaseRow, decision: DecisionRow, target: Targets,
   outcome: {"approved", "excluded_rejected", "excluded_needs_more_evidence"},
   appliedAt: Times]

TypeOK ==
  /\ catalog \subseteq Products \X (Products \union Scenarios)
  /\ cases \subseteq CaseRow
  /\ decisions \subseteq DecisionRow
  /\ applications \subseteq ApplicationRow

Init ==
  /\ catalog = {}
  /\ cases = {}
  /\ decisions = {}
  /\ applications = {}

--------------------------------------------------------------------------------
(* saveGraph, as far as the review tables see it: a product and its        *)
(* scenarios come into being together, and no operation deletes them.      *)

SaveGraph(p, S) ==
  /\ <<p, p>> \notin catalog
  /\ \A s \in S, q \in Products : <<q, s>> \notin catalog
  /\ catalog' = catalog \union {<<p, p>>} \union {<<p, s>> : s \in S}
  /\ UNCHANGED reviewVars

\* The target's entity is stored and owned by the product it names.
Owned(t) == <<t.product, t.entity>> \in catalog

--------------------------------------------------------------------------------
(* openCase *)

NewCase(t, s, manual, at) ==
  [target |-> t, snapshot |-> s, reasons |-> ReviewReasons(s, manual),
   priority |-> PriorityFor(ReviewReasons(s, manual)), createdAt |-> at]

\* Broken: only the cases still waiting for a decision are looked up.
PendingCasesOf(t) ==
  {c \in cases : c.target = t /\ \A d \in decisions : d.case # c}

CasesOf(t) == {c \in cases : c.target = t}

\* Broken: a repeated call is recognised only while the case is pending.
OpenOutcomeWhilePending(t, s, asStored, manual, at) ==
  IF ~ValidSnapshot(s) \/ ReviewReasons(s, manual) = {} \/ ~Owned(t)
    THEN "error"
  ELSE IF CasesOf(t) = {} THEN "inserted"
  ELSE IF asStored /\ NewCase(t, s, manual, at) \in PendingCasesOf(t)
    THEN "existing"
  ELSE "conflict"

\* The comparison of a stored case with a repeated call covers every column,
\* the snapshot by its JSON text.  asStored: the caller's object has the keys
\* of snapshot(), no others and in its order; written in any other way the
\* same snapshot is another text.
OpenOutcome(t, s, asStored, manual, at) ==
  IF ~ValidSnapshot(s) \/ ReviewReasons(s, manual) = {} \/ ~Owned(t)
    THEN "error"
  ELSE IF CasesOf(t) = {} THEN "inserted"
  ELSE IF asStored /\ NewCase(t, s, manual, at) \in CasesOf(t) THEN "existing"
  ELSE "conflict"

OpenCase(t, s, asStored, manual, at) ==
  /\ OpenOutcome(t, s, asStored, manual, at) = "inserted"
  /\ cases' = cases \union {NewCase(t, s, manual, at)}
  /\ UNCHANGED <<decisions, applications>>

--------------------------------------------------------------------------------
(* decide *)

DecisionsOf(c) == {d \in decisions : d.case = c}

\* A repeated decision is compared by decision and reason, not by time.
DecideOutcome(c, decision, reason, at) ==
  IF c \notin cases THEN "error"
  ELSE IF DecisionsOf(c) # {} THEN
    IF \E d \in DecisionsOf(c) : d.decision = decision /\ d.reason = reason
      THEN "existing" ELSE "conflict"
  ELSE IF DecisionAllowed(c.snapshot, decision, reason) /\ at > c.createdAt
    THEN "inserted"
  ELSE "error"

\* Broken: a decision takes its case off the queue.
DecideDequeues(c, decision, reason, at) ==
  /\ DecideOutcome(c, decision, reason, at) = "inserted"
  /\ decisions' = decisions \union
       {[case |-> c, decision |-> decision, reason |-> reason,
         decidedAt |-> at]}
  /\ cases' = cases \ {c}
  /\ UNCHANGED applications

Decide(c, decision, reason, at) ==
  /\ DecideOutcome(c, decision, reason, at) = "inserted"
  /\ decisions' = decisions \union
       {[case |-> c, decision |-> decision, reason |-> reason,
         decidedAt |-> at]}
  /\ UNCHANGED <<cases, applications>>

--------------------------------------------------------------------------------
(* apply *)

\* Broken: the decision is stored where its outcome belongs.
DecisionAsOutcome(decision) == decision

OutcomeOf(decision) ==
  CASE decision = "approved"            -> "approved"
    [] decision = "rejected"            -> "excluded_rejected"
    [] decision = "needs_more_evidence" -> "excluded_needs_more_evidence"

\* Broken: versions of a field are not told apart.
AnswersField(d, c) == d.case.target.field = c.target.field
SameField(c, t) == c.target.entity = t.entity /\ c.target.field = t.field

\* The decision d answers the case c, and c is about exactly the target t.
Answers(d, c) == d.case = c
ExactTarget(c, t) == c.target = t
Follows(at, earlier) == at > earlier

NewApplication(c, d, t, at) ==
  [case |-> c, decision |-> d, target |-> t,
   outcome |-> OutcomeOf(d.decision), appliedAt |-> at]

\* planReviewDecisionApplication
PlanAccepts(c, d, t) ==
  /\ Answers(d, c)
  /\ ExactTarget(c, t)
  /\ DecisionAllowed(c.snapshot, d.decision, d.reason)

\* The deferred trigger of migration 0004 judges the row again at commit.
TriggerAccepts(a) ==
  /\ Answers(a.decision, a.case)
  /\ ExactTarget(a.case, a.target)
  /\ Owned(a.case.target)
  /\ a.decision.decision = "approved" => Approvable(a.case.snapshot)
  /\ a.outcome = OutcomeOf(a.decision.decision)
  /\ Follows(a.appliedAt, a.decision.decidedAt)

ApplicationsOf(d) == {a \in applications : a.decision = d}

ApplyOutcome(c, d, t, at) ==
  IF \/ c \notin cases \/ d \notin decisions \/ ~PlanAccepts(c, d, t)
     \/ ~Follows(at, d.decidedAt)
    THEN "error"
  ELSE IF ApplicationsOf(d) # {} THEN
    IF NewApplication(c, d, t, at) \in ApplicationsOf(d)
      THEN "existing" ELSE "conflict"
  ELSE IF TriggerAccepts(NewApplication(c, d, t, at)) THEN "inserted"
  ELSE "error"

Apply(c, d, t, at) ==
  /\ ApplyOutcome(c, d, t, at) = "inserted"
  /\ applications' = applications \union {NewApplication(c, d, t, at)}
  /\ UNCHANGED <<cases, decisions>>

--------------------------------------------------------------------------------

ReviewNext ==
  \/ \E t \in Targets, s \in Snapshots, asStored \in BOOLEAN,
        manual \in BOOLEAN, at \in Times : OpenCase(t, s, asStored, manual, at)
  \/ \E c \in cases, decision \in Decisions, reason \in DecisionReasons,
        at \in Times : Decide(c, decision, reason, at)
  \/ \E c \in cases, d \in decisions, t \in Targets, at \in Times :
       Apply(c, d, t, at)

Next ==
  \/ \E p \in Products, S \in SUBSET Scenarios : SaveGraph(p, S)
  \/ ReviewNext /\ UNCHANGED catalog

Spec == Init /\ [][Next]_vars

--------------------------------------------------------------------------------
(* Properties *)

\* Every approval on record, decided or applied, rests on a case whose
\* evidence could carry it, was given a positive reason, and was made after
\* the case was opened (assertReviewDecisionAllowed, decide).
ApprovalIsEarned ==
  \A d \in decisions :
    /\ d.case \in cases
    /\ d.decidedAt > d.case.createdAt
    /\ d.decision = "approved" =>
         /\ Approvable(d.case.snapshot)
         /\ d.reason \in {"evidence_sufficient", "manual_policy_decision"}

\* What becomes effective is the decision of its own case, on exactly the
\* case's target, after it was decided (apply and the trigger of 0004).
ApplicationTracesToDecision ==
  \A a \in applications :
    /\ a.decision \in decisions
    /\ a.decision.case = a.case
    /\ a.target = a.case.target
    /\ a.outcome = "approved" <=> a.decision.decision = "approved"
    /\ a.outcome = "excluded_rejected" <=> a.decision.decision = "rejected"
    /\ a.appliedAt > a.decision.decidedAt

\* An exact target has at most one case, one final decision and one
\* application: no second opinion can become effective beside the first.
OneDispositionPerTarget ==
  /\ \A c1, c2 \in cases : c1.target = c2.target => c1 = c2
  /\ \A d1, d2 \in decisions : d1.case.target = d2.case.target => d1 = d2
  /\ \A a1, a2 \in applications : a1.target = a2.target => a1 = a2

\* A caller that lost the answer of a committed decide or apply and repeats
\* the call is told "existing", whatever happened since.  A repeated openCase is
\* told so when its snapshot is written in the order the repository stores it,
\* however the first call wrote it; written in another order, or with a key
\* more, it is refused as a conflict, even if it repeats the first call to the
\* letter.  No repetition is an error of another kind, or a new row.
RetryIsRecognised ==
  /\ \A c \in cases, asStored \in BOOLEAN :
       OpenOutcome(c.target, c.snapshot, asStored,
                   "manual_review_requested" \in c.reasons, c.createdAt)
         = IF asStored THEN "existing" ELSE "conflict"
  /\ \A d \in decisions :
       DecideOutcome(d.case, d.decision, d.reason, d.decidedAt) = "existing"
  /\ \A a \in applications :
       ApplyOutcome(a.case, a.decision, a.target, a.appliedAt) = "existing"

\* Nothing on the review tables is ever rewritten or removed (the triggers
\* review_case_append_only, review_decision_event_append_only and
\* review_application_append_only), and a decided case stays decided: the
\* blocking work of the queue only shrinks by decisions.
AppendOnly ==
  [][/\ cases \subseteq cases'
     /\ decisions \subseteq decisions'
     /\ applications \subseteq applications']_vars

--------------------------------------------------------------------------------
(* Refinement: the tables implement ReviewDisposition *)

ClaimOf(t) ==
  IF \E c \in CasesOf(t) : Approvable(c.snapshot) THEN "approvable"
  ELSE IF CasesOf(t) # {} THEN "blocked"
  ELSE "none"

VerdictOf(t) ==
  IF \E d \in decisions : d.case.target = t
    THEN (CHOOSE d \in decisions : d.case.target = t).decision
    ELSE "none"

EffectiveOf(t) ==
  IF \E a \in applications : a.target = t
    THEN (CHOOSE a \in applications : a.target = t).outcome
    ELSE "none"

Disposition ==
  INSTANCE ReviewDisposition WITH
    claim <- [t \in Targets |-> ClaimOf(t)],
    verdict <- [t \in Targets |-> VerdictOf(t)],
    effective <- [t \in Targets |-> EffectiveOf(t)]

\* The three tables behave as the abstract queue: every transaction is one
\* step of one target's disposition, or changes no disposition.
ImplementsDisposition == Disposition!DispositionSpec
================================================================================

------------------------ MODULE ReviewLifecycle_proofs -------------------------
(***************************************************************************)
(* Proofs about ReviewLifecycle for every set of products, scenarios,      *)
(* targets, snapshots, reasons and times.                                  *)
(***************************************************************************)
EXTENDS ReviewLifecycle, TLAPS

\* Every case was planned from its own columns and its entity is stored.
CasesArePlanned ==
  \A c \in cases :
    /\ ValidSnapshot(c.snapshot)
    /\ c.reasons # {}
    /\ c.reasons = ReviewReasons(c.snapshot, "manual_review_requested" \in c.reasons)
    /\ c.priority = PriorityFor(c.reasons)
    /\ Owned(c.target)

\* Every decision on record passed the decision rules.
DecisionsAreAllowed ==
  \A d \in decisions : DecisionAllowed(d.case.snapshot, d.decision, d.reason)

\* Every application is the one its decision's plan makes.
ApplicationsArePlanned ==
  \A a \in applications : a.outcome = OutcomeOf(a.decision.decision)

IInv ==
  /\ TypeOK
  /\ CasesArePlanned
  /\ DecisionsAreAllowed
  /\ ApplicationsArePlanned
  /\ ApprovalIsEarned
  /\ ApplicationTracesToDecision
  /\ OneDispositionPerTarget

--------------------------------------------------------------------------------
(* What the planners return *)

\* planReviewCase gives reasons and a priority that fit the table's columns.
LEMMA PlannedCaseType ==
  ASSUME NEW t \in Targets, NEW s \in Snapshots, NEW manual \in BOOLEAN,
         NEW at \in Times
  PROVE  NewCase(t, s, manual, at) \in CaseRow
<1>1. ReviewReasons(s, manual) \in SUBSET CaseReasons
  BY DEF ReviewReasons
<1>2. PriorityFor(ReviewReasons(s, manual)) \in {"blocking", "high", "normal"}
  BY DEF PriorityFor
<1> QED BY <1>1, <1>2 DEF NewCase, CaseRow

\* A case remembers in its reasons whether a person asked for the review.
LEMMA ManualIsRemembered ==
  ASSUME NEW s, NEW manual \in BOOLEAN
  PROVE  "manual_review_requested" \in ReviewReasons(s, manual) <=> manual
BY DEF ReviewReasons, CaseReasons

\* The outcome of a decision tells the three decisions apart.
LEMMA OutcomeIsFaithful ==
  ASSUME NEW d \in Decisions
  PROVE  /\ OutcomeOf(d) \in {"approved", "excluded_rejected",
                              "excluded_needs_more_evidence"}
         /\ OutcomeOf(d) = "approved" <=> d = "approved"
         /\ OutcomeOf(d) = "excluded_rejected" <=> d = "rejected"
BY DEF OutcomeOf, Decisions

--------------------------------------------------------------------------------
(* The invariant *)

LEMMA InitIInv == Init => IInv
BY DEF Init, IInv, TypeOK, CasesArePlanned, DecisionsAreAllowed,
       ApplicationsArePlanned, ApprovalIsEarned, ApplicationTracesToDecision,
       OneDispositionPerTarget

\* saveGraph only adds owners.
LEMMA SaveGraphKeepsIInv ==
  ASSUME IInv, NEW p \in Products, NEW S \in SUBSET Scenarios, SaveGraph(p, S)
  PROVE  IInv'
<1>1. UNCHANGED reviewVars /\ catalog \subseteq catalog'
  BY DEF SaveGraph
<1>2. catalog' \subseteq Products \X (Products \union Scenarios)
  BY DEF SaveGraph, IInv, TypeOK
<1>3. TypeOK'
  BY <1>1, <1>2 DEF IInv, TypeOK, reviewVars
<1>4. CasesArePlanned'
  BY <1>1 DEF IInv, CasesArePlanned, Owned, reviewVars
<1> QED
  BY <1>1, <1>3, <1>4
     DEF IInv, reviewVars, DecisionsAreAllowed, ApplicationsArePlanned,
         ApprovalIsEarned, ApplicationTracesToDecision, OneDispositionPerTarget

\* openCase adds a planned case for a target that had none.
LEMMA OpenCaseKeepsIInv ==
  ASSUME IInv, UNCHANGED catalog,
         NEW t \in Targets, NEW s \in Snapshots, NEW asStored \in BOOLEAN,
         NEW manual \in BOOLEAN, NEW at \in Times,
         OpenCase(t, s, asStored, manual, at)
  PROVE  IInv'
<1> DEFINE new == NewCase(t, s, manual, at)
<1>1. /\ cases' = cases \union {new}
      /\ UNCHANGED <<decisions, applications>>
      /\ ValidSnapshot(s) /\ ReviewReasons(s, manual) # {} /\ Owned(t)
      /\ CasesOf(t) = {}
  BY DEF OpenCase, OpenOutcome
<1>2. new \in CaseRow
  BY PlannedCaseType
<1>3. /\ new.target = t /\ new.snapshot = s /\ new.createdAt = at
      /\ new.reasons = ReviewReasons(s, manual)
      /\ new.priority = PriorityFor(ReviewReasons(s, manual))
  BY DEF NewCase
<1>4. TypeOK'
  BY <1>1, <1>2 DEF IInv, TypeOK
<1>5. CasesArePlanned'
  <2> SUFFICES ASSUME NEW c \in cases'
               PROVE  /\ ValidSnapshot(c.snapshot)
                      /\ c.reasons # {}
                      /\ c.reasons = ReviewReasons(c.snapshot,
                           "manual_review_requested" \in c.reasons)
                      /\ c.priority = PriorityFor(c.reasons)
                      /\ Owned(c.target)'
    BY DEF CasesArePlanned
  <2>1. CASE c \in cases
    BY <2>1 DEF IInv, CasesArePlanned, Owned
  <2>2. CASE c = new
    <3>1. "manual_review_requested" \in new.reasons <=> manual
      BY <1>3, ManualIsRemembered
    <3>2. ("manual_review_requested" \in new.reasons) = manual
      BY <3>1
    <3> QED BY <1>1, <1>3, <2>2, <3>2 DEF Owned
  <2> QED BY <1>1, <2>1, <2>2
<1>6. DecisionsAreAllowed' /\ ApplicationsArePlanned'
  BY <1>1 DEF IInv, DecisionsAreAllowed, ApplicationsArePlanned
<1>7. ApprovalIsEarned' /\ ApplicationTracesToDecision'
  BY <1>1 DEF IInv, ApprovalIsEarned, ApplicationTracesToDecision
<1>8. OneDispositionPerTarget'
  <2>1. \A c \in cases : c.target # t
    BY <1>1 DEF CasesOf
  <2> QED BY <1>1, <1>3, <2>1 DEF IInv, OneDispositionPerTarget
<1> QED BY <1>4, <1>5, <1>6, <1>7, <1>8 DEF IInv

\* decide adds an allowed decision to a case that had none.
LEMMA DecideKeepsIInv ==
  ASSUME IInv, UNCHANGED catalog,
         NEW c \in cases, NEW decision \in Decisions,
         NEW reason \in DecisionReasons, NEW at \in Times,
         Decide(c, decision, reason, at)
  PROVE  IInv'
<1> DEFINE new == [case |-> c, decision |-> decision, reason |-> reason,
                   decidedAt |-> at]
<1>1. /\ decisions' = decisions \union {new}
      /\ UNCHANGED <<cases, applications>>
      /\ DecisionsOf(c) = {}
      /\ DecisionAllowed(c.snapshot, decision, reason)
      /\ at > c.createdAt
  BY DEF Decide, DecideOutcome
<1>2. new \in DecisionRow
  BY ReviewConstants DEF IInv, TypeOK, DecisionRow
<1>3. /\ new.case = c /\ new.decision = decision
      /\ new.reason = reason /\ new.decidedAt = at
  OBVIOUS
<1> HIDE DEF new
<1>4. TypeOK'
  BY <1>1, <1>2 DEF IInv, TypeOK
<1>5. CasesArePlanned' /\ ApplicationsArePlanned'
  BY <1>1 DEF IInv, CasesArePlanned, Owned, ApplicationsArePlanned
<1>6. DecisionsAreAllowed'
  BY <1>1, <1>3 DEF IInv, DecisionsAreAllowed
<1>7. ApprovalIsEarned'
  BY <1>1, <1>3 DEF IInv, ApprovalIsEarned, DecisionAllowed
<1>8. ApplicationTracesToDecision'
  BY <1>1 DEF IInv, ApplicationTracesToDecision
<1>9. OneDispositionPerTarget'
  <2>1. \A d \in decisions : d.case.target # c.target
    <3> SUFFICES ASSUME NEW d \in decisions, d.case.target = c.target
                 PROVE  FALSE
      OBVIOUS
    <3>1. d.case = c
      BY DEF IInv, ApprovalIsEarned, OneDispositionPerTarget
    <3> QED BY <1>1, <3>1 DEF DecisionsOf
  <2> QED BY <1>1, <1>3, <2>1 DEF IInv, OneDispositionPerTarget
<1> QED BY <1>4, <1>5, <1>6, <1>7, <1>8, <1>9 DEF IInv

\* apply adds the planned application of a decision that had none.
LEMMA ApplyKeepsIInv ==
  ASSUME IInv, UNCHANGED catalog,
         NEW c \in cases, NEW d \in decisions, NEW t \in Targets,
         NEW at \in Times, Apply(c, d, t, at)
  PROVE  IInv'
<1> DEFINE new == NewApplication(c, d, t, at)
<1>1. /\ applications' = applications \union {new}
      /\ UNCHANGED <<cases, decisions>>
      /\ d.case = c /\ c.target = t
      /\ ApplicationsOf(d) = {}
      /\ at > d.decidedAt
  BY DEF Apply, ApplyOutcome, PlanAccepts, Answers, ExactTarget, Follows
<1>2. d.decision \in Decisions
  BY DEF IInv, TypeOK, DecisionRow
<1>3. /\ new.case = c /\ new.decision = d /\ new.target = t
      /\ new.outcome = OutcomeOf(d.decision) /\ new.appliedAt = at
  BY DEF NewApplication
<1>4. new \in ApplicationRow
  BY <1>2, OutcomeIsFaithful DEF IInv, TypeOK, NewApplication, ApplicationRow
<1> HIDE DEF new
<1>5. TypeOK'
  BY <1>1, <1>4 DEF IInv, TypeOK
<1>6. CasesArePlanned' /\ DecisionsAreAllowed' /\ ApprovalIsEarned'
  BY <1>1 DEF IInv, CasesArePlanned, Owned, DecisionsAreAllowed, ApprovalIsEarned
<1>7. ApplicationsArePlanned'
  BY <1>1, <1>3 DEF IInv, ApplicationsArePlanned
<1>8. ApplicationTracesToDecision'
  BY <1>1, <1>2, <1>3, OutcomeIsFaithful DEF IInv, ApplicationTracesToDecision
<1>9. OneDispositionPerTarget'
  <2>1. \A a \in applications : a.target # t
    <3> SUFFICES ASSUME NEW a \in applications, a.target = t
                 PROVE  FALSE
      OBVIOUS
    <3>1. a.decision \in decisions /\ a.decision.case.target = d.case.target
      BY <1>1 DEF IInv, ApplicationTracesToDecision
    <3>2. a.decision = d
      BY <3>1 DEF IInv, OneDispositionPerTarget
    <3> QED BY <1>1, <3>2 DEF ApplicationsOf
  <2> QED BY <1>1, <1>3, <2>1 DEF IInv, OneDispositionPerTarget
<1> QED BY <1>5, <1>6, <1>7, <1>8, <1>9 DEF IInv

LEMMA StepKeepsIInv == IInv /\ [Next]_vars => IInv'
<1> SUFFICES ASSUME IInv, [Next]_vars PROVE IInv'
  OBVIOUS
<1>1. CASE \E p \in Products, S \in SUBSET Scenarios : SaveGraph(p, S)
  BY <1>1, SaveGraphKeepsIInv
<1>2. CASE ReviewNext /\ UNCHANGED catalog
  BY <1>2, OpenCaseKeepsIInv, DecideKeepsIInv, ApplyKeepsIInv DEF ReviewNext
<1>3. CASE UNCHANGED vars
  BY <1>3 DEF vars, reviewVars, IInv, TypeOK, CasesArePlanned, Owned,
              DecisionsAreAllowed, ApplicationsArePlanned, ApprovalIsEarned,
              ApplicationTracesToDecision, OneDispositionPerTarget
<1> QED BY <1>1, <1>2, <1>3 DEF Next

\* The invariant holds throughout every behaviour of the review tables.
THEOREM Invariance == Spec => []IInv
BY InitIInv, StepKeepsIInv, PTL DEF Spec

--------------------------------------------------------------------------------
(* The safety properties *)

\* The rows always fit their tables.
THEOREM TypeCorrectness == Spec => []TypeOK
BY Invariance, PTL DEF IInv

\* Every approval on record was given for evidence that can carry it.
THEOREM ApprovalSafety == Spec => []ApprovalIsEarned
BY Invariance, PTL DEF IInv

\* Every effective outcome is the decision of its own case and target.
THEOREM ApplicationSafety == Spec => []ApplicationTracesToDecision
BY Invariance, PTL DEF IInv

\* A target never has two cases, two decisions or two applications.
THEOREM UniquenessSafety == Spec => []OneDispositionPerTarget
BY Invariance, PTL DEF IInv

\* A stored case is what openCase would build again from its columns.
LEMMA CaseIsItsPlan ==
  ASSUME IInv, NEW c \in cases
  PROVE  NewCase(c.target, c.snapshot,
                 "manual_review_requested" \in c.reasons, c.createdAt) = c
<1>1. c \in CaseRow
  BY DEF IInv, TypeOK
<1>2. /\ c.reasons = ReviewReasons(c.snapshot, "manual_review_requested" \in c.reasons)
      /\ c.priority = PriorityFor(c.reasons)
  BY DEF IInv, CasesArePlanned
<1> QED BY <1>1, <1>2 DEF NewCase, CaseRow

\* A stored application is what apply would build again from its columns.
LEMMA ApplicationIsItsPlan ==
  ASSUME IInv, NEW a \in applications
  PROVE  NewApplication(a.case, a.decision, a.target, a.appliedAt) = a
BY DEF IInv, TypeOK, ApplicationRow, ApplicationsArePlanned, NewApplication

\* In every reachable state a repetition of a committed call is recognised,
\* or refused for the way its snapshot is written.
LEMMA RetryFromIInv == IInv => RetryIsRecognised
<1> SUFFICES ASSUME IInv PROVE RetryIsRecognised
  OBVIOUS
<1>1. ASSUME NEW c \in cases, NEW asStored \in BOOLEAN
      PROVE  OpenOutcome(c.target, c.snapshot, asStored,
               "manual_review_requested" \in c.reasons, c.createdAt)
                 = IF asStored THEN "existing" ELSE "conflict"
  <2> DEFINE manual == "manual_review_requested" \in c.reasons
  <2>1. NewCase(c.target, c.snapshot, manual, c.createdAt) = c
    BY CaseIsItsPlan
  <2>2. c \in CasesOf(c.target)
    BY DEF CasesOf
  <2>3. /\ ValidSnapshot(c.snapshot) /\ Owned(c.target)
        /\ ReviewReasons(c.snapshot, manual) # {}
    BY DEF IInv, CasesArePlanned
  <2> HIDE DEF manual
  <2>4. OpenOutcome(c.target, c.snapshot, asStored, manual, c.createdAt)
          = IF asStored THEN "existing" ELSE "conflict"
    BY <2>1, <2>2, <2>3 DEF OpenOutcome
  <2> QED BY <2>4 DEF manual
<1>2. ASSUME NEW d \in decisions
      PROVE  DecideOutcome(d.case, d.decision, d.reason, d.decidedAt) = "existing"
  <2>1. d.case \in cases
    BY DEF IInv, ApprovalIsEarned
  <2>2. d \in DecisionsOf(d.case)
    BY DEF DecisionsOf
  <2> QED BY <2>1, <2>2 DEF DecideOutcome
<1>3. ASSUME NEW a \in applications
      PROVE  ApplyOutcome(a.case, a.decision, a.target, a.appliedAt) = "existing"
  <2>1. /\ a.decision \in decisions /\ a.decision.case = a.case
        /\ a.target = a.case.target /\ a.appliedAt > a.decision.decidedAt
    BY DEF IInv, ApplicationTracesToDecision
  <2>2. a.case \in cases
    BY <2>1 DEF IInv, ApprovalIsEarned
  <2>3. DecisionAllowed(a.case.snapshot, a.decision.decision, a.decision.reason)
    BY <2>1 DEF IInv, DecisionsAreAllowed
  <2>4. PlanAccepts(a.case, a.decision, a.target)
    BY <2>1, <2>3 DEF PlanAccepts, Answers, ExactTarget
  <2>5. a \in ApplicationsOf(a.decision)
    BY DEF ApplicationsOf
  <2>6. NewApplication(a.case, a.decision, a.target, a.appliedAt) = a
    BY ApplicationIsItsPlan
  <2> QED BY <2>1, <2>2, <2>4, <2>5, <2>6 DEF ApplyOutcome, Follows
<1> QED BY <1>1, <1>2, <1>3 DEF RetryIsRecognised

\* A caller that repeats a committed call is told "existing", unless it writes
\* the snapshot in another order than the repository: then "conflict".
THEOREM RetrySafety == Spec => []RetryIsRecognised
BY Invariance, RetryFromIInv, PTL

\* No step rewrites or removes a row of the review tables.
THEOREM AppendOnlySafety == Spec => AppendOnly
<1>1. [Next]_vars => [/\ cases \subseteq cases'
                      /\ decisions \subseteq decisions'
                      /\ applications \subseteq applications']_vars
  BY DEF Next, ReviewNext, SaveGraph, OpenCase, Decide, Apply, vars, reviewVars
<1> QED BY <1>1, PTL DEF Spec, AppendOnly

--------------------------------------------------------------------------------
(* The tables implement ReviewDisposition *)

\* With one disposition per target, the mapping of ReviewLifecycle reads the
\* verdict and the effective outcome off any row of the target.
LEMMA MappingReadsRows ==
  ASSUME OneDispositionPerTarget
  PROVE  /\ \A c \in cases :
              ClaimOf(c.target) = IF Approvable(c.snapshot) THEN "approvable"
                                                            ELSE "blocked"
         /\ \A d \in decisions : VerdictOf(d.case.target) = d.decision
         /\ \A a \in applications : EffectiveOf(a.target) = a.outcome
<1>1. ASSUME NEW c \in cases
      PROVE  ClaimOf(c.target) = IF Approvable(c.snapshot) THEN "approvable"
                                                           ELSE "blocked"
  BY DEF OneDispositionPerTarget, ClaimOf, CasesOf
<1>2. ASSUME NEW d \in decisions PROVE VerdictOf(d.case.target) = d.decision
  BY DEF OneDispositionPerTarget, VerdictOf
<1>3. ASSUME NEW a \in applications PROVE EffectiveOf(a.target) = a.outcome
  BY DEF OneDispositionPerTarget, EffectiveOf
<1> QED BY <1>1, <1>2, <1>3

\* A target without rows has nothing to read.
LEMMA MappingWithoutRows ==
  ASSUME NEW t
  PROVE  /\ (\A c \in cases : c.target # t) => ClaimOf(t) = "none"
         /\ (\A d \in decisions : d.case.target # t) => VerdictOf(t) = "none"
         /\ (\A a \in applications : a.target # t) => EffectiveOf(t) = "none"
BY DEF ClaimOf, CasesOf, VerdictOf, EffectiveOf

LEMMA InitRefines == Init => Disposition!DispositionInit
BY MappingWithoutRows DEF Init, Disposition!DispositionInit

\* openCase is Submit, with the claim its snapshot allows.
LEMMA OpenCaseRefines ==
  ASSUME IInv,
         NEW t \in Targets, NEW s \in Snapshots, NEW asStored \in BOOLEAN,
         NEW manual \in BOOLEAN, NEW at \in Times,
         OpenCase(t, s, asStored, manual, at)
  PROVE  \E evidence \in {"approvable", "blocked"} :
           Disposition!Submit(t, evidence)
<1> DEFINE evidence == IF Approvable(s) THEN "approvable" ELSE "blocked"
<1>1. /\ cases' = cases \union {NewCase(t, s, manual, at)}
      /\ UNCHANGED <<decisions, applications>>
      /\ CasesOf(t) = {}
  BY DEF OpenCase, OpenOutcome
<1>2. /\ NewCase(t, s, manual, at).target = t
      /\ NewCase(t, s, manual, at).snapshot = s
  BY DEF NewCase
<1>3. ClaimOf(t) = "none"
  BY <1>1 DEF ClaimOf
<1>4. ClaimOf(t)' = evidence
  BY <1>1, <1>2 DEF ClaimOf, CasesOf
<1>5. \A u \in Targets \ {t} : ClaimOf(u)' = ClaimOf(u)
  <2> SUFFICES ASSUME NEW u \in Targets \ {t} PROVE ClaimOf(u)' = ClaimOf(u)
    OBVIOUS
  <2>1. CasesOf(u)' = CasesOf(u)
    BY <1>1, <1>2 DEF CasesOf
  <2> QED BY <2>1 DEF ClaimOf
<1>6. \A u \in Targets :
        VerdictOf(u)' = VerdictOf(u) /\ EffectiveOf(u)' = EffectiveOf(u)
  BY <1>1 DEF VerdictOf, EffectiveOf
<1>7. Disposition!Submit(t, evidence)
  BY <1>3, <1>4, <1>5, <1>6 DEF Disposition!Submit
<1> QED BY <1>7

\* decide is Settle on the target of the case.
LEMMA DecideRefines ==
  ASSUME IInv, IInv',
         NEW c \in cases, NEW decision \in Decisions,
         NEW reason \in DecisionReasons, NEW at \in Times,
         Decide(c, decision, reason, at)
  PROVE  /\ c.target \in Targets
         /\ decision \in Disposition!Verdicts
         /\ Disposition!Settle(c.target, decision)
<1> DEFINE new == [case |-> c, decision |-> decision, reason |-> reason,
                   decidedAt |-> at]
<1>1. /\ decisions' = decisions \union {new}
      /\ UNCHANGED <<cases, applications>>
      /\ DecisionsOf(c) = {}
      /\ DecisionAllowed(c.snapshot, decision, reason)
  BY DEF Decide, DecideOutcome
<1>2. new.case = c /\ new.decision = decision
  OBVIOUS
<1> HIDE DEF new
<1>3. c.target \in Targets
  BY DEF IInv, TypeOK, CaseRow
<1>4. \A d \in decisions : d.case.target # c.target
  <2> SUFFICES ASSUME NEW d \in decisions, d.case.target = c.target
               PROVE  FALSE
    OBVIOUS
  <2>1. d.case = c
    BY DEF IInv, ApprovalIsEarned, OneDispositionPerTarget
  <2> QED BY <1>1, <2>1 DEF DecisionsOf
<1>5. ClaimOf(c.target) # "none" /\ VerdictOf(c.target) = "none"
  BY <1>4, MappingReadsRows, MappingWithoutRows DEF IInv
<1>6. decision = "approved" => ClaimOf(c.target) = "approvable"
  BY <1>1, MappingReadsRows DEF IInv, DecisionAllowed
<1>7. VerdictOf(c.target)' = decision
  BY <1>1, <1>2 DEF IInv, OneDispositionPerTarget, VerdictOf
<1>8. \A u \in Targets \ {c.target} : VerdictOf(u)' = VerdictOf(u)
  <2> SUFFICES ASSUME NEW u \in Targets \ {c.target}
               PROVE  VerdictOf(u)' = VerdictOf(u)
    OBVIOUS
  <2>1. CASE \E d \in decisions : d.case.target = u
    <3>1. PICK d \in decisions : d.case.target = u
      BY <2>1
    <3>2. VerdictOf(u) = d.decision
      BY <3>1, MappingReadsRows DEF IInv
    <3>3. VerdictOf(u)' = d.decision
      BY <1>1, <3>1 DEF IInv, OneDispositionPerTarget, VerdictOf
    <3> QED BY <3>2, <3>3
  <2>2. CASE \A d \in decisions : d.case.target # u
    BY <1>1, <1>2, <2>2 DEF VerdictOf
  <2> QED BY <2>1, <2>2
<1>9. \A u \in Targets :
        ClaimOf(u)' = ClaimOf(u) /\ EffectiveOf(u)' = EffectiveOf(u)
  BY <1>1 DEF ClaimOf, CasesOf, EffectiveOf
<1>10. Disposition!Settle(c.target, decision)
  BY <1>3, <1>5, <1>6, <1>7, <1>8, <1>9 DEF Disposition!Settle
<1> QED BY <1>3, <1>10 DEF Decisions, Disposition!Verdicts

\* apply is TakeEffect on the target of the case.
LEMMA ApplyRefines ==
  ASSUME IInv, IInv',
         NEW c \in cases, NEW d \in decisions, NEW t \in Targets,
         NEW at \in Times, Apply(c, d, t, at)
  PROVE  Disposition!TakeEffect(t)
<1> DEFINE new == NewApplication(c, d, t, at)
<1>1. /\ applications' = applications \union {new}
      /\ UNCHANGED <<cases, decisions>>
      /\ d.case = c /\ c.target = t
      /\ ApplicationsOf(d) = {}
  BY DEF Apply, ApplyOutcome, PlanAccepts, Answers, ExactTarget
<1>2. /\ new.decision = d /\ new.target = t
      /\ new.outcome = OutcomeOf(d.decision)
  BY DEF NewApplication
<1> HIDE DEF new
<1>3. \A a \in applications : a.target # t
  <2> SUFFICES ASSUME NEW a \in applications, a.target = t
               PROVE  FALSE
    OBVIOUS
  <2>1. a.decision \in decisions /\ a.decision.case.target = d.case.target
    BY <1>1 DEF IInv, ApplicationTracesToDecision
  <2>2. a.decision = d
    BY <2>1 DEF IInv, OneDispositionPerTarget
  <2> QED BY <1>1, <2>2 DEF ApplicationsOf
<1>4. VerdictOf(t) = d.decision /\ EffectiveOf(t) = "none"
  BY <1>1, <1>3, MappingReadsRows, MappingWithoutRows DEF IInv
<1>5. d.decision \in Decisions
  BY DEF IInv, TypeOK, DecisionRow
<1>6. EffectiveOf(t)' = Disposition!Outcome(VerdictOf(t))
  <2>1. EffectiveOf(t)' = OutcomeOf(d.decision)
    BY <1>1, <1>2 DEF IInv, OneDispositionPerTarget, EffectiveOf
  <2> QED BY <1>4, <1>5, <2>1 DEF OutcomeOf, Disposition!Outcome, Decisions
<1>7. \A u \in Targets \ {t} : EffectiveOf(u)' = EffectiveOf(u)
  <2> SUFFICES ASSUME NEW u \in Targets \ {t}
               PROVE  EffectiveOf(u)' = EffectiveOf(u)
    OBVIOUS
  <2>1. CASE \E a \in applications : a.target = u
    <3>1. PICK a \in applications : a.target = u
      BY <2>1
    <3>2. EffectiveOf(u) = a.outcome
      BY <3>1, MappingReadsRows DEF IInv
    <3>3. EffectiveOf(u)' = a.outcome
      BY <1>1, <3>1 DEF IInv, OneDispositionPerTarget, EffectiveOf
    <3> QED BY <3>2, <3>3
  <2>2. CASE \A a \in applications : a.target # u
    BY <1>1, <1>2, <2>2 DEF EffectiveOf
  <2> QED BY <2>1, <2>2
<1>8. \A u \in Targets :
        ClaimOf(u)' = ClaimOf(u) /\ VerdictOf(u)' = VerdictOf(u)
  BY <1>1 DEF ClaimOf, CasesOf, VerdictOf
<1>9. VerdictOf(t) # "none"
  BY <1>4, <1>5 DEF Decisions
<1> QED BY <1>4, <1>6, <1>7, <1>8, <1>9 DEF Disposition!TakeEffect

LEMMA StepRefines ==
  IInv /\ IInv' /\ [Next]_vars
    => [Disposition!DispositionNext]_Disposition!dispositionVars
<1> SUFFICES ASSUME IInv, IInv', [Next]_vars
             PROVE  [Disposition!DispositionNext]_Disposition!dispositionVars
  OBVIOUS
<1>1. CASE UNCHANGED reviewVars
  BY <1>1 DEF reviewVars, Disposition!dispositionVars, ClaimOf, CasesOf,
              VerdictOf, EffectiveOf
<1>2. CASE \E t \in Targets, s \in Snapshots, asStored \in BOOLEAN,
              manual \in BOOLEAN, at \in Times :
             OpenCase(t, s, asStored, manual, at)
  BY <1>2, OpenCaseRefines DEF Disposition!DispositionNext
<1>3. CASE \E c \in cases, decision \in Decisions, reason \in DecisionReasons,
              at \in Times : Decide(c, decision, reason, at)
  BY <1>3, DecideRefines DEF Disposition!DispositionNext
<1>4. CASE \E c \in cases, d \in decisions, t \in Targets, at \in Times :
             Apply(c, d, t, at)
  BY <1>4, ApplyRefines DEF Disposition!DispositionNext
<1> QED BY <1>1, <1>2, <1>3, <1>4
        DEF Next, ReviewNext, SaveGraph, vars, reviewVars

\* The three tables implement the abstract review queue: every transaction
\* is one step of one target's disposition or changes none.
THEOREM Refinement == Spec => ImplementsDisposition
<1>1. Spec => []IInv
  BY Invariance
<1>2. Init => Disposition!DispositionInit
  BY InitRefines
<1>3. IInv /\ IInv' /\ [Next]_vars
        => [Disposition!DispositionNext]_Disposition!dispositionVars
  BY StepRefines
<1> QED BY <1>1, <1>2, <1>3, PTL
        DEF Spec, ImplementsDisposition, Disposition!DispositionSpec
================================================================================

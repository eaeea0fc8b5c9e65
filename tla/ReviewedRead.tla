------------------------------ MODULE ReviewedRead -----------------------------
(***************************************************************************)
(* A reader of one product's publication index beside the writers:         *)
(* PostgresReviewedPublicationIndexService asks loadReviewedGraphBatch for *)
(* the product and its review targets.  The load is a series of single     *)
(* selects outside any transaction, and between two of them any            *)
(* transaction of EvidenceStore or ReviewLifecycle may commit: saves,      *)
(* purges, and the opening, deciding and applying of reviews.  (record     *)
(* only appends to normalization_history, which no read here looks at.)    *)
(***************************************************************************)
EXTENDS EvidenceStore, ReviewedOverlay

CONSTANTS
  Fields, Versions, Targets, Snapshots, DecisionReasons,
  RequestLists,  \* the sequences of targets callers ask for
  Stored,        \* Stored[slot]: the envelope a graph is saved with
  Separated,     \* the scenarios saved with separationApproved
  OnHold         \* the scenarios saved with hold

VARIABLES
  cases, decisions, applications,
  reader,        \* the reader's locals
  began          \* what was so when the read began (for properties)

Catalog ==
  {<<p, p>> : p \in {q \in Products : product[q] # NoRow}} \union
  {<<scenario[s].product, s>> : s \in {r \in Scenarios : scenario[r] # NoRow}}

Review == INSTANCE ReviewLifecycle WITH catalog <- Catalog

ASSUME ReadConstants ==
  /\ Targets \subseteq Review!ReviewTarget
  /\ Snapshots \subseteq Review!ReviewSnapshot
  /\ DecisionReasons \subseteq Review!AllReasons
  /\ RequestLists \subseteq Seq(Targets)
  /\ \A t \in Targets : Rank(t) \in Nat
  /\ \A slot \in DOMAIN Stored : "reviewState" \in DOMAIN Stored[slot]

reviewVars == <<cases, decisions, applications>>
readVars == <<reader, began>>
vars == <<evidenceVars, reviewVars, readVars>>

--------------------------------------------------------------------------------
(* Reading *)

Distinct(list) == \A i, j \in DOMAIN list : list[i] = list[j] => i = j

OneProduct(p, list) == \A i \in DOMAIN list : list[i].product = p

\* The graph a load builds from the columns and the scenarios it has read.
GraphOf(p, columns, read) ==
  LET column(field) ==
        CASE field = "classification" -> "classification" \in columns
          [] field = "is_free" -> "isFree" \in columns
          [] OTHER -> TRUE
      slots == {slot \in DOMAIN Stored :
                  \/ slot[1] = p /\ column(slot[2])
                  \/ slot[1] \in read}
  IN  [product |-> p, scenarios |-> read, separated |-> Separated,
       onHold |-> OnHold, envelopes |-> [slot \in slots |-> Stored[slot]]]

Idle == [pc |-> "idle"]
NothingShown == [pc |-> "done", shown |-> {}, report |-> <<>>]

OutcomeInEffect(t) ==
  IF \E a \in applications : a.target = t
    THEN (CHOOSE a \in applications : a.target = t).outcome
    ELSE "none"

\* loadPublicationIndex refuses duplicates and foreign targets up front.
Request(p, list) ==
  /\ reader.pc \in {"idle", "done"}
  /\ Distinct(list) /\ OneProduct(p, list)
  /\ reader' = [pc |-> "product", p |-> p, list |-> list]
  /\ began' = [held |-> Held(p), p |-> p,
               effective |-> [i \in DOMAIN list |-> OutcomeInEffect(list[i])],
               list |-> list]

\* loadGraph: the product row ...
ReadProduct ==
  /\ reader.pc = "product"
  /\ reader' =
       IF Readable(product[reader.p])
         THEN [pc |-> "scenarios", p |-> reader.p, list |-> reader.list,
               columns |-> product[reader.p].columns]
         ELSE NothingShown
  /\ UNCHANGED began

\* The next target to look up, or the composition when there is none left.
NextTarget(p, list, g, inputs) ==
  [pc |-> IF Len(inputs) < Len(list) THEN "case" ELSE "compose",
   p |-> p, list |-> list, graph |-> g, inputs |-> inputs]

\* ... then the scenario rows, a purged row being skipped.
ReadScenarios ==
  /\ reader.pc = "scenarios"
  /\ reader' = NextTarget(reader.p, reader.list,
       GraphOf(reader.p, reader.columns, ReadableScenarios(reader.p)), <<>>)
  /\ UNCHANGED began

Current == reader.list[Len(reader.inputs) + 1]

WithInput(seen, projection) ==
  NextTarget(reader.p, reader.list, reader.graph,
    Append(reader.inputs, [target |-> Current, seen |-> seen,
                           projection |-> projection]))

WithRow(pc, seen, row) ==
  [pc |-> pc, p |-> reader.p, list |-> reader.list, graph |-> reader.graph,
   inputs |-> reader.inputs, seen |-> seen, row |-> row]

\* Broken: any case of the product will do.
CaseRowsOfProduct(t) == {c \in cases : c.target.product = t.product}

CaseRows(t) == {c \in cases : c.target = t}

\* Broken: a target that has no case yet is waited for.
ReadCaseWaits ==
  /\ reader.pc = "case"
  /\ \E c \in CaseRows(Current) :
       reader' = WithRow("case_again", {c.snapshot}, c)
  /\ UNCHANGED began

\* The batch service's own select of the case.
ReadCase ==
  /\ reader.pc = "case"
  /\ LET found == CaseRows(Current) IN
       \/ found = {} /\ reader' = WithInput({}, "unapplied")
       \/ \E c \in found : reader' = WithRow("case_again", {c.snapshot}, c)
  /\ UNCHANGED began

\* loadEffectiveProjection: the case once more ...
ReadCaseAgain ==
  /\ reader.pc = "case_again"
  /\ LET found == CaseRows(Current) IN
       \/ found = {} /\ reader' = WithInput(reader.seen, "unapplied")
       \/ \E c \in found : reader' = WithRow("decision", reader.seen, c)
  /\ UNCHANGED began

\* Broken: a decision counts before it is applied.
ReadDecisionOnly ==
  /\ reader.pc = "decision"
  /\ LET found == {d \in decisions : d.case = reader.row} IN
       \/ found = {} /\ reader' = WithInput(reader.seen, "unapplied")
       \/ \E d \in found : reader' = WithInput(reader.seen, d.decision)
  /\ UNCHANGED began

\* ... its decision ...
ReadDecision ==
  /\ reader.pc = "decision"
  /\ LET found == {d \in decisions : d.case = reader.row} IN
       \/ found = {} /\ reader' = WithInput(reader.seen, "unapplied")
       \/ \E d \in found : reader' = WithRow("application", reader.seen, d)
  /\ UNCHANGED began

\* Broken: the stored outcome is shown as the review state.
StoredOutcome(outcome) == outcome

\* projectEffectiveReviewApplication
Effective(outcome) ==
  CASE outcome = "approved" -> "approved"
    [] outcome = "excluded_rejected" -> "rejected"
    [] outcome = "excluded_needs_more_evidence" -> "needs_more_evidence"

\* ... and the application.  A row that contradicts its decision makes the
\* load throw: the reader is told nothing.
ReadApplication ==
  /\ reader.pc = "application"
  /\ LET found == {a \in applications : a.decision = reader.row} IN
       \/ found = {} /\ reader' = WithInput(reader.seen, "unapplied")
       \/ \E a \in found :
            reader' =
              IF /\ a.outcome = Review!OutcomeOf(reader.row.decision)
                 /\ a.appliedAt > reader.row.decidedAt
              THEN WithInput(reader.seen, Effective(a.outcome))
              ELSE Idle
  /\ UNCHANGED began

\* composeReviewedOverlayBatch and composeReviewedPublicationIndex
Compose ==
  /\ reader.pc = "compose"
  /\ LET composed == Composed(reader.graph, reader.inputs) IN
       reader' = [pc |-> "done", shown |-> Published(composed.graph),
                  report |-> composed.report, graph |-> reader.graph,
                  inputs |-> reader.inputs, final |-> composed.graph]
  /\ UNCHANGED began

Advance ==
  \/ ReadProduct \/ ReadScenarios
  \/ ReadCase \/ ReadCaseAgain \/ ReadDecision \/ ReadApplication
  \/ Compose

--------------------------------------------------------------------------------

ReadInit ==
  /\ Init
  /\ cases = {} /\ decisions = {} /\ applications = {}
  /\ reader = Idle
  /\ began = [held |-> FALSE, list |-> <<>>]

StoreNext ==
  \/ \E p \in Products, source \in Sources, C \in ColumnSets,
        S \in SUBSET Scenarios, seen \in GraphTimes :
       SaveGraph(p, source, C, S, {}, {}, seen[1], seen[2])
  \/ \E p \in Products, at \in Times : Purge(p, at)

ReadNext ==
  \/ StoreNext /\ UNCHANGED <<reviewVars, readVars>>
  \/ Review!ReviewNext /\ UNCHANGED <<evidenceVars, readVars>>
  \/ /\ \/ \E p \in Products, list \in RequestLists : Request(p, list)
        \/ Advance
     /\ UNCHANGED <<evidenceVars, reviewVars>>

\* A load that has begun goes on: its selects are awaited one after another
\* and each is answered.
ReadSpec ==
  /\ ReadInit
  /\ [][ReadNext]_vars
  /\ WF_vars(Advance /\ UNCHANGED <<evidenceVars, reviewVars>>)

--------------------------------------------------------------------------------
(* Properties *)

Finished == reader.pc = "done"
Composition == Finished /\ reader.report # <<>>

\* The tables keep their types under every interleaving, and a read holds at
\* most one answer per requested target, each a review state or "unapplied".
ReadTypeOK ==
  /\ TypeOK
  /\ Review!TypeOK
  /\ reader.pc \in {"idle", "product", "scenarios", "case", "case_again",
                    "decision", "application", "compose", "done"}
  /\ reader.pc \in {"case", "case_again", "decision", "application", "compose"} =>
       /\ Len(reader.inputs) <= Len(reader.list)
       /\ \A i \in DOMAIN reader.inputs :
            reader.inputs[i].projection \in ReviewStates \union {"unapplied"}
  /\ Finished => reader.shown \subseteq Scenarios

\* A read that begins after a product's purge committed is told nothing of
\* the product, neither a scenario nor how its targets stand, whatever was
\* approved before or is approved later (loadGraph).
PurgedStaysHidden == Finished /\ began.held => reader = NothingShown

\* The reads of a target never mix two answers: an outcome the read reports
\* is in effect for exactly that target, and an outcome that was in effect
\* when the read began is not missed (loadEffectiveProjection).
OutcomesAreInEffect ==
  Composition =>
    \A i \in DOMAIN reader.inputs :
      LET input == reader.inputs[i]
          t == began.list[i] IN
      /\ input.target = t
      /\ input.projection # "unapplied" =>
           /\ OutcomeInEffect(t) # "none"
           /\ input.projection = Effective(OutcomeInEffect(t))
           /\ \E c \in cases : c.target = t /\ input.seen = {c.snapshot}
      /\ began.effective[i] # "none" =>
           input.projection = Effective(began.effective[i])

\* A field is shown as approved only if it was saved so, or a requested
\* target on that very field has an approval in effect.
ApprovalIsBacked ==
  Composition =>
    \A slot \in DOMAIN reader.final.envelopes :
      reader.final.envelopes[slot].reviewState = "approved" =>
        \/ Stored[slot].reviewState = "approved"
        \/ \E t \in Targets :
             /\ t \in {began.list[i] : i \in DOMAIN began.list}
             /\ Slot(t) = slot
             /\ OutcomeInEffect(t) = "approved"

\* The fields without which the publication gate shows no scenario.
Gates(p, s) ==
  {<<p, f>> : f \in {"all_ages", "sales_state", "classification"}} \union
  {<<s, f>> : f \in {"title"} \union FacetFields}

AloneOnSlot(t, list) == \A i \in DOMAIN list : Slot(list[i]) = Slot(t) => list[i] = t

\* A rejection, or a demand for more evidence, that was in effect when the
\* read began hides every scenario its field gates, provided it is about the
\* stored evidence and is the only requested target on its field.
ExclusionHides ==
  Composition =>
    \A i \in DOMAIN reader.inputs, s \in Scenarios :
      LET t == began.list[i] IN
      /\ began.effective[i] \in {"excluded_rejected", "excluded_needs_more_evidence"}
      /\ AloneOnSlot(t, began.list)
      /\ InputOutcome(reader.graph, reader.inputs[i]) \in ReviewStates
      /\ Slot(t) \in Gates(t.product, s)
      => s \notin reader.shown

Orders(list) == {q \in [DOMAIN list -> {list[i] : i \in DOMAIN list}] : Distinct(q)}

\* The composition does not depend on the order the caller named the targets
\* in ("deterministically, independent of caller order").
BatchIgnoresCallerOrder ==
  Composition =>
    \A order \in Orders(reader.inputs) :
      LET other == Composed(reader.graph, order) IN
      other.graph = reader.final /\ other.report = reader.report

\* A load that has begun ends, however the writers interleave with it: no
\* read waits for a row or repeats.
ReadCompletes == reader.pc \notin {"idle", "done"} ~> reader.pc \in {"idle", "done"}

--------------------------------------------------------------------------------
(* What the documents say of a batch *)

\* docs/DATA_MODEL.md, Stage 18: "Rejected and needs-more-evidence decisions
\* are materialized as review states so the unchanged publication projection
\* can fail closed normally."  A batch reports as such every exclusion in
\* effect that is about the stored evidence.
ExclusionsMaterialize ==
  Composition =>
    \A i \in DOMAIN reader.inputs :
      LET outcome == InputOutcome(reader.graph, reader.inputs[i]) IN
      outcome \in {"rejected", "needs_more_evidence"} =>
        [target |-> reader.inputs[i].target, outcome |-> outcome]
          \in {reader.report[k] : k \in DOMAIN reader.report}
================================================================================

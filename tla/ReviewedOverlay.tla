---------------------------- MODULE ReviewedOverlay ----------------------------
(***************************************************************************)
(* The pure read model: src/reviewed-overlay.ts joins a stored envelope    *)
(* with the review of an exact target, src/reviewed-overlay-batch.ts does  *)
(* it for several targets of one product, and src/publication.ts decides   *)
(* whether a scenario of the overlaid product may be shown.                *)
(*                                                                         *)
(* A graph is one loaded product with its scenarios:                       *)
(*   [product, scenarios, separated, onHold, envelopes]                    *)
(* where envelopes maps each present slot <<entity, field>> to its         *)
(* evidenced value.  A value is kept as far as the publication gate looks  *)
(* at it: "invalid" stands for a value its validator refuses.              *)
(***************************************************************************)
EXTENDS Naturals, Sequences, FiniteSets

CONSTANT Rank(_)  \* where compareReviewTargets puts a target

ProductFields ==
  {"sales_state", "source_publication_date", "is_free", "all_ages",
   "classification"}

ScenarioFields ==
  {"title", "player_count", "edition", "play_time_minutes", "modality",
   "tags.genre", "tags.tone", "tags.setting", "tags.structure",
   "tags.content"}

ReviewStates == {"unreviewed", "approved", "rejected", "needs_more_evidence"}

Slot(t) == <<t.entity, t.field>>

--------------------------------------------------------------------------------
(* One target: materializeReviewedGraph and materializeReviewedEnvelope *)

Supported(t) ==
  t.field \in IF t.entity = t.product THEN ProductFields ELSE ScenarioFields

Present(g, t) ==
  t.product = g.product /\ t.entity \in {g.product} \union g.scenarios

\* The stored evidence is the evidence the reviewer saw.  Only a
\* classification carries normalizer and registry versions.
MetadataMatches(e, s, version) ==
  /\ e.state = s.evidencedState
  /\ e.confidence = s.confidence
  /\ e.reviewState = s.initialReviewState
  /\ e.evidenceCount = s.evidenceCount
  /\ e.hasConflict = s.hasConflict
  /\ e.holdReason = s.holdReason
  /\ e.containsAiEvidence = s.containsAiEvidence
  /\ e.normalizer \in {"none", version.normalizer}
  /\ e.registry \in {"none", version.registry}

\* The review state the target's field takes in g, or why it is left alone.
\* The projection is the one loaded for this very target.
OverlayOutcome(g, t, snapshot, projection) ==
  IF ~Supported(t) THEN "unsupported_field"
  ELSE IF ~Present(g, t) THEN "entity_missing"
  ELSE IF Slot(t) \notin DOMAIN g.envelopes THEN "field_missing"
  ELSE LET e == g.envelopes[Slot(t)] IN
    IF e.content # t.version.content THEN "stale_version"
    ELSE IF ~MetadataMatches(e, snapshot, t.version) THEN "metadata_mismatch"
    ELSE projection

WithReviewState(g, slot, state) ==
  LET reviewed == [g.envelopes[slot] EXCEPT !.reviewState = state] IN
  [g EXCEPT !.envelopes = [g.envelopes EXCEPT ![slot] = reviewed]]

--------------------------------------------------------------------------------
(* Several targets: composeReviewedOverlayBatch.  An input is a target with *)
(* its projection and the snapshot of its case; seen is the set of that one *)
(* snapshot, or empty when the target has no case.                          *)

InputOutcome(g, input) ==
  IF input.seen = {} THEN "unapplied"
  ELSE OverlayOutcome(g, input.target, CHOOSE s \in input.seen : TRUE,
                      input.projection)

Overlaid(g, input) ==
  LET outcome == InputOutcome(g, input) IN
  IF outcome \in ReviewStates THEN WithReviewState(g, Slot(input.target), outcome)
                              ELSE g

\* Broken: the targets are taken as the caller names them.
AsAsked(inputs) == inputs

\* Where the sort puts the input at i: behind the ones that compare smaller
\* and, for it is stable, the equal ones that were named before it.
Before(inputs, i, j) ==
  LET a == Rank(inputs[i].target)
      b == Rank(inputs[j].target) IN a < b \/ (a = b /\ i < j)

Place(inputs, i) ==
  Cardinality({j \in DOMAIN inputs : Before(inputs, j, i)}) + 1

\* The inputs in the order of compareReviewTargets.
Ordered(inputs) ==
  [k \in DOMAIN inputs |->
     inputs[CHOOSE i \in DOMAIN inputs : Place(inputs, i) = k]]

\* Each target is joined with the graph the targets before it left: the graph
\* after the first k of them.
OverlaidInTurn(g, ordered) ==
  LET after[k \in 0..Len(ordered)] ==
        IF k = 0 THEN g ELSE Overlaid(after[k - 1], ordered[k])
  IN  after

Composed(g, inputs) ==
  LET ordered == Ordered(inputs)
      after == OverlaidInTurn(g, ordered)
  IN  [graph |-> after[Len(ordered)],
       report |-> [k \in DOMAIN ordered |->
         [target |-> ordered[k].target,
          outcome |-> InputOutcome(after[k - 1], ordered[k])]]]

--------------------------------------------------------------------------------
(* The publication gate: project *)

\* Broken: only a rejection keeps a value from being published.
PublishableUnlessRejected(e, requireApproved) ==
  /\ e.confidence \in {"high", "medium"}
  /\ e.evidenceCount > 0
  /\ ~e.hasConflict
  /\ IF requireApproved THEN e.reviewState = "approved"
     ELSE e.reviewState # "rejected"
  /\ e.containsAiEvidence => e.reviewState = "approved"

PublishableMetadata(e, requireApproved) ==
  /\ e.confidence \in {"high", "medium"}
  /\ e.evidenceCount > 0
  /\ ~e.hasConflict
  /\ IF requireApproved THEN e.reviewState = "approved"
     ELSE e.reviewState \notin {"rejected", "needs_more_evidence"}
  /\ e.containsAiEvidence => e.reviewState = "approved"

KnownValue(e) == e.state = "known" /\ e.value # "invalid"

PublishableValue(e) == KnownValue(e) /\ PublishableMetadata(e, FALSE)
ApprovedValue(e) == KnownValue(e) /\ PublishableMetadata(e, TRUE)
PublishableUnknown(e) == e.state = "unknown" /\ PublishableMetadata(e, TRUE)

\* publishableClassification: its normalizer and registry must be on record.
ClassifiedAs(e, kinds) ==
  /\ ApprovedValue(e)
  /\ e.value \in kinds
  /\ "none" \notin {e.normalizer, e.registry}

Facet(e) ==
  IF PublishableValue(e) THEN "known"
  ELSE IF PublishableUnknown(e) THEN "unknown"
  ELSE "none"

ScenarioKinds ==
  {"scenario_single", "scenario_collection", "mixed_scenario_and_material"}

FacetFields == {"player_count", "edition", "play_time_minutes", "modality"}

\* Why scenario s of g is not shown, or "published".  The product's times
\* come from the database and are always valid dates.
Projection(g, s) ==
  LET of(field) == g.envelopes[<<g.product, field>>]
      its(field) == g.envelopes[<<s, field>>]
  IN  IF s \in g.onHold THEN "hold_or_missing_product"
      ELSE IF ~ApprovedValue(of("all_ages")) THEN "all_ages"
      ELSE IF ~ApprovedValue(of("sales_state")) THEN "sales_state_evidence"
      ELSE IF of("sales_state").value = "sales_ended" THEN "sales_ended"
      ELSE IF \/ <<g.product, "classification">> \notin DOMAIN g.envelopes
              \/ ~ClassifiedAs(of("classification"), ScenarioKinds)
        THEN "classification"
      ELSE IF s \notin g.separated \/ ~PublishableValue(its("title"))
        THEN "required_core"
      ELSE IF \E f \in FacetFields : Facet(its(f)) = "none"
        THEN "facet_evidence"
      ELSE "published"

Published(g) == {s \in g.scenarios : Projection(g, s) = "published"}
================================================================================

----------------------------- MODULE MCReviewedRead ----------------------------
(* ReviewedRead for TLC: one product with one scenario whose classification *)
(* and title are saved unreviewed and everything else is publishable.  The  *)
(* scenario is shown once its classification is approved, unless its title  *)
(* is excluded.                                                             *)
EXTENDS ReviewedRead

CONSTANTS p1, s1

Version(r) == [content |-> "c1", normalizer |-> "n1", registry |-> r]
V1 == Version("r1")
V2 == Version("r2")

MCVersions == {V1, V2}

TargetOn(e, f, v) == [product |-> p1, entity |-> e, field |-> f, version |-> v]

Classification == TargetOn(p1, "classification", V1)
Title == TargetOn(s1, "title", V1)
NewerTitle == TargetOn(s1, "title", V2)

\* Two fields, asked for in either order, alone or not at all.
TwoFields == {Classification, Title}
TwoFieldLists ==
  {<<>>, <<Title>>, <<Title, Classification>>, <<Classification, Title>>}

\* One field, for the liveness run.
OneField == {Title}
OneFieldLists == {<<Title>>}

\* One field under two registry versions, beside an approved classification.
TwoVersions == {Title, NewerTitle}
TwoVersionLists == {<<NewerTitle, Title>>}

MCRank(t) ==
  CASE t = Classification -> 1 [] t = Title -> 2 [] t = NewerTitle -> 3

\* The evidence the reviewer saw, and evidence of an earlier confidence.
Seen(confidence) ==
  [evidencedState |-> "known", confidence |-> confidence,
   initialReviewState |-> "unreviewed", evidenceCount |-> 1,
   hasConflict |-> FALSE, holdReason |-> "none", containsAiEvidence |-> FALSE]

MCSnapshots == {Seen("high")}

Saved(reviewState, value, normalizer, registry) ==
  [state |-> "known", confidence |-> "high", reviewState |-> reviewState,
   evidenceCount |-> 1, hasConflict |-> FALSE, holdReason |-> "none",
   containsAiEvidence |-> FALSE, content |-> "c1",
   normalizer |-> normalizer, registry |-> registry, value |-> value]

MCStored ==
  [slot \in ({p1} \X ProductFields) \union ({s1} \X ScenarioFields) |->
     CASE slot[2] = "classification" ->
            Saved("unreviewed", "scenario_single", "n1", "r1")
       [] slot[2] = "title" -> Saved("unreviewed", "valid", "none", "none")
       [] OTHER -> Saved("approved", "valid", "none", "none")]

\* The same product with its classification already approved.
MCClassified ==
  [MCStored EXCEPT ![<<p1, "classification">>].reviewState = "approved"]

MCColumnSets == {Columns}
MCGraphTimes == {<<1, 1>>}
================================================================================

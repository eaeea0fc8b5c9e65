--------------------------- MODULE MCReviewLifecycle ---------------------------
(* ReviewLifecycle for TLC: two versions of one scenario field.  The        *)
(* scenario may be saved under p1, which the targets name, or under p2,     *)
(* which makes every target of this instance a target of a foreign entity.  *)
EXTENDS ReviewLifecycle

CONSTANTS p1, p2, s1, title, v1, v2

MCTargets == [product: {p1}, entity: {s1}, field: {title}, version: {v1, v2}]

Evidence(state, confidence, count, hold, ai) ==
  [evidencedState |-> state, confidence |-> confidence,
   initialReviewState |-> "unreviewed", evidenceCount |-> count,
   hasConflict |-> FALSE, holdReason |-> hold, containsAiEvidence |-> ai]

\* Approvable on request only, approvable AI candidate, no evidence, held,
\* and a malformed snapshot: a hold without a reason.
MCSnapshots ==
  {Evidence("known", "high", 1, "none", FALSE),
   Evidence("known", "high", 1, "none", TRUE),
   Evidence("known", "medium", 0, "none", FALSE),
   Evidence("hold", "high", 1, "hold_source", FALSE),
   Evidence("hold", "high", 1, "none", FALSE)}
================================================================================

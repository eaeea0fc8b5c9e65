--------------------------- MODULE ReviewDisposition ---------------------------
(***************************************************************************)
(* What the review queue promises its callers, with none of its rows: each *)
(* exact review target (product, entity, field, version) passes forward    *)
(* through none -> pending -> one verdict -> one effective outcome, the    *)
(* outcome is the one its verdict stands for, and a verdict is "approved"  *)
(* only for a target whose recorded evidence can carry an approval.        *)
(***************************************************************************)
CONSTANT Targets  \* the exact review targets

VARIABLES
  claim,     \* claim[t]: what the evidence recorded when t was opened allows
  verdict,   \* verdict[t]: the final decision on t, if any
  effective  \* effective[t]: the outcome readers of t may see, if any

dispositionVars == <<claim, verdict, effective>>

Verdicts == {"approved", "rejected", "needs_more_evidence"}

Outcome(v) ==
  CASE v = "approved"            -> "approved"
    [] v = "rejected"            -> "excluded_rejected"
    [] v = "needs_more_evidence" -> "excluded_needs_more_evidence"

DispositionInit ==
  /\ claim = [t \in Targets |-> "none"]
  /\ verdict = [t \in Targets |-> "none"]
  /\ effective = [t \in Targets |-> "none"]

\* A target enters the queue; its evidence is fixed from here on.
Submit(t, evidence) ==
  /\ claim[t] = "none"
  /\ claim' = [claim EXCEPT ![t] = evidence]
  /\ UNCHANGED <<verdict, effective>>

\* The one decision on a pending target.
Settle(t, v) ==
  /\ claim[t] # "none"
  /\ verdict[t] = "none"
  /\ v = "approved" => claim[t] = "approvable"
  /\ verdict' = [verdict EXCEPT ![t] = v]
  /\ UNCHANGED <<claim, effective>>

\* The verdict becomes visible to readers, once.
TakeEffect(t) ==
  /\ verdict[t] # "none"
  /\ effective[t] = "none"
  /\ effective' = [effective EXCEPT ![t] = Outcome(verdict[t])]
  /\ UNCHANGED <<claim, verdict>>

DispositionNext ==
  \E t \in Targets :
    \/ \E evidence \in {"approvable", "blocked"} : Submit(t, evidence)
    \/ \E v \in Verdicts : Settle(t, v)
    \/ TakeEffect(t)

DispositionSpec == DispositionInit /\ [][DispositionNext]_dispositionVars
================================================================================

----------------------------- MODULE MCApiGovernor -----------------------------
(* ApiGovernor for TLC: a circuit that opens in the middle of a call, and   *)
(* a budget that runs out in the middle of one.  One response per way the   *)
(* governor goes on: success, a final refusal, a rate limit, an outage, and *)
(* an answer of no valid status.                                            *)
EXTENDS ApiGovernor

Response(status, retryAfter) ==
  [status |-> status, rateLimited |-> FALSE, retryAfter |-> retryAfter]

MCResponses ==
  {Response(200, FALSE), Response(403, FALSE), Response(403, TRUE),
   Response(502, FALSE), Response(0, FALSE)}
================================================================================

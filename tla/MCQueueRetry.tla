------------------------------ MODULE MCQueueRetry -----------------------------
(* The instance of QueueRetry that TLC checks. *)
EXTENDS QueueRetry

CONSTANTS c1, c2

\* A checkpoint is within what the first text authorizes and not the second, so
\* that it can be published until the issue is edited, or again once it is
\* edited back.
MCScopes == {{CHOOSE c \in Contents : TRUE}}

================================================================================

------------------------------ MODULE ApiGovernor ------------------------------
(***************************************************************************)
(* scripts/github_api_governor.py: GovernedGitHub makes one bounded pass   *)
(* of calls against GitHub.  A call is read_page, read_all or              *)
(* write_once_with_probe; it sends requests one at a time through _once,   *)
(* which pays for each from a budget and asks a circuit breaker first.     *)
(* Between a request and its answer time passes and others change GitHub.  *)
(*                                                                         *)
(* The effect of a write is one bit, whether what it creates is there; the *)
(* caller's effect_probe is a read_page that asks for that bit.  The fields*)
(* public_state only reports (last_failure) are left out.                  *)
(***************************************************************************)
EXTENDS Naturals, Sequences

CONSTANTS
  Limit,        \* request_limit
  MaxAttempts,  \* max_attempts of a read
  MaxPages,     \* max_pages of read_all
  Threshold,    \* failure_threshold of the circuit
  Cooldown,     \* cooldown_seconds of the circuit
  Responses,    \* what GitHub may respond with
  MaxTime,      \* the latest time of the clock
  None

ASSUME GovernorConstants ==
  /\ Limit \in Nat \ {0} /\ MaxAttempts \in Nat \ {0} /\ MaxPages \in Nat \ {0}
  /\ Threshold \in Nat \ {0} /\ Cooldown \in Nat \ {0}
  /\ MaxTime \in Nat
  /\ Responses \subseteq [status: Nat, rateLimited: BOOLEAN, retryAfter: BOOLEAN]
  /\ None \notin Nat

\* A transport returns final answers: an interim one (1xx) is not the outcome
\* of its request, and would be classified like a refusal.
ASSUME FinalAnswers == \A r \in Responses : r.status \notin 100..199

VARIABLES
  used,        \* RequestBudget.used
  failures,    \* CircuitBreaker.consecutive_failures
  openUntil,   \* CircuitBreaker.open_until
  call,        \* the call made last: "read_page", "read_all", "write", "none"
  pc,          \* what it is doing, "idle" when it has returned
  attempt,     \* of the current read_page
  page,        \* of read_all
  flight,      \* when the request awaiting its answer was sent, or None
  caught,      \* the failure of the write, while its effect is probed
  answer,      \* what the call returned, or the kind it raised
  now,         \* the clock
  effect,      \* is the written thing there?
  pending,     \* may the write of this call still take effect?
  sent, spent, \* (history) write requests and all requests of this call
  seen,        \* (history) was the effect there at some time of this call?
  verdict,     \* (history) what the last probe of this call found
  streak       \* (history) when the last Threshold requests that failed
               \* retryably since a success were sent

circuit == <<failures, openUntil>>
progress == <<call, pc, attempt, page, flight, caught, answer, verdict>>
world == <<now, effect, pending, seen>>
counts == <<used, sent, spent>>
vars == <<circuit, progress, world, counts, streak>>

Calls == {"read_page", "read_all", "write"}
Probes == {"probe_first", "probe_recover", "probe_after"}
Retryable ==
  {"primary-rate-limit", "secondary-rate-limit", "transport", "platform-outage"}
Failures ==
  Retryable \union {"authentication", "permission", "malformed-response",
    "incomplete-pagination", "request-budget-exhausted", "circuit-open",
    "ambiguous-write"}
Proven == {"already-present", "created", "recovered-after-uncertain-write"}
Answers == Failures \union Proven \union {"none", "response", "values"}

TypeOK ==
  /\ used \in 0..Limit
  /\ failures \in Nat
  /\ openUntil \in Nat \union {None}
  /\ call \in Calls \union {"none"}
  /\ pc \in {"idle", "read_page", "read_all", "write"} \union Probes
  /\ attempt \in 1..MaxAttempts
  /\ page \in 1..MaxPages
  /\ flight \in Nat \union {None}
  /\ caught \in Failures \union {"none"}
  /\ answer \in Answers
  /\ now \in Nat
  /\ effect \in BOOLEAN /\ pending \in BOOLEAN /\ seen \in BOOLEAN
  /\ sent \in Nat /\ spent \in Nat
  /\ verdict \in {"none", "present", "absent", "raised"}
  /\ streak \in Seq(Nat)

Init ==
  /\ used = 0 /\ failures = 0 /\ openUntil = None
  /\ call = "none" /\ pc = "idle" /\ attempt = 1 /\ page = 1
  /\ flight = None /\ caught = "none" /\ answer = "none"
  /\ now = 0 /\ effect \in BOOLEAN /\ pending = FALSE
  /\ sent = 0 /\ spent = 0 /\ seen = effect /\ verdict = "none"
  /\ streak = <<>>

--------------------------------------------------------------------------------
(* The circuit breaker and the classification of responses *)

CircuitOpen == openUntil # None /\ now < openUntil

\* require_closed after the cooldown: every failure is forgotten.
RequireClosed ==
  /\ ~CircuitOpen
  /\ openUntil' = None
  /\ failures' = IF openUntil = None THEN failures ELSE 0

RecordSuccess == failures' = 0 /\ openUntil' = None /\ streak' = <<>>

Latest(times) ==
  IF Len(times) > Threshold THEN Tail(times) ELSE times

\* Broken: the circuit opens one failure late.
OpensAbove(count) == count > Threshold

Opens(count) == count >= Threshold

\* The cooldown counts from the time the failed request was sent.
RecordRetryableFailure ==
  /\ failures' = failures + 1
  /\ openUntil' = IF Opens(failures + 1) THEN flight + Cooldown ELSE openUntil
  /\ streak' = Latest(Append(streak, flight))

ClassifyResponse(r) ==
  CASE r.status \notin 100..599 -> "malformed-response"
    [] r.status \in 200..299 -> "success"
    [] r.status = 401 -> "authentication"
    [] r.status = 403 /\ r.rateLimited -> "primary-rate-limit"
    [] r.status = 403 /\ ~r.rateLimited /\ r.retryAfter -> "secondary-rate-limit"
    [] r.status = 429 -> "secondary-rate-limit"
    [] r.status \in 500..599 -> "platform-outage"
    [] OTHER -> "permission"

--------------------------------------------------------------------------------
(* How a call goes on *)

\* A call begins; nothing of an earlier one is left but what others may do.
Begin(c, first) ==
  /\ pc = "idle"
  /\ call' = c /\ pc' = first /\ attempt' = 1 /\ page' = 1
  /\ flight' = None /\ caught' = "none" /\ answer' = "none" /\ verdict' = "none"
  /\ pending' = FALSE /\ seen' = effect
  /\ sent' = 0 /\ spent' = 0
  /\ UNCHANGED <<circuit, used, now, effect, streak>>

ReadPage == Begin("read_page", "read_page")
ReadAll == Begin("read_all", "read_all")
WriteOnceWithProbe == Begin("write", "probe_first")

GoesOnTo(next) ==
  /\ pc' = next /\ attempt' = 1 /\ flight' = None
  /\ UNCHANGED <<call, page, answer>>

Returns(result) ==
  /\ pc' = "idle" /\ answer' = result /\ flight' = None
  /\ UNCHANGED <<call, attempt, page, caught>>

\* Broken: a read is tried once more than allowed.
RetriesOnceMore(kind) == kind \in Retryable /\ attempt <= MaxAttempts

Retries(kind) == kind \in Retryable /\ attempt < MaxAttempts

ReadAgain ==
  /\ attempt' = attempt + 1 /\ flight' = None
  /\ UNCHANGED <<call, pc, page, caught, answer, verdict>>

\* Broken: the write is sent again like a read.
WriteFailsLikeARead(kind) ==
  IF Retries(kind) THEN ReadAgain
  ELSE caught' = kind /\ GoesOnTo("probe_recover") /\ UNCHANGED verdict

\* The write is never retried: whatever failed, its effect is probed.
WriteFails(kind) ==
  caught' = kind /\ GoesOnTo("probe_recover") /\ UNCHANGED verdict

\* _once raised this kind.  A probe that raises ends the write with it.
Fails(kind) ==
  IF pc = "write" THEN WriteFails(kind)
  ELSE IF Retries(kind) THEN ReadAgain
  ELSE /\ Returns(kind)
       /\ verdict' = IF pc \in Probes THEN "raised" ELSE verdict

\* Broken: a failure is uncertain only when there was no response.
AmbiguousWithoutResponse(kind) == kind = "transport"

Ambiguous(kind) == kind \in Retryable

\* The probe answers whether the effect is there.
ProbeFinds(present) ==
  /\ verdict' = IF present THEN "present" ELSE "absent"
  /\ \/ /\ pc = "probe_first" /\ present
        /\ Returns("already-present")
     \/ /\ pc = "probe_first" /\ ~present
        /\ GoesOnTo("write") /\ UNCHANGED caught
     \/ /\ pc = "probe_recover"
        /\ Returns(IF present THEN "recovered-after-uncertain-write"
                   ELSE IF Ambiguous(caught) THEN "ambiguous-write" ELSE caught)
     \/ /\ pc = "probe_after"
        /\ Returns(IF present THEN "created" ELSE "ambiguous-write")

\* Broken: the pages are not counted.
PageForgotten == page' = page /\ attempt' = 1

NextPage == page' = page + 1 /\ attempt' = 1

\* A page of read_all arrived: it is unusable, brings too many items or is
\* not the last though no further one is allowed; it is the last; or not.
PageArrives ==
  /\ \/ Returns("malformed-response")
     \/ Returns("incomplete-pagination")
     \/ Returns("values")
     \/ /\ page < MaxPages
        /\ NextPage /\ flight' = None
        /\ UNCHANGED <<call, pc, caught, answer>>
  /\ UNCHANGED verdict

\* Broken: a write that GitHub accepted is not looked for.
CreatedUnseen ==
  Returns("created") /\ UNCHANGED verdict

WriteAccepted ==
  GoesOnTo("probe_after") /\ UNCHANGED <<caught, verdict>>

Succeeds ==
  \/ pc = "read_page" /\ Returns("response") /\ UNCHANGED verdict
  \/ pc = "read_all" /\ PageArrives
  \/ pc \in Probes /\ ProbeFinds(effect)
  \/ pc = "write" /\ WriteAccepted

--------------------------------------------------------------------------------
(* _once *)

ToSend == pc # "idle" /\ flight = None

\* Broken: a request waits until the circuit closes.
WaitsForCircuit == ToSend /\ CircuitOpen /\ UNCHANGED vars

\* The circuit is open: nothing is sent and nothing of it changes.
RefusedByCircuit ==
  /\ ToSend /\ CircuitOpen
  /\ Fails("circuit-open")
  /\ UNCHANGED <<circuit, counts, world, streak>>

RefusedByBudget ==
  /\ ToSend /\ RequireClosed
  /\ used >= Limit
  /\ Fails("request-budget-exhausted")
  /\ UNCHANGED <<counts, world, streak>>

Send ==
  /\ ToSend /\ RequireClosed
  /\ used < Limit
  /\ used' = used + 1
  /\ spent' = spent + 1
  /\ flight' = now
  /\ sent' = IF pc = "write" THEN sent + 1 ELSE sent
  /\ pending' = (pc = "write" \/ pending)
  /\ UNCHANGED <<call, pc, attempt, page, caught, answer, verdict>>
  /\ UNCHANGED <<now, effect, seen, streak>>

\* No response: the write may have arrived, or may yet.
TransportFails ==
  /\ flight # None
  /\ RecordRetryableFailure
  /\ Fails("transport")
  /\ UNCHANGED <<counts, world>>

\* What a transport returns that is no Response is a response of a status that
\* is none, for both are classified alike.
\* GitHub settles a write by refusing it.  An answer that says it was accepted,
\* comes from a broken platform or cannot be read leaves it open.
Settles(r) == pc = "write" /\ r.status \in 300..499

Responds(r) ==
  /\ flight # None
  /\ LET kind == ClassifyResponse(r) IN
       /\ \/ kind = "success" /\ RecordSuccess /\ Succeeds
          \/ kind \in Retryable /\ RecordRetryableFailure /\ Fails(kind)
          \/ /\ kind \notin Retryable \union {"success"}
             /\ Fails(kind) /\ UNCHANGED <<circuit, streak>>
       /\ pending' = (pending /\ ~Settles(r))
  /\ UNCHANGED <<counts, now, effect, seen>>

Governor ==
  RefusedByCircuit \/ RefusedByBudget \/ Send \/ TransportFails
    \/ \E r \in Responses : Responds(r)

--------------------------------------------------------------------------------
(* Time, GitHub and its other users *)

Tick ==
  /\ now < MaxTime /\ now' = now + 1
  /\ UNCHANGED <<effect, pending, seen>>

WriteTakesEffect ==
  /\ pending /\ pending' = FALSE
  /\ effect' = TRUE /\ seen' = TRUE
  /\ UNCHANGED now

OthersChangeIt ==
  /\ effect' = ~effect /\ seen' = (seen \/ effect')
  /\ UNCHANGED <<now, pending>>

World ==
  /\ Tick \/ WriteTakesEffect \/ OthersChangeIt
  /\ UNCHANGED <<circuit, progress, counts, streak>>

Next ==
  \/ ReadPage \/ ReadAll \/ WriteOnceWithProbe
  \/ Governor
  \/ World

\* A call goes on, and each request is answered or times out in transport.
Spec == Init /\ [][Next]_vars /\ WF_vars(Governor)

--------------------------------------------------------------------------------
(* Properties *)

Written == pc = "idle" /\ call = "write"

\* A write reported as done is there: its effect was there at some time of
\* the call, and was not only accepted (write_once_with_probe).
SuccessIsProven ==
  Written /\ answer \in Proven => seen /\ verdict = "present"

\* A write is sent at most once per call whatever fails, not at all when its
\* effect was there before, and "created" stands for a write that was sent.
WriteIsSentOnce ==
  /\ sent <= 1
  /\ Written /\ answer = "already-present" => sent = 0
  /\ Written /\ answer = "created" => sent = 1

\* The caller can tell from the failure whether the write may still take effect
\* after the call, and so whether repeating it could do it twice: it may only
\* when the failure is ambiguous-write, when the answer of the write could not
\* be read, or when the probe after the write raised in its stead.
DefiniteFailureIsFinal ==
  Written /\ answer \in Failures /\ pending =>
    \/ answer \in {"ambiguous-write", "malformed-response"}
    \/ verdict = "raised" /\ sent = 1

\* The failures in a row, and the request under way behind them.
Attempts == IF flight = None THEN streak ELSE Append(streak, flight)

\* Failing requests are spaced: no request is sent behind Threshold retryable
\* failures in a row unless the circuit has been open for its whole cooldown
\* between two of them, however calls, retries and probes share it.
FailuresAreSpaced ==
  Len(Attempts) > Threshold =>
    \E k \in 1..Threshold : Attempts[k + 1] >= Attempts[k] + Cooldown

\* The most requests a call may send.
Allowance ==
  CASE call = "read_all" -> MaxPages * MaxAttempts
    [] call = "write" -> 2 * MaxAttempts + 1
    [] OTHER -> MaxAttempts

\* No call sends more requests than its retries, pages and probes allow,
\* whatever fails and whenever the circuit opens or closes.
CallIsBounded == spent <= Allowance

\* Every call returns or raises, even if the clock stands still, as the
\* default clock does: no retry, page, probe or open circuit holds it for ever.
CallsEnd == pc # "idle" ~> pc = "idle"
================================================================================

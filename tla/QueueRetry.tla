------------------------------- MODULE QueueRetry ------------------------------
(* The optional queue of one issue and its reconciler.  A queue run works on *)
(* the issue's request; when it leaves no checkpoint, the reconciler records *)
(* a retry, dispatches it, and in the end records that it stops.  Records    *)
(* are files on a branch that nothing else writes; runs are GitHub's, which  *)
(* may be late in listing one.  The reconciler may die between any two of    *)
(* its steps, and is told of a completed run at most once.                   *)
(* Source: scripts/queue_retry_identity.py, queue_failure_classifier.py,     *)
(* queue_event_guard.py and the workflows ci-reconcile.yml, claude-queue.yml.*)
(*                                                                           *)
(* A request is what request_fingerprint hashes: the issue's text with its   *)
(* trigger, and the head of the default branch.  Only what differs in the    *)
(* control is told apart among failure classes: those that are retried       *)
(* ("unknown" stands for them) and those that are not ("auth_secret").       *)
EXTENDS Integers, Sequences

CONSTANTS
  Contents,    \* what the issue and its trigger may say
  Scopes,      \* the sets of them that may authorize what a checkpoint changes
  MaxBase,     \* bound on the heads of the default branch, 1..MaxBase in order
  MaxRetries,  \* max_retries
  MaxChanges,  \* bound on what people change, by weight
  MaxFaults,   \* bound on how often the reconciler dies or a run is listed late
  None

ASSUME QueueAssumption ==
  /\ Contents # {}
  /\ Scopes \subseteq SUBSET Contents
  /\ MaxRetries \in Nat /\ MaxChanges \in Nat /\ MaxFaults \in Nat
  /\ MaxBase \in Nat \ {0}

VARIABLES
  content, base,  \* the request as it stands
  candidate,      \* whether a pull request for the issue is open
  runs,           \* the queue runs, in the order they were asked for
  records,        \* request |-> the failure classes of its retry records
  stop,           \* request |-> None, "internal-stop" or "exhausted"
  event,          \* the completion that waits to be reconciled: [run, class]
  reconciler,     \* [phase, request, class, attempt, checkpoint]
  changes, faults

issueVars == <<content, base, candidate>>
store == <<records, stop>>
vars == <<issueVars, runs, store, event, reconciler, changes, faults>>

Bases == 1..MaxBase
Requests == [content : Contents, base : Bases]
Request == [content |-> content, base |-> base]

Classes == {"unknown", "auth_secret"}
Retryable == {"unknown"}

--------------------------------------------------------------------------------
(* Runs *)

\* `head` is the head of the default branch when the run was asked for, and
\* `artifact` None or the texts of the issue that authorize what the checkpoint
\* changes: none of them when it is unsound or its patch does not apply.
\* `seen` is whether the list of runs has the run: "at once" when it was asked
\* for, "late" or "not yet".
QueueRun(q, attempt) ==
  [request |-> q, attempt |-> attempt, head |-> base, state |-> "queued",
   artifact |-> None, seen |-> "at once"]

Listed == {i \in DOMAIN runs : runs[i].seen # "not yet"}

Unfinished == {i \in DOMAIN runs : runs[i].state # "completed"}

ActiveRuns == Listed \intersect Unfinished

\* Broken: a completed run no longer counts.
ActiveRetryRuns(q, attempt) ==
  {i \in ActiveRuns : /\ runs[i].request = q /\ runs[i].attempt = attempt
                      /\ runs[i].head = q.base}

\* The runs that are the dispatch of a recorded attempt.
ExactRetryRuns(q, attempt) ==
  {i \in Listed : /\ runs[i].request = q /\ runs[i].attempt = attempt
                  /\ runs[i].head = q.base}

\* The completed runs whose checkpoint fits the head `b`.
Checkpoints(b) ==
  {i \in Listed : runs[i].artifact # None /\ runs[i].head = b}

\* Broken: one retry too many.
ShouldRetryInclusive(class, retries) == retries <= MaxRetries /\ class \in Retryable

ShouldAutoRetry(class, retries) == retries < MaxRetries /\ class \in Retryable

Idle ==
  [phase |-> "idle", request |-> None, class |-> None, attempt |-> 0,
   checkpoint |-> None]

NoEvent == [run |-> 0, class |-> None]

Init ==
  /\ content = CHOOSE c \in Contents : TRUE  \* one text is as good as another
  /\ base = 1
  /\ candidate = FALSE
  \* The owner's comment starts a run; a trigger in the issue's body does not.
  /\ runs \in {<<>>, <<QueueRun(Request, 0)>>}
  /\ records = [q \in Requests |-> <<>>]
  /\ stop = [q \in Requests |-> None]
  /\ event = NoEvent
  /\ reconciler = Idle
  /\ changes = 0 /\ faults = 0

--------------------------------------------------------------------------------
(* A queue run (external, but for its guard) *)

\* The guard of an automated retry: the request is still the one it was
\* dispatched for, and its record is there and calls for it.
Admitted(run) ==
  \/ run.attempt = 0
  \/ /\ run.request = Request
     /\ stop[run.request] = None
     /\ run.attempt \in DOMAIN records[run.request]
     /\ ShouldAutoRetry(records[run.request][run.attempt], run.attempt - 1)

\* The completion replaces one that still waits in the concurrency group.
Completes(i, class, artifact) ==
  /\ runs' = [runs EXCEPT ![i] = [@ EXCEPT !.state = "completed", !.artifact = artifact]]
  /\ event' = [run |-> i, class |-> class]
  /\ UNCHANGED <<issueVars, store, reconciler, changes, faults>>

\* The guard of a run whose turn it is; a run that is not admitted succeeds
\* and has done nothing, which is classified unknown.
Prepare(i) ==
  /\ runs[i].state = "queued"
  /\ \A j \in Unfinished : runs[j].state # "working" /\ j >= i
  /\ IF Admitted(runs[i])
     THEN /\ runs' = [runs EXCEPT ![i].state = "working"]
          /\ UNCHANGED <<issueVars, store, event, reconciler, changes, faults>>
     ELSE Completes(i, "unknown", None)

\* A queued run gives way to a later one of the same issue.
Superseded(i) ==
  /\ runs[i].state = "queued"
  /\ \E j \in Unfinished : j > i
  /\ Completes(i, "unknown", None)

Finish(i) ==
  /\ runs[i].state = "working"
  /\ \E class \in Classes, artifact \in {None} \union Scopes :
       Completes(i, class, artifact)

\* GitHub deletes an artifact when its retention ends.
Expire(i) ==
  /\ runs[i].artifact # None
  /\ runs' = [runs EXCEPT ![i].artifact = None]
  /\ UNCHANGED <<issueVars, store, event, reconciler, changes, faults>>

\* The list of runs catches up.
List(i) ==
  /\ runs[i].seen = "not yet"
  /\ runs' = [runs EXCEPT ![i].seen = "late"]
  /\ UNCHANGED <<issueVars, store, event, reconciler, changes, faults>>

\* A run is asked for, and listed at once or not.
Ask(q, attempt) ==
  \/ runs' = Append(runs, QueueRun(q, attempt)) /\ UNCHANGED faults
  \/ /\ faults < MaxFaults
     /\ faults' = faults + 1
     /\ runs' = Append(runs, [QueueRun(q, attempt) EXCEPT !.seen = "not yet"])

--------------------------------------------------------------------------------
(* The reconciler: one at a time, by its concurrency group *)

Goes(next) ==
  /\ reconciler' = next
  /\ UNCHANGED <<issueVars, changes>>

Judge(class) ==
  [phase |-> "judge", request |-> Request, class |-> class, attempt |-> 0,
   checkpoint |-> None]

\* The artifact is downloaded, and the issue as it is now is what it is held to.
PublishOf(i) ==
  [phase |-> "publish", request |-> None, class |-> None, attempt |-> 0,
   checkpoint |-> [head |-> runs[i].head, authorized |-> content \in runs[i].artifact]]

\* The completion of a run: publish its checkpoint or judge its failure.
BeginCompleted ==
  /\ reconciler.phase = "idle"
  /\ event # NoEvent
  /\ event' = NoEvent
  /\ Goes(CASE runs[event.run].artifact # None -> PublishOf(event.run)
            [] runs[event.run].artifact = None /\ ~candidate -> Judge(event.class)
            [] OTHER -> Idle)
  /\ UNCHANGED <<runs, store, faults>>

\* The hourly scan, which leaves a busy queue alone, or the owner's control
\* comment: publish the latest checkpoint, or go on as after an unknown failure.
BeginScan(control) ==
  /\ reconciler.phase = "idle"
  /\ control \/ ActiveRuns = {}
  /\ ~candidate
  /\ Goes(LET found == Checkpoints(base) IN
          IF found = {} THEN Judge("unknown")
          ELSE PublishOf(CHOOSE i \in found : \A j \in found : j <= i))
  /\ UNCHANGED <<runs, store, event, faults>>

\* verify_artifact and publish_artifact raise, or leave an open pull request as
\* it is, unless the checkpoint is sound, within what the issue authorizes and
\* based on the head of the default branch, and no candidate is open.
Publish ==
  /\ reconciler.phase = "publish"
  /\ candidate' = \/ candidate
                   \/ /\ reconciler.checkpoint.authorized
                      /\ reconciler.checkpoint.head = base
  /\ reconciler' = Idle
  /\ UNCHANGED <<content, base, runs, store, event, changes, faults>>

--------------------------------------------------------------------------------
(* dispatch_retry *)

request == reconciler.request
recorded == records[request]

\* The recorded attempts of which no run is known.
Undispatched == {n \in DOMAIN recorded : ExactRetryRuns(request, n) = {}}

\* exact_retry_runs and stranded_retry_attempt raise.
EvidenceIsBroken ==
  \/ \E n \in DOMAIN recorded :
       \E i, j \in ExactRetryRuns(request, n) : i # j
  \/ \E n \in Undispatched : n # Len(recorded)

Recheck(attempt) == [reconciler EXCEPT !.phase = "recheck", !.attempt = attempt]

\* Broken: nobody looks whether the request was stopped.
WasStoppedIgnored(q) == FALSE

WasStopped(q) == stop[q] # None

\* Broken: a recorded attempt is left to whoever recorded it.
ResumeStrandedLater ==
  /\ reconciler.phase = "judge"
  /\ ~WasStopped(request) /\ ~EvidenceIsBroken
  /\ Undispatched # {}
  /\ Goes(Idle)
  /\ UNCHANGED <<runs, store, event, faults>>

\* A retry that was recorded and not dispatched comes first.
ResumeStranded ==
  /\ reconciler.phase = "judge"
  /\ ~WasStopped(request) /\ ~EvidenceIsBroken
  /\ Undispatched # {}
  /\ Goes(Recheck(Len(recorded)))
  /\ UNCHANGED <<runs, store, event, faults>>

CanRecord ==
  /\ reconciler.phase = "judge"
  /\ ~WasStopped(request) /\ ~EvidenceIsBroken
  /\ Undispatched = {}
  /\ ActiveRuns = {} /\ ~candidate

\* The retry is recorded before it is dispatched.
RecordRetry ==
  /\ CanRecord
  /\ ShouldAutoRetry(reconciler.class, Len(recorded))
  /\ records' = [records EXCEPT ![request] = Append(@, reconciler.class)]
  /\ Goes(Recheck(Len(recorded) + 1))
  /\ UNCHANGED <<runs, stop, event, faults>>

RecordStop ==
  /\ CanRecord
  /\ ~ShouldAutoRetry(reconciler.class, Len(recorded))
  /\ stop' = [stop EXCEPT ![request] =
                IF Len(recorded) >= MaxRetries THEN "exhausted" ELSE "internal-stop"]
  /\ Goes(Idle)
  /\ UNCHANGED <<runs, records, event, faults>>

\* Every other case of dispatch_retry returns false or raises.
LeaveAlone ==
  /\ reconciler.phase = "judge"
  /\ \/ WasStopped(request) \/ EvidenceIsBroken
     \/ Undispatched = {} /\ (ActiveRuns # {} \/ candidate)
  /\ Goes(Idle)
  /\ UNCHANGED <<runs, store, event, faults>>

\* The last look before the dispatch.
CheckAgain ==
  /\ reconciler.phase = "recheck"
  /\ Goes(IF /\ ExactRetryRuns(request, reconciler.attempt) = {}
             /\ base = request.base /\ ~candidate /\ ActiveRuns = {}
          THEN [reconciler EXCEPT !.phase = "dispatch"] ELSE Idle)
  /\ UNCHANGED <<runs, store, event, faults>>

\* confirm_retry_run raises when it does not find the run in the list; the run
\* is there all the same.
Dispatch ==
  /\ reconciler.phase = "dispatch"
  /\ Ask(request, reconciler.attempt)
  /\ Goes(Idle)
  /\ UNCHANGED <<store, event>>

\* The reconciler dies; what it recorded and dispatched stays.
Crash ==
  /\ reconciler.phase # "idle"
  /\ faults < MaxFaults
  /\ faults' = faults + 1
  /\ reconciler' = Idle
  /\ UNCHANGED <<issueVars, runs, store, event, changes>>

--------------------------------------------------------------------------------
(* People *)

\* What is done by people is bounded by its weight: an edit weighs one, anything
\* else two, so that an edit can be taken back where no more than one of the
\* others can happen.
Change(weight) ==
  /\ changes + weight <= MaxChanges
  /\ changes' = changes + weight
  /\ UNCHANGED <<store, event, reconciler>>

\* The issue is edited, or edited back.
Edit(c) ==
  /\ c # content
  /\ content' = c
  /\ Change(1)
  /\ UNCHANGED <<base, candidate, runs, faults>>

\* The owner triggers anew: another request, and a run of its own.
Trigger(c) ==
  /\ c # content
  /\ content' = c
  /\ Ask([content |-> c, base |-> base], 0)
  /\ Change(2)
  /\ UNCHANGED <<base, candidate>>

MoveBase ==
  /\ base + 1 \in Bases
  /\ base' = base + 1
  /\ Change(2)
  /\ UNCHANGED <<content, candidate, runs, faults>>

\* A pull request for the issue is opened or closed by someone.
TurnCandidate ==
  /\ candidate' = ~candidate
  /\ Change(2)
  /\ UNCHANGED <<content, base, runs, faults>>

\* The completion of a run is pushed out by another workflow's.
LoseEvent ==
  /\ event # NoEvent
  /\ event' = NoEvent
  /\ UNCHANGED <<issueVars, runs, store, reconciler, changes, faults>>

--------------------------------------------------------------------------------
Scan == \E control \in BOOLEAN : BeginScan(control)

DispatchRetry ==
  ResumeStranded \/ RecordRetry \/ RecordStop \/ LeaveAlone \/ CheckAgain \/ Dispatch

QueueRuns ==
  \E i \in DOMAIN runs : Prepare(i) \/ Finish(i)

Upkeep == \E i \in DOMAIN runs : Expire(i) \/ List(i)

Next ==
  \/ QueueRuns
  \/ \E i \in DOMAIN runs : Superseded(i)
  \/ Upkeep
  \/ BeginCompleted \/ Scan \/ Publish \/ DispatchRetry \/ Crash
  \/ \E c \in Contents : Edit(c) \/ Trigger(c)
  \/ MoveBase \/ TurnCandidate \/ LoseEvent

\* The scan is scheduled every hour, a job that has begun goes on or dies, and
\* GitHub starts and ends the runs it was given, lists them in the end and keeps
\* no artifact for ever.  Nothing makes the completion of a run arrive.
Spec ==
  /\ Init /\ [][Next]_vars
  /\ WF_vars(QueueRuns) /\ WF_vars(Upkeep)
  /\ WF_vars(BeginScan(FALSE)) /\ WF_vars(Publish \/ DispatchRetry)

--------------------------------------------------------------------------------
(* Properties *)

\* The types; validate_retry_records bounds the records of a request.
TypeOK ==
  /\ Request \in Requests
  /\ candidate \in BOOLEAN
  /\ \A i \in DOMAIN runs :
       /\ runs[i].request \in Requests /\ runs[i].head \in Bases
       /\ runs[i].attempt \in 0..MaxRetries
       /\ runs[i].state \in {"queued", "working", "completed"}
       /\ runs[i].seen \in {"at once", "late", "not yet"}
       /\ runs[i].artifact # None =>
            runs[i].state = "completed" /\ runs[i].artifact \subseteq Contents
  /\ \A q \in Requests :
       /\ records[q] \in Seq(Retryable) /\ Len(records[q]) <= MaxRetries
       /\ stop[q] \in {None, "internal-stop", "exhausted"}
  /\ \/ event = NoEvent
     \/ event.run \in DOMAIN runs /\ event.class \in Classes
  /\ reconciler.phase \in {"idle", "publish", "judge", "recheck", "dispatch"}
  /\ reconciler.attempt \in 0..MaxRetries
  /\ reconciler.phase \notin {"idle", "publish"} => request \in Requests
  /\ reconciler.phase = "publish" =>
       reconciler.checkpoint \in [head : Bases, authorized : BOOLEAN]
  /\ changes \in 0..MaxChanges /\ faults \in 0..MaxFaults

\* No run was dispatched without its record, whatever dies, changes or is lost,
\* and none for a record that has a run, but for one that was not in the list
\* when it was dispatched: confirm_retry_run raises then, and a later
\* reconciliation takes the record for a stranded one.
OneRunPerAttempt ==
  \A i \in DOMAIN runs : runs[i].attempt > 0 =>
    /\ runs[i].attempt \in DOMAIN records[runs[i].request]
    /\ \A j \in DOMAIN runs :
         /\ runs[j].request = runs[i].request /\ runs[j].attempt = runs[i].attempt
         /\ i < j
         => runs[i].seen # "at once"

\* A request that was stopped stays as it is: no retry of it is recorded or
\* dispatched afterwards, even if the issue is edited away from it and back.
StopIsFinal ==
  [][\A q \in Requests : stop[q] # None =>
       /\ stop'[q] = stop[q] /\ records'[q] = records[q]
       /\ \A i \in DOMAIN runs' \ DOMAIN runs :
            runs'[i].request = q => runs'[i].attempt = 0]_vars

Settled == candidate \/ stop[Request] # None

\* The evidence that exact_retry_runs refuses.
RunTwice(q) ==
  \E i, j \in DOMAIN runs :
    /\ i # j /\ runs[i].request = q /\ runs[j].request = q
    /\ runs[i].attempt = runs[j].attempt /\ runs[i].attempt > 0

\* A request that is left alone comes to a candidate or a stop record, though
\* the reconciler dies, though no completion ever reaches it, though a checkpoint
\* that cannot be published stops every scan while it lasts, and whatever of an
\* earlier request is still under way.  Only a retry that was dispatched twice
\* stops all that follows.
RequestSettles == <>[](Settled \/ RunTwice(Request))

================================================================================

------------------------------- MODULE Coordinator -----------------------------
(* The coordinator supervisor: one run at a time judges a pull request from *)
(* a series of reads of GitHub, repeats the reads, and then marks a draft   *)
(* ready or merges the head it judged, while authors, reviewers, checks and *)
(* the default branch move between any two of its calls.                    *)
(* Source: scripts/github_coordinator_supervisor.py and                     *)
(* .github/workflows/supervisor.yml.  GitHub itself is external: it answers *)
(* a read with what is there and refuses a merge whose expected head is not *)
(* the pull request's.                                                      *)
(*                                                                          *)
(* One candidate is followed.  A commit's files and workflow definitions    *)
(* are constants of the commit, as they are in git; the required checks are *)
(* taken together, as one check.                                            *)
EXTENDS Integers, FiniteSets, Sequences

CONSTANTS
  Heads,           \* the commits the candidate's branch may point at
  FilesOf,         \* head |-> its changed and renamed paths
  ProtectedPaths,  \* the paths is_protected_path knows
  Others,          \* other pull requests of the repository
  OtherFiles,      \* other pull request |-> its paths
  IssueScopes,     \* the contents the source issue may have: [paths, protected]
  Amendments,      \* authorization comments of the owner on the issue
  AmendedPaths,    \* amendment |-> the paths it authorizes
  Reviews,         \* review comments that may be posted: [id, head, kind, verdict, content]
  WorkflowsOf,     \* head |-> its check workflow definitions
  BaseWorkflows,   \* <<definitions on the default branch, in the order it moves>>
  StartScopes,     \* what the issue says when a behaviour begins
  StartReviews,    \* the review comments present when a behaviour begins
  MaxChanges,      \* bound on what the others do
  MaxFailures,     \* bound on failed API calls
  None

VARIABLES
  pull,        \* the candidate: [state, head, closes, draft, hold, mergeable]
  issue,       \* the source issue: [open, updated, scope]
  amended,     \* amendment |-> "unposted", "present" or "gone"
  base,        \* how far the default branch has moved
  others,      \* the other pull requests that are open
  checks,      \* head |-> the latest run of its checks: [run, state]
  posted,      \* review |-> "unposted", "present" or "gone"
  threads,     \* "none", "open" or "resolved"
  supervisor,  \* [phase, at, marked, seen]: where the run is, whether it has
               \* marked the candidate ready, and what this evaluation has read
  changes, failures,
  \* read by the properties only:
  clean,       \* the heads that were clean at some instant of this evaluation
  moved,       \* the evidence that changed in this evaluation
  returned,    \* whether evidence other than the threads changed twice in it
  act          \* the mutation of this step: None or [what, head, clean, returned]

Identities == [state : {"open", "closed", "merged"}, head : Heads, closes : BOOLEAN]
IssueRows == [open : BOOLEAN, updated : Nat, scope : IssueScopes]
CheckRows == [run : Nat, state : {"missing", "pending", "success", "failure"}]
ThreadStates == {"none", "open", "resolved"}
EvidenceRows == [state : {"pending", "blocked", "clean", "required"},
                 markers : SUBSET Reviews, thread : ThreadStates]

ASSUME CoordinatorAssumption ==
  /\ MaxChanges \in Nat /\ MaxFailures \in Nat
  /\ StartScopes \subseteq IssueScopes
  /\ Len(BaseWorkflows) \in Nat \ {0}
  /\ DOMAIN BaseWorkflows = 1..Len(BaseWorkflows)

\* No answer of GitHub is the absence of one.
ASSUME NoneIsNoAnswer ==
  /\ None \notin Nat /\ None \notin Identities /\ None \notin IssueRows
  /\ None \notin CheckRows /\ None \notin EvidenceRows
  /\ \A S \in (SUBSET Amendments) \union (SUBSET Others) \union (SUBSET Reviews) : None # S
  /\ \A h \in Heads : None # FilesOf[h]

world == <<pull, issue, amended, base, others, checks, posted, threads>>
vars == <<world, supervisor, changes, failures, clean, moved, returned, act>>

--------------------------------------------------------------------------------
(* What the evidence says *)

Amended(present) == UNION {AmendedPaths[a] : a \in present}
ScopePaths(scope, present) == scope.paths \union Amended(present)
ScopeProtected(scope, present) == scope.protected \union Amended(present)

\* A block in the issue or an amendment, or a protected path in the scope.
Risk(scope, present) ==
  IF \/ ScopeProtected(scope, present) # {}
     \/ ScopePaths(scope, present) \cap ProtectedPaths # {}
  THEN "protected" ELSE "standard"

ScopeIsValid(scope, present) ==
  /\ scope.paths # {}
  /\ ScopePaths(scope, present) \cap ProtectedPaths
       \subseteq ScopeProtected(scope, present)

FilesAuthorized(files, scope, present) ==
  /\ files \subseteq ScopePaths(scope, present)
  /\ files \cap ProtectedPaths \subseteq ScopeProtected(scope, present)

Overlapping(open, files) == {o \in open : OtherFiles[o] \cap files # {}}

Passing == {"success", "neutral", "skipped"}

Count(comments, kind, verdict) ==
  Cardinality({r \in comments : r.kind = kind /\ r.verdict = verdict})

\* The comments whose ids count as markers: only those that say something.
Markers(comments) == {r \in comments : r.content}

\* The state of the coordinator review.  A verdict is counted before the
\* comment is looked at for content.
ReviewState(comments, thread, risk) ==
  LET cleanPasses == <<Count(comments, "scope-security", "clean"),
                       Count(comments, "correctness-race", "clean")>>
      general == Count(comments, "general", "clean")
      isClean == IF risk = "protected"
                 THEN general = 0 /\ cleanPasses = <<1, 1>>
                 ELSE general = 1 /\ cleanPasses = <<0, 0>> IN
  CASE thread = "open" -> "pending"
    [] thread # "open" /\ (\E r \in comments : r.verdict = "blocked") -> "blocked"
    [] OTHER -> IF isClean THEN "clean"
                ELSE IF Markers(comments) # {} THEN "pending" ELSE "required"

Evidence(comments, thread, risk) ==
  [state |-> ReviewState(comments, thread, risk),
   markers |-> Markers(comments), thread |-> thread]

PresentAmendments == {a \in Amendments : amended[a] = "present"}
PresentReviews(h) == {r \in Reviews : posted[r] = "present" /\ r.head = h}

--------------------------------------------------------------------------------
(* What a run reads, in the order it reads it *)

FirstPass == <<"base", "pull", "issue", "amendments", "files", "overlap",
               "checks", "comments", "threads">>
\* Broken: the second pass leaves the checks out.
SecondPassWithoutChecks ==
  <<"issue", "amendments", "base", "files", "overlap", "comments", "threads", "pull">>

SecondPass == <<"issue", "amendments", "base", "files", "overlap",
                "checks", "comments", "threads", "pull">>

Sources == {FirstPass[i] : i \in DOMAIN FirstPass}

seen == supervisor.seen

Identity(p) == [state |-> p.state, head |-> p.head, closes |-> p.closes]

SeenRisk == Risk(seen["issue"].scope, seen["amendments"])

\* What GitHub answers now.  Comments are matched to the head first read, and
\* the review is what the comments and the threads, read in turn, make of it.
Reading(source) ==
  CASE source = "base" -> base
    [] source = "pull" -> Identity(pull)
    [] source = "issue" -> issue
    [] source = "amendments" -> PresentAmendments
    [] source = "files" -> FilesOf[pull.head]
    [] source = "overlap" -> Overlapping(others, seen["files"])
    [] source = "checks" -> checks[seen["pull"].head]
    [] source = "comments" -> PresentReviews(seen["pull"].head)
    [] source = "threads" -> Evidence(seen["comments"], threads, SeenRisk)

\* Whether the first pass goes on after this answer.
Acceptable(source, answer) ==
  CASE source = "pull" ->
         /\ answer.state = "open" /\ answer.closes
    [] source = "issue" -> answer.open
    [] source = "amendments" -> ScopeIsValid(seen["issue"].scope, answer)
    [] source = "files" ->
         FilesAuthorized(answer, seen["issue"].scope, seen["amendments"])
    [] source = "overlap" ->
         /\ answer = {}
         /\ WorkflowsOf[seen["pull"].head] = BaseWorkflows[seen["base"]]
    [] source = "checks" -> answer.state \in Passing
    [] source = "threads" -> answer.state = "clean"
    [] OTHER -> TRUE

\* Whether the second pass goes on: the answer is the first one again.  The
\* comments are compared together with the threads; the last read of the pull
\* request is also the only look at its hold and its mergeability.
Unchanged(source, answer) ==
  /\ source # "comments" => answer = seen[source]
  /\ source = "pull" => pull.mergeable /\ ~pull.hold

--------------------------------------------------------------------------------
(* History for the properties *)

\* Everything the run reads twice, as it is now, is clean for head h.
CleanFor(h) ==
  /\ pull.state = "open" /\ pull.head = h /\ pull.closes
  /\ issue.open
  /\ ScopeIsValid(issue.scope, PresentAmendments)
  /\ FilesAuthorized(FilesOf[h], issue.scope, PresentAmendments)
  /\ Overlapping(others, FilesOf[h]) = {}
  /\ WorkflowsOf[h] = BaseWorkflows[base]
  /\ checks[h].state \in Passing
  /\ ReviewState(PresentReviews(h), threads, Risk(issue.scope, PresentAmendments)) = "clean"

CleanNow == {h \in Heads : CleanFor(h)}

StartHistory == clean' = CleanNow' /\ moved' = {} /\ returned' = FALSE
KeepHistory ==
  IF supervisor'.phase = "idle" THEN clean' = {} /\ moved' = {} /\ returned' = FALSE
  ELSE clean' = clean \union CleanNow' /\ UNCHANGED <<moved, returned>>

\* `sources` changed, under an evaluation in progress or not.
RecordChange(sources) ==
  IF supervisor.phase = "idle" THEN UNCHANGED <<clean, moved, returned>>
  ELSE /\ clean' = clean \union CleanNow'
       /\ returned' = (returned \/ sources \cap moved # {})
       /\ moved' = moved \union sources

--------------------------------------------------------------------------------
NothingSeen == [s \in Sources |-> None]

Idle == [phase |-> "idle", at |-> 0, marked |-> FALSE, seen |-> NothingSeen]

\* Broken: the answers of the last evaluation are kept.
FirstReadAfterLast == [supervisor EXCEPT !.phase = "first", !.at = 1]

FirstRead == [phase |-> "first", at |-> 1, marked |-> FALSE, seen |-> NothingSeen]

Init ==
  /\ \E h \in Heads, draft \in BOOLEAN :
       pull = [state |-> "open", head |-> h, closes |-> TRUE, draft |-> draft,
               hold |-> FALSE, mergeable |-> TRUE]
  /\ \E scope \in StartScopes : issue = [open |-> TRUE, updated |-> 0, scope |-> scope]
  /\ amended = [a \in Amendments |-> "unposted"]
  /\ base = 1
  /\ others = {}
  /\ checks = [h \in Heads |-> IF h = pull.head THEN [run |-> 1, state |-> "success"]
                              ELSE [run |-> 0, state |-> "missing"]]
  /\ posted \in {[r \in Reviews |-> IF r \in present THEN "present" ELSE "unposted"] :
                   present \in StartReviews}
  /\ threads \in {"none", "open"}
  /\ supervisor = Idle
  /\ changes = 0 /\ failures = 0
  /\ clean = {} /\ moved = {} /\ returned = FALSE
  /\ act = None

--------------------------------------------------------------------------------
(* The supervisor *)

Step(next) == supervisor' = next /\ UNCHANGED <<world, changes, failures>>

\* Broken: a sweep passes drafts by.
StartUnlessDraft ==
  /\ supervisor.phase = "idle"
  /\ pull.state = "open" /\ ~pull.draft
  /\ Step(FirstRead)
  /\ StartHistory
  /\ act' = None

\* A sweep, or an event that names the candidate, takes it up.
Start ==
  /\ supervisor.phase = "idle"
  /\ pull.state = "open"
  /\ Step(FirstRead)
  /\ StartHistory
  /\ act' = None

AfterFirst == IF supervisor.at = Len(FirstPass)
              THEN [phase |-> "again", at |-> 1]
              ELSE [phase |-> "first", at |-> supervisor.at + 1]

\* A read of the first pass: an answer that is not acceptable ends the run.
ReadFirst ==
  /\ supervisor.phase = "first"
  /\ LET source == FirstPass[supervisor.at]
         answer == Reading(source) IN
     Step(IF Acceptable(source, answer)
          THEN [phase |-> AfterFirst.phase, at |-> AfterFirst.at,
                marked |-> supervisor.marked,
                seen |-> [seen EXCEPT ![source] = answer]]
          ELSE Idle)
  /\ KeepHistory
  /\ act' = None

\* A read of the second pass: an answer that differs ends the run, and the
\* last one decides between marking ready and merging.  A run marks ready once:
\* one that finds a draft again ends.
ReadAgain ==
  /\ supervisor.phase = "again"
  /\ LET source == SecondPass[supervisor.at]
         answer == Reading(source)
         last == supervisor.at = Len(SecondPass) IN
     Step(IF \/ ~Unchanged(source, answer)
             \/ last /\ pull.draft /\ supervisor.marked
          THEN Idle
          ELSE [phase |-> IF ~last THEN "again"
                          ELSE IF pull.draft THEN "ready" ELSE "merge",
                at |-> IF last THEN 0 ELSE supervisor.at + 1,
                marked |-> supervisor.marked,
                seen |-> [seen EXCEPT ![source] = answer]])
  /\ KeepHistory
  /\ act' = None

Record(what) ==
  act' = [what |-> what, head |-> seen["pull"].head,
          clean |-> seen["pull"].head \in clean, returned |-> returned]

\* supervise, a draft: the head is read once more, the pull request is marked
\* ready, and a whole evaluation starts over.
MarkReady ==
  /\ supervisor.phase = "ready"
  /\ IF pull.head # seen["pull"].head
     THEN /\ Step(Idle)
          /\ KeepHistory
          /\ act' = None
     ELSE /\ pull' = [pull EXCEPT !.draft = FALSE]
          /\ supervisor' = [FirstRead EXCEPT !.marked = TRUE]
          /\ UNCHANGED <<issue, amended, base, others, checks, posted, threads,
                         changes, failures>>
          /\ StartHistory
          /\ Record("ready")

\* The merge names the head that was judged; GitHub refuses any other.
Merge ==
  /\ supervisor.phase = "merge"
  /\ supervisor' = Idle
  /\ IF /\ pull.state = "open" /\ ~pull.draft /\ pull.mergeable
        /\ pull.head = seen["pull"].head
     THEN /\ pull' = [pull EXCEPT !.state = "merged"]
          /\ Record("merge")
     ELSE UNCHANGED pull /\ act' = None
  /\ UNCHANGED <<issue, amended, base, others, checks, posted, threads,
                 changes, failures>>
  /\ KeepHistory

\* A call to GitHub fails: SupervisorError, and the run ends.
Fail ==
  /\ supervisor.phase # "idle"
  /\ failures < MaxFailures
  /\ failures' = failures + 1
  /\ supervisor' = Idle
  /\ UNCHANGED <<world, changes>>
  /\ KeepHistory
  /\ act' = None

\* The call that marks ready takes effect and its answer is lost.
ReadyUnanswered ==
  /\ supervisor.phase = "ready"
  /\ pull.head = seen["pull"].head
  /\ failures < MaxFailures
  /\ failures' = failures + 1
  /\ pull' = [pull EXCEPT !.draft = FALSE]
  /\ supervisor' = Idle
  /\ UNCHANGED <<issue, amended, base, others, checks, posted, threads, changes>>
  /\ KeepHistory
  /\ Record("ready")

Supervise == Start \/ ReadFirst \/ ReadAgain \/ MarkReady \/ Merge

--------------------------------------------------------------------------------
(* Everyone else, between any two calls of the supervisor *)

\* One change by someone else, to the evidence read as `sources`.
Change(sources) ==
  /\ pull.state # "merged"
  /\ changes < MaxChanges
  /\ changes' = changes + 1
  /\ RecordChange(sources)
  /\ UNCHANGED <<supervisor, failures>>
  /\ act' = None

\* A push, forward or back; it starts the checks of that commit.
Push(h) ==
  /\ h # pull.head
  /\ pull.state = "open"
  /\ pull' = [pull EXCEPT !.head = h]
  /\ checks' = [checks EXCEPT ![h] = [run |-> @.run + 1, state |-> "pending"]]
  /\ UNCHANGED <<issue, amended, base, others, posted, threads>>
  /\ Change({"pull"})

\* The author edits the body, closes or reopens.
EditPull ==
  /\ \/ pull' = [pull EXCEPT !.closes = ~@]
     \/ pull' = [pull EXCEPT !.state = IF @ = "open" THEN "closed" ELSE "open"]
  /\ UNCHANGED <<issue, amended, base, others, checks, posted, threads>>
  /\ Change({"pull"})

\* What is read once: the draft flag, the ai-no-merge label, the conflicts.
TogglePull ==
  /\ \/ pull' = [pull EXCEPT !.draft = ~@]
     \/ pull' = [pull EXCEPT !.hold = ~@]
     \/ pull' = [pull EXCEPT !.mergeable = ~@]
  /\ UNCHANGED <<issue, amended, base, others, checks, posted, threads>>
  /\ Change({})

\* The source issue is closed, reopened or edited.
EditIssue ==
  /\ \/ issue' = [issue EXCEPT !.open = ~@, !.updated = @ + 1]
     \/ \E scope \in IssueScopes \ {issue.scope} :
          issue' = [issue EXCEPT !.scope = scope, !.updated = @ + 1]
  /\ UNCHANGED <<pull, amended, base, others, checks, posted, threads>>
  /\ Change({})

Later(state) == IF state = "unposted" THEN "present" ELSE "gone"

\* The owner posts an authorization, or deletes (or edits) it.
Amend(a) ==
  /\ amended[a] # "gone"
  /\ amended' = [amended EXCEPT ![a] = Later(@)]
  /\ UNCHANGED <<pull, issue, base, others, checks, posted, threads>>
  /\ Change({"amendments"})

\* A reviewer posts a review comment, or deletes (or edits) it.
Review(r) ==
  /\ posted[r] # "gone"
  /\ posted' = [posted EXCEPT ![r] = Later(@)]
  /\ UNCHANGED <<pull, issue, amended, base, others, checks, threads>>
  /\ Change({"comments"})

\* A review thread is opened, resolved, reopened.
TurnThread ==
  /\ threads' = IF threads = "open" THEN "resolved" ELSE "open"
  /\ UNCHANGED <<pull, issue, amended, base, others, checks, posted>>
  /\ Change({})

MoveBase ==
  /\ base < Len(BaseWorkflows)
  /\ base' = base + 1
  /\ UNCHANGED <<pull, issue, amended, others, checks, posted, threads>>
  /\ Change({})

\* Another pull request is opened or closed.
TurnOther(o) ==
  /\ others' = IF o \in others THEN others \ {o} ELSE others \union {o}
  /\ UNCHANGED <<pull, issue, amended, base, checks, posted, threads>>
  /\ Change(IF OtherFiles[o] \cap FilesOf[pull.head] # {} THEN {"overlap"} ELSE {})

\* A check of the head finishes, is run again under its id, or runs anew.
Check ==
  /\ LET h == pull.head IN
     \/ /\ checks[h].state = "pending"
        /\ \E state \in {"success", "failure"} :
             checks' = [checks EXCEPT ![h].state = state]
     \/ /\ checks[h].state # "pending"
        /\ checks' = [checks EXCEPT ![h].state = "pending"]
     \/ checks' = [checks EXCEPT ![h] = [run |-> @.run + 1, state |-> "pending"]]
  /\ UNCHANGED <<pull, issue, amended, base, others, posted, threads>>
  /\ Change({"checks"})

World ==
  \/ \E h \in Heads : Push(h)
  \/ EditPull \/ TogglePull \/ EditIssue \/ TurnThread \/ MoveBase \/ Check
  \/ \E a \in Amendments : Amend(a)
  \/ \E r \in Reviews : Review(r)
  \/ \E o \in Others : TurnOther(o)

Next == Supervise \/ Fail \/ ReadyUnanswered \/ World

\* The workflow runs on every relevant event and once an hour, so a run that
\* can go on does.  No one else is made to act.
Spec == Init /\ [][Next]_vars /\ WF_vars(Supervise)

--------------------------------------------------------------------------------
(* Properties *)

\* The types.  The seen answers are checked by what was asked for.
TypeOK ==
  /\ pull \in [state : {"open", "closed", "merged"}, head : Heads, closes : BOOLEAN,
               draft : BOOLEAN, hold : BOOLEAN, mergeable : BOOLEAN]
  /\ issue \in [open : BOOLEAN, updated : 0..MaxChanges, scope : IssueScopes]
  /\ amended \in [Amendments -> {"unposted", "present", "gone"}]
  /\ base \in DOMAIN BaseWorkflows
  /\ others \subseteq Others
  /\ \A h \in Heads : /\ checks[h].run \in 0..(MaxChanges + 1)
                      /\ checks[h].state \in {"missing", "pending", "success", "failure"}
  /\ posted \in [Reviews -> {"unposted", "present", "gone"}]
  /\ threads \in ThreadStates
  /\ supervisor.phase \in {"idle", "first", "again", "ready", "merge"}
  /\ supervisor.at \in 0..Len(FirstPass)
  /\ \A i \in DOMAIN FirstPass :
       (seen[FirstPass[i]] # None) <=>
         \/ supervisor.phase \in {"again", "ready", "merge"}
         \/ supervisor.phase = "first" /\ i < supervisor.at
  /\ changes \in 0..MaxChanges
  /\ failures \in 0..MaxFailures
  /\ act = None \/ act.head \in Heads

\* What evaluate's two passes over the evidence are for: a pull request is
\* marked ready or merged only for a head that was, at one instant of the
\* evaluation that decided it, within the scope of an open source issue, clear
\* of every other pull request, checked under the default branch's own
\* workflows and cleanly reviewed, all of it together - unless some evidence
\* other than the threads went away and came back during that evaluation, which
\* reading twice cannot see.
JudgedTogether == act # None /\ ~act.returned => act.clean

\* evaluate lets go on what is clean now and supervise merges it.
Mergeable ==
  /\ CleanFor(pull.head)
  /\ pull.mergeable /\ ~pull.hold

\* A candidate that is clean, free of a hold and of conflicts is merged unless
\* it stops being so, whatever was read while it was changing, and though a
\* run may fail or lose the answer that it was marked ready.
CleanIsMerged == Mergeable ~> (pull.state = "merged" \/ ~Mergeable)

\* docs/MINIMUM_SAFETY_PROFILE.md: an edited, stale, content-free, ... review
\* record is absent.  So what is marked ready or merged rests on a review
\* of that head that says something.
ContentFreeIsAbsent ==
  act # None => \E r \in Reviews : r.head = act.head /\ r.content /\ posted[r] # "unposted"

================================================================================

--------------------------- MODULE Coordinator_proofs --------------------------
(***************************************************************************)
(* Proofs about Coordinator for every set of commits, files, reviews,      *)
(* amendments and other pull requests, and every number of changes that    *)
(* others make while an evaluation reads.                                  *)
(***************************************************************************)
EXTENDS Coordinator, TLAPS

Phases == {"idle", "first", "again", "ready", "merge"}

\* The n-th read of the first pass was acceptable in this evaluation.
Passed(n) ==
  \/ supervisor.phase \in {"again", "ready", "merge"}
  \/ supervisor.phase = "first" /\ n < supervisor.at

\* The head that is judged.
head == seen["pull"].head

\* The kinds of what GitHub holds; its counters count the changes.
WorldShape ==
  /\ pull \in [state : {"open", "closed", "merged"}, head : Heads, closes : BOOLEAN,
               draft : BOOLEAN, hold : BOOLEAN, mergeable : BOOLEAN]
  /\ issue \in IssueRows /\ issue.updated <= changes
  /\ amended \in [Amendments -> {"unposted", "present", "gone"}]
  /\ base \in DOMAIN BaseWorkflows
  /\ others \in SUBSET Others
  /\ checks \in [Heads -> CheckRows]
  /\ \A h \in Heads : checks[h].run <= changes + 1
  /\ posted \in [Reviews -> {"unposted", "present", "gone"}]
  /\ threads \in ThreadStates
  /\ changes \in 0..MaxChanges
  /\ failures \in 0..MaxFailures

\* Where a run is in its two passes of nine reads.
RunShape ==
  /\ supervisor = [phase |-> supervisor.phase, at |-> supervisor.at,
                   marked |-> supervisor.marked, seen |-> supervisor.seen]
  /\ supervisor.phase \in Phases
  /\ supervisor.at \in 0..9
  /\ supervisor.phase \in {"first", "again"} => supervisor.at \in 1..9
  /\ seen = [s \in Sources |-> seen[s]]

Answered ==
  \A n \in 1..9 : (seen[FirstPass[n]] # None) <=> Passed(n)

\* What the answers that were let through say, and how they relate to what only
\* ever moves forward.  The comments are read again before the threads are.
Accepted ==
  /\ Passed(1) => seen["base"] \in 1..base
  /\ Passed(2) => head \in Heads /\ seen["pull"].state = "open" /\ seen["pull"].closes
  /\ Passed(3) => /\ seen["issue"].open
                  /\ seen["issue"].updated \in Nat
                  /\ seen["issue"].updated <= issue.updated
                  /\ seen["issue"].updated = issue.updated => seen["issue"] = issue
  /\ Passed(4) => ScopeIsValid(seen["issue"].scope, seen["amendments"])
  /\ Passed(5) => FilesAuthorized(seen["files"], seen["issue"].scope, seen["amendments"])
  /\ Passed(6) => seen["overlap"] = {} /\ WorkflowsOf[head] = BaseWorkflows[seen["base"]]
  /\ Passed(7) => seen["checks"].state \in Passing
  /\ Passed(8) => seen["comments"] \in SUBSET Reviews
  /\ Passed(9) => seen["threads"].state = "clean"
  /\ supervisor.phase = "again" /\ supervisor.at <= 7 =>
       ReviewState(seen["comments"], seen["threads"].thread, SeenRisk) = "clean"

\* The pull request is not what the run has read.
Away == Identity(pull) # seen["pull"]

\* Evidence that is not what was read has changed since; while the pull request
\* is away nothing is said of the rest, since it has to come back.
Tracked ==
  Passed(2) /\ ~returned =>
    /\ Away => "pull" \in moved
    /\ ~Away =>
      /\ Passed(4) /\ PresentAmendments # seen["amendments"] => "amendments" \in moved
      /\ Passed(5) => seen["files"] = FilesOf[head]
      /\ Passed(6) /\ Overlapping(others, seen["files"]) # {} => "overlap" \in moved
      /\ Passed(7) /\ checks[head] # seen["checks"] => "checks" \in moved
      /\ Passed(8) /\ PresentReviews(head) # seen["comments"] => "comments" \in moved

\* Something that the second pass, about to make its n-th read, still has to
\* look at is not as it was.
Obstructed(n) ==
  \/ Away
  \/ n <= 1 /\ issue # seen["issue"]
  \/ n <= 2 /\ PresentAmendments # seen["amendments"]
  \/ n <= 3 /\ base # seen["base"]
  \/ n <= 5 /\ Overlapping(others, seen["files"]) # {}
  \/ n <= 6 /\ checks[head] # seen["checks"]
  \/ n <= 7 /\ ReviewState(PresentReviews(head), seen["threads"].thread, SeenRisk) # "clean"
  \/ n = 8 /\ ReviewState(seen["comments"], seen["threads"].thread, SeenRisk) # "clean"

\* Between the passes everything was clean, or the second one will not go through.
SecondPassTells ==
  /\ supervisor.phase = "again" /\ ~returned => head \in clean \/ Obstructed(supervisor.at)
  /\ supervisor.phase \in {"ready", "merge"} /\ ~returned => head \in clean

Evaluation == RunShape /\ Answered /\ Accepted /\ Tracked /\ SecondPassTells

ActIsJudged == (act = None \/ act.head \in Heads) /\ JudgedTogether

IInv == WorldShape /\ Evaluation /\ ActIsJudged

--------------------------------------------------------------------------------
(* The reads *)

LEMMA Order ==
  /\ Len(FirstPass) = 9 /\ DOMAIN FirstPass = 1..9
  /\ Len(SecondPass) = 9
  /\ FirstPass[1] = "base" /\ FirstPass[2] = "pull" /\ FirstPass[3] = "issue"
  /\ FirstPass[4] = "amendments" /\ FirstPass[5] = "files" /\ FirstPass[6] = "overlap"
  /\ FirstPass[7] = "checks" /\ FirstPass[8] = "comments" /\ FirstPass[9] = "threads"
  /\ SecondPass[1] = "issue" /\ SecondPass[2] = "amendments" /\ SecondPass[3] = "base"
  /\ SecondPass[4] = "files" /\ SecondPass[5] = "overlap" /\ SecondPass[6] = "checks"
  /\ SecondPass[7] = "comments" /\ SecondPass[8] = "threads" /\ SecondPass[9] = "pull"
BY DEF FirstPass, SecondPass

LEMMA SourcesAre ==
  Sources = {"base", "pull", "issue", "amendments", "files", "overlap", "checks",
             "comments", "threads"}
<1>1. \A i \in 1..9 : i \in {1, 2, 3, 4, 5, 6, 7, 8, 9}
  OBVIOUS
<1>2. \A s : s \in Sources <=> \E i \in 1..9 : s = FirstPass[i]
  BY Order DEF Sources
<1> QED BY <1>1, <1>2, Order

\* An evaluation that has not begun, or has read nothing yet.
LEMMA NothingPassed ==
  ASSUME RunShape', Answered',
         supervisor'.phase = "idle" \/ (supervisor'.phase = "first" /\ supervisor'.at = 1)
  PROVE  Evaluation'
<1>1. \A n \in 1..9 : ~Passed(n)'
  BY DEF Passed
<1>2. Accepted' /\ Tracked'
  BY <1>1 DEF Accepted, Tracked
<1>3. SecondPassTells'
  BY DEF SecondPassTells
<1> QED BY <1>2, <1>3 DEF Evaluation

LEMMA EndsStep ==
  ASSUME supervisor' = Idle
  PROVE  Evaluation'
<1>1. supervisor'.phase = "idle" /\ supervisor'.at = 0 /\ seen' = NothingSeen
  BY DEF Idle, seen
<1>2. RunShape'
  BY <1>1 DEF RunShape, Phases, Idle, NothingSeen
<1>3. \A s \in Sources : seen'[s] = None
  BY <1>1 DEF NothingSeen
<1>4. Answered'
  <2>1. \A n \in 1..9 : FirstPass[n] \in Sources
    BY Order DEF Sources
  <2> QED BY <1>1, <1>3, <2>1 DEF Answered, Passed
<1> QED BY <1>1, <1>2, <1>4, NothingPassed

LEMMA BeginsStep ==
  ASSUME NEW marked \in BOOLEAN,
         supervisor' = [phase |-> "first", at |-> 1, marked |-> marked, seen |-> NothingSeen]
  PROVE  Evaluation'
<1>1. supervisor'.phase = "first" /\ supervisor'.at = 1 /\ seen' = NothingSeen
  BY DEF seen
<1>2. RunShape'
  <2>1. seen' = [s \in Sources |-> seen'[s]]
    BY <1>1 DEF NothingSeen
  <2>2. supervisor' = [phase |-> supervisor'.phase, at |-> supervisor'.at,
                       marked |-> supervisor'.marked, seen |-> supervisor'.seen]
    BY <1>1
  <2> QED BY <1>1, <2>1, <2>2 DEF RunShape, Phases
<1>3. \A s \in Sources : seen'[s] = None
  BY <1>1 DEF NothingSeen
<1>4. Answered'
  <2>1. \A n \in 1..9 : FirstPass[n] \in Sources
    BY Order DEF Sources
  <2> QED BY <1>1, <1>3, <2>1 DEF Answered, Passed
<1> QED BY <1>1, <1>2, <1>4, NothingPassed

--------------------------------------------------------------------------------
(* The first pass *)

LEMMA PassedMonotone ==
  ASSUME RunShape, NEW m \in 1..9, NEW n \in 1..9, m <= n, Passed(n)
  PROVE  Passed(m)
BY DEF Passed, RunShape

\* What a read of the first pass does to what was seen.
LEMMA GoesOn ==
  ASSUME RunShape, supervisor.phase = "first",
         NEW answer,
         supervisor' = [phase |-> AfterFirst.phase, at |-> AfterFirst.at,
                        marked |-> supervisor.marked,
                        seen |-> [seen EXCEPT ![FirstPass[supervisor.at]] = answer]]
  PROVE  /\ RunShape'
         /\ supervisor.at \in 1..9
         /\ seen'[FirstPass[supervisor.at]] = answer
         /\ \A s \in Sources : s # FirstPass[supervisor.at] => seen'[s] = seen[s]
         /\ \A n \in 1..9 : Passed(n) <=> n < supervisor.at
         /\ \A n \in 1..9 : Passed(n)' <=> n <= supervisor.at
         /\ supervisor'.phase = IF supervisor.at = 9 THEN "again" ELSE "first"
         /\ supervisor'.at = IF supervisor.at = 9 THEN 1 ELSE supervisor.at + 1
<1>1. supervisor.at \in 1..9
  BY DEF RunShape
<1>2. /\ supervisor'.phase = IF supervisor.at = 9 THEN "again" ELSE "first"
      /\ supervisor'.at = IF supervisor.at = 9 THEN 1 ELSE supervisor.at + 1
      /\ supervisor'.marked = supervisor.marked
      /\ seen' = [seen EXCEPT ![FirstPass[supervisor.at]] = answer]
  BY Order DEF AfterFirst, seen
<1>3. FirstPass[supervisor.at] \in Sources
  BY <1>1, Order DEF Sources
<1>4. /\ seen' = [s \in Sources |-> seen'[s]]
      /\ seen'[FirstPass[supervisor.at]] = answer
      /\ \A s \in Sources : s # FirstPass[supervisor.at] => seen'[s] = seen[s]
  <2>1. seen = [s \in Sources |-> seen[s]]
    BY DEF RunShape
  <2> QED BY <1>2, <1>3, <2>1
<1>5. supervisor' = [phase |-> supervisor'.phase, at |-> supervisor'.at,
                     marked |-> supervisor'.marked, seen |-> supervisor'.seen]
  OBVIOUS
<1>6. RunShape'
  <2>1. supervisor'.phase \in Phases /\ supervisor'.at \in 1..9
    BY <1>1, <1>2 DEF Phases
  <2> QED BY <1>4, <1>5, <2>1 DEF RunShape
<1>7. \A n \in 1..9 : Passed(n) <=> n < supervisor.at
  BY DEF Passed
<1>8. \A n \in 1..9 : Passed(n)' <=> n <= supervisor.at
  BY <1>1, <1>2 DEF Passed
<1> QED BY <1>1, <1>2, <1>4, <1>6, <1>7, <1>8

LEMMA Readings ==
  /\ Reading("base") = base
  /\ Reading("pull") = Identity(pull)
  /\ Reading("issue") = issue
  /\ Reading("amendments") = PresentAmendments
  /\ Reading("files") = FilesOf[pull.head]
  /\ Reading("overlap") = Overlapping(others, seen["files"])
  /\ Reading("checks") = checks[head]
  /\ Reading("comments") = PresentReviews(head)
  /\ Reading("threads") = Evidence(seen["comments"], threads, SeenRisk)
BY DEF Reading, head

\* Whatever GitHub answers, it is an answer.
LEMMA AnswersAreSome ==
  ASSUME WorldShape, Accepted, NEW n \in 1..9, \A m \in 1..9 : m < n => Passed(m)
  PROVE  Reading(FirstPass[n]) # None
<1>1. CASE n = 1
  <2>1. Reading("base") = base /\ base \in Nat
    BY CoordinatorAssumption, Readings DEF WorldShape
  <2> QED BY <1>1, <2>1, Order, NoneIsNoAnswer
<1>2. CASE n = 2
  <2>1. Reading("pull") = Identity(pull)
    BY Readings
  <2>2. Identity(pull) \in Identities
    BY DEF WorldShape, Identity, Identities
  <2> QED BY <1>2, <2>1, <2>2, Order, NoneIsNoAnswer
<1>3. CASE n = 3
  <2>1. Reading("issue") = issue /\ issue \in IssueRows
    BY Readings DEF WorldShape
  <2> QED BY <1>3, <2>1, Order, NoneIsNoAnswer
<1>4. CASE n = 4
  <2>1. Reading("amendments") = PresentAmendments
    BY Readings
  <2>2. PresentAmendments \in SUBSET Amendments
    BY DEF PresentAmendments
  <2> QED BY <1>4, <2>1, <2>2, Order, NoneIsNoAnswer
<1>5. CASE n = 5
  <2>1. Reading("files") = FilesOf[pull.head] /\ pull.head \in Heads
    BY Readings DEF WorldShape
  <2> QED BY <1>5, <2>1, Order, NoneIsNoAnswer
<1>6. CASE n = 6
  <2>1. Reading("overlap") = Overlapping(others, seen["files"])
    BY Readings
  <2>2. Overlapping(others, seen["files"]) \in SUBSET Others
    BY DEF Overlapping, WorldShape
  <2> QED BY <1>6, <2>1, <2>2, Order, NoneIsNoAnswer
<1>7. CASE n = 7
  <2>1. Reading("checks") = checks[head]
    BY Readings
  <2>2. head \in Heads
    BY <1>7 DEF Accepted
  <2>3. checks[head] \in CheckRows
    BY <2>2 DEF WorldShape
  <2> QED BY <1>7, <2>1, <2>3, Order, NoneIsNoAnswer
<1>8. CASE n = 8
  <2>1. Reading("comments") = PresentReviews(head)
    BY Readings
  <2>2. PresentReviews(head) \in SUBSET Reviews
    BY DEF PresentReviews
  <2> QED BY <1>8, <2>1, <2>2, Order, NoneIsNoAnswer
<1>9. CASE n = 9
  <2>1. Reading("threads") = Evidence(seen["comments"], threads, SeenRisk)
    BY Readings
  <2>2. seen["comments"] \in SUBSET Reviews
    BY <1>9 DEF Accepted
  <2>3. Markers(seen["comments"]) \in SUBSET Reviews
    BY <2>2 DEF Markers
  <2>4. ReviewState(seen["comments"], threads, SeenRisk)
          \in {"pending", "blocked", "clean", "required"}
    BY DEF ReviewState
  <2>5. Evidence(seen["comments"], threads, SeenRisk) \in EvidenceRows
    BY <2>3, <2>4 DEF Evidence, EvidenceRows, WorldShape
  <2> QED BY <1>9, <2>1, <2>5, Order, NoneIsNoAnswer
<1>10. n \in {1, 2, 3, 4, 5, 6, 7, 8, 9}
  OBVIOUS
<1> QED BY <1>1, <1>2, <1>3, <1>4, <1>5, <1>6, <1>7, <1>8, <1>9, <1>10

\* A read of the first pass whose answer is let through.
FirstGoesOn(answer) ==
  /\ supervisor.phase = "first"
  /\ Acceptable(FirstPass[supervisor.at], answer)
  /\ supervisor' = [phase |-> AfterFirst.phase, at |-> AfterFirst.at,
                    marked |-> supervisor.marked,
                    seen |-> [seen EXCEPT ![FirstPass[supervisor.at]] = answer]]
  /\ UNCHANGED <<world, changes, failures, moved, returned>>
  /\ clean' = clean \union CleanNow'

LEMMA FirstAccepted ==
  ASSUME IInv, NEW answer, answer = Reading(FirstPass[supervisor.at]), FirstGoesOn(answer)
  PROVE  Accepted'
<1> DEFINE n == supervisor.at
<1>1. /\ n \in 1..9
      /\ seen'[FirstPass[n]] = answer
      /\ \A s \in Sources : s # FirstPass[n] => seen'[s] = seen[s]
      /\ \A m \in 1..9 : Passed(m) <=> m < n
      /\ \A m \in 1..9 : Passed(m)' <=> m <= n
      /\ answer = Reading(FirstPass[n])
  BY GoesOn DEF FirstGoesOn, IInv, Evaluation
<1>2. Accepted /\ WorldShape
  BY DEF IInv, Evaluation
<1>3. UNCHANGED <<pull, issue, amended, base, others, checks, posted, threads>>
  BY DEF FirstGoesOn, world
<1>4. Acceptable(FirstPass[n], answer)
  BY DEF FirstGoesOn
<1>5. supervisor'.phase = "again" => n = 9
  BY GoesOn DEF FirstGoesOn, IInv, Evaluation
<1> HIDE DEF n
<1>6. Passed(1)' => seen'["base"] \in 1..base'
  <2>1. CASE n = 1
    <3>1. seen'["base"] = base
      BY <1>1, <2>1, Order, Readings
    <3> QED BY <1>2, <1>3, <3>1, CoordinatorAssumption DEF WorldShape
  <2>2. CASE n > 1
    <3>1. Passed(1) /\ FirstPass[n] # "base"
      BY <1>1, <2>2, Order
    <3> QED BY <1>1, <1>2, <1>3, <3>1, SourcesAre DEF Accepted
  <2> QED BY <1>1, <2>1, <2>2
<1>7. Passed(2)' => head' \in Heads /\ seen'["pull"].state = "open" /\ seen'["pull"].closes
  <2>1. CASE n = 2
    <3>1. seen'["pull"] = Identity(pull) /\ seen'["pull"] = answer
      BY <1>1, <2>1, Order, Readings
    <3>2. answer.state = "open" /\ answer.closes
      BY <1>4, <2>1, Order DEF Acceptable
    <3>3. Identity(pull).head \in Heads
      BY <1>2 DEF WorldShape, Identity
    <3> QED BY <3>1, <3>2, <3>3 DEF head
  <2>2. CASE n > 2
    <3>1. Passed(2) /\ seen'["pull"] = seen["pull"]
      BY <1>1, <2>2, Order, SourcesAre
    <3> QED BY <1>2, <3>1 DEF Accepted, head
  <2> QED BY <1>1, <2>1, <2>2
<1>8. Passed(3)' => /\ seen'["issue"].open
                    /\ seen'["issue"].updated \in Nat
                    /\ seen'["issue"].updated <= issue'.updated
                    /\ seen'["issue"].updated = issue'.updated => seen'["issue"] = issue'
  <2>1. CASE n = 3
    <3>1. seen'["issue"] = issue /\ answer = issue
      BY <1>1, <2>1, Order, Readings
    <3>2. issue.open
      BY <1>4, <2>1, <3>1, Order DEF Acceptable
    <3>3. issue.updated \in Nat /\ issue.updated <= issue.updated
      BY <1>2 DEF WorldShape, IssueRows
    <3> QED BY <1>3, <3>1, <3>2, <3>3
  <2>2. CASE n > 3
    <3>1. Passed(3) /\ seen'["issue"] = seen["issue"]
      BY <1>1, <2>2, Order, SourcesAre
    <3> QED BY <1>2, <1>3, <3>1 DEF Accepted
  <2> QED BY <1>1, <2>1, <2>2
<1>9. Passed(4)' => ScopeIsValid(seen'["issue"].scope, seen'["amendments"])
  <2>1. CASE n = 4
    <3>1. seen'["issue"] = seen["issue"] /\ seen'["amendments"] = answer
      BY <1>1, <2>1, Order, SourcesAre
    <3> QED BY <1>4, <2>1, <3>1, Order DEF Acceptable
  <2>2. CASE n > 4
    <3>1. /\ Passed(4) /\ seen'["issue"] = seen["issue"]
          /\ seen'["amendments"] = seen["amendments"]
      BY <1>1, <2>2, Order, SourcesAre
    <3> QED BY <1>2, <3>1 DEF Accepted
  <2> QED BY <1>1, <2>1, <2>2
<1>10. Passed(5)' => FilesAuthorized(seen'["files"], seen'["issue"].scope, seen'["amendments"])
  <2>1. CASE n = 5
    <3>1. /\ seen'["issue"] = seen["issue"] /\ seen'["amendments"] = seen["amendments"]
          /\ seen'["files"] = answer
      BY <1>1, <2>1, Order, SourcesAre
    <3> QED BY <1>4, <2>1, <3>1, Order DEF Acceptable
  <2>2. CASE n > 5
    <3>1. /\ Passed(5) /\ seen'["issue"] = seen["issue"]
          /\ seen'["amendments"] = seen["amendments"] /\ seen'["files"] = seen["files"]
      BY <1>1, <2>2, Order, SourcesAre
    <3> QED BY <1>2, <3>1 DEF Accepted
  <2> QED BY <1>1, <2>1, <2>2
<1>11. Passed(6)' => /\ seen'["overlap"] = {}
                     /\ WorkflowsOf[head'] = BaseWorkflows[seen'["base"]]
  <2>1. CASE n = 6
    <3>1. /\ seen'["pull"] = seen["pull"] /\ seen'["base"] = seen["base"]
          /\ seen'["overlap"] = answer
      BY <1>1, <2>1, Order, SourcesAre
    <3> QED BY <1>4, <2>1, <3>1, Order DEF Acceptable, head
  <2>2. CASE n > 6
    <3>1. /\ Passed(6) /\ seen'["pull"] = seen["pull"] /\ seen'["base"] = seen["base"]
          /\ seen'["overlap"] = seen["overlap"]
      BY <1>1, <2>2, Order, SourcesAre
    <3> QED BY <1>2, <3>1 DEF Accepted, head
  <2> QED BY <1>1, <2>1, <2>2
<1>12. Passed(7)' => seen'["checks"].state \in Passing
  <2>1. CASE n = 7
    <3>1. seen'["checks"] = answer
      BY <1>1, <2>1, Order
    <3> QED BY <1>4, <2>1, <3>1, Order DEF Acceptable
  <2>2. CASE n > 7
    <3>1. Passed(7) /\ seen'["checks"] = seen["checks"]
      BY <1>1, <2>2, Order, SourcesAre
    <3> QED BY <1>2, <3>1 DEF Accepted
  <2> QED BY <1>1, <2>1, <2>2
<1>13. Passed(8)' => seen'["comments"] \in SUBSET Reviews
  <2>1. CASE n = 8
    <3>1. seen'["comments"] = PresentReviews(head)
      BY <1>1, <2>1, Order, Readings
    <3> QED BY <3>1 DEF PresentReviews
  <2>2. CASE n > 8
    <3>1. Passed(8) /\ seen'["comments"] = seen["comments"]
      BY <1>1, <2>2, Order, SourcesAre
    <3> QED BY <1>2, <3>1 DEF Accepted
  <2> QED BY <1>1, <2>1, <2>2
<1>14. n = 9 => /\ seen'["threads"] = Evidence(seen["comments"], threads, SeenRisk)
                /\ seen'["threads"].state = "clean"
  <2> SUFFICES ASSUME n = 9
               PROVE  /\ seen'["threads"] = Evidence(seen["comments"], threads, SeenRisk)
                      /\ seen'["threads"].state = "clean"
    OBVIOUS
  <2>1. seen'["threads"] = answer
    BY <1>1, Order
  <2>2. answer = Evidence(seen["comments"], threads, SeenRisk)
    BY <1>1, Order, Readings
  <2>3. answer.state = "clean"
    BY <1>4, Order DEF Acceptable
  <2> QED BY <2>1, <2>2, <2>3
<1>15. Passed(9)' => seen'["threads"].state = "clean"
  BY <1>1, <1>14
<1>16. supervisor'.phase = "again" =>
         ReviewState(seen'["comments"], seen'["threads"].thread, SeenRisk') = "clean"
  <2> SUFFICES ASSUME n = 9
               PROVE  ReviewState(seen'["comments"], seen'["threads"].thread, SeenRisk') = "clean"
    BY <1>5
  <2>1. /\ seen'["comments"] = seen["comments"] /\ seen'["issue"] = seen["issue"]
        /\ seen'["amendments"] = seen["amendments"]
    BY <1>1, Order, SourcesAre
  <2>2. SeenRisk' = SeenRisk
    BY <2>1 DEF SeenRisk
  <2>3. /\ seen'["threads"].state = ReviewState(seen["comments"], threads, SeenRisk)
        /\ seen'["threads"].thread = threads
    BY <1>14 DEF Evidence
  <2> QED BY <1>14, <2>1, <2>2, <2>3
<1> QED BY <1>6, <1>7, <1>8, <1>9, <1>10, <1>11, <1>12, <1>13, <1>15, <1>16 DEF Accepted

LEMMA FirstTracked ==
  ASSUME IInv, NEW answer, answer = Reading(FirstPass[supervisor.at]), FirstGoesOn(answer)
  PROVE  Tracked'
<1> DEFINE n == supervisor.at
<1>1. /\ n \in 1..9
      /\ seen'[FirstPass[n]] = answer
      /\ \A s \in Sources : s # FirstPass[n] => seen'[s] = seen[s]
      /\ \A m \in 1..9 : Passed(m) <=> m < n
      /\ \A m \in 1..9 : Passed(m)' <=> m <= n
      /\ answer = Reading(FirstPass[n])
  BY GoesOn DEF FirstGoesOn, IInv, Evaluation
<1>2. Tracked
  BY DEF IInv, Evaluation
<1>3. UNCHANGED <<pull, issue, amended, base, others, checks, posted, threads, moved, returned>>
  BY DEF FirstGoesOn, world
<1>4. /\ Identity(pull)' = Identity(pull) /\ PresentAmendments' = PresentAmendments
      /\ \A h : PresentReviews(h)' = PresentReviews(h)
      /\ \A files : Overlapping(others', files) = Overlapping(others, files)
  BY <1>3 DEF Identity, PresentAmendments, PresentReviews
<1> HIDE DEF n
<1> SUFFICES ASSUME n >= 2, ~returned
             PROVE  /\ Away' => "pull" \in moved
                    /\ ~Away' =>
                      /\ /\ n >= 4
                         /\ PresentAmendments # seen'["amendments"]
                         => "amendments" \in moved
                      /\ n >= 5 => seen'["files"] = FilesOf[head']
                      /\ /\ n >= 6
                         /\ Overlapping(others, seen'["files"]) # {}
                         => "overlap" \in moved
                      /\ n >= 7 /\ checks[head'] # seen'["checks"] => "checks" \in moved
                      /\ n >= 8 /\ PresentReviews(head') # seen'["comments"] => "comments" \in moved
  BY <1>1, <1>3, <1>4 DEF Tracked
<1>5. CASE n = 2
  <2>1. seen'["pull"] = Identity(pull)
    BY <1>1, <1>5, Order, Readings
  <2> QED BY <1>4, <1>5, <2>1 DEF Away
<1>6. CASE n > 2
  <2>1. /\ Passed(2) /\ seen'["pull"] = seen["pull"] /\ head' = head
        /\ Away' = Away
    BY <1>1, <1>4, <1>6, Order, SourcesAre DEF head, Away
  <2>2. Away => "pull" \in moved
    BY <1>2, <2>1 DEF Tracked
  <2> SUFFICES ASSUME ~Away
               PROVE  /\ /\ n >= 4
                         /\ PresentAmendments # seen'["amendments"]
                         => "amendments" \in moved
                      /\ n >= 5 => seen'["files"] = FilesOf[head]
                      /\ /\ n >= 6
                         /\ Overlapping(others, seen'["files"]) # {}
                         => "overlap" \in moved
                      /\ n >= 7 /\ checks[head] # seen'["checks"] => "checks" \in moved
                      /\ n >= 8 /\ PresentReviews(head) # seen'["comments"] => "comments" \in moved
    BY <2>1, <2>2
  <2>3. head = pull.head
    BY DEF Away, head, Identity
  <2>4. n >= 4 /\ PresentAmendments # seen'["amendments"] => "amendments" \in moved
    <3>1. CASE n = 4
      BY <1>1, <3>1, Order, Readings
    <3>2. CASE n > 4
      <4>1. Passed(4) /\ seen'["amendments"] = seen["amendments"]
        BY <1>1, <3>2, Order, SourcesAre
      <4> QED BY <1>2, <2>1, <4>1 DEF Tracked
    <3> QED BY <1>1, <3>1, <3>2
  <2>5. n >= 5 => seen'["files"] = FilesOf[head]
    <3>1. CASE n = 5
      BY <1>1, <2>3, <3>1, Order, Readings
    <3>2. CASE n > 5
      <4>1. Passed(5) /\ seen'["files"] = seen["files"]
        BY <1>1, <3>2, Order, SourcesAre
      <4> QED BY <1>2, <2>1, <4>1 DEF Tracked
    <3> QED BY <1>1, <3>1, <3>2
  <2>6. n >= 6 /\ Overlapping(others, seen'["files"]) # {} => "overlap" \in moved
    <3>1. CASE n = 6
      <4>1. seen'["files"] = seen["files"] /\ answer = Overlapping(others, seen["files"])
        BY <1>1, <3>1, Order, SourcesAre, Readings
      <4>2. answer = {}
        BY <3>1, Order DEF FirstGoesOn, Acceptable, n
      <4> QED BY <4>1, <4>2
    <3>2. CASE n > 6
      <4>1. Passed(6) /\ seen'["files"] = seen["files"]
        BY <1>1, <3>2, Order, SourcesAre
      <4> QED BY <1>2, <2>1, <4>1 DEF Tracked
    <3> QED BY <1>1, <3>1, <3>2
  <2>7. n >= 7 /\ checks[head] # seen'["checks"] => "checks" \in moved
    <3>1. CASE n = 7
      BY <1>1, <3>1, Order, Readings
    <3>2. CASE n > 7
      <4>1. Passed(7) /\ seen'["checks"] = seen["checks"]
        BY <1>1, <3>2, Order, SourcesAre
      <4> QED BY <1>2, <2>1, <4>1 DEF Tracked
    <3> QED BY <1>1, <3>1, <3>2
  <2>8. n >= 8 /\ PresentReviews(head) # seen'["comments"] => "comments" \in moved
    <3>1. CASE n = 8
      BY <1>1, <3>1, Order, Readings
    <3>2. CASE n > 8
      <4>1. Passed(8) /\ seen'["comments"] = seen["comments"]
        BY <1>1, <3>2, Order, SourcesAre
      <4> QED BY <1>2, <2>1, <4>1 DEF Tracked
    <3> QED BY <1>1, <3>1, <3>2
  <2> QED BY <2>4, <2>5, <2>6, <2>7, <2>8
<1> QED BY <1>1, <1>5, <1>6

\* The instant between the two passes.  If nothing that was read has moved, all
\* of it was clean together; what has moved is what the second pass looks at.
LEMMA BetweenThePasses ==
  ASSUME WorldShape', Accepted', Tracked', supervisor'.phase = "again", ~returned',
         seen'["threads"].thread = threads', ~Obstructed(1)'
  PROVE  head' \in CleanNow'
<1>1. /\ Identity(pull') = seen'["pull"] /\ issue' = seen'["issue"]
      /\ PresentAmendments' = seen'["amendments"] /\ base' = seen'["base"]
      /\ Overlapping(others', seen'["files"]) = {}
      /\ checks'[head'] = seen'["checks"]
      /\ ReviewState(PresentReviews(head)', seen'["threads"].thread, SeenRisk') = "clean"
  BY DEF Obstructed, Away
<1>2. \A n \in 1..9 : Passed(n)'
  BY DEF Passed
<1>3. (pull.state = "open" /\ pull.head = head /\ pull.closes)'
  BY <1>1, <1>2 DEF Accepted, Identity, head
<1>4. (issue.open /\ ScopeIsValid(issue.scope, PresentAmendments))'
  BY <1>1, <1>2 DEF Accepted
<1>5. seen'["files"] = FilesOf[head']
  BY <1>1, <1>2 DEF Tracked, Away
<1>6. (/\ FilesAuthorized(FilesOf[head], issue.scope, PresentAmendments)
       /\ Overlapping(others, FilesOf[head]) = {}
       /\ WorkflowsOf[head] = BaseWorkflows[base]
       /\ checks[head].state \in Passing)'
  BY <1>1, <1>2, <1>5 DEF Accepted
<1>7. (ReviewState(PresentReviews(head), threads, Risk(issue.scope, PresentAmendments)) = "clean")'
  BY <1>1 DEF SeenRisk
<1>8. head' \in Heads
  BY <1>2 DEF Accepted
<1> QED BY <1>3, <1>4, <1>6, <1>7, <1>8 DEF CleanNow, CleanFor

LEMMA FirstTells ==
  ASSUME IInv, NEW answer, answer = Reading(FirstPass[supervisor.at]), FirstGoesOn(answer)
  PROVE  SecondPassTells'
<1>1. /\ supervisor.at \in 1..9
      /\ seen'[FirstPass[supervisor.at]] = answer
      /\ supervisor'.phase = IF supervisor.at = 9 THEN "again" ELSE "first"
      /\ supervisor'.at = IF supervisor.at = 9 THEN 1 ELSE supervisor.at + 1
  BY GoesOn DEF FirstGoesOn, IInv, Evaluation
<1>2. UNCHANGED <<pull, issue, amended, base, others, checks, posted, threads, changes, failures>>
  BY DEF FirstGoesOn, world
<1>3. WorldShape'
  BY <1>2 DEF IInv, WorldShape
<1>4. Accepted' /\ Tracked'
  BY FirstAccepted, FirstTracked
<1>5. ASSUME supervisor'.phase = "again", ~returned', ~Obstructed(1)'
      PROVE  head' \in clean'
  <2>1. supervisor.at = 9
    BY <1>1, <1>5
  <2>2. seen'["threads"] = Evidence(seen["comments"], threads, SeenRisk)
    BY <1>1, <2>1, Order, Readings
  <2>3. (seen["threads"].thread = threads)'
    BY <1>2, <2>2 DEF Evidence
  <2>4. (head \in CleanNow)'
    BY <1>1, <1>3, <1>4, <1>5, <2>1, <2>3, BetweenThePasses
  <2> QED BY <2>4 DEF FirstGoesOn
<1> QED BY <1>1, <1>5 DEF SecondPassTells

LEMMA FirstGoesOnStep ==
  ASSUME IInv, NEW answer, answer = Reading(FirstPass[supervisor.at]), FirstGoesOn(answer)
  PROVE  Evaluation'
<1>1. /\ RunShape'
      /\ supervisor.at \in 1..9
      /\ seen'[FirstPass[supervisor.at]] = answer
      /\ \A s \in Sources : s # FirstPass[supervisor.at] => seen'[s] = seen[s]
      /\ \A n \in 1..9 : Passed(n) <=> n < supervisor.at
      /\ \A n \in 1..9 : Passed(n)' <=> n <= supervisor.at
  BY GoesOn DEF FirstGoesOn, IInv, Evaluation
<1>2. answer # None
  BY <1>1, AnswersAreSome DEF IInv, Evaluation
<1>3. \A n \in 1..9 : n # supervisor.at => FirstPass[n] # FirstPass[supervisor.at]
  <2>1. \A n \in 1..9 : n \in {1, 2, 3, 4, 5, 6, 7, 8, 9}
    OBVIOUS
  <2> QED BY <1>1, <2>1, Order
<1>4. \A n \in 1..9 : FirstPass[n] \in Sources
  BY Order DEF Sources
<1>5. Answered'
  <2> SUFFICES ASSUME NEW n \in 1..9
               PROVE  (seen'[FirstPass[n]] # None) <=> Passed(n)'
    BY DEF Answered
  <2>1. CASE n = supervisor.at
    BY <1>1, <1>2, <2>1
  <2>2. CASE n # supervisor.at
    <3>1. seen'[FirstPass[n]] = seen[FirstPass[n]]
      BY <1>1, <1>3, <1>4, <2>2
    <3>2. (seen[FirstPass[n]] # None) <=> Passed(n)
      BY DEF IInv, Evaluation, Answered
    <3> QED BY <1>1, <2>2, <3>1, <3>2
  <2> QED BY <2>1, <2>2
<1> QED BY <1>1, <1>5, FirstAccepted, FirstTracked, FirstTells DEF Evaluation

--------------------------------------------------------------------------------
(* The second pass *)

\* A read of the second pass that finds what the first one found.
AgainGoesOn(answer) ==
  /\ supervisor.phase = "again"
  /\ Unchanged(SecondPass[supervisor.at], answer)
  /\ supervisor' = [phase |-> IF supervisor.at # 9 THEN "again"
                              ELSE IF pull.draft THEN "ready" ELSE "merge",
                    at |-> IF supervisor.at = 9 THEN 0 ELSE supervisor.at + 1,
                    marked |-> supervisor.marked,
                    seen |-> [seen EXCEPT ![SecondPass[supervisor.at]] = answer]]
  /\ UNCHANGED <<world, changes, failures, moved, returned>>
  /\ clean' = clean \union CleanNow'

\* Only the comments may differ.
LEMMA SeenAgain ==
  ASSUME IInv, NEW answer, answer = Reading(SecondPass[supervisor.at]), AgainGoesOn(answer)
  PROVE  /\ RunShape'
         /\ supervisor.at \in 1..9
         /\ \A s \in Sources : s # "comments" => seen'[s] = seen[s]
         /\ seen'["comments"] = IF supervisor.at = 7 THEN PresentReviews(head)
                                ELSE seen["comments"]
         /\ \A n \in 1..9 : Passed(n) /\ Passed(n)'
         /\ supervisor.at < 9 => supervisor'.phase = "again" /\ supervisor'.at = supervisor.at + 1
         /\ supervisor.at = 9 => supervisor'.phase \in {"ready", "merge"}
<1> DEFINE n == supervisor.at
           source == SecondPass[n]
<1>1. n \in 1..9 /\ seen = [s \in Sources |-> seen[s]]
  BY DEF IInv, Evaluation, RunShape, AgainGoesOn
<1>2. n \in {1, 2, 3, 4, 5, 6, 7, 8, 9}
  BY <1>1
<1>3. source \in Sources /\ (source = "comments" <=> n = 7)
  BY <1>2, Order, SourcesAre
<1>4. /\ seen' = [seen EXCEPT ![source] = answer]
      /\ source # "comments" => answer = seen[source]
      /\ answer = Reading(source)
  BY DEF AgainGoesOn, Unchanged, seen
<1>5. \A s \in Sources : seen'[s] = IF s = source THEN answer ELSE seen[s]
  <2> HIDE DEF source
  <2> QED BY <1>1, <1>3, <1>4
<1>6. seen' = [s \in Sources |-> seen'[s]]
  <2> HIDE DEF source
  <2> QED BY <1>1, <1>3, <1>4
<1>7. \A s \in Sources : s # "comments" => seen'[s] = seen[s]
  <2> HIDE DEF source
  <2> QED BY <1>4, <1>5
<1>8. seen'["comments"] = IF n = 7 THEN PresentReviews(head) ELSE seen["comments"]
  <2>1. CASE n = 7
    <3>1. source = "comments" /\ answer = PresentReviews(head)
      BY <1>3, <1>4, <2>1, Readings
    <3> QED BY <1>5, <2>1, <3>1, SourcesAre
  <2>2. CASE n # 7
    <3>1. source # "comments"
      BY <1>3, <2>2
    <3> QED BY <1>5, <2>2, <3>1, SourcesAre
  <2> QED BY <2>1, <2>2
<1>9. /\ n < 9 => supervisor'.phase = "again" /\ supervisor'.at = n + 1
      /\ n = 9 => supervisor'.phase \in {"ready", "merge"} /\ supervisor'.at = 0
  BY <1>1 DEF AgainGoesOn
<1>10. supervisor' = [phase |-> supervisor'.phase, at |-> supervisor'.at,
                      marked |-> supervisor'.marked, seen |-> supervisor'.seen]
  BY DEF AgainGoesOn
<1>11. RunShape'
  <2>1. n < 9 \/ n = 9
    BY <1>1
  <2>2. /\ supervisor'.phase \in Phases /\ supervisor'.at \in 0..9
        /\ supervisor'.phase \in {"first", "again"} => supervisor'.at \in 1..9
    BY <1>1, <1>9, <2>1 DEF Phases
  <2> QED BY <1>6, <1>10, <2>2 DEF RunShape
<1>12. \A m \in 1..9 : Passed(m) /\ Passed(m)'
  <2>1. n < 9 \/ n = 9
    BY <1>1
  <2> QED BY <1>9, <2>1 DEF Passed, AgainGoesOn
<1> QED BY <1>1, <1>7, <1>8, <1>9, <1>11, <1>12

LEMMA AgainAccepted ==
  ASSUME IInv, NEW answer, answer = Reading(SecondPass[supervisor.at]), AgainGoesOn(answer)
  PROVE  Accepted'
<1>1. /\ supervisor.at \in 1..9
      /\ \A s \in Sources : s # "comments" => seen'[s] = seen[s]
      /\ seen'["comments"] = IF supervisor.at = 7 THEN PresentReviews(head)
                             ELSE seen["comments"]
      /\ \A n \in 1..9 : Passed(n) /\ Passed(n)'
      /\ supervisor.at < 9 => supervisor'.phase = "again" /\ supervisor'.at = supervisor.at + 1
      /\ supervisor.at = 9 => supervisor'.phase \in {"ready", "merge"}
  BY SeenAgain
<1>2. /\ seen'["base"] = seen["base"] /\ seen'["pull"] = seen["pull"]
      /\ seen'["issue"] = seen["issue"] /\ seen'["amendments"] = seen["amendments"]
      /\ seen'["files"] = seen["files"] /\ seen'["overlap"] = seen["overlap"]
      /\ seen'["checks"] = seen["checks"] /\ seen'["threads"] = seen["threads"]
  BY <1>1, SourcesAre
<1>3. head' = head /\ SeenRisk' = SeenRisk
  BY <1>2 DEF head, SeenRisk
<1>4. UNCHANGED <<base, issue>>
  BY DEF AgainGoesOn, world
<1>5. seen'["comments"] \in SUBSET Reviews
  BY <1>1 DEF PresentReviews, IInv, Evaluation, Accepted
<1>6. supervisor'.phase = "again" /\ supervisor'.at <= 7 =>
        ReviewState(seen'["comments"], seen'["threads"].thread, SeenRisk') = "clean"
  <2> SUFFICES ASSUME supervisor'.phase = "again", supervisor'.at <= 7
               PROVE  ReviewState(seen'["comments"], seen'["threads"].thread, SeenRisk') = "clean"
    OBVIOUS
  <2>1. supervisor.at < 7
    BY <1>1
  <2>2. ReviewState(seen["comments"], seen["threads"].thread, SeenRisk) = "clean"
    BY <1>1, <2>1 DEF IInv, Evaluation, Accepted, AgainGoesOn
  <2> QED BY <1>1, <1>2, <1>3, <2>1, <2>2
<1>7. Accepted
  BY DEF IInv, Evaluation
<1>8. /\ seen["base"] \in 1..base
      /\ head \in Heads /\ seen["pull"].state = "open" /\ seen["pull"].closes
      /\ seen["issue"].open /\ seen["issue"].updated \in Nat
      /\ seen["issue"].updated <= issue.updated
      /\ seen["issue"].updated = issue.updated => seen["issue"] = issue
      /\ ScopeIsValid(seen["issue"].scope, seen["amendments"])
      /\ FilesAuthorized(seen["files"], seen["issue"].scope, seen["amendments"])
      /\ seen["overlap"] = {} /\ WorkflowsOf[head] = BaseWorkflows[seen["base"]]
      /\ seen["checks"].state \in Passing
      /\ seen["threads"].state = "clean"
  BY <1>1, <1>7 DEF Accepted
<1> QED BY <1>2, <1>3, <1>4, <1>5, <1>6, <1>8 DEF Accepted

LEMMA AgainTracked ==
  ASSUME IInv, NEW answer, answer = Reading(SecondPass[supervisor.at]), AgainGoesOn(answer)
  PROVE  Tracked'
<1>1. /\ \A s \in Sources : s # "comments" => seen'[s] = seen[s]
      /\ seen'["comments"] = IF supervisor.at = 7 THEN PresentReviews(head)
                             ELSE seen["comments"]
      /\ \A n \in 1..9 : Passed(n)
  BY SeenAgain
<1>2. /\ seen'["pull"] = seen["pull"] /\ seen'["amendments"] = seen["amendments"]
      /\ seen'["files"] = seen["files"] /\ seen'["checks"] = seen["checks"]
  BY <1>1, SourcesAre
<1>3. UNCHANGED <<pull, issue, amended, base, others, checks, posted, threads, moved, returned>>
  BY DEF AgainGoesOn, world
<1>4. /\ head' = head /\ Away' = Away /\ PresentAmendments' = PresentAmendments
      /\ PresentReviews(head)' = PresentReviews(head)
  BY <1>2, <1>3 DEF head, Away, Identity, PresentAmendments, PresentReviews
<1>5. Tracked
  BY DEF IInv, Evaluation
<1>6. ~returned =>
        /\ Away => "pull" \in moved
        /\ ~Away =>
             /\ PresentAmendments # seen["amendments"] => "amendments" \in moved
             /\ seen["files"] = FilesOf[head]
             /\ Overlapping(others, seen["files"]) # {} => "overlap" \in moved
             /\ checks[head] # seen["checks"] => "checks" \in moved
             /\ PresentReviews(head) # seen["comments"] => "comments" \in moved
  BY <1>1, <1>5 DEF Tracked
<1>7. Overlapping(others, seen["files"])' = Overlapping(others, seen["files"])
  BY <1>2, <1>3
<1> QED BY <1>1, <1>2, <1>3, <1>4, <1>6, <1>7 DEF Tracked

\* Each read removes what obstructs it.
LEMMA AgainTells ==
  ASSUME IInv, NEW answer, answer = Reading(SecondPass[supervisor.at]), AgainGoesOn(answer)
  PROVE  SecondPassTells'
<1>0. PICK n \in 1..9 : n = supervisor.at
  BY SeenAgain
<1>1. /\ n \in 1..9
      /\ \A s \in Sources : s # "comments" => seen'[s] = seen[s]
      /\ seen'["comments"] = IF n = 7 THEN PresentReviews(head) ELSE seen["comments"]
      /\ \A m \in 1..9 : Passed(m)
      /\ n < 9 => supervisor'.phase = "again" /\ supervisor'.at = n + 1
      /\ n = 9 => supervisor'.phase \in {"ready", "merge"}
  BY <1>0, SeenAgain
<1>2. /\ seen'["base"] = seen["base"] /\ seen'["pull"] = seen["pull"]
      /\ seen'["issue"] = seen["issue"] /\ seen'["amendments"] = seen["amendments"]
      /\ seen'["files"] = seen["files"] /\ seen'["checks"] = seen["checks"]
      /\ seen'["threads"] = seen["threads"]
  BY <1>1, SourcesAre
<1>3. /\ UNCHANGED <<pull, issue, amended, base, others, checks, posted, threads, moved, returned>>
      /\ clean \subseteq clean'
  BY DEF AgainGoesOn, world
<1>4. /\ head' = head /\ Away' = Away /\ PresentAmendments' = PresentAmendments
      /\ PresentReviews(head)' = PresentReviews(head)
      /\ SeenRisk' = SeenRisk
  BY <1>2, <1>3 DEF head, Away, Identity, PresentAmendments, PresentReviews, SeenRisk
<1>5. /\ Unchanged(SecondPass[n], answer) /\ answer = Reading(SecondPass[n])
      /\ supervisor.phase = "again"
  BY <1>0 DEF AgainGoesOn
<1> SUFFICES ASSUME ~returned, head \notin clean
             PROVE  n < 9 /\ Obstructed(n + 1)'
  BY <1>1, <1>3, <1>4 DEF SecondPassTells
<1>6. Obstructed(n)
  BY <1>0, <1>5 DEF IInv, Evaluation, SecondPassTells
<1>7. CASE Away
  <2>1. n # 9
    <3>1. ASSUME n = 9
          PROVE  Identity(pull) = seen["pull"]
      BY <1>5, <3>1, Order, Readings DEF Unchanged
    <3> QED BY <1>7, <3>1 DEF Away
  <2> QED BY <1>1, <1>4, <1>7, <2>1 DEF Obstructed
<1>8. CASE n <= 1 /\ issue # seen["issue"]
  BY <1>1, <1>5, <1>8, Order, Readings DEF Unchanged
<1>9. CASE n <= 2 /\ PresentAmendments # seen["amendments"]
  <2>1. n # 2
    BY <1>5, <1>9, Order, Readings DEF Unchanged
  <2>2. n + 1 <= 2
    BY <1>1, <1>9, <2>1
  <2> QED BY <1>2, <1>4, <1>9, <2>2 DEF Obstructed
<1>10. CASE n <= 3 /\ base # seen["base"]
  <2>1. n # 3
    BY <1>5, <1>10, Order, Readings DEF Unchanged
  <2>2. n + 1 <= 3
    BY <1>1, <1>10, <2>1
  <2> QED BY <1>2, <1>3, <1>10, <2>2 DEF Obstructed
<1>11. CASE n <= 5 /\ Overlapping(others, seen["files"]) # {}
  <2>1. n # 5
    <3>1. seen["overlap"] = {}
      BY <1>1 DEF IInv, Evaluation, Accepted
    <3> QED BY <1>5, <1>11, <3>1, Order, Readings DEF Unchanged
  <2>2. n + 1 <= 5
    BY <1>1, <1>11, <2>1
  <2> QED BY <1>2, <1>3, <1>11, <2>2 DEF Obstructed
<1>12. CASE n <= 6 /\ checks[head] # seen["checks"]
  <2>1. n # 6
    BY <1>5, <1>12, Order, Readings DEF Unchanged
  <2>2. n + 1 <= 6
    BY <1>1, <1>12, <2>1
  <2> QED BY <1>2, <1>3, <1>4, <1>12, <2>2 DEF Obstructed
<1>13. CASE n <= 7 /\ ReviewState(PresentReviews(head), seen["threads"].thread, SeenRisk) # "clean"
  <2>1. CASE n = 7
    <3>1. seen'["comments"] = PresentReviews(head)
      BY <1>1, <2>1
    <3>2. ReviewState(seen'["comments"], seen'["threads"].thread, SeenRisk') # "clean"
      BY <1>2, <1>4, <1>13, <3>1
    <3> QED BY <2>1, <3>2 DEF Obstructed
  <2>2. CASE n < 7
    <3>1. n + 1 <= 7
      BY <1>1, <2>2
    <3> QED BY <1>2, <1>4, <1>13, <3>1 DEF Obstructed
  <2> QED BY <1>1, <1>13, <2>1, <2>2
<1>14. CASE n = 8 /\ ReviewState(seen["comments"], seen["threads"].thread, SeenRisk) # "clean"
  <2>1. Evidence(seen["comments"], threads, SeenRisk) = seen["threads"]
    BY <1>5, <1>14, Order, Readings DEF Unchanged
  <2>2. /\ seen["threads"].thread = threads
        /\ seen["threads"].state = ReviewState(seen["comments"], threads, SeenRisk)
    BY <2>1 DEF Evidence
  <2>3. seen["threads"].state = "clean"
    BY <1>1 DEF IInv, Evaluation, Accepted
  <2> QED BY <1>14, <2>2, <2>3
<1> QED BY <1>6, <1>7, <1>8, <1>9, <1>10, <1>11, <1>12, <1>13, <1>14 DEF Obstructed

LEMMA AgainGoesOnStep ==
  ASSUME IInv, NEW answer, answer = Reading(SecondPass[supervisor.at]), AgainGoesOn(answer)
  PROVE  Evaluation'
<1>1. /\ RunShape'
      /\ \A s \in Sources : s # "comments" => seen'[s] = seen[s]
      /\ \A n \in 1..9 : Passed(n) /\ Passed(n)'
  BY SeenAgain
<1>2. Accepted'
  BY AgainAccepted
<1>3. Answered'
  <2> SUFFICES ASSUME NEW n \in 1..9
               PROVE  seen'[FirstPass[n]] # None
    BY <1>1 DEF Answered
  <2>1. CASE n = 8
    <3>1. seen'["comments"] \in SUBSET Reviews
      BY <1>1, <1>2 DEF Accepted
    <3> QED BY <2>1, <3>1, Order, NoneIsNoAnswer
  <2>2. CASE n # 8
    <3>1. n \in {1, 2, 3, 4, 5, 6, 7, 9}
      BY <2>2
    <3>2. FirstPass[n] \in Sources /\ FirstPass[n] # "comments"
      BY <3>1, Order, SourcesAre
    <3>3. seen[FirstPass[n]] # None
      BY <1>1 DEF IInv, Evaluation, Answered
    <3> QED BY <1>1, <3>2, <3>3
  <2> QED BY <2>1, <2>2
<1> QED BY <1>1, <1>2, <1>3, AgainTracked, AgainTells DEF Evaluation

--------------------------------------------------------------------------------
(* Everyone else *)

\* The sources name what changes of the evidence, the issue counts its updates,
\* and the default branch only moves forward.
EvidenceChanges(sources) ==
  /\ "pull" \in sources <=> Identity(pull)' # Identity(pull)
  /\ PresentAmendments' # PresentAmendments => "amendments" \in sources
  /\ "pull" \notin sources /\ others' # others =>
       \/ "overlap" \in sources
       \/ Overlapping(others', FilesOf[pull.head]) = Overlapping(others, FilesOf[pull.head])
  /\ "pull" \notin sources =>
       \A h \in Heads : checks'[h] # checks[h] => "checks" \in sources
  /\ \A h \in Heads : PresentReviews(h)' # PresentReviews(h) => "comments" \in sources
  /\ issue' = issue \/ (issue'.updated = issue.updated + 1)
  /\ base' = base \/ base' = base + 1

LEMMA SameSeen ==
  ASSUME IInv, UNCHANGED supervisor
  PROVE  /\ seen' = seen /\ head' = head /\ SeenRisk' = SeenRisk
         /\ RunShape' /\ Answered'
         /\ \A n : Passed(n)' <=> Passed(n)
<1>1. seen' = seen /\ \A n : Passed(n)' <=> Passed(n)
  BY DEF seen, Passed
<1>2. RunShape'
  BY <1>1 DEF IInv, Evaluation, RunShape
<1>3. Answered'
  BY <1>1 DEF IInv, Evaluation, Answered
<1> QED BY <1>1, <1>2, <1>3 DEF head, SeenRisk

LEMMA WorldAccepted ==
  ASSUME IInv, UNCHANGED supervisor, NEW M, EvidenceChanges(M)
  PROVE  Accepted'
<1>1. /\ seen' = seen /\ head' = head /\ SeenRisk' = SeenRisk
      /\ \A n : Passed(n)' <=> Passed(n)
  BY SameSeen
<1>2. /\ Accepted /\ base \in Nat /\ issue.updated \in Nat
      /\ issue' = issue \/ (issue'.updated = issue.updated + 1)
      /\ base' = base \/ base' = base + 1
  BY CoordinatorAssumption DEF IInv, Evaluation, WorldShape, IssueRows, EvidenceChanges
<1>3. Passed(1) => seen["base"] \in 1..base'
  BY <1>2 DEF Accepted
<1>4. Passed(3) => /\ seen["issue"].open
                   /\ seen["issue"].updated \in Nat
                   /\ seen["issue"].updated <= issue'.updated
                   /\ seen["issue"].updated = issue'.updated => seen["issue"] = issue'
  BY <1>2 DEF Accepted
<1>5. /\ Passed(2) => head \in Heads /\ seen["pull"].state = "open" /\ seen["pull"].closes
      /\ Passed(4) => ScopeIsValid(seen["issue"].scope, seen["amendments"])
      /\ Passed(5) => FilesAuthorized(seen["files"], seen["issue"].scope, seen["amendments"])
      /\ Passed(6) => seen["overlap"] = {} /\ WorkflowsOf[head] = BaseWorkflows[seen["base"]]
      /\ Passed(7) => seen["checks"].state \in Passing
      /\ Passed(8) => seen["comments"] \in SUBSET Reviews
      /\ Passed(9) => seen["threads"].state = "clean"
      /\ supervisor.phase = "again" /\ supervisor.at <= 7 =>
           ReviewState(seen["comments"], seen["threads"].thread, SeenRisk) = "clean"
  BY <1>2 DEF Accepted
<1> QED BY <1>1, <1>3, <1>4, <1>5 DEF Accepted

\* What has changed and has not changed back is still different, unless it is
\* the second change in this evaluation.
LEMMA WorldTracked ==
  ASSUME IInv, UNCHANGED supervisor, NEW M, EvidenceChanges(M),
         supervisor.phase # "idle", RecordChange(M)
  PROVE  Tracked'
<1>1. /\ seen' = seen /\ head' = head
      /\ \A n : Passed(n)' <=> Passed(n)
  BY SameSeen
<1>2. /\ moved' = moved \union M
      /\ returned' = (returned \/ M \cap moved # {})
  BY DEF RecordChange
<1>3. Tracked /\ Accepted /\ RunShape
  BY DEF IInv, Evaluation
<1> SUFFICES ASSUME Passed(2), ~returned, M \cap moved = {}
             PROVE  /\ Away' => "pull" \in moved'
                    /\ ~Away' =>
                         /\ Passed(4) /\ PresentAmendments' # seen["amendments"]
                              => "amendments" \in moved'
                         /\ Passed(5) => seen["files"] = FilesOf[head]
                         /\ Passed(6) /\ Overlapping(others', seen["files"]) # {}
                              => "overlap" \in moved'
                         /\ Passed(7) /\ checks'[head] # seen["checks"]
                              => "checks" \in moved'
                         /\ Passed(8) /\ PresentReviews(head)' # seen["comments"]
                              => "comments" \in moved'
  BY <1>1, <1>2 DEF Tracked
<1>4. Away' => "pull" \in moved'
  <2>1. CASE Away
    BY <1>2, <1>3, <2>1 DEF Tracked
  <2>2. CASE ~Away /\ Away'
    <3>1. Identity(pull)' # Identity(pull)
      BY <1>1, <2>2 DEF Away
    <3> QED BY <1>2, <3>1 DEF EvidenceChanges
  <2> QED BY <2>1, <2>2
<1>5. ASSUME ~Away'
      PROVE  ~Away /\ "pull" \notin M
  <2>1. CASE Away
    <3>1. Identity(pull)' # Identity(pull)
      BY <1>1, <1>5, <2>1 DEF Away
    <3>2. "pull" \in M /\ "pull" \in moved
      BY <1>3, <2>1, <3>1 DEF EvidenceChanges, Tracked
    <3> QED BY <3>2
  <2>2. CASE ~Away
    <3>1. Identity(pull)' = Identity(pull)
      BY <1>1, <1>5, <2>2 DEF Away
    <3> QED BY <2>2, <3>1 DEF EvidenceChanges
  <2> QED BY <2>1, <2>2
<1>6. ASSUME ~Away'
      PROVE  /\ Passed(4) /\ PresentAmendments' # seen["amendments"]
                  => "amendments" \in moved'
             /\ Passed(5) => seen["files"] = FilesOf[head]
             /\ Passed(6) /\ Overlapping(others', seen["files"]) # {}
                  => "overlap" \in moved'
             /\ Passed(7) /\ checks'[head] # seen["checks"]
                  => "checks" \in moved'
             /\ Passed(8) /\ PresentReviews(head)' # seen["comments"]
                  => "comments" \in moved'
  <2>1. ~Away /\ "pull" \notin M /\ head \in Heads
    BY <1>3, <1>5, <1>6 DEF Accepted
  <2>2. /\ Passed(4) /\ PresentAmendments # seen["amendments"] => "amendments" \in moved
        /\ Passed(5) => seen["files"] = FilesOf[head]
        /\ Passed(6) /\ Overlapping(others, seen["files"]) # {} => "overlap" \in moved
        /\ Passed(7) /\ checks[head] # seen["checks"] => "checks" \in moved
        /\ Passed(8) /\ PresentReviews(head) # seen["comments"] => "comments" \in moved
    BY <1>3, <2>1 DEF Tracked
  <2>3. /\ PresentAmendments' # PresentAmendments => "amendments" \in M
        /\ checks'[head] # checks[head] => "checks" \in M
        /\ PresentReviews(head)' # PresentReviews(head) => "comments" \in M
    <3>1. PresentReviews(head)' = {r \in Reviews : posted'[r] = "present" /\ r.head = head}
      BY <1>1 DEF PresentReviews
    <3>2. \A h \in Heads : {r \in Reviews : posted'[r] = "present" /\ r.head = h}
                             # PresentReviews(h) => "comments" \in M
      BY DEF EvidenceChanges, PresentReviews
    <3> QED BY <2>1, <3>1, <3>2 DEF EvidenceChanges
  <2>4. Passed(6) /\ Overlapping(others', seen["files"]) # {} => "overlap" \in moved'
    <3> SUFFICES ASSUME Passed(6), Overlapping(others', seen["files"]) # {}
                 PROVE  "overlap" \in moved'
      OBVIOUS
    <3>1. Passed(5)
      BY <1>3, PassedMonotone
    <3>2. seen["files"] = FilesOf[pull.head]
      BY <2>1, <2>2, <3>1 DEF Away, Identity, head
    <3>3. CASE Overlapping(others, seen["files"]) # {}
      BY <1>2, <2>2, <3>3
    <3>4. CASE Overlapping(others, seen["files"]) = {}
      <4>1. "overlap" \in M
        BY <2>1, <3>2, <3>4 DEF EvidenceChanges
      <4> QED BY <1>2, <4>1
    <3> QED BY <3>3, <3>4
  <2> QED BY <1>2, <2>2, <2>3, <2>4
<1> QED BY <1>4, <1>6

\* An obstacle stays one, and a clean head stays recorded.
LEMMA WorldTells ==
  ASSUME IInv, UNCHANGED supervisor, NEW M, EvidenceChanges(M),
         supervisor.phase # "idle", RecordChange(M)
  PROVE  SecondPassTells'
<1>1. /\ seen' = seen /\ head' = head /\ SeenRisk' = SeenRisk
  BY SameSeen
<1>2. /\ clean \subseteq clean'
      /\ returned' = (returned \/ M \cap moved # {})
  BY DEF RecordChange
<1>3. Tracked /\ Accepted /\ SecondPassTells
  BY DEF IInv, Evaluation
<1> SUFFICES ASSUME supervisor.phase = "again", ~returned, M \cap moved = {},
                    head \notin clean
             PROVE  Obstructed(supervisor.at)'
  BY <1>1, <1>2, <1>3 DEF SecondPassTells
<1>0. PICK n \in 1..9 : n = supervisor.at
  BY DEF IInv, Evaluation, RunShape
<1> SUFFICES Obstructed(n)'
  BY <1>0 DEF Obstructed
<1>4. Obstructed(n)
  BY <1>0, <1>3 DEF SecondPassTells
<1>5. \A m \in 1..9 : Passed(m)
  BY DEF Passed
<1>6. head \in Heads
  BY <1>3, <1>5 DEF Accepted
<1>7. CASE Away'
  BY <1>7 DEF Obstructed
<1>8. CASE ~Away'
  <2>1. ~Away
    <3>1. ASSUME Away
          PROVE  FALSE
      <4>1. Identity(pull)' # Identity(pull)
        BY <1>1, <1>8, <3>1 DEF Away
      <4>2. "pull" \in M /\ "pull" \in moved
        BY <1>3, <1>5, <3>1, <4>1 DEF EvidenceChanges, Tracked
      <4> QED BY <4>2
    <3> QED BY <3>1
  <2>2. "pull" \notin M
    <3>1. Identity(pull)' = Identity(pull)
      BY <1>1, <1>8, <2>1 DEF Away
    <3> QED BY <3>1 DEF EvidenceChanges
  <2>3. /\ PresentAmendments # seen["amendments"] => "amendments" \in moved
        /\ seen["files"] = FilesOf[head] /\ seen["files"] = FilesOf[pull.head]
        /\ Overlapping(others, seen["files"]) # {} => "overlap" \in moved
        /\ checks[head] # seen["checks"] => "checks" \in moved
        /\ PresentReviews(head) # seen["comments"] => "comments" \in moved
    BY <1>3, <1>5, <2>1 DEF Tracked, Away, Identity, head
  <2>4. CASE n <= 1 /\ issue # seen["issue"]
    <3>1. /\ issue.updated \in Nat /\ seen["issue"].updated \in Nat
          /\ seen["issue"].updated <= issue.updated
      BY <1>3, <1>5 DEF IInv, WorldShape, IssueRows, Accepted
    <3>2. issue' # seen["issue"]
      BY <2>4, <3>1 DEF EvidenceChanges
    <3> QED BY <1>1, <2>4, <3>2 DEF Obstructed
  <2>5. CASE n <= 2 /\ PresentAmendments # seen["amendments"]
    <3>1. PresentAmendments' = PresentAmendments
      BY <2>3, <2>5 DEF EvidenceChanges
    <3> QED BY <1>1, <2>5, <3>1 DEF Obstructed
  <2>6. CASE n <= 3 /\ base # seen["base"]
    <3>1. base \in Nat /\ seen["base"] \in 1..base
      BY <1>3, <1>5, CoordinatorAssumption DEF IInv, WorldShape, Accepted
    <3>2. base' # seen["base"]
      BY <2>6, <3>1 DEF EvidenceChanges
    <3> QED BY <1>1, <2>6, <3>2 DEF Obstructed
  <2>7. CASE n <= 5 /\ Overlapping(others, seen["files"]) # {}
    <3>1. Overlapping(others', seen["files"]) = Overlapping(others, seen["files"])
      <4>1. "overlap" \notin M
        BY <2>3, <2>7
      <4> QED BY <2>2, <2>3, <4>1 DEF EvidenceChanges
    <3> QED BY <1>1, <2>7, <3>1 DEF Obstructed
  <2>8. CASE n <= 6 /\ checks[head] # seen["checks"]
    <3>1. checks'[head] = checks[head]
      BY <1>6, <2>2, <2>3, <2>8 DEF EvidenceChanges
    <3> QED BY <1>1, <2>8, <3>1 DEF Obstructed
  <2>9. CASE n <= 7 /\ ReviewState(PresentReviews(head), seen["threads"].thread, SeenRisk) # "clean"
    <3>1. ReviewState(seen["comments"], seen["threads"].thread, SeenRisk) = "clean"
      BY <1>0, <1>3, <2>9 DEF Accepted
    <3>2. "comments" \notin M
      BY <2>3, <2>9, <3>1
    <3>3. PresentReviews(head)' = PresentReviews(head)
      <4>1. PresentReviews(head)' = {r \in Reviews : posted'[r] = "present" /\ r.head = head}
        BY <1>1 DEF PresentReviews
      <4>2. \A h \in Heads : {r \in Reviews : posted'[r] = "present" /\ r.head = h}
                               = PresentReviews(h)
        BY <3>2 DEF EvidenceChanges, PresentReviews
      <4> QED BY <1>6, <4>1, <4>2
    <3> QED BY <1>1, <2>9, <3>3 DEF Obstructed
  <2>10. CASE n = 8 /\ ReviewState(seen["comments"], seen["threads"].thread, SeenRisk) # "clean"
    BY <1>1, <2>10 DEF Obstructed
  <2> QED BY <1>4, <2>1, <2>4, <2>5, <2>6, <2>7, <2>8, <2>9, <2>10 DEF Obstructed
<1> QED BY <1>7, <1>8

LEMMA WorldStep ==
  ASSUME IInv, UNCHANGED supervisor, NEW M, EvidenceChanges(M), RecordChange(M)
  PROVE  Evaluation'
<1>1. CASE supervisor.phase # "idle"
  BY <1>1, SameSeen, WorldAccepted, WorldTracked, WorldTells DEF Evaluation
<1>2. CASE supervisor.phase = "idle"
  BY <1>2, SameSeen, NothingPassed
<1> QED BY <1>1, <1>2

LEMMA InitIInv == Init => IInv
<1> SUFFICES ASSUME Init
             PROVE  IInv
  OBVIOUS
<1>1. WorldShape
  <2>1. pull \in [state : {"open", "closed", "merged"}, head : Heads, closes : BOOLEAN,
                  draft : BOOLEAN, hold : BOOLEAN, mergeable : BOOLEAN]
    BY DEF Init
  <2>2. issue \in IssueRows /\ issue.updated = 0
    BY CoordinatorAssumption DEF Init, IssueRows
  <2>3. amended \in [Amendments -> {"unposted", "present", "gone"}]
    BY DEF Init
  <2>4. base \in DOMAIN BaseWorkflows
    BY CoordinatorAssumption DEF Init
  <2>5. checks \in [Heads -> CheckRows] /\ \A h \in Heads : checks[h].run <= 1
    BY DEF Init, CheckRows
  <2>6. posted \in [Reviews -> {"unposted", "present", "gone"}]
    BY DEF Init
  <2>7. others \in SUBSET Others /\ threads \in ThreadStates /\ changes = 0 /\ failures = 0
    BY DEF Init, ThreadStates
  <2>8. changes \in 0..MaxChanges /\ failures \in 0..MaxFailures
    BY <2>7, CoordinatorAssumption
  <2> QED BY <2>1, <2>2, <2>3, <2>4, <2>5, <2>6, <2>7, <2>8 DEF WorldShape
<1>2. supervisor.phase = "idle" /\ supervisor.at = 0 /\ seen = NothingSeen
  BY DEF Init, Idle, seen
<1>3. \A n \in 1..9 : ~Passed(n)
  BY <1>2 DEF Passed
<1>4. RunShape
  BY <1>2 DEF RunShape, Phases, Init, Idle, NothingSeen
<1>5. Answered
  <2>1. \A n \in 1..9 : FirstPass[n] \in Sources
    BY Order DEF Sources
  <2>2. \A s \in Sources : seen[s] = None
    BY <1>2 DEF NothingSeen
  <2> QED BY <1>3, <2>1, <2>2 DEF Answered
<1>6. Accepted /\ Tracked
  BY <1>2, <1>3 DEF Accepted, Tracked
<1>7. SecondPassTells
  BY <1>2 DEF SecondPassTells
<1>8. ActIsJudged
  BY DEF Init, ActIsJudged, JudgedTogether
<1> QED BY <1>1, <1>4, <1>5, <1>6, <1>7, <1>8 DEF IInv, Evaluation

LEMMA NoAct ==
  ASSUME act' = None
  PROVE  ActIsJudged'
BY DEF ActIsJudged, JudgedTogether

\* The head that a run acts on was clean at an instant, unless evidence returned.
LEMMA ActsOnJudged ==
  ASSUME IInv, supervisor.phase \in {"ready", "merge"}, NEW what, Record(what)
  PROVE  ActIsJudged'
<1>1. Passed(2) /\ (~returned => head \in clean)
  BY DEF Passed, IInv, Evaluation, SecondPassTells
<1>2. head \in Heads
  BY <1>1 DEF IInv, Evaluation, Accepted
<1> QED BY <1>1, <1>2 DEF Record, ActIsJudged, JudgedTogether, head

--------------------------------------------------------------------------------
(* The supervisor's steps *)

LEMMA StepKeepsWorld ==
  ASSUME IInv, UNCHANGED <<world, changes, failures>>
  PROVE  WorldShape'
BY DEF IInv, WorldShape, world

LEMMA StartStep ==
  ASSUME IInv, Start
  PROVE  IInv'
<1>1. supervisor' = [phase |-> "first", at |-> 1, marked |-> FALSE, seen |-> NothingSeen]
  BY DEF Start, Step, FirstRead
<1>2. Evaluation'
  BY <1>1, BeginsStep
<1> QED BY <1>2, StepKeepsWorld, NoAct DEF Start, Step, IInv

LEMMA ReadFirstStep ==
  ASSUME IInv, ReadFirst
  PROVE  IInv'
<1> DEFINE answer == Reading(FirstPass[supervisor.at])
<1>1. /\ UNCHANGED <<world, changes, failures>> /\ act' = None
      /\ supervisor.phase = "first" /\ KeepHistory
  BY DEF ReadFirst, Step
<1>2. CASE ~Acceptable(FirstPass[supervisor.at], answer)
  <2>1. supervisor' = Idle
    BY <1>2 DEF ReadFirst, Step
  <2> QED BY <1>1, <2>1, EndsStep, StepKeepsWorld, NoAct DEF IInv
<1>3. CASE Acceptable(FirstPass[supervisor.at], answer)
  <2>1. supervisor' = [phase |-> AfterFirst.phase, at |-> AfterFirst.at,
                       marked |-> supervisor.marked,
                       seen |-> [seen EXCEPT ![FirstPass[supervisor.at]] = answer]]
    BY <1>3 DEF ReadFirst, Step
  <2>2. supervisor'.phase # "idle"
    BY <2>1 DEF AfterFirst
  <2>3. FirstGoesOn(answer)
    BY <1>1, <1>3, <2>1, <2>2 DEF FirstGoesOn, KeepHistory
  <2>4. Evaluation'
    BY <2>3, FirstGoesOnStep
  <2> QED BY <1>1, <2>4, StepKeepsWorld, NoAct DEF IInv
<1> QED BY <1>2, <1>3

LEMMA ReadAgainStep ==
  ASSUME IInv, ReadAgain
  PROVE  IInv'
<1> DEFINE answer == Reading(SecondPass[supervisor.at])
<1>1. /\ UNCHANGED <<world, changes, failures>> /\ act' = None
      /\ supervisor.phase = "again" /\ KeepHistory
  BY DEF ReadAgain, Step
<1>2. CASE supervisor' = Idle
  BY <1>1, <1>2, EndsStep, StepKeepsWorld, NoAct DEF IInv
<1>3. CASE supervisor' # Idle
  <2>1. /\ Unchanged(SecondPass[supervisor.at], answer)
        /\ supervisor' = [phase |-> IF supervisor.at # 9 THEN "again"
                                    ELSE IF pull.draft THEN "ready" ELSE "merge",
                          at |-> IF supervisor.at = 9 THEN 0 ELSE supervisor.at + 1,
                          marked |-> supervisor.marked,
                          seen |-> [seen EXCEPT ![SecondPass[supervisor.at]] = answer]]
    BY <1>3, Order DEF ReadAgain, Step
  <2>2. supervisor'.phase # "idle"
    BY <2>1
  <2>3. AgainGoesOn(answer)
    BY <1>1, <2>1, <2>2 DEF AgainGoesOn, KeepHistory
  <2>4. Evaluation'
    BY <2>3, AgainGoesOnStep
  <2> QED BY <1>1, <2>4, StepKeepsWorld, NoAct DEF IInv
<1> QED BY <1>2, <1>3

LEMMA UndraftedPull ==
  ASSUME IInv, pull' = [pull EXCEPT !.draft = FALSE], failures' \in 0..MaxFailures,
         UNCHANGED <<issue, amended, base, others, checks, posted, threads, changes>>
  PROVE  WorldShape'
<1>1. pull' \in [state : {"open", "closed", "merged"}, head : Heads, closes : BOOLEAN,
                 draft : BOOLEAN, hold : BOOLEAN, mergeable : BOOLEAN]
  BY DEF IInv, WorldShape
<1> QED BY <1>1 DEF IInv, WorldShape

LEMMA MarkReadyStep ==
  ASSUME IInv, MarkReady
  PROVE  IInv'
<1>1. CASE pull.head # seen["pull"].head
  <2>1. supervisor' = Idle /\ UNCHANGED <<world, changes, failures>> /\ act' = None
    BY <1>1 DEF MarkReady, Step
  <2> QED BY <2>1, EndsStep, StepKeepsWorld, NoAct DEF IInv
<1>2. CASE pull.head = seen["pull"].head
  <2>1. /\ pull' = [pull EXCEPT !.draft = FALSE]
        /\ supervisor' = [FirstRead EXCEPT !.marked = TRUE]
        /\ UNCHANGED <<issue, amended, base, others, checks, posted, threads,
                       changes, failures>>
        /\ Record("ready") /\ supervisor.phase = "ready"
    BY <1>2 DEF MarkReady
  <2>2. WorldShape'
    BY <2>1, UndraftedPull DEF IInv, WorldShape
  <2>3. Evaluation'
    <3>1. supervisor' = [phase |-> "first", at |-> 1, marked |-> TRUE, seen |-> NothingSeen]
      BY <2>1 DEF FirstRead
    <3> QED BY <3>1, BeginsStep
  <2>4. ActIsJudged'
    BY <2>1, ActsOnJudged
  <2> QED BY <2>2, <2>3, <2>4 DEF IInv
<1> QED BY <1>1, <1>2

LEMMA ReadyUnansweredStep ==
  ASSUME IInv, ReadyUnanswered
  PROVE  IInv'
<1>1. failures' \in 0..MaxFailures
  BY CoordinatorAssumption DEF ReadyUnanswered, IInv, WorldShape
<1>2. WorldShape'
  BY <1>1, UndraftedPull DEF ReadyUnanswered
<1>3. Evaluation' /\ ActIsJudged'
  BY EndsStep, ActsOnJudged DEF ReadyUnanswered
<1> QED BY <1>2, <1>3 DEF IInv

LEMMA MergeStep ==
  ASSUME IInv, Merge
  PROVE  IInv'
<1>1. /\ supervisor' = Idle /\ supervisor.phase = "merge"
      /\ UNCHANGED <<issue, amended, base, others, checks, posted, threads,
                     changes, failures>>
      /\ \/ pull' = [pull EXCEPT !.state = "merged"] /\ Record("merge")
         \/ pull' = pull /\ act' = None
  BY DEF Merge
<1>2. pull' \in [state : {"open", "closed", "merged"}, head : Heads, closes : BOOLEAN,
                 draft : BOOLEAN, hold : BOOLEAN, mergeable : BOOLEAN]
  <2>1. pull \in [state : {"open", "closed", "merged"}, head : Heads, closes : BOOLEAN,
                  draft : BOOLEAN, hold : BOOLEAN, mergeable : BOOLEAN]
    BY DEF IInv, WorldShape
  <2> QED BY <1>1, <2>1
<1>3. WorldShape'
  BY <1>1, <1>2 DEF IInv, WorldShape
<1>4. Evaluation'
  BY <1>1, EndsStep
<1>5. ActIsJudged'
  BY <1>1, ActsOnJudged, NoAct
<1> QED BY <1>3, <1>4, <1>5 DEF IInv

LEMMA FailStep ==
  ASSUME IInv, Fail
  PROVE  IInv'
<1>1. failures' \in 0..MaxFailures
  BY CoordinatorAssumption DEF Fail, IInv, WorldShape
<1>2. WorldShape'
  BY <1>1 DEF Fail, IInv, WorldShape, world
<1>3. Evaluation' /\ ActIsJudged'
  BY EndsStep, NoAct DEF Fail
<1> QED BY <1>2, <1>3 DEF IInv

--------------------------------------------------------------------------------
(* What the others do *)

LEMMA ChangeCounts ==
  ASSUME IInv, NEW M, Change(M)
  PROVE  /\ changes' \in 0..MaxChanges /\ changes' = changes + 1 /\ changes \in Nat
         /\ failures' \in 0..MaxFailures
         /\ issue.updated \in Nat /\ issue.updated <= changes
         /\ \A h \in Heads : checks[h].run \in Nat /\ checks[h].run <= changes + 1
<1>1. /\ changes \in 0..MaxChanges /\ changes < MaxChanges /\ changes' = changes + 1
      /\ failures' = failures /\ failures \in 0..MaxFailures
  BY DEF IInv, WorldShape, Change
<1>2. issue.updated \in Nat /\ issue.updated <= changes
  BY DEF IInv, WorldShape, IssueRows
<1>3. \A h \in Heads : checks[h].run \in Nat /\ checks[h].run <= changes + 1
  BY DEF IInv, WorldShape, CheckRows
<1> QED BY <1>1, <1>2, <1>3, CoordinatorAssumption

\* The parts of the world that a change by someone may touch.
LEMMA ChangeShape ==
  ASSUME IInv, NEW M, Change(M),
         pull' \in [state : {"open", "closed", "merged"}, head : Heads, closes : BOOLEAN,
                    draft : BOOLEAN, hold : BOOLEAN, mergeable : BOOLEAN],
         issue' \in IssueRows, issue'.updated <= issue.updated + 1,
         amended' \in [Amendments -> {"unposted", "present", "gone"}],
         base' \in DOMAIN BaseWorkflows, others' \in SUBSET Others,
         checks' \in [Heads -> CheckRows],
         \A h \in Heads : checks'[h].run <= checks[h].run + 1,
         posted' \in [Reviews -> {"unposted", "present", "gone"}],
         threads' \in ThreadStates
  PROVE  WorldShape'
<1>1. issue'.updated <= changes'
  <2>1. issue'.updated \in Nat
    BY DEF IssueRows
  <2> QED BY <2>1, ChangeCounts
<1>2. \A h \in Heads : checks'[h].run <= changes' + 1
  <2>1. \A h \in Heads : checks'[h].run \in Nat
    BY DEF CheckRows
  <2> QED BY <2>1, ChangeCounts
<1> QED BY <1>1, <1>2, ChangeCounts DEF WorldShape

\* A change whose effect on the evidence is what it is recorded as.
LEMMA ChangeStep ==
  ASSUME IInv, NEW M, Change(M), WorldShape', EvidenceChanges(M)
  PROVE  IInv'
<1>1. UNCHANGED supervisor /\ RecordChange(M) /\ act' = None
  BY DEF Change
<1> QED BY <1>1, WorldStep, NoAct DEF IInv

\* The kinds of what a change leaves alone.
LEMMA Kinds ==
  ASSUME IInv
  PROVE  /\ pull \in [state : {"open", "closed", "merged"}, head : Heads, closes : BOOLEAN,
                      draft : BOOLEAN, hold : BOOLEAN, mergeable : BOOLEAN]
         /\ issue \in IssueRows /\ issue.updated \in Nat /\ issue.updated <= issue.updated + 1
         /\ amended \in [Amendments -> {"unposted", "present", "gone"}]
         /\ base \in DOMAIN BaseWorkflows /\ others \in SUBSET Others
         /\ checks \in [Heads -> CheckRows]
         /\ \A h \in Heads : checks[h].run <= checks[h].run + 1
         /\ posted \in [Reviews -> {"unposted", "present", "gone"}]
         /\ threads \in ThreadStates
<1>1. issue \in IssueRows /\ checks \in [Heads -> CheckRows]
  BY DEF IInv, WorldShape
<1>2. issue.updated \in Nat /\ \A h \in Heads : checks[h].run \in Nat
  BY <1>1 DEF IssueRows, CheckRows
<1> QED BY <1>1, <1>2 DEF IInv, WorldShape

\* Evidence whose source did not change reads as before.
LEMMA SameReadings ==
  /\ pull' = pull => Identity(pull)' = Identity(pull)
  /\ amended' = amended => PresentAmendments' = PresentAmendments
  /\ posted' = posted => \A h \in Heads : PresentReviews(h)' = PresentReviews(h)
BY DEF PresentAmendments, PresentReviews

LEMMA PushStep ==
  ASSUME IInv, NEW h \in Heads, Push(h)
  PROVE  IInv'
<1>1. /\ h # pull.head
      /\ pull' = [pull EXCEPT !.head = h]
      /\ checks' = [checks EXCEPT ![h] = [run |-> @.run + 1, state |-> "pending"]]
      /\ UNCHANGED <<issue, amended, base, others, posted, threads>>
      /\ Change({"pull"})
  BY DEF Push
<1>2. /\ pull' \in [state : {"open", "closed", "merged"}, head : Heads, closes : BOOLEAN,
                    draft : BOOLEAN, hold : BOOLEAN, mergeable : BOOLEAN]
      /\ pull'.head = h
  BY <1>1, Kinds
<1>3. /\ checks' \in [Heads -> CheckRows]
      /\ \A g \in Heads : checks'[g].run <= checks[g].run + 1
  <2>1. \A g \in Heads : checks[g].run \in Nat
    BY Kinds DEF CheckRows
  <2>2. [run |-> checks[h].run + 1, state |-> "pending"] \in CheckRows
    BY <2>1 DEF CheckRows
  <2>3. \A g \in Heads : checks'[g] = IF g = h THEN [run |-> checks[h].run + 1, state |-> "pending"]
                                      ELSE checks[g]
    BY <1>1, Kinds
  <2>4. checks' \in [Heads -> CheckRows]
    BY <1>1, <2>2, Kinds
  <2>5. \A g \in Heads : checks'[g].run <= checks[g].run + 1
    BY <2>1, <2>3
  <2> QED BY <2>4, <2>5
<1>4. WorldShape'
  BY <1>1, <1>2, <1>3, Kinds, ChangeShape
<1>5. Identity(pull)' # Identity(pull)
  BY <1>1, <1>2 DEF Identity
<1>6. EvidenceChanges({"pull"})
  BY <1>1, <1>5, SameReadings DEF EvidenceChanges
<1> QED BY <1>1, <1>4, <1>6, ChangeStep

LEMMA EditPullStep ==
  ASSUME IInv, EditPull
  PROVE  IInv'
<1>1. /\ UNCHANGED <<issue, amended, base, others, checks, posted, threads>>
      /\ Change({"pull"})
  BY DEF EditPull
<1>2. /\ pull' \in [state : {"open", "closed", "merged"}, head : Heads, closes : BOOLEAN,
                    draft : BOOLEAN, hold : BOOLEAN, mergeable : BOOLEAN]
      /\ pull'.closes # pull.closes \/ pull'.state # pull.state
  <2>1. CASE pull' = [pull EXCEPT !.closes = ~@]
    <3>1. pull.closes \in BOOLEAN /\ ~pull.closes # pull.closes
      BY Kinds
    <3> QED BY <2>1, <3>1, Kinds
  <2>2. CASE pull' = [pull EXCEPT !.state = IF @ = "open" THEN "closed" ELSE "open"]
    BY <2>2, Kinds
  <2> QED BY <2>1, <2>2 DEF EditPull
<1>3. WorldShape'
  BY <1>1, <1>2, Kinds, ChangeShape
<1>4. Identity(pull)' # Identity(pull)
  BY <1>2 DEF Identity
<1>5. EvidenceChanges({"pull"})
  BY <1>1, <1>4, SameReadings DEF EvidenceChanges
<1> QED BY <1>1, <1>3, <1>5, ChangeStep

LEMMA TogglePullStep ==
  ASSUME IInv, TogglePull
  PROVE  IInv'
<1>1. /\ UNCHANGED <<issue, amended, base, others, checks, posted, threads>>
      /\ Change({})
  BY DEF TogglePull
<1>2. /\ pull' \in [state : {"open", "closed", "merged"}, head : Heads, closes : BOOLEAN,
                    draft : BOOLEAN, hold : BOOLEAN, mergeable : BOOLEAN]
      /\ pull'.state = pull.state /\ pull'.head = pull.head /\ pull'.closes = pull.closes
  BY Kinds DEF TogglePull
<1>3. WorldShape'
  BY <1>1, <1>2, Kinds, ChangeShape
<1>4. Identity(pull)' = Identity(pull)
  BY <1>2 DEF Identity
<1>5. EvidenceChanges({})
  BY <1>1, <1>4, SameReadings DEF EvidenceChanges
<1> QED BY <1>1, <1>3, <1>5, ChangeStep

LEMMA EditIssueStep ==
  ASSUME IInv, EditIssue
  PROVE  IInv'
<1>1. /\ UNCHANGED <<pull, amended, base, others, checks, posted, threads>>
      /\ Change({})
  BY DEF EditIssue
<1>2. issue' \in IssueRows /\ issue'.updated = issue.updated + 1
  <2>1. issue \in IssueRows /\ issue.updated + 1 \in Nat
    BY Kinds
  <2>2. CASE issue' = [issue EXCEPT !.open = ~@, !.updated = @ + 1]
    <3>1. PICK open \in BOOLEAN : issue' = [issue EXCEPT !.open = open, !.updated = @ + 1]
      BY <2>2
    <3> QED BY <2>1, <3>1 DEF IssueRows
  <2>3. CASE \E scope \in IssueScopes \ {issue.scope} :
               issue' = [issue EXCEPT !.scope = scope, !.updated = @ + 1]
    BY <2>1, <2>3 DEF IssueRows
  <2> QED BY <2>2, <2>3 DEF EditIssue
<1>3. issue'.updated <= issue.updated + 1
  BY <1>2, Kinds
<1>4. WorldShape'
  BY <1>1, <1>2, <1>3, Kinds, ChangeShape
<1>5. EvidenceChanges({})
  BY <1>1, <1>2, SameReadings DEF EvidenceChanges
<1> QED BY <1>1, <1>4, <1>5, ChangeStep

LEMMA AmendStep ==
  ASSUME IInv, NEW a \in Amendments, Amend(a)
  PROVE  IInv'
<1>1. /\ UNCHANGED <<pull, issue, base, others, checks, posted, threads>>
      /\ Change({"amendments"})
  BY DEF Amend
<1>2. amended' \in [Amendments -> {"unposted", "present", "gone"}]
  BY Kinds DEF Amend, Later
<1>3. WorldShape'
  BY <1>1, <1>2, Kinds, ChangeShape
<1>4. EvidenceChanges({"amendments"})
  BY <1>1, SameReadings DEF EvidenceChanges
<1> QED BY <1>1, <1>3, <1>4, ChangeStep

LEMMA ReviewStep ==
  ASSUME IInv, NEW r \in Reviews, Review(r)
  PROVE  IInv'
<1>1. /\ UNCHANGED <<pull, issue, amended, base, others, checks, threads>>
      /\ Change({"comments"})
  BY DEF Review
<1>2. posted' \in [Reviews -> {"unposted", "present", "gone"}]
  BY Kinds DEF Review, Later
<1>3. WorldShape'
  BY <1>1, <1>2, Kinds, ChangeShape
<1>4. EvidenceChanges({"comments"})
  BY <1>1, SameReadings DEF EvidenceChanges
<1> QED BY <1>1, <1>3, <1>4, ChangeStep

LEMMA TurnThreadStep ==
  ASSUME IInv, TurnThread
  PROVE  IInv'
<1>1. /\ UNCHANGED <<pull, issue, amended, base, others, checks, posted>>
      /\ Change({}) /\ threads' \in ThreadStates
  BY DEF TurnThread, ThreadStates
<1>2. WorldShape'
  BY <1>1, Kinds, ChangeShape
<1>3. EvidenceChanges({})
  BY <1>1, SameReadings DEF EvidenceChanges
<1> QED BY <1>1, <1>2, <1>3, ChangeStep

LEMMA MoveBaseStep ==
  ASSUME IInv, MoveBase
  PROVE  IInv'
<1>1. /\ UNCHANGED <<pull, issue, amended, others, checks, posted, threads>>
      /\ Change({}) /\ base' = base + 1
  BY DEF MoveBase
<1>2. base' \in DOMAIN BaseWorkflows
  BY Kinds, CoordinatorAssumption DEF MoveBase
<1>3. WorldShape'
  BY <1>1, <1>2, Kinds, ChangeShape
<1>4. EvidenceChanges({})
  BY <1>1, SameReadings DEF EvidenceChanges
<1> QED BY <1>1, <1>3, <1>4, ChangeStep

\* A pull request that touches none of the files is no evidence.
LEMMA TurnOtherStep ==
  ASSUME IInv, NEW o \in Others, TurnOther(o)
  PROVE  IInv'
<1> DEFINE M == IF OtherFiles[o] \cap FilesOf[pull.head] # {} THEN {"overlap"} ELSE {}
<1>1. /\ UNCHANGED <<pull, issue, amended, base, checks, posted, threads>>
      /\ Change(M)
      /\ others' = IF o \in others THEN others \ {o} ELSE others \union {o}
  BY DEF TurnOther
<1>2. others' \in SUBSET Others
  BY <1>1, Kinds
<1>3. "pull" \notin M
  OBVIOUS
<1>4. \/ "overlap" \in M
      \/ Overlapping(others', FilesOf[pull.head]) = Overlapping(others, FilesOf[pull.head])
  BY <1>1 DEF Overlapping
<1> HIDE DEF M
<1>5. WorldShape'
  BY <1>1, <1>2, Kinds, ChangeShape
<1>6. EvidenceChanges(M)
  BY <1>1, <1>3, <1>4, SameReadings DEF EvidenceChanges
<1> QED BY <1>1, <1>5, <1>6, ChangeStep

LEMMA CheckStep ==
  ASSUME IInv, Check
  PROVE  IInv'
<1> DEFINE h == pull.head
<1>1. /\ UNCHANGED <<pull, issue, amended, base, others, posted, threads>>
      /\ Change({"checks"})
  BY DEF Check
<1>2. h \in Heads /\ checks[h] \in CheckRows /\ checks[h].run \in Nat
  BY Kinds DEF CheckRows
<1>3. PICK row \in CheckRows : /\ checks' = [checks EXCEPT ![h] = row]
                               /\ row.run <= checks[h].run + 1
  <2>1. CASE checks[h].state = "pending" /\ \E state \in {"success", "failure"} :
               checks' = [checks EXCEPT ![h].state = state]
    <3>1. PICK state \in {"success", "failure"} :
            checks' = [checks EXCEPT ![h].state = state]
      BY <2>1
    <3>2. [checks[h] EXCEPT !.state = state] \in CheckRows
          /\ [checks[h] EXCEPT !.state = state].run = checks[h].run
      BY <1>2 DEF CheckRows
    <3>3. checks' = [checks EXCEPT ![h] = [checks[h] EXCEPT !.state = state]]
      BY <3>1
    <3>4. checks[h].run <= checks[h].run + 1
      BY <1>2
    <3> QED BY <3>2, <3>3, <3>4
  <2>2. CASE checks' = [checks EXCEPT ![h].state = "pending"]
    <3>1. [checks[h] EXCEPT !.state = "pending"] \in CheckRows
          /\ [checks[h] EXCEPT !.state = "pending"].run = checks[h].run
      BY <1>2 DEF CheckRows
    <3>2. checks' = [checks EXCEPT ![h] = [checks[h] EXCEPT !.state = "pending"]]
      BY <2>2
    <3>3. checks[h].run <= checks[h].run + 1
      BY <1>2
    <3> QED BY <3>1, <3>2, <3>3
  <2>3. CASE checks' = [checks EXCEPT ![h] = [run |-> @.run + 1, state |-> "pending"]]
    <3>1. [run |-> checks[h].run + 1, state |-> "pending"] \in CheckRows
      BY <1>2 DEF CheckRows
    <3>2. checks' = [checks EXCEPT ![h] = [run |-> checks[h].run + 1, state |-> "pending"]]
      BY <2>3
    <3>3. checks[h].run + 1 <= checks[h].run + 1
      BY <1>2
    <3> QED BY <3>1, <3>2, <3>3
  <2> QED BY <2>1, <2>2, <2>3 DEF Check
<1> HIDE DEF h
<1>4. checks' \in [Heads -> CheckRows]
  BY <1>2, <1>3, Kinds
<1>5. \A g \in Heads : checks'[g].run <= checks[g].run + 1
  <2>1. \A g \in Heads : checks'[g] = IF g = h THEN row ELSE checks[g]
    BY <1>2, <1>3, Kinds
  <2> QED BY <1>3, <2>1, Kinds
<1>6. WorldShape'
  BY <1>1, <1>4, <1>5, Kinds, ChangeShape
<1>7. EvidenceChanges({"checks"})
  BY <1>1, SameReadings DEF EvidenceChanges
<1> QED BY <1>1, <1>6, <1>7, ChangeStep

--------------------------------------------------------------------------------
(* Every step *)

LEMMA UnchangedStep ==
  ASSUME IInv, UNCHANGED vars
  PROVE  IInv'
<1>1. UNCHANGED <<pull, issue, amended, base, others, checks, posted, threads, supervisor,
                  changes, failures, clean, moved, returned, act>>
  BY DEF vars, world
<1>2. WorldShape'
  BY <1>1 DEF IInv, WorldShape
<1>3. ActIsJudged'
  BY <1>1 DEF IInv, ActIsJudged, JudgedTogether
<1>4. EvidenceChanges({})
  BY <1>1, SameReadings DEF EvidenceChanges
<1>5. Evaluation'
  <2>1. CASE supervisor.phase = "idle"
    BY <1>1, <2>1, SameSeen, NothingPassed
  <2>2. CASE supervisor.phase # "idle"
    <3>1. /\ seen' = seen /\ head' = head /\ SeenRisk' = SeenRisk
          /\ RunShape' /\ Answered' /\ Accepted'
          /\ \A n : Passed(n)' <=> Passed(n)
      BY <1>1, <1>4, SameSeen, WorldAccepted
    <3>2. Away' = Away /\ PresentAmendments' = PresentAmendments
      BY <1>1, <3>1, SameReadings DEF Away
    <3>3. PresentReviews(head)' = PresentReviews(head)
      BY <1>1, <3>1 DEF PresentReviews
    <3>4. Tracked'
      BY <1>1, <3>1, <3>2, <3>3 DEF IInv, Evaluation, Tracked
    <3>5. Obstructed(supervisor.at)' = Obstructed(supervisor.at)
      BY <1>1, <3>1, <3>2, <3>3 DEF Obstructed
    <3>6. SecondPassTells'
      BY <1>1, <3>1, <3>5 DEF IInv, Evaluation, SecondPassTells
    <3> QED BY <3>1, <3>4, <3>6 DEF Evaluation
  <2> QED BY <2>1, <2>2
<1> QED BY <1>2, <1>3, <1>5 DEF IInv

LEMMA NextIInv == IInv /\ [Next]_vars => IInv'
<1> SUFFICES ASSUME IInv, [Next]_vars
             PROVE  IInv'
  OBVIOUS
<1>1. CASE Supervise
  BY <1>1, StartStep, ReadFirstStep, ReadAgainStep, MarkReadyStep, MergeStep DEF Supervise
<1>2. CASE Fail
  BY <1>2, FailStep
<1>3. CASE ReadyUnanswered
  BY <1>3, ReadyUnansweredStep
<1>4. CASE World
  BY <1>4, PushStep, EditPullStep, TogglePullStep, EditIssueStep, TurnThreadStep,
     MoveBaseStep, CheckStep, AmendStep, ReviewStep, TurnOtherStep DEF World
<1>5. CASE UNCHANGED vars
  BY <1>5, UnchangedStep
<1> QED BY <1>1, <1>2, <1>3, <1>4, <1>5 DEF Next

--------------------------------------------------------------------------------
(* Theorems *)

\* The inductive invariant holds of every behaviour.
THEOREM Invariance == Spec => []IInv
BY InitIInv, NextIInv, PTL DEF Spec

\* The supervisor has read exactly the sources its two passes have come to, and
\* what GitHub holds and what the run has done is well-formed.
THEOREM TypeCorrectness == Spec => []TypeOK
<1>1. IInv => TypeOK
  <2> SUFFICES ASSUME IInv
               PROVE  TypeOK
    OBVIOUS
  <2>1. issue \in [open : BOOLEAN, updated : 0..MaxChanges, scope : IssueScopes]
    <3>1. issue.updated \in 0..MaxChanges
      BY CoordinatorAssumption DEF IInv, WorldShape, IssueRows
    <3>2. issue \in IssueRows
      BY DEF IInv, WorldShape
    <3> QED BY <3>1, <3>2 DEF IssueRows
  <2>2. \A h \in Heads : /\ checks[h].run \in 0..(MaxChanges + 1)
                         /\ checks[h].state \in {"missing", "pending", "success", "failure"}
    <3>1. \A h \in Heads : checks[h] \in CheckRows /\ checks[h].run <= changes + 1
      BY DEF IInv, WorldShape
    <3>2. changes \in 0..MaxChanges
      BY DEF IInv, WorldShape
    <3>3. \A h \in Heads : checks[h].run \in Nat
      BY <3>1 DEF CheckRows
    <3>4. \A h \in Heads : checks[h].run \in 0..(MaxChanges + 1)
      BY <3>1, <3>2, <3>3, CoordinatorAssumption
    <3> QED BY <3>1, <3>4 DEF CheckRows
  <2>3. supervisor.phase \in Phases /\ supervisor.at \in 0..Len(FirstPass)
    BY Order DEF IInv, Evaluation, RunShape
  <2>4. \A i \in DOMAIN FirstPass :
          (seen[FirstPass[i]] # None) <=>
            \/ supervisor.phase \in {"again", "ready", "merge"}
            \/ supervisor.phase = "first" /\ i < supervisor.at
    BY Order DEF IInv, Evaluation, Answered, Passed
  <2>5. act = None \/ act.head \in Heads
    BY DEF IInv, ActIsJudged
  <2>6. others \subseteq Others
    BY DEF IInv, WorldShape
  <2> QED BY <2>1, <2>2, <2>3, <2>4, <2>5, <2>6 DEF IInv, WorldShape, TypeOK, Phases
<1> QED BY <1>1, Invariance, PTL

\* A head is marked ready or merged only if it was clean, all of it together, at
\* an instant of the evaluation that decided it, or evidence went away and came
\* back while it read: for every set of commits, reviews and pull requests, and
\* every number of changes between its reads.
THEOREM JudgedSafety == Spec => []JudgedTogether
<1>1. IInv => JudgedTogether
  BY DEF IInv, ActIsJudged
<1> QED BY <1>1, Invariance, PTL

================================================================================

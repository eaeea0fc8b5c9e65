--------------------------- MODULE QueueRetry_proofs ---------------------------
(***************************************************************************)
(* Proofs about QueueRetry for every set of contents and every bound on    *)
(* the default branch, the retries, the changes and the faults.            *)
(***************************************************************************)
EXTENDS QueueRetry, FiniteSetTheorems, WellFoundedInduction, TLAPS

Artifacts == {None} \union SUBSET Contents

RunRow ==
  [request : Requests, attempt : 0..MaxRetries, head : Bases,
   state : {"queued", "working", "completed"}, artifact : Artifacts,
   seen : {"at once", "late", "not yet"}]

Checkpoint == [head : Bases, authorized : BOOLEAN]

Phases == {"idle", "publish", "judge", "recheck", "dispatch"}

ReconcilerRow ==
  [phase : Phases, request : Requests \union {None}, class : Classes \union {None},
   attempt : 0..MaxRetries, checkpoint : Checkpoint \union {None}]

\* The kinds of the records that TypeOK looks into.
Shape ==
  /\ content \in Contents /\ base \in Bases
  /\ candidate \in BOOLEAN
  /\ runs \in Seq(RunRow)
  /\ \A i \in DOMAIN runs : runs[i].artifact # None => runs[i].state = "completed"
  /\ records \in [Requests -> Seq(Retryable)]
  /\ stop \in [Requests -> {None, "internal-stop", "exhausted"}]
  /\ event \in [run : Nat, class : Classes \union {None}]
  /\ event = NoEvent \/ (event.run \in DOMAIN runs /\ event.class \in Classes)
  /\ reconciler \in ReconcilerRow
  /\ reconciler.phase = "publish" => reconciler.checkpoint \in Checkpoint
  /\ changes \in 0..MaxChanges
  /\ faults \in 0..MaxFaults

RecordsAreBounded == \A q \in Requests : Len(records[q]) <= MaxRetries

\* The default branch only moves forward: a run is asked for no earlier than
\* its request was made.
HeadsMoveForward ==
  \A i \in DOMAIN runs : runs[i].request.base <= runs[i].head /\ runs[i].head <= base

\* What the reconciler knows of the retry it is at: when it dispatches, its
\* record is there, nobody stopped the request, and no run is this attempt's.
RetryUnderWay ==
  /\ reconciler.phase \in {"judge", "recheck", "dispatch"} =>
       /\ reconciler.request \in Requests
       /\ reconciler.request.base <= base
  /\ reconciler.phase \in {"recheck", "dispatch"} =>
       /\ reconciler.attempt \in DOMAIN records[reconciler.request]
       /\ stop[reconciler.request] = None
  /\ reconciler.phase = "dispatch" =>
       \A i \in DOMAIN runs :
         runs[i].request = reconciler.request /\ runs[i].attempt = reconciler.attempt
         => runs[i].seen # "at once"

IInv ==
  /\ Shape
  /\ RecordsAreBounded
  /\ HeadsMoveForward
  /\ RetryUnderWay
  /\ OneRunPerAttempt

LEMMA Bounds ==
  /\ MaxRetries \in Nat /\ MaxChanges \in Nat /\ MaxFaults \in Nat
  /\ MaxBase \in Nat \ {0}
BY QueueAssumption DEF QueueAssumption

--------------------------------------------------------------------------------
(* Runs *)

\* What Shape says of a run.
LEMMA RunTypes ==
  ASSUME Shape, NEW i \in DOMAIN runs
  PROVE  /\ runs \in Seq(RunRow) /\ runs[i] \in RunRow /\ i \in Nat
         /\ runs[i].request \in Requests /\ runs[i].request.base \in Bases
         /\ runs[i].attempt \in 0..MaxRetries /\ runs[i].head \in Bases
         /\ runs[i].state \in {"queued", "working", "completed"}
         /\ runs[i].artifact \in Artifacts
         /\ runs[i].seen \in {"at once", "late", "not yet"}
<1>1. runs \in Seq(RunRow) /\ runs[i] \in RunRow /\ i \in Nat
  BY DEF Shape
<1>2. runs[i].request \in Requests
  BY <1>1 DEF RunRow
<1>3. runs[i].request.base \in Bases
  BY <1>2 DEF Requests
<1> QED BY <1>1, <1>2, <1>3 DEF RunRow

\* What Shape says of the reconciler.
LEMMA ReconcilerTypes ==
  ASSUME Shape
  PROVE  /\ reconciler \in ReconcilerRow /\ reconciler.phase \in Phases
         /\ reconciler.request \in Requests \union {None}
         /\ reconciler.class \in Classes \union {None}
         /\ reconciler.attempt \in 0..MaxRetries
BY DEF Shape, ReconcilerRow

\* A run that is asked for now.
LEMMA QueueRunType ==
  ASSUME Shape, NEW q \in Requests, NEW attempt \in 0..MaxRetries
  PROVE  /\ QueueRun(q, attempt) \in RunRow
         /\ QueueRun(q, attempt).request = q
         /\ QueueRun(q, attempt).attempt = attempt
         /\ QueueRun(q, attempt).head = base
         /\ QueueRun(q, attempt).artifact = None
<1> SUFFICES QueueRun(q, attempt) \in RunRow
  BY DEF QueueRun
<1>1. base \in Bases /\ None \in Artifacts
  BY DEF Shape, Artifacts
<1> QED BY <1>1 DEF QueueRun, RunRow

\* A request is made at the head the default branch has.
LEMMA RequestType ==
  ASSUME Shape
  PROVE  Request \in Requests /\ Request.base = base /\ Request.content = content
BY DEF Shape, Request, Requests

LEMMA InitIInv == Init => IInv
<1> SUFFICES ASSUME Init
             PROVE  IInv
  OBVIOUS
<1>1. content \in Contents /\ base = 1 /\ base \in Bases
  <2>1. content = CHOOSE c \in Contents : TRUE
    BY DEF Init
  <2>2. content \in Contents
    BY <2>1, QueueAssumption, Zenon
  <2> QED BY <2>2, Bounds DEF Init, Bases
<1>2. Request \in Requests /\ Request.base = base
  BY <1>1 DEF Request, Requests
<1>3. /\ QueueRun(Request, 0) \in RunRow
      /\ QueueRun(Request, 0).request.base = base
      /\ QueueRun(Request, 0).attempt = 0 /\ QueueRun(Request, 0).head = base
      /\ QueueRun(Request, 0).artifact = None
  <2>1. None \in Artifacts /\ 0 \in 0..MaxRetries
    BY Bounds DEF Artifacts
  <2> QED BY <1>1, <1>2, <2>1 DEF QueueRun, RunRow
<1>4. runs \in Seq(RunRow) /\ \A i \in DOMAIN runs : runs[i] = QueueRun(Request, 0)
  <2> DEFINE first == QueueRun(Request, 0)
  <2>1. CASE runs = <<>>
    BY <2>1
  <2>2. CASE runs = <<first>>
    <3>1. first \in RunRow
      BY <1>3
    <3> HIDE DEF first
    <3>2. <<first>> \in Seq(RunRow) /\ \A i \in DOMAIN <<first>> : <<first>>[i] = first
      BY <3>1
    <3> QED BY <2>2, <3>2 DEF first
  <2> QED BY <2>1, <2>2 DEF Init
<1>5. Shape
  <2>1. records \in [Requests -> Seq(Retryable)]
    BY DEF Init
  <2>2. stop \in [Requests -> {None, "internal-stop", "exhausted"}]
    BY DEF Init
  <2>3. event \in [run : Nat, class : Classes \union {None}] /\ event = NoEvent
    BY DEF Init, NoEvent
  <2>4. /\ reconciler \in ReconcilerRow
        /\ reconciler.phase # "publish"
    BY Bounds DEF Init, Idle, Phases, ReconcilerRow
  <2>5. \A i \in DOMAIN runs : runs[i].artifact # None => runs[i].state = "completed"
    BY <1>3, <1>4
  <2>6. candidate \in BOOLEAN
    BY DEF Init
  <2>7. changes \in 0..MaxChanges /\ faults \in 0..MaxFaults
    <3>1. changes = 0 /\ faults = 0
      BY DEF Init
    <3> QED BY <3>1, Bounds
  <2> QED BY <1>1, <1>4, <2>1, <2>2, <2>3, <2>4, <2>5, <2>6, <2>7 DEF Shape
<1>6. RecordsAreBounded
  BY Bounds DEF Init, RecordsAreBounded
<1>7. HeadsMoveForward
  BY <1>1, <1>3, <1>4 DEF HeadsMoveForward, Bases
<1>8. RetryUnderWay
  BY DEF Init, RetryUnderWay, Idle
<1>9. OneRunPerAttempt
  <2>1. \A i \in DOMAIN runs : ~(runs[i].attempt > 0)
    BY <1>3, <1>4
  <2> QED BY <2>1 DEF OneRunPerAttempt
<1> QED BY <1>5, <1>6, <1>7, <1>8, <1>9 DEF IInv

--------------------------------------------------------------------------------
(* What the steps have in common *)

\* Of the runs that have something there is a latest one.
LEMMA LatestExists ==
  ASSUME NEW n \in Nat, NEW found \in SUBSET (1..n), found # {}
  PROVE  (CHOOSE i \in found : \A j \in found : j <= i) \in found
<1> DEFINE Above(i) == {j \in found : i <= j}
           families == {Above(i) : i \in found}
<1>1. IsWellFoundedOn(StrictSubsetOrdering(1..n), SUBSET (1..n))
  <2>1. IsFiniteSet(1..n)
    BY FS_Interval
  <2> QED BY <2>1, FS_StrictSubsetOrderingWellFounded, FS_FiniteSubsetsOfFinite
<1>2. families \subseteq SUBSET (1..n) /\ families # {}
  OBVIOUS
<1>3. PICK U \in families : \A V \in families : <<V, U>> \notin StrictSubsetOrdering(1..n)
  <2> HIDE DEF families
  <2> QED BY <1>1, <1>2, WFMin
<1>4. PICK i \in found : U = Above(i)
  OBVIOUS
<1>5. ASSUME NEW j \in found, ~(j <= i)
      PROVE  FALSE
  <2>1. i \in Above(i) /\ i \notin Above(j) /\ Above(j) \subseteq Above(i)
    <3>1. \A k \in found : k \in Int
      OBVIOUS
    <3>2. i < j
      BY <1>5, <3>1
    <3>3. \A k \in found : j <= k => i <= k
      BY <3>1, <3>2
    <3>4. i <= i /\ ~(j <= i)
      BY <1>5, <3>1
    <3> QED BY <3>3, <3>4, Zenon
  <2>2. Above(j) \in families /\ Above(j) \in SUBSET (1..n) /\ Above(i) \in SUBSET (1..n)
    OBVIOUS
  <2>3. <<Above(j), U>> \in StrictSubsetOrdering(1..n)
    <3> HIDE DEF Above, families
    <3> QED BY <1>4, <2>1, <2>2 DEF StrictSubsetOrdering
  <2> QED BY <1>3, <2>2, <2>3
<1> QED BY <1>5

\* The same runs, of the same requests, whatever became of them.
SameRuns ==
  /\ DOMAIN runs' = DOMAIN runs
  /\ \A i \in DOMAIN runs :
       /\ runs'[i].request = runs[i].request /\ runs'[i].attempt = runs[i].attempt
       /\ runs'[i].head = runs[i].head
       /\ runs'[i].seen = "at once" => runs[i].seen = "at once"

LEMMA UnchangedRuns ==
  ASSUME UNCHANGED runs
  PROVE  SameRuns
BY DEF SameRuns

\* One run more, asked for at the head the default branch has.
LEMMA AppendedRun ==
  ASSUME Shape, NEW q \in Requests, NEW attempt \in 0..MaxRetries, Ask(q, attempt)
  PROVE  /\ runs' \in Seq(RunRow) /\ faults' \in 0..MaxFaults
         /\ DOMAIN runs \subseteq DOMAIN runs'
         /\ DOMAIN runs' = DOMAIN runs \union {Len(runs) + 1}
         /\ Len(runs) + 1 \notin DOMAIN runs
         /\ \A i \in DOMAIN runs : runs'[i] = runs[i] /\ ~(Len(runs) + 1 < i)
         /\ ~(Len(runs) + 1 < Len(runs) + 1)
         /\ runs'[Len(runs) + 1].request = q
         /\ runs'[Len(runs) + 1].attempt = attempt
         /\ runs'[Len(runs) + 1].head = base
         /\ runs'[Len(runs) + 1].artifact = None
<1> DEFINE asked == QueueRun(q, attempt)
           unseen == [asked EXCEPT !.seen = "not yet"]
<1>1. /\ asked \in RunRow /\ asked.request = q /\ asked.attempt = attempt
      /\ asked.head = base /\ asked.artifact = None
  BY QueueRunType
<1>2. /\ faults' \in 0..MaxFaults /\ runs \in Seq(RunRow)
      /\ runs' = Append(runs, asked) \/ runs' = Append(runs, unseen)
  <2>1. faults \in 0..MaxFaults /\ runs \in Seq(RunRow)
    BY DEF Shape
  <2>2. \/ runs' = Append(runs, asked) /\ faults' = faults
        \/ runs' = Append(runs, unseen) /\ faults < MaxFaults /\ faults' = faults + 1
    BY DEF Ask
  <2> HIDE DEF asked, unseen
  <2> QED BY <2>1, <2>2, Bounds
<1> HIDE DEF asked
<1>3. /\ unseen \in RunRow /\ unseen.request = q /\ unseen.attempt = attempt
      /\ unseen.head = base /\ unseen.artifact = None
  BY <1>1 DEF RunRow
<1> HIDE DEF unseen
<1>4. PICK new \in RunRow : /\ runs' = Append(runs, new)
                            /\ new.request = q /\ new.attempt = attempt
                            /\ new.head = base /\ new.artifact = None
  BY <1>1, <1>2, <1>3
<1>5. /\ runs' \in Seq(RunRow) /\ DOMAIN runs' = 1..(Len(runs) + 1)
      /\ DOMAIN runs = 1..Len(runs) /\ Len(runs) \in Nat
      /\ \A i \in DOMAIN runs : runs'[i] = runs[i]
      /\ runs'[Len(runs) + 1] = new
  BY <1>2, <1>4
<1>6. /\ DOMAIN runs' = DOMAIN runs \union {Len(runs) + 1} /\ Len(runs) + 1 \notin DOMAIN runs
      /\ \A i \in DOMAIN runs : ~(Len(runs) + 1 < i)
      /\ ~(Len(runs) + 1 < Len(runs) + 1)
  BY <1>5
<1> QED BY <1>2, <1>4, <1>5, <1>6

\* No step takes the default branch back, so no run comes before its request.
LEMMA KeepsHeads ==
  ASSUME IInv, SameRuns, base' \in Bases, base <= base'
  PROVE  HeadsMoveForward'
<1>1. \A i \in DOMAIN runs :
        /\ runs[i].request.base <= runs[i].head /\ runs[i].head <= base
        /\ runs[i].head \in Int /\ base \in Int /\ base' \in Int
  <2>1. base \in Int /\ base' \in Int
    BY DEF IInv, Shape, Bases
  <2>2. \A i \in DOMAIN runs : runs[i] \in RunRow
    BY DEF IInv, Shape
  <2>3. \A i \in DOMAIN runs : runs[i].request \in Requests /\ runs[i].head \in Int
    <3>1. \A i \in DOMAIN runs : runs[i].request \in Requests /\ runs[i].head \in Bases
      BY RunTypes DEF IInv
    <3> QED BY <3>1 DEF Bases
  <2> QED BY <2>1, <2>3 DEF IInv, HeadsMoveForward
<1>2. \A i \in DOMAIN runs : runs[i].head <= base'
  BY <1>1
<1> QED BY <1>1, <1>2 DEF HeadsMoveForward, SameRuns

LEMMA KeepsOneRun ==
  ASSUME IInv, SameRuns, UNCHANGED records
  PROVE  OneRunPerAttempt'
BY DEF IInv, OneRunPerAttempt, SameRuns

\* The reconciler stays where it is.
LEMMA KeepsRetry ==
  ASSUME IInv, SameRuns, UNCHANGED <<store, reconciler>>, base' \in Bases, base <= base'
  PROVE  RetryUnderWay'
<1>1. reconciler.phase \in {"judge", "recheck", "dispatch"} =>
        /\ reconciler.request \in Requests
        /\ reconciler.request.base <= base'
  <2>1. reconciler.request \in Requests => reconciler.request.base \in Int
    BY DEF Requests, Bases
  <2>2. base \in Int /\ base' \in Int
    BY DEF IInv, Shape, Bases
  <2>3. reconciler.phase \in {"judge", "recheck", "dispatch"} =>
          reconciler.request \in Requests /\ reconciler.request.base <= base
    BY DEF IInv, RetryUnderWay
  <2> QED BY <2>1, <2>2, <2>3
<1>2. /\ reconciler' = reconciler /\ records' = records /\ stop' = stop
  BY DEF store
<1> QED BY <1>1, <1>2 DEF IInv, RetryUnderWay, SameRuns

--------------------------------------------------------------------------------
(* The queue runs *)

\* A member of a sequence is replaced.
LEMMA Replaced ==
  ASSUME NEW S, NEW s \in Seq(S), NEW i \in DOMAIN s, NEW x \in S
  PROVE  [s EXCEPT ![i] = x] \in Seq(S) /\ DOMAIN [s EXCEPT ![i] = x] = DOMAIN s
OBVIOUS

LEMMA BaseStays ==
  ASSUME IInv, UNCHANGED base
  PROVE  base' \in Bases /\ base <= base'
BY DEF IInv, Shape, Bases

\* One run changes, and is still the run it was.
LEMMA OneRunChanges ==
  ASSUME IInv, NEW i \in DOMAIN runs, NEW row \in RunRow,
         runs' = [runs EXCEPT ![i] = row],
         row.request = runs[i].request, row.attempt = runs[i].attempt,
         row.head = runs[i].head, row.seen = "at once" => runs[i].seen = "at once",
         row.artifact # None => row.state = "completed",
         event' = event \/ event' \in [run : {i}, class : Classes],
         UNCHANGED <<issueVars, store, reconciler, changes, faults>>
  PROVE  IInv' /\ SameRuns
<1>1. /\ runs \in Seq(RunRow) /\ i \in Nat
      /\ runs' \in Seq(RunRow) /\ DOMAIN runs' = DOMAIN runs
  <2>1. runs \in Seq(RunRow) /\ i \in Nat
    BY RunTypes DEF IInv
  <2> QED BY <2>1, Replaced, Zenon
<1>2. \A j \in DOMAIN runs : runs'[j] = IF j = i THEN row ELSE runs[j]
  OBVIOUS
<1>3. SameRuns
  BY <1>1, <1>2 DEF SameRuns
<1>4. \A j \in DOMAIN runs' : runs'[j].artifact # None => runs'[j].state = "completed"
  BY <1>1, <1>2 DEF IInv, Shape
<1>5. /\ event' \in [run : Nat, class : Classes \union {None}]
      /\ event' = NoEvent \/ (event'.run \in DOMAIN runs' /\ event'.class \in Classes)
  <2>1. CASE event' = event
    BY <1>1, <2>1 DEF IInv, Shape
  <2>2. CASE event' \in [run : {i}, class : Classes]
    BY <1>1, <2>2
  <2> QED BY <2>1, <2>2
<1>6. UNCHANGED <<content, base, candidate, records, stop, reconciler, changes, faults>>
  BY DEF issueVars, store
<1>7. Shape'
  BY <1>1, <1>4, <1>5, <1>6 DEF IInv, Shape
<1>8. base' \in Bases /\ base <= base'
  BY <1>6, BaseStays, Zenon
<1>9. RecordsAreBounded'
  BY <1>6 DEF IInv, RecordsAreBounded
<1> QED BY <1>3, <1>6, <1>7, <1>8, <1>9, KeepsHeads, KeepsOneRun, KeepsRetry DEF IInv, store

LEMMA CompletesStep ==
  ASSUME IInv, NEW i \in DOMAIN runs, NEW class \in Classes,
         NEW artifact \in {None} \union SUBSET Contents, Completes(i, class, artifact)
  PROVE  IInv' /\ SameRuns
<1> DEFINE done == [runs[i] EXCEPT !.state = "completed", !.artifact = artifact]
<1>1. runs[i] \in RunRow /\ artifact \in Artifacts
  BY RunTypes DEF IInv, Artifacts
<1>2. /\ done \in RunRow /\ done.request = runs[i].request
      /\ done.attempt = runs[i].attempt /\ done.head = runs[i].head
      /\ done.seen = runs[i].seen /\ done.state = "completed"
  BY <1>1 DEF RunRow
<1>3. runs' = [runs EXCEPT ![i] = done] /\ event' \in [run : {i}, class : Classes]
  BY DEF Completes
<1>4. UNCHANGED <<issueVars, store, reconciler, changes, faults>>
  BY DEF Completes
<1> HIDE DEF done
<1> QED BY <1>2, <1>3, <1>4, OneRunChanges

LEMMA StartsStep ==
  ASSUME IInv, NEW i \in DOMAIN runs, runs[i].state = "queued",
         runs' = [runs EXCEPT ![i].state = "working"],
         UNCHANGED <<issueVars, store, event, reconciler, changes, faults>>
  PROVE  IInv' /\ SameRuns
<1> DEFINE begun == [runs[i] EXCEPT !.state = "working"]
<1>1. runs[i] \in RunRow /\ runs[i].artifact = None
  BY RunTypes DEF IInv, Shape
<1>2. /\ begun \in RunRow /\ begun.request = runs[i].request
      /\ begun.attempt = runs[i].attempt /\ begun.head = runs[i].head
      /\ begun.seen = runs[i].seen /\ begun.artifact = None
  BY <1>1 DEF RunRow
<1>3. runs' = [runs EXCEPT ![i] = begun]
  OBVIOUS
<1> HIDE DEF begun
<1> QED BY <1>2, <1>3, OneRunChanges

\* GitHub deletes an artifact or lists a run.
LEMMA UpkeepStep ==
  ASSUME IInv, NEW i \in DOMAIN runs, Expire(i) \/ List(i)
  PROVE  IInv' /\ SameRuns /\ UNCHANGED store
<1> DEFINE bare == [runs[i] EXCEPT !.artifact = None]
           shown == [runs[i] EXCEPT !.seen = "late"]
<1>1. /\ runs[i] \in RunRow /\ None \in Artifacts
      /\ runs[i].artifact # None => runs[i].state = "completed"
  BY RunTypes DEF IInv, Shape, Artifacts
<1>2. /\ bare \in RunRow /\ bare.request = runs[i].request
      /\ bare.attempt = runs[i].attempt /\ bare.head = runs[i].head
      /\ bare.seen = runs[i].seen /\ bare.artifact = None
  BY <1>1 DEF RunRow
<1>3. /\ shown \in RunRow /\ shown.request = runs[i].request
      /\ shown.attempt = runs[i].attempt /\ shown.head = runs[i].head
      /\ shown.seen # "at once"
      /\ shown.artifact # None => shown.state = "completed"
  BY <1>1 DEF RunRow
<1>4. /\ runs' = [runs EXCEPT ![i] = bare] \/ runs' = [runs EXCEPT ![i] = shown]
      /\ UNCHANGED <<issueVars, store, event, reconciler, changes, faults>>
  BY DEF Expire, List
<1> HIDE DEF bare, shown
<1> QED BY <1>2, <1>3, <1>4, OneRunChanges

LEMMA RunStep ==
  ASSUME IInv, NEW i \in DOMAIN runs, Prepare(i) \/ Superseded(i) \/ Finish(i)
  PROVE  IInv' /\ SameRuns /\ UNCHANGED store
<1> DEFINE Ends == \E class \in Classes, artifact \in {None} \union SUBSET Contents :
                     Completes(i, class, artifact)
<1>1. CASE Ends
  BY <1>1, CompletesStep DEF Completes
<1>2. CASE ~Ends
  <2>1. ~Completes(i, "unknown", None)
    BY <1>2 DEF Classes
  <2>2. ~Finish(i)
    BY <1>2, QueueAssumption DEF Finish
  <2> HIDE DEF Ends
  <2>3. Prepare(i)
    BY <2>1, <2>2 DEF Superseded
  <2>4. Admitted(runs[i])
    BY <2>1, <2>3 DEF Prepare
  <2> QED BY <2>3, <2>4, StartsStep DEF Prepare
<1> QED BY <1>1, <1>2

--------------------------------------------------------------------------------
(* The reconciler *)

\* A step of the reconciler that leaves runs and records alone: what it may
\* go on to.
LEMMA GoesStep ==
  ASSUME IInv, UNCHANGED <<issueVars, changes, faults, runs, records>>,
         stop' \in [Requests -> {None, "internal-stop", "exhausted"}],
         event' = event \/ event' = NoEvent,
         reconciler' \in ReconcilerRow,
         reconciler'.phase = "publish" => reconciler'.checkpoint \in Checkpoint,
         RetryUnderWay'
  PROVE  IInv'
<1>1. SameRuns
  BY UnchangedRuns
<1>2. UNCHANGED <<content, base, candidate, runs, records, changes, faults>>
  BY DEF issueVars
<1>3. event' \in [run : Nat, class : Classes \union {None}]
  BY DEF NoEvent, IInv, Shape
<1>4. event' = NoEvent \/ (event'.run \in DOMAIN runs /\ event'.class \in Classes)
  BY DEF IInv, Shape
<1>5. Shape'
  BY <1>2, <1>3, <1>4 DEF IInv, Shape
<1>6. base' \in Bases /\ base <= base'
  BY <1>2 DEF IInv, Shape, Bases
<1>7. RecordsAreBounded'
  BY <1>2 DEF IInv, RecordsAreBounded
<1> QED BY <1>1, <1>2, <1>5, <1>6, <1>7, KeepsHeads, KeepsOneRun DEF IInv

LEMMA IdleRow ==
  /\ Idle \in ReconcilerRow
  /\ Idle.phase = "idle"
BY Bounds DEF Idle, Phases, ReconcilerRow

LEMMA JudgeRow ==
  ASSUME Shape, NEW class \in Classes
  PROVE  /\ Judge(class) \in ReconcilerRow
         /\ Judge(class).phase = "judge" /\ Judge(class).request = Request
<1>1. Request \in Requests
  BY RequestType
<1>2. 0 \in 0..MaxRetries /\ "judge" \in Phases
  BY Bounds DEF Phases
<1> QED BY <1>1, <1>2 DEF Judge, ReconcilerRow

LEMMA PublishRow ==
  ASSUME IInv, NEW i \in DOMAIN runs
  PROVE  /\ PublishOf(i) \in ReconcilerRow
         /\ PublishOf(i).phase = "publish" /\ PublishOf(i).checkpoint \in Checkpoint
<1>1. runs[i].head \in Bases
  BY RunTypes DEF IInv
<1>2. 0 \in 0..MaxRetries /\ "publish" \in Phases
  BY Bounds DEF Phases
<1> QED BY <1>1, <1>2 DEF PublishOf, ReconcilerRow, Checkpoint

LEMMA RecheckRow ==
  ASSUME Shape, NEW attempt \in 0..MaxRetries
  PROVE  /\ Recheck(attempt) \in ReconcilerRow
         /\ Recheck(attempt).phase = "recheck" /\ Recheck(attempt).request = request
         /\ Recheck(attempt).attempt = attempt
BY DEF Shape, Recheck, Phases, ReconcilerRow, request

\* The reconciler ends what it was at.
LEMMA EndsStep ==
  ASSUME IInv, UNCHANGED <<issueVars, changes, faults, runs, records>>,
         stop' \in [Requests -> {None, "internal-stop", "exhausted"}],
         event' = event \/ event' = NoEvent,
         reconciler' = Idle
  PROVE  IInv'
<1>1. RetryUnderWay'
  BY IdleRow DEF RetryUnderWay
<1> QED BY <1>1, IdleRow, GoesStep

\* The reconciler judges the request as it stands.
LEMMA JudgesStep ==
  ASSUME IInv, NEW class \in Classes, reconciler' = Judge(class),
         UNCHANGED <<issueVars, changes, faults, runs, store>>,
         event' = event \/ event' = NoEvent
  PROVE  IInv'
<1>1. Request \in Requests /\ Request.base = base /\ base \in Int
  BY RequestType DEF IInv, Shape, Bases
<1>2. UNCHANGED <<base, records, stop>>
  BY DEF issueVars, store
<1>3. /\ reconciler'.phase = "judge" /\ reconciler'.request = Request
      /\ reconciler' \in ReconcilerRow
  BY JudgeRow DEF IInv
<1>4. RetryUnderWay'
  BY <1>1, <1>2, <1>3 DEF RetryUnderWay
<1>5. stop' \in [Requests -> {None, "internal-stop", "exhausted"}]
  BY <1>2 DEF IInv, Shape
<1> QED BY <1>2, <1>3, <1>4, <1>5, GoesStep

LEMMA PublishesStep ==
  ASSUME IInv, NEW i \in DOMAIN runs, reconciler' = PublishOf(i),
         UNCHANGED <<issueVars, changes, faults, runs, store>>,
         event' = event \/ event' = NoEvent
  PROVE  IInv'
<1>1. UNCHANGED <<records, stop>>
  BY DEF store
<1>2. RetryUnderWay'
  BY PublishRow DEF RetryUnderWay
<1>3. stop' \in [Requests -> {None, "internal-stop", "exhausted"}]
  BY <1>1 DEF IInv, Shape
<1> QED BY <1>1, <1>2, <1>3, PublishRow, GoesStep

LEMMA BeginCompletedStep ==
  ASSUME IInv, BeginCompleted
  PROVE  IInv'
<1>1. /\ event.run \in DOMAIN runs /\ event.class \in Classes
      /\ event' = NoEvent
      /\ UNCHANGED <<issueVars, changes, faults, runs, store>>
  BY DEF IInv, Shape, BeginCompleted, Goes
<1>2. CASE runs[event.run].artifact # None
  <2>1. reconciler' = PublishOf(event.run)
    BY <1>2 DEF BeginCompleted, Goes
  <2> QED BY <1>1, <2>1, PublishesStep
<1>3. CASE runs[event.run].artifact = None /\ ~candidate
  <2>1. reconciler' = Judge(event.class)
    BY <1>3 DEF BeginCompleted, Goes
  <2> QED BY <1>1, <2>1, JudgesStep
<1>4. CASE runs[event.run].artifact = None /\ candidate
  <2>1. reconciler' = Idle
    BY <1>4 DEF BeginCompleted, Goes
  <2>2. stop' \in [Requests -> {None, "internal-stop", "exhausted"}]
    BY <1>1 DEF IInv, Shape, store
  <2> QED BY <1>1, <2>1, <2>2, EndsStep DEF store
<1>5. candidate \in BOOLEAN
  BY DEF IInv, Shape
<1> QED BY <1>2, <1>3, <1>4, <1>5

LEMMA BeginScanStep ==
  ASSUME IInv, NEW control \in BOOLEAN, BeginScan(control)
  PROVE  IInv'
<1> DEFINE found == Checkpoints(base)
           latest == CHOOSE i \in found : \A j \in found : j <= i
<1>1. /\ event' = event
      /\ UNCHANGED <<issueVars, changes, faults, runs, store>>
  BY DEF BeginScan, Goes
<1>2. CASE found = {}
  <2>1. reconciler' = Judge("unknown") /\ "unknown" \in Classes
    BY <1>2 DEF BeginScan, Goes, Classes
  <2> QED BY <1>1, <2>1, JudgesStep
<1>3. CASE found # {}
  <2>1. reconciler' = PublishOf(latest)
    BY <1>3 DEF BeginScan, Goes
  <2>2. found \subseteq 1..Len(runs) /\ Len(runs) \in Nat /\ DOMAIN runs = 1..Len(runs)
    <3>1. runs \in Seq(RunRow)
      BY DEF IInv, Shape
    <3>2. Len(runs) \in Nat /\ DOMAIN runs = 1..Len(runs)
      BY <3>1
    <3> QED BY <3>2 DEF Checkpoints, Listed
  <2>3. latest \in found
    BY <1>3, <2>2, LatestExists
  <2> QED BY <1>1, <2>1, <2>2, <2>3, PublishesStep
<1> QED BY <1>2, <1>3

LEMMA PublishStep ==
  ASSUME IInv, Publish
  PROVE  IInv'
<1>1. SameRuns
  BY UnchangedRuns DEF Publish
<1>2. UNCHANGED <<content, base, runs, records, stop, event, changes, faults>>
  BY DEF Publish, store
<1>3. candidate' \in BOOLEAN
  BY DEF Publish
<1>4. reconciler' = Idle
  BY DEF Publish
<1>5. Shape'
  BY <1>2, <1>3, <1>4, IdleRow DEF IInv, Shape
<1>6. RetryUnderWay'
  BY <1>4, IdleRow DEF RetryUnderWay
<1>7. base' \in Bases /\ base <= base'
  BY <1>2 DEF IInv, Shape, Bases
<1>8. RecordsAreBounded'
  BY <1>2 DEF IInv, RecordsAreBounded
<1> QED BY <1>1, <1>2, <1>5, <1>6, <1>7, <1>8, KeepsHeads, KeepsOneRun DEF IInv

--------------------------------------------------------------------------------
(* dispatch_retry *)

\* The reconciler is about to look again at an attempt it has a record of.
LEMMA RechecksStep ==
  ASSUME IInv, reconciler.phase = "judge", ~WasStopped(request),
         NEW attempt \in DOMAIN records'[request], attempt \in 0..MaxRetries,
         reconciler' = Recheck(attempt),
         UNCHANGED <<issueVars, stop>>
  PROVE  RetryUnderWay'
<1>1. /\ reconciler'.phase = "recheck" /\ reconciler'.request = reconciler.request
      /\ reconciler'.attempt = attempt
  BY RecheckRow DEF IInv, request
<1>2. /\ reconciler.request \in Requests /\ reconciler.request.base <= base
      /\ stop[reconciler.request] = None
  BY DEF IInv, RetryUnderWay, WasStopped, request
<1>3. stop' = stop /\ base' = base
  BY DEF issueVars
<1> QED BY <1>1, <1>2, <1>3 DEF RetryUnderWay, request

\* The records of the request the reconciler is at.
LEMMA RecordedType ==
  ASSUME IInv, reconciler.phase \in {"judge", "recheck", "dispatch"}
  PROVE  /\ request \in Requests
         /\ recorded \in Seq(Retryable) /\ recorded = records[request]
         /\ Len(recorded) \in 0..MaxRetries
         /\ DOMAIN recorded = 1..Len(recorded)
<1>1. request \in Requests
  BY DEF IInv, RetryUnderWay, request
<1>2. recorded \in Seq(Retryable)
  BY <1>1 DEF IInv, Shape, recorded
<1>3. Len(recorded) <= MaxRetries
  BY <1>1 DEF IInv, RecordsAreBounded, recorded
<1> QED BY <1>1, <1>2, <1>3, Bounds DEF recorded

LEMMA ResumeStrandedStep ==
  ASSUME IInv, ResumeStranded
  PROVE  IInv'
<1>1. /\ reconciler.phase = "judge" /\ ~WasStopped(request) /\ Undispatched # {}
      /\ reconciler' = Recheck(Len(recorded))
      /\ UNCHANGED <<issueVars, changes, faults, runs, store, event>>
  BY DEF ResumeStranded, Goes
<1>2. Len(recorded) \in DOMAIN recorded /\ Len(recorded) \in 0..MaxRetries
  BY <1>1, RecordedType DEF Undispatched
<1>3. UNCHANGED <<records, stop>>
  BY <1>1 DEF store
<1>4. Len(recorded) \in DOMAIN records'[request]
  BY <1>2, <1>3 DEF recorded
<1>5. RetryUnderWay'
  BY <1>1, <1>2, <1>3, <1>4, RechecksStep
<1>6. stop' \in [Requests -> {None, "internal-stop", "exhausted"}]
  BY <1>3 DEF IInv, Shape
<1>7. /\ reconciler' \in ReconcilerRow
      /\ reconciler'.phase = "recheck"
  BY <1>1, <1>2, RecheckRow DEF IInv
<1> QED BY <1>1, <1>3, <1>5, <1>6, <1>7, GoesStep

LEMMA RecordRetryStep ==
  ASSUME IInv, RecordRetry
  PROVE  /\ IInv'
         /\ ~WasStopped(request) /\ request \in Requests
         /\ \A q \in Requests \ {request} : records'[q] = records[q]
<1> DEFINE more == Append(recorded, reconciler.class)
           next == Len(recorded) + 1
<1>1. /\ reconciler.phase = "judge" /\ ~WasStopped(request)
      /\ Len(recorded) < MaxRetries /\ reconciler.class \in Retryable
      /\ reconciler' = Recheck(Len(recorded) + 1)
      /\ UNCHANGED <<issueVars, changes, faults, runs, stop, event>>
  BY DEF RecordRetry, CanRecord, ShouldAutoRetry, Goes
<1>2. /\ request \in Requests /\ recorded \in Seq(Retryable)
      /\ Len(recorded) \in 0..MaxRetries
  BY <1>1, RecordedType
<1>3. records' = [records EXCEPT ![request] = more]
  BY DEF RecordRetry, recorded
<1>4. more \in Seq(Retryable) /\ Len(more) = next
      /\ next \in 1..MaxRetries /\ next \in DOMAIN more
  BY <1>1, <1>2, Bounds
<1> HIDE DEF more
<1>5. /\ records' \in [Requests -> Seq(Retryable)]
      /\ records'[request] = more
      /\ \A q \in Requests \ {request} : records'[q] = records[q]
  BY <1>2, <1>3, <1>4 DEF IInv, Shape
<1>6. RecordsAreBounded'
  <2>1. Len(more) <= MaxRetries
    BY <1>4, Bounds
  <2> QED BY <1>5, <2>1 DEF IInv, RecordsAreBounded
<1>7. next \in 0..MaxRetries
  BY <1>4
<1>8. RetryUnderWay'
  BY <1>1, <1>4, <1>5, <1>7, RechecksStep
<1>9. UNCHANGED <<content, base, candidate, runs, stop, event, changes, faults>>
  BY <1>1 DEF issueVars
<1>10. Shape'
  <2>1. /\ reconciler' \in ReconcilerRow
        /\ reconciler'.phase = "recheck"
    BY <1>1, <1>7, RecheckRow DEF IInv
  <2> QED BY <1>5, <1>9, <2>1 DEF IInv, Shape
<1>11. SameRuns /\ base' \in Bases /\ base <= base'
  BY <1>9, UnchangedRuns DEF IInv, Shape, Bases
<1>12. HeadsMoveForward'
  BY <1>11, KeepsHeads
<1>13. OneRunPerAttempt'
  <2>1. \A q \in Requests : DOMAIN records[q] \subseteq DOMAIN records'[q]
    <3>1. DOMAIN recorded \subseteq DOMAIN more
      BY <1>2 DEF more
    <3> QED BY <1>5, <3>1 DEF recorded
  <2>2. \A i \in DOMAIN runs : runs[i].request \in Requests
    <3>1. \A i \in DOMAIN runs : runs[i] \in RunRow
      BY DEF IInv, Shape
    <3> QED BY <3>1 DEF RunRow
  <2> QED BY <1>9, <2>1, <2>2 DEF IInv, OneRunPerAttempt
<1> QED BY <1>1, <1>2, <1>5, <1>6, <1>8, <1>10, <1>12, <1>13 DEF IInv

LEMMA RecordStopStep ==
  ASSUME IInv, RecordStop
  PROVE  /\ IInv'
         /\ ~WasStopped(request) /\ request \in Requests
         /\ \A q \in Requests \ {request} : stop'[q] = stop[q]
<1>1. /\ reconciler.phase = "judge" /\ ~WasStopped(request)
      /\ reconciler' = Idle /\ event' = event
      /\ UNCHANGED <<issueVars, changes, faults, runs, records>>
  BY DEF RecordStop, CanRecord, Goes
<1>2. request \in Requests
  BY <1>1, RecordedType
<1>3. PICK why \in {"internal-stop", "exhausted"} : stop' = [stop EXCEPT ![request] = why]
  BY DEF RecordStop
<1>4. /\ stop' \in [Requests -> {None, "internal-stop", "exhausted"}]
      /\ \A q \in Requests \ {request} : stop'[q] = stop[q]
  BY <1>2, <1>3 DEF IInv, Shape
<1> QED BY <1>1, <1>2, <1>4, EndsStep

LEMMA LeaveAloneStep ==
  ASSUME IInv, LeaveAlone
  PROVE  IInv'
<1>1. /\ reconciler' = Idle /\ event' = event
      /\ UNCHANGED <<issueVars, changes, faults, runs, records, stop>>
  BY DEF LeaveAlone, Goes, store
<1>2. stop' \in [Requests -> {None, "internal-stop", "exhausted"}]
  BY <1>1 DEF IInv, Shape
<1> QED BY <1>1, <1>2, EndsStep

\* The last look: the default branch is where the request was made, so a run of
\* the attempt would have started from there, and the list shows none.
LEMMA CheckAgainStep ==
  ASSUME IInv, CheckAgain
  PROVE  IInv'
<1>1. /\ reconciler.phase = "recheck" /\ event' = event
      /\ UNCHANGED <<issueVars, changes, faults, runs, records, stop>>
  BY DEF CheckAgain, Goes, store
<1>2. stop' \in [Requests -> {None, "internal-stop", "exhausted"}]
  BY <1>1 DEF IInv, Shape
<1>3. CASE reconciler' = Idle
  BY <1>1, <1>2, <1>3, EndsStep
<1>4. CASE reconciler' # Idle
  <2>1. /\ ExactRetryRuns(request, reconciler.attempt) = {} /\ base = request.base
        /\ reconciler' = [reconciler EXCEPT !.phase = "dispatch"]
    BY <1>4 DEF CheckAgain, Goes
  <2>2. /\ reconciler' \in ReconcilerRow
        /\ reconciler'.phase = "dispatch" /\ reconciler'.request = request
        /\ reconciler'.attempt = reconciler.attempt
    <3>1. reconciler \in ReconcilerRow /\ "dispatch" \in Phases
      BY ReconcilerTypes DEF IInv, Phases
    <3> QED BY <2>1, <3>1 DEF ReconcilerRow, request
  <2>3. /\ request \in Requests /\ request.base <= base
        /\ reconciler.attempt \in DOMAIN records[request] /\ stop[request] = None
    BY <1>1 DEF IInv, RetryUnderWay, request
  <2>4. ASSUME NEW i \in DOMAIN runs, runs[i].request = request,
               runs[i].attempt = reconciler.attempt
        PROVE  runs[i].seen # "at once"
    <3>1. runs[i].head \in Int /\ base \in Int
      <4>1. runs[i].head \in Bases /\ base \in Bases
        BY RunTypes DEF IInv, Shape
      <4> QED BY <4>1 DEF Bases
    <3>2. request.base <= runs[i].head /\ runs[i].head <= base
      BY <2>4 DEF IInv, HeadsMoveForward
    <3>3. runs[i].head = request.base
      BY <2>1, <3>1, <3>2
    <3> QED BY <2>1, <2>4, <3>3 DEF ExactRetryRuns, Listed
  <2>5. UNCHANGED <<base, runs, records, stop>>
    BY <1>1 DEF issueVars
  <2>6. RetryUnderWay'
    BY <2>2, <2>3, <2>4, <2>5 DEF RetryUnderWay
  <2> QED BY <1>1, <1>2, <2>2, <2>6, GoesStep
<1> QED BY <1>3, <1>4

LEMMA CrashStep ==
  ASSUME IInv, Crash
  PROVE  IInv'
<1>1. SameRuns
  BY UnchangedRuns DEF Crash
<1>2. UNCHANGED <<content, base, candidate, runs, records, stop, event, changes>>
  BY DEF Crash, issueVars, store
<1>3. faults' \in 0..MaxFaults
  BY Bounds DEF Crash, IInv, Shape
<1>4. reconciler' = Idle
  BY DEF Crash
<1>5. Shape'
  BY <1>2, <1>3, <1>4, IdleRow DEF IInv, Shape
<1>6. RetryUnderWay'
  BY <1>4, IdleRow DEF RetryUnderWay
<1>7. base' \in Bases /\ base <= base'
  BY <1>2 DEF IInv, Shape, Bases
<1>8. RecordsAreBounded'
  BY <1>2 DEF IInv, RecordsAreBounded
<1> QED BY <1>1, <1>2, <1>5, <1>6, <1>7, <1>8, KeepsHeads, KeepsOneRun DEF IInv

--------------------------------------------------------------------------------
(* A run is asked for *)

\* The parts that a new run leaves as they are.
LEMMA AppendsStep ==
  ASSUME IInv, NEW q \in Requests, NEW attempt \in 0..MaxRetries,
         Ask(q, attempt), q.base <= base, UNCHANGED <<base, records>>
  PROVE  /\ HeadsMoveForward' /\ RecordsAreBounded'
         /\ \A i \in DOMAIN runs' : runs'[i].artifact # None => runs'[i].state = "completed"
<1> DEFINE n == Len(runs) + 1
<1>1. /\ DOMAIN runs' = DOMAIN runs \union {n}
      /\ \A i \in DOMAIN runs : runs'[i] = runs[i]
      /\ runs'[n].request = q /\ runs'[n].head = base /\ runs'[n].artifact = None
  BY AppendedRun DEF IInv
<1> HIDE DEF n
<1>2. base <= base
  BY DEF IInv, Shape, Bases
<1>3. HeadsMoveForward'
  BY <1>1, <1>2 DEF IInv, HeadsMoveForward
<1>4. RecordsAreBounded'
  BY DEF IInv, RecordsAreBounded
<1>5. \A i \in DOMAIN runs' : runs'[i].artifact # None => runs'[i].state = "completed"
  BY <1>1 DEF IInv, Shape
<1> QED BY <1>3, <1>4, <1>5

LEMMA DispatchStep ==
  ASSUME IInv, Dispatch
  PROVE  /\ IInv'
         /\ request \in Requests /\ stop[request] = None
         /\ DOMAIN runs' = DOMAIN runs \union {Len(runs) + 1}
         /\ runs'[Len(runs) + 1].request = request
<1> DEFINE attempt == reconciler.attempt
           n == Len(runs) + 1
<1>1. /\ reconciler.phase = "dispatch" /\ reconciler' = Idle
      /\ Ask(request, attempt)
      /\ UNCHANGED <<content, base, candidate, records, stop, event, changes>>
  BY DEF Dispatch, Goes, issueVars, store
<1>2. /\ request \in Requests /\ request.base <= base /\ stop[request] = None
      /\ attempt \in DOMAIN records[request] /\ attempt \in 0..MaxRetries
      /\ \A i \in DOMAIN runs :
           runs[i].request = request /\ runs[i].attempt = attempt => runs[i].seen # "at once"
  <2>1. reconciler.attempt \in 0..MaxRetries
    BY ReconcilerTypes DEF IInv
  <2> QED BY <1>1, <2>1 DEF IInv, RetryUnderWay, request
<1>3. /\ runs' \in Seq(RunRow) /\ DOMAIN runs \subseteq DOMAIN runs' /\ faults' \in 0..MaxFaults
      /\ DOMAIN runs' = DOMAIN runs \union {n} /\ n \notin DOMAIN runs
      /\ \A i \in DOMAIN runs : runs'[i] = runs[i] /\ ~(n < i)
      /\ ~(n < n)
      /\ runs'[n].request = request /\ runs'[n].attempt = attempt
  <2> HIDE DEF attempt
  <2> QED BY <1>1, <1>2, AppendedRun DEF IInv
<1> HIDE DEF attempt, n
<1>4. /\ HeadsMoveForward' /\ RecordsAreBounded'
      /\ \A i \in DOMAIN runs' : runs'[i].artifact # None => runs'[i].state = "completed"
  BY <1>1, <1>2, AppendsStep
<1>5. Shape'
  BY <1>1, <1>3, <1>4, IdleRow DEF IInv, Shape
<1>6. RetryUnderWay'
  BY <1>1, IdleRow DEF RetryUnderWay
<1>7. OneRunPerAttempt'
  BY <1>1, <1>2, <1>3 DEF IInv, OneRunPerAttempt
<1> QED BY <1>2, <1>3, <1>4, <1>5, <1>6, <1>7 DEF IInv, n

--------------------------------------------------------------------------------
(* People *)

\* Whatever is done to the issue or the branch: nothing recorded changes.
LEMMA ChangeShape ==
  ASSUME IInv, NEW weight \in {1, 2}, Change(weight),
         content' \in Contents, base' \in Bases, candidate' \in BOOLEAN,
         UNCHANGED <<runs, faults>>
  PROVE  Shape'
<1>1. UNCHANGED <<records, stop, event, reconciler>>
  BY DEF Change, store
<1>2. changes' \in 0..MaxChanges
  BY Bounds DEF Change, IInv, Shape
<1> QED BY <1>1, <1>2 DEF IInv, Shape

LEMMA ChangeStep ==
  ASSUME IInv, NEW weight \in {1, 2}, Change(weight),
         content' \in Contents, base' \in Bases, base <= base', candidate' \in BOOLEAN,
         UNCHANGED <<runs, faults>>
  PROVE  IInv'
<1>1. Shape'
  BY ChangeShape
<1>2. SameRuns /\ UNCHANGED <<store, records, reconciler>>
  BY UnchangedRuns DEF Change, store
<1>3. RecordsAreBounded'
  BY <1>2 DEF IInv, RecordsAreBounded
<1> QED BY <1>1, <1>2, <1>3, KeepsHeads, KeepsOneRun, KeepsRetry DEF IInv

LEMMA EditStep ==
  ASSUME IInv, NEW c \in Contents, Edit(c)
  PROVE  IInv'
<1>1. content' \in Contents /\ Change(1) /\ UNCHANGED <<base, candidate, runs, faults>>
  BY DEF Edit
<1>2. base' \in Bases /\ base <= base' /\ candidate' \in BOOLEAN
  BY <1>1 DEF IInv, Shape, Bases
<1> QED BY <1>1, <1>2, ChangeStep

LEMMA MoveBaseStep ==
  ASSUME IInv, MoveBase
  PROVE  IInv'
<1>1. content' \in Contents /\ candidate' \in BOOLEAN /\ UNCHANGED <<runs, faults>>
  BY DEF MoveBase, IInv, Shape
<1>2. base' \in Bases /\ base <= base' /\ Change(2)
  BY DEF MoveBase, IInv, Shape, Bases
<1> QED BY <1>1, <1>2, ChangeStep

LEMMA TurnCandidateStep ==
  ASSUME IInv, TurnCandidate
  PROVE  IInv'
<1>1. candidate' \in BOOLEAN /\ Change(2) /\ UNCHANGED <<content, base, runs, faults>>
  BY DEF TurnCandidate
<1>2. content' \in Contents /\ base' \in Bases /\ base <= base'
  BY <1>1 DEF IInv, Shape, Bases
<1> QED BY <1>1, <1>2, ChangeStep

\* A run of the owner's has no record and is no attempt's.
LEMMA TriggerStep ==
  ASSUME IInv, NEW c \in Contents, Trigger(c)
  PROVE  /\ IInv'
         /\ DOMAIN runs' = DOMAIN runs \union {Len(runs) + 1}
         /\ runs'[Len(runs) + 1].attempt = 0
<1> DEFINE q == [content |-> c, base |-> base]
           n == Len(runs) + 1
<1>1. /\ content' = c /\ Ask(q, 0) /\ Change(2)
      /\ UNCHANGED <<base, candidate, records, stop, event, reconciler>>
  BY DEF Trigger, Change, store
<1>2. base \in Bases /\ base <= base /\ 0 \in 0..MaxRetries
  BY Bounds DEF IInv, Shape, Bases
<1>3. q \in Requests /\ q.base <= base
  BY <1>2 DEF Requests
<1> HIDE DEF q
<1>4. /\ runs' \in Seq(RunRow) /\ faults' \in 0..MaxFaults /\ DOMAIN runs \subseteq DOMAIN runs'
      /\ DOMAIN runs' = DOMAIN runs \union {n} /\ n \notin DOMAIN runs
      /\ \A i \in DOMAIN runs : runs'[i] = runs[i]
      /\ runs'[n].request = q /\ runs'[n].attempt = 0
  BY <1>1, <1>2, <1>3, AppendedRun DEF IInv
<1> HIDE DEF n
<1>5. /\ HeadsMoveForward' /\ RecordsAreBounded'
      /\ \A i \in DOMAIN runs' : runs'[i].artifact # None => runs'[i].state = "completed"
  BY <1>1, <1>2, <1>3, AppendsStep
<1>6. changes' \in 0..MaxChanges
  BY Bounds DEF Trigger, Change, IInv, Shape
<1>7. Shape'
  BY <1>1, <1>4, <1>5, <1>6 DEF IInv, Shape
<1>8. RetryUnderWay'
  <2>1. reconciler.phase = "dispatch" => reconciler.attempt # 0
    <3>1. ASSUME reconciler.phase = "dispatch"
          PROVE  reconciler.attempt \in DOMAIN recorded /\ DOMAIN recorded = 1..Len(recorded)
      BY <3>1, RecordedType DEF IInv, RetryUnderWay, recorded, request
    <3> QED BY <3>1
  <2>2. reconciler.phase = "dispatch" =>
          \A i \in DOMAIN runs' :
            runs'[i].request = reconciler.request /\ runs'[i].attempt = reconciler.attempt
            => runs'[i].seen # "at once"
    BY <1>4, <2>1 DEF IInv, RetryUnderWay
  <2> QED BY <1>1, <2>2 DEF IInv, RetryUnderWay
<1>9. OneRunPerAttempt'
  <2>1. \A i \in DOMAIN runs' : runs'[i].attempt > 0 => i \in DOMAIN runs
    BY <1>4
  <2> QED BY <1>1, <1>4, <2>1 DEF IInv, OneRunPerAttempt
<1> QED BY <1>4, <1>5, <1>7, <1>8, <1>9 DEF IInv, n

LEMMA LoseEventStep ==
  ASSUME IInv, LoseEvent
  PROVE  IInv'
<1>1. /\ event' = NoEvent
      /\ UNCHANGED <<content, base, candidate, runs, records, stop, reconciler, changes,
                     faults>>
  BY DEF LoseEvent, issueVars, store
<1>2. event' \in [run : Nat, class : Classes \union {None}]
  BY <1>1 DEF NoEvent
<1>3. Shape'
  BY <1>1, <1>2 DEF IInv, Shape
<1>4. SameRuns /\ base' \in Bases /\ base <= base'
  BY <1>1, UnchangedRuns DEF IInv, Shape, Bases
<1>5. RecordsAreBounded'
  BY <1>1 DEF IInv, RecordsAreBounded
<1> QED BY <1>1, <1>3, <1>4, <1>5, KeepsHeads, KeepsOneRun, KeepsRetry DEF IInv, store

--------------------------------------------------------------------------------
(* Every step *)

LEMMA UnchangedStep ==
  ASSUME IInv, UNCHANGED vars
  PROVE  IInv'
<1>1. UNCHANGED <<content, base, candidate, runs, records, stop, event, reconciler,
                  changes, faults>>
  BY DEF vars, issueVars, store
<1>2. Shape'
  BY <1>1 DEF IInv, Shape
<1>3. SameRuns /\ base' \in Bases /\ base <= base'
  BY <1>1, UnchangedRuns DEF IInv, Shape, Bases
<1>4. RecordsAreBounded'
  BY <1>1 DEF IInv, RecordsAreBounded
<1> QED BY <1>1, <1>2, <1>3, <1>4, KeepsHeads, KeepsOneRun, KeepsRetry DEF IInv, store

LEMMA NextIInv == IInv /\ [Next]_vars => IInv'
<1> SUFFICES ASSUME IInv, [Next]_vars
             PROVE  IInv'
  OBVIOUS
<1>1. CASE QueueRuns
  BY <1>1, RunStep DEF QueueRuns
<1>2. CASE (\E i \in DOMAIN runs : Superseded(i)) \/ Upkeep
  BY <1>2, RunStep, UpkeepStep DEF Upkeep
<1>3. CASE BeginCompleted
  BY <1>3, BeginCompletedStep
<1>4. CASE Scan
  BY <1>4, BeginScanStep DEF Scan
<1>5. CASE Publish
  BY <1>5, PublishStep
<1>6. CASE DispatchRetry
  BY <1>6, ResumeStrandedStep, RecordRetryStep, RecordStopStep, LeaveAloneStep,
     CheckAgainStep, DispatchStep DEF DispatchRetry
<1>7. CASE Crash
  BY <1>7, CrashStep
<1>8. CASE \E c \in Contents : Edit(c) \/ Trigger(c)
  BY <1>8, EditStep, TriggerStep
<1>9. CASE MoveBase
  BY <1>9, MoveBaseStep
<1>10. CASE TurnCandidate
  BY <1>10, TurnCandidateStep
<1>11. CASE LoseEvent
  BY <1>11, LoseEventStep
<1>12. CASE UNCHANGED vars
  BY <1>12, UnchangedStep
<1> QED BY <1>1, <1>2, <1>3, <1>4, <1>5, <1>6, <1>7, <1>8, <1>9, <1>10, <1>11, <1>12
        DEF Next

--------------------------------------------------------------------------------
(* Theorems *)

\* The inductive invariant holds of every behaviour.
THEOREM Invariance == Spec => []IInv
BY InitIInv, NextIInv, PTL DEF Spec

\* The runs, the records and the reconciler are well-formed, and no request has
\* more than MaxRetries records (validate_retry_records).
THEOREM TypeCorrectness == Spec => []TypeOK
<1>1. IInv => TypeOK
  <2> SUFFICES ASSUME IInv
               PROVE  TypeOK
    OBVIOUS
  <2>1. Request \in Requests /\ candidate \in BOOLEAN
    BY RequestType DEF IInv, Shape
  <2>2. \A i \in DOMAIN runs :
          /\ runs[i].request \in Requests /\ runs[i].head \in Bases
          /\ runs[i].attempt \in 0..MaxRetries
          /\ runs[i].state \in {"queued", "working", "completed"}
          /\ runs[i].seen \in {"at once", "late", "not yet"}
          /\ runs[i].artifact # None =>
               runs[i].state = "completed" /\ runs[i].artifact \subseteq Contents
    <3>1. \A i \in DOMAIN runs :
            runs[i].artifact # None =>
              runs[i].state = "completed" /\ runs[i].artifact \subseteq Contents
      BY RunTypes DEF IInv, Shape, Artifacts
    <3> QED BY <3>1, RunTypes DEF IInv
  <2>3. \A q \in Requests :
          /\ records[q] \in Seq(Retryable) /\ Len(records[q]) <= MaxRetries
          /\ stop[q] \in {None, "internal-stop", "exhausted"}
    BY DEF IInv, Shape, RecordsAreBounded
  <2>4. \/ event = NoEvent
        \/ event.run \in DOMAIN runs /\ event.class \in Classes
    BY DEF IInv, Shape
  <2>5. /\ reconciler.phase \in Phases
        /\ reconciler.attempt \in 0..MaxRetries
        /\ reconciler.phase = "publish" => reconciler.checkpoint \in Checkpoint
    BY DEF IInv, Shape, ReconcilerRow
  <2>6. reconciler.phase \notin {"idle", "publish"} => request \in Requests
    BY <2>5 DEF IInv, RetryUnderWay, Phases, request
  <2>7. changes \in 0..MaxChanges /\ faults \in 0..MaxFaults
    BY DEF IInv, Shape
  <2> QED BY <2>1, <2>2, <2>3, <2>4, <2>5, <2>6, <2>7 DEF TypeOK, Phases, Checkpoint
<1> QED BY <1>1, Invariance, PTL

\* No run is dispatched without its record, and none for a record that has a
\* run which was listed at once, for every number of retries, of faults and of
\* changes of the issue and the branch.
THEOREM OneRunSafety == Spec => []OneRunPerAttempt
BY Invariance, PTL DEF IInv

\* Once a request has its stop record no step records or dispatches a retry of it.
THEOREM StopSafety == Spec => StopIsFinal
<1> DEFINE A(q) ==
      /\ stop'[q] = stop[q] /\ records'[q] = records[q]
      /\ \A i \in DOMAIN runs' \ DOMAIN runs :
           runs'[i].request = q => runs'[i].attempt = 0
<1>1. ASSUME IInv, Next, NEW q \in Requests, stop[q] # None
      PROVE  A(q)
  <2> SUFFICES /\ stop'[q] = stop[q] /\ records'[q] = records[q]
               /\ \A i \in DOMAIN runs' \ DOMAIN runs :
                    runs'[i].request = q => runs'[i].attempt = 0
    OBVIOUS
  <2> HIDE DEF A
  <2>1. CASE QueueRuns \/ (\E i \in DOMAIN runs : Superseded(i)) \/ Upkeep
    <3>1. SameRuns /\ UNCHANGED store
      BY <1>1, <2>1, RunStep, UpkeepStep DEF QueueRuns, Upkeep
    <3> QED BY <3>1 DEF SameRuns, store
  <2>2. CASE RecordRetry
    <3>1. stop' = stop /\ runs' = runs
      BY <2>2 DEF RecordRetry
    <3>2. q # request
      BY <1>1, <2>2, RecordRetryStep DEF WasStopped
    <3> QED BY <1>1, <2>2, <3>1, <3>2, RecordRetryStep
  <2>3. CASE RecordStop
    <3>1. records' = records /\ runs' = runs
      BY <2>3 DEF RecordStop
    <3>2. q # request
      BY <1>1, <2>3, RecordStopStep DEF WasStopped
    <3> QED BY <1>1, <2>3, <3>1, <3>2, RecordStopStep
  <2>4. CASE Dispatch
    <3>1. stop' = stop /\ records' = records
      BY <2>4 DEF Dispatch, store
    <3>2. \A i \in DOMAIN runs' \ DOMAIN runs : runs'[i].request # q
      BY <1>1, <2>4, DispatchStep
    <3> QED BY <3>1, <3>2
  <2>5. CASE \E c \in Contents : Trigger(c)
    <3>1. stop' = stop /\ records' = records
      BY <2>5 DEF Trigger, Change, store
    <3>2. \A i \in DOMAIN runs' \ DOMAIN runs : runs'[i].attempt = 0
      BY <1>1, <2>5, TriggerStep
    <3> QED BY <3>1, <3>2
  <2>6. CASE \/ BeginCompleted \/ Scan \/ Publish \/ ResumeStranded \/ LeaveAlone
             \/ CheckAgain \/ Crash \/ (\E c \in Contents : Edit(c)) \/ MoveBase
             \/ TurnCandidate \/ LoseEvent
    <3>1. UNCHANGED <<runs, records, stop>>
      BY <2>6 DEF BeginCompleted, Scan, BeginScan, Publish, ResumeStranded, LeaveAlone,
         CheckAgain, Crash, Edit, MoveBase, TurnCandidate, LoseEvent, Change, Goes, store
    <3> QED BY <3>1
  <2> QED BY <1>1, <2>1, <2>2, <2>3, <2>4, <2>5, <2>6 DEF Next, DispatchRetry
<1>2. IInv /\ [Next]_vars =>
        [\A q \in Requests : stop[q] # None =>
           /\ stop'[q] = stop[q] /\ records'[q] = records[q]
           /\ \A i \in DOMAIN runs' \ DOMAIN runs :
                runs'[i].request = q => runs'[i].attempt = 0]_vars
  BY <1>1
<1> QED BY <1>2, Invariance, PTL DEF Spec, StopIsFinal

================================================================================

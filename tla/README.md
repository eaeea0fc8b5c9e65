# Verification of trpg-booth-search

TLA+ models of the parts of this repository that keep state, TLC runs that
check them on small instances, and TLAPS proofs of every safety property these
runs check, for every value of the constants. `PROJECT.json` maps every
definition to the source lines it stands for.

## The system

The program collects public product pages of TRPG scenarios, normalises them
into *graphs* (a product with its scenarios and their evidence envelopes),
has people review what the evidence leaves open, and publishes a searchable
index of what may be shown. A control plane of scripts and workflows runs the
repository itself.

| Part | State | Operations | Correct when |
|---|---|---|---|
| Review queue (`src/review*.ts`, `persistence/review*-repository.ts`) | `review_case`, `review_decision_event`, `review_application_event` | `openCase`, `decide`, `apply`, the insert triggers | an exact target has one case, one decision, one effect; an approval was earned; a retry is recognised |
| Evidence store (`persistence/repository.ts`, `reanalysis*.ts`) | `booth_product`, `scenario`, `source_snapshot`, `normalization_history`, `redaction_tombstone` | `saveGraph`, `record`, `purgeForAgeUnknown`, `loadGraph` | the analyses of an entity form a chain; a held product is erased and stays so |
| Reviewed read model and publication (`reviewed-overlay*.ts`, `reviewed-publication-index*.ts`, `publication.ts`) | none of its own: a request's locals | `loadPublicationIndex`, `loadReviewedGraphBatch`, `loadEffectiveProjection`, `project` | nothing excluded or erased is shown, nothing is shown approved without an approval in effect |
| Search (`search.ts`, `reviewed-search*.ts`) | none | filter and sort the index | fails closed with its source |
| Registry (`registry.ts`, `persistence/registry-repository.ts`) | `registry_snapshot` | `validateRegistry`, `resolveRegistryAlias`, `install` | a version never changes content; every stored name resolves |
| Discovery manifest and intake (`discovery-manifest.ts`, its repository, `discovery-intake-service.ts`) | `discovery_manifest` | make a manifest of a pilot's evidence, `install`, `loadExact` | a manifest is one whole listing and never changes |
| Recovery rehearsal, production readiness | none | field checks of a report | (pure conjunctions) |
| API governor (`scripts/github_api_governor.py`) | request budget, circuit breaker | reads with retries, pages, a write between two probes | a write is sent at most once and never reported done when unproven; calls end and are bounded; failing requests are spaced |
| Coordinator supervisor (`scripts/github_coordinator_supervisor.py`) | the answers of one evaluation | `evaluate`, `supervise` | what is made ready or merged was clean all at once; what is clean gets merged |
| Optional queue and reconciler (`ci-reconcile.yml`, `claude-queue.yml`, `scripts/queue_*.py`) | retry and stop records on a branch, workflow runs | record a retry, dispatch it, find a stranded one, stop, publish a checkpoint | at most the allowed retries, none dispatched twice unless its run was not listed, a stop is final, a request settles |
| Collection pilot (`scripts/booth_collection_pilot.py`) | the documents of one run, its evidence | preflight, approve, list, stop | lists only what was approved as it was read |

The components meet in the database. The review queue reads which entities the
evidence store has; the read model reads both, one select at a time and outside
any transaction; search consumes the read model. What is hard: writers commit
between the selects of a reader; calls are repeated by callers who lost the
answer; the review of a target spans three calls of different actors, each
judged against rows of the earlier ones; the purge has to find every copy of a
payload in five tables, and nothing stops the other writers after it; a batch
joins its targets in sequence. The control plane adds lost answers, budgets that
run out half-way, crashes between recording and doing, and judgements put
together from many reads of a GitHub that moves on. The pilot reads a site that
may change between any two of its requests, and people carry its evidence on: a
digest into the approval of a later run, a listing into a manifest.
`PROJECT.json` lists these hazards at their lines.

## Modules

| Module | Models |
|---|---|
| `ReviewDisposition` | the abstract promise of the queue: each exact target goes from unclaimed to claimed to decided to effective, once |
| `ReviewLifecycle` | the queue: its three tables, `openCase`, `decide`, `apply`, each with all its answers (`inserted`, `existing`, `conflict`, `error`), and the trigger of migration 0004 |
| `ReviewLifecycle_proofs` | the proofs about it |
| `EvidenceStore` | the product tables and their four writers |
| `EvidenceStore_proofs` | the proofs about it |
| `ReviewedOverlay` | the pure functions: overlay of one target, composition of a batch, publication gate |
| `ReviewedRead` | a reader of the publication index, one select per step, composed with the writers of `EvidenceStore` (EXTENDS) and of `ReviewLifecycle` (INSTANCE, whose catalogue of entities is computed from the product and scenario tables) |
| `ReviewedRead_proofs` | the proofs about it, on top of those about both writers |
| `ApiGovernor` | one pass of calls against GitHub, request by request, with the clock and the others on GitHub |
| `ApiGovernor_proofs` | the proofs about it |
| `Coordinator` | a run of the supervisor over one candidate, one read per step, with everybody else on GitHub |
| `Coordinator_proofs` | the proofs about it |
| `QueueRetry` | the queue runs of one issue and the reconciler, one step of `dispatch_retry` at a time, with people, crashes, lost completions, late lists and expiring checkpoints |
| `QueueRetry_proofs` | the proofs about it |
| `Registry` | the pure functions of `registry.ts`: validity of a registry, resolution of a name |
| `Ascending` | a set of product IDs in numeric order, as the pilot and the manifest write it |
| `Ascending_proofs` | that this list exists and is unique |
| `DiscoveryManifest` | the pure functions of `discovery-manifest.ts` |
| `CollectionPilot` | the runs of the pilot against a site that changes |
| `InstallOnce` | the abstract promise of an immutable table |
| `CollectionIntake` | the pilot (EXTENDS) composed with both tables and the pure functions (INSTANCE); each table implements `InstallOnce` |
| `CollectionIntake_proofs` | the proofs about the pilot, both tables and the refinement |
| `MC*` | the instances TLC checks |

How state and actions correspond to code:

* Every repository call is one transaction and the database runs one at a time
  (an embedded single-connection Postgres), so a writer's call is one action. A
  call that throws rolls back and is no step; a call that answers `existing` or
  `conflict` changes nothing, and the operators `OpenOutcome`, `DecideOutcome`
  and `ApplyOutcome` give the answer itself, so that properties can speak of it.
* Reads that the code makes outside a transaction are separate actions of the
  reader (`ReadProduct` ... `Compose`), and any writer may step between them.
* A row with a random UUID as its key is identified with its contents where its
  unique index makes that exact (cases, decisions, applications). Rows of
  `normalization_history` keep their ids, because the code orders rows by them.
* `openCase` compares the JSON text of the caller's snapshot with that of the
  stored one, which `snapshot()` rebuilds with its own keys in its own order. The
  same snapshot is another text when a caller writes its keys in another order or
  adds one. The input `asStored` of `OpenOutcome` says which it is: a case is
  stored from either, and a retry is recognised only if it is as stored. A caller
  that never writes it so is refused even when it repeats itself to the letter
  (the tests of the repository retry with the stored order only).
* A payload is abstracted to its origin: the result an analysis stores is named
  by the id of its row, so the model can tell where copies of it end up. The
  nullable columns of a product are the set of those that are not null.
* `compareReviewTargets` is a constant `Rank`; the instances give different
  targets different ranks. That `localeCompare` tells any two of the program's
  identifiers apart is the hypothesis `RanksDiffer` of `OrderSafety`, and of
  nothing else.
* `GovernedGitHub` is sequential, so `ApiGovernor` has one call under way: `pc`
  says which read, probe or write it is at, and `flight` that a request of it
  awaits its answer. `RefusedByCircuit`, `RefusedByBudget` and `Send` are the
  first half of `_once`, `TransportFails` and `Responds` the second, each with
  what `read_page`, `read_all` or `write_once_with_probe` then does
  (`Fails`, `Succeeds`). The clock may move while a request is under way,
  because `_once` reads it once, before it sends; the sleep between two attempts
  is a step of the clock, of any length.
* What a write creates is one bit, `effect`. A write that got no answer, a 500
  to 599, or an answer that cannot be read may take effect as late as
  `WriteTakesEffect` happens; only one that was refused, by a 300 to 499, never
  will (`Settles`). The code raises an unreadable answer to a write as the
  definite failure `malformed-response`. An interim response (1xx) is no answer
  of a transport, which `FinalAnswers` says of `Responses`. Others may create or
  remove it at any time. This is external: it is what the docstring of
  `write_once_with_probe` is on guard against. The probe of the model is a
  `read_page`; the code takes any callable.

* In `Coordinator` one step is one call of `evaluate` or `supervise`: `FirstPass`
  and `SecondPass` are its reads in the order of the code, `Acceptable` and
  `Unchanged` the tests between them. Several calls that answer one question are
  one read (the files of all other pull requests, the blobs of all workflows,
  the required checks, which are one check); definitions and files are functions
  of the commit, as they are in git. A comment is matched to the head the
  evaluation began with. `act` is what a step did to GitHub. The variables
  `clean`, `moved`, `returned` and `act` are history, which the code does not
  have and only the properties read.
* In `QueueRetry` a request is what `request_fingerprint` hashes. A
  reconciliation begins from a completed run (`BeginCompleted`), the hourly scan
  or the owner's control comment (`BeginScan`) and goes on in steps, each of
  which is followed by a possible `Crash`; the reads of one step are taken
  together. Its concurrency group runs one at a time and keeps one waiting
  completion, which a later one, of any of three workflows, replaces
  (`LoseEvent`, `Completes`). A queued run likewise gives way to a later one of
  its issue (`Superseded`). A run that its guard turns away ends in success
  without a checkpoint, which the classifier calls unknown. In this repository
  the provider job always fails for its missing secret; the model lets it end in
  any way, since the reconciler is written for all of them.
* In `QueueRetry` a run that was asked for is in the list of runs at once, or is
  not yet and comes into it by a step of its own (`Ask`, `List`; `seen` keeps
  which it was). Everything that asks for the list (`ExactRetryRuns`,
  `ActiveRuns`, `Checkpoints`) sees the listed runs only. A listing that comes
  within the 7.5 seconds of `confirm_retry_run` is one at once; otherwise that
  function raises, which changes nothing more.
* A checkpoint is the set of texts of the issue that authorize what it changes:
  none of them if it is unsound, does not apply, or holds what no text may
  authorize. `Publish` stands for `verify_artifact` and `publish_artifact` with
  all their refusals: a checkpoint that is not sound or not within the issue as it
  was read when the reconciliation began, a branch that has moved, another open
  candidate. Refused, the reconciliation ends, and the checkpoint is found
  again by the next one until GitHub deletes it (`Expire`) or the branch moves.
  GitHub does so by default after 90 days; the workflow asks for no other
  retention. The artifacts of the instance are authorized by one of the two texts.
* In `CollectionPilot` a document is a token for its semantic text, and a digest
  is the three texts it hashes. The stop reasons are not told apart, except for
  what the evidence then holds. A page is the sequence of its anchors, and an
  anchor its product ID, or `Foreign`.
* In `CollectionIntake` a hash is what it hashes, and canonical JSON is an object
  whose keys are `"sorted"`; a `jsonb` column gives the same object back with its
  keys in another order. Rows of the two tables are protected by append-only
  triggers, so the verification of a row that was read back, which the actions
  carry as a guard, never fails. `wellFormed` stands for the checks of one field
  alone: schema, normaliser and registry versions, dates, the form of an ID,
  empty strings, the order and uniqueness of the domains. The arrays of a
  registry are sets: an entity that stands in its array twice, which the code
  refuses as a duplicate ID, and two registries that differ in the order of an
  array, which `install` tells apart, are no values of the model.

Definitions whose comment begins with "Broken:" are plausible bugs. Nothing in
the models uses them. Each one, put in the place of the definition named in
`PROJECT.json` "mutants", makes a property fail, which shows that the property
looks at the code.

## Runs

| Run | Asks | Bounds |
|---|---|---|
| `review_lifecycle` | does the queue give each exact target one earned, traceable, final effect, and recognise every retry? | one scenario field under two versions, and a second product that may own the scenario instead; five snapshots covering every branch of the approval rule and a malformed one; three instants |
| `evidence_store` | are analyses a chain, does a tombstone account for a purge, does a held product stay held and unreadable? | two products, a scenario, two version keys, three history rows, three instants |
| `reviewed_read` | is what a read shows backed by what is in effect, whatever commits between its selects? | one product and scenario, two targets asked in every order, one snapshot, three instants |
| `read_completes` | does a read end? | one target |
| `api_governor` | is a write sent once and reported as proven, are failing requests spaced and calls bounded, does every call end? | a budget of 8, three attempts, two pages, a circuit that opens at 2 failures for 2 ticks, four ticks, five responses (accepted, forbidden, secondary limit, outage, unreadable) |
| `coordinator` | was what is made ready or merged clean all at once, and is what stays clean merged? | two heads, one of which touches a protected path, one amendment, four reviews, one other pull request, two heads of the default branch with different workflows; two changes by others and one failed call |
| `queue_retry` | is a recorded retry dispatched at most once unless its run was not listed, is a stop final, does a request settle? | two texts of the issue, checkpoints that the first authorizes, two heads of the default branch, two retries, people's changes up to weight two (an edit weighs one, anything else two), one fault (a crash or a run listed late) |
| `collection_intake` | does a listing follow the approval of what was read, is a manifest one whole listing, do names resolve, are both tables immutable stores? | 4 robots.txt, two texts of the other policies, five pages, at most two products, three runs, two changes of the site, two commits; or two registry calls from 158 registries, 22 of them valid, of two versions |
| `content_free_review` | (finding) is a review comment of nothing but its marker absent? | as `coordinator`, with such a comment |
| `purge_erases_results` | (finding) does a purge erase every copy of a result? | as `evidence_store` |
| `held_keeps_no_body_hash` | (finding) does a held product stay free of body-derived data? | as `evidence_store` |
| `exclusions_materialize` | (finding) does a batch materialise every exclusion in effect? | one field under two registry versions |

The bounds are enough for the hazards: three instants allow open, decide and
apply in strict order with no slack, and calls dated out of order; two versions
of one field are what it takes to confuse targets; three history rows give a
chain with a repetition, ids against time, and a record after the purge; two
products show what a purge must not touch. In `api_governor` three attempts
outnumber the threshold, so the circuit opens inside a call and refuses its
retries; four ticks leave two cooldowns; a budget of eight exceeds the seven
requests of the longest write, so that a pass runs out in its second call and
not before a bound could be broken.

In `coordinator` two changes by others are what it takes to make a judgement out
of two moments: one piece of evidence becomes clean after another stopped being
so, or one goes away and comes back. The second head carries a protected path, so
both kinds of review and an authorization comment are needed; the default branch
moves to workflows neither head has. In `queue_retry` weight two allows an edit
and its reversal, or a new trigger, a moved branch, an opened or closed
candidate, at any point of up to two retries (the workflow has three): the second
is what a count, an order of records or a bound can go wrong at. One crash
strands a record, one late listing has an attempt dispatched twice, an edit makes
a checkpoint unpublishable and its reversal publishable again; the completions
that get lost are not bounded. In `collection_intake` three runs
are a first without approval, one with its digest, and one in the changed world;
the pages have none, one, two and three products, out of order and twice, around
a limit of two. The registries hold every pair of names that normalise alike,
across and within types, and each way to be invalid that `validateRegistry`
knows and the model tells apart. The pilot and the registry share no state, so a
behaviour either runs the one or installs the other (`installs` in `Init`), and
which of two equal texts the policies start with is fixed.

`MaxTime`, the sets of ids, and the bounds on what others do (`MaxChanges`,
`MaxFailures`, `MaxFaults`, `MaxRuns`, `MaxInstalls`) are the only bounds on
growth, and only disable calls and changes from outside. No run checks for deadlock:
each instance ends when its ids and targets are used up, and the code's writers
have no duty to do anything.

What the runs show, in the order of their weight:

* The lifecycle implements `ReviewDisposition`, with all retries and crossings.
* An approved application exists only for the target whose own case was
  approved on evidence that could carry it.
* A read never mixes the answers of two targets or two moments of one target:
  what it reports for a target is in effect, and what was in effect when it
  began is not missed. This rests on the append-only tables, since the reader
  takes no snapshot; `OutcomesAreInEffect` is the property to watch if any
  review row ever becomes mutable.
* A read that begins after a purge shows nothing. A read that began before the
  purge may still answer with what the purge erased: the code awaits no lock,
  and no document promises otherwise.
* A write whose probe answers is reported as it is: `created`, `already-present`
  and `recovered` were seen; a definite failure cannot come true later, so the
  caller may try again. There are two exceptions, and `DefiniteFailureIsFinal`
  names both. An answer of the write that cannot be read is raised as
  `malformed-response` once the probe finds nothing, a kind as definite as
  `permission`, although the write may yet take effect. And when the probe itself
  raises, after a write that may have happened, the caller gets the kind of the
  probe's failure (`circuit-open`, `request-budget-exhausted`) and not
  `ambiguous-write`. Neither kind says that nothing was written; no document
  promises that it does.
* A repeated `decide` or `apply` is recognised whatever happened since, and so is a
  repeated `openCase` whose snapshot is written as the repository writes it. One
  that is written otherwise is a conflict and never a second case.
* A circuit that opens dates its cooldown from when the failed request was sent,
  and forgets all failures at its end; still, behind `Threshold` failures in a
  row, of whatever calls, no request goes out without a whole cooldown among
  them.
* What the supervisor makes ready or merges was clean, all of it together, at one
  instant of the evaluation that decided it, although it never sees the evidence
  at one instant. The two passes are what buys this: something that both passes
  found the same was so in between, unless it went away and came back. `returned`
  excludes that case by name. The review threads need no such exception, because
  the first pass reads them last: what the second pass found unchanged was so at
  that very instant. Nor do the issue and the default branch, which never come
  back to an earlier state. The hold label and the
  mergeability are read once, last, and are not part of the promise: a label that
  is set after the last read does not stop the merge.
* A clean candidate is merged under nothing but the schedule: a draft is marked
  ready and judged again in the same run, a failed call is made good by a later
  run. Two candidates that touch one path are the exception: `_overlaps` refuses
  each for the other's sake, until a person closes one.
* The reconciler dispatches no recorded attempt twice, though it may die between
  the record, the last look and the dispatch, as long as GitHub lists a run
  within the 7.5 seconds in which `confirm_retry_run` looks for it. If a run is
  listed later than that, the next reconciliation may take its record for a
  stranded one and dispatch the attempt again; once both are listed,
  `exact_retry_runs` raises in every reconciliation of the request, which then
  comes to neither a candidate nor a stop by itself. `OneRunPerAttempt` and
  `RequestSettles` name this case and no other; without it, TLC finds each
  violated.
* A stopped request stays stopped even if the issue is edited away from it and
  back. A request that is left alone comes to a candidate or a stop though no
  completion ever reaches the reconciler, because the hourly scan needs none. It
  pays for that with what it knows: the scan takes every silent run for an unknown
  failure, so a failure of a class that is not to be retried, whose completion was
  lost, is retried up to the bound after all (`docs/PUBLIC_SECURITY_MODEL.md`
  line 37 says such failures do not loop; a loop it is not).
* A checkpoint belongs to the head of the default branch and not to a request: one
  that was made before the issue was edited may be published for the edited
  issue, if the new text authorizes its paths. If it does not, every scan finds
  it, raises, and records neither retry nor stop, until the checkpoint expires or
  the branch moves: only by that is the promise that the request settles kept.
* No listing is asked for unless the site served, in the same run, exactly the
  three texts whose digest a person took from earlier evidence, and the
  robots.txt among them allows it. The digest appears also in the evidence of runs
  that robots.txt stopped, so approving it is possible and must not be enough.
* Each manifest is the whole of one listing, whatever order its entries travelled
  in; a page that shows too many products stops the run instead of being cut.
* In every registry the table holds, each entity answers to its label and no name
  is in conflict, since the uniqueness of names is tested on normalised keys.
* The order in which a caller names targets is immaterial, but the order the code
  sorts them in is not, see below.

### Disagreements with the documents

1. `purge_erases_results`: the purge redacts `decision` but leaves
   `old_result_snapshot`, so that the result of the analysis before a
   reanalysis survives it (`docs/ARCHITECTURE.md`, `docs/PHYSICAL_SCHEMA.md`
   step 11).
2. `held_keeps_no_body_hash`: `record` does not look at the hold, and the
   unique tombstone refuses a second purge (`docs/DATA_MODEL.md`).
3. `exclusions_materialize`: in a batch that names a field under two registry
   versions the approval of the first makes the stored rejection of the second
   a mismatch, and the field stays approved (`docs/DATA_MODEL.md`, Stage 18).
4. `content_free_review`: a comment of nothing but a clean marker counts as the
   review, because its verdict is counted before its content is looked at; only
   its id stays out of the markers (`docs/MINIMUM_SAFETY_PROFILE.md`).

## Fairness

In `read_completes` only the reader is fair: once begun, its next step is taken
if it stays possible (weak fairness of `Advance`). The code justifies it because
each select is awaited, reads take no lock and so are answered, and the loop has
no retry. No caller is obliged to open, decide, apply, save or purge.

In `api_governor` the governor is fair and nothing else is: a call goes on, and
a request under way is answered or fails in its transport, which owns its
timeouts (weak fairness of `Governor`). No fairness of the clock is assumed,
since the default clock of `GovernedGitHub` stands still: with it an open
circuit never closes, and `CallsEnd` says that calls end all the same, because
`_once` refuses instead of waiting.

In `coordinator` the supervisor is fair (weak fairness of `Supervise`):
`supervisor.yml` runs every hour besides on each relevant event, one run at a
time, and a run that is not cut off makes its next call. A call may fail
`MaxFailures` times. `CleanIsMerged` asks nothing of the others: it says that a
candidate that is clean gets merged or stops being clean.

In `queue_retry` the queue runs are fair, since GitHub starts and ends what it
was given; the hourly scan is (`BeginScan(FALSE)`), and a reconciliation that
has begun goes on (`Publish \/ DispatchRetry`) or dies, which `MaxFaults`
bounds. GitHub's `Upkeep` is fair: a run is listed in the end, and an artifact
is deleted when its retention ends. `BeginCompleted` is not fair: nothing makes
a completion arrive.

`collection_intake` states no fairness: people start the pilot and make
manifests when they like.

## Proofs

`ReviewLifecycle_proofs` proves, for all sets of products, scenarios, fields,
versions, snapshots and every `MaxTime`, from the assumption
`ReviewConstants` on the constants alone:

* `TypeCorrectness`, `ApprovalSafety`, `ApplicationSafety`, `UniquenessSafety`,
  `RetrySafety`: the five invariants of the run `review_lifecycle`;
* `AppendOnlySafety`: its action property;
* `Refinement`: `Spec => ImplementsDisposition`.

The argument is the inductive invariant `IInv`. Uniqueness is not inductive on
its own: that a second application is impossible needs that every application
cites a stored decision on its own case, that a case is found by its target, and
that a decision is found by its case. Retry recognition needs more: a repeated
call is judged by the whole of its guard again, so the guard's facts must have
been kept, which is what `CasesArePlanned`, `DecisionsAreAllowed` and
`ApplicationsArePlanned` say. The refinement then maps every table to a function
of targets: with uniqueness the `CHOOSE` of the mapping has one candidate.

`ApiGovernor_proofs` proves, for every budget, number of attempts and pages,
threshold, cooldown, latest time and set of responses, from `GovernorConstants`
and `FinalAnswers` (no response is an interim one), all six invariants of the
run `api_governor`: `TypeCorrectness`, `WriteSafety`, `OneWriteSafety`,
`FinalitySafety`, `SpacingSafety`, `BoundSafety`. Its `IInv` says where a write
stands at each step (`WriteStands`: before the write nothing is pending, at the
second probe a write that was refused has nothing pending), how many requests a
call has sent when it is at an attempt of a page or of a probe (`SentSoFar`,
from which the allowance of the call follows), and where the gap in a row of
failures is (`GapStands`: the failures since the circuit last closed are the
last `failures` of the row, and what was sent before them is a cooldown older;
the row alone does not show where the circuit closed). The lemmas
`FailureLeads`, `SuccessLeads` and `AnswerLeads` list how a request can leave
its call, and every action is then a combination of one of them with one fact
about the circuit.

`EvidenceStore_proofs` proves all invariants and both action properties of the
run `evidence_store`: `TypeCorrectness`, `ChainSafety`, `OwnershipSafety`,
`TombstoneSafety`, `HeldSafety`, `AppendOnlySafety`, `HeldStaysHeldSafety`. It
rests on `EvidenceConstants` (products, scenarios and ids are told apart, and
the sets of scenarios and ids are finite, as a database is: a tombstone counts
rows) and `NoRowIsNoRow` (the absence of a row is not a row). What has to be
added to the properties is small but not free: the chain needs that ids are keys
(`IdsAreUnique`) and that an analysis is filed with the owner of its entity; the
count of a tombstone, taken once, stays true only because nothing of a held
product can still be redacted or gain a body (`HeldIsPurged`, `ResultsAreOwn`),
although `record` may go on adding analyses to it.

`ReviewedRead_proofs` proves all six invariants of the run `reviewed_read`, for
requests of any length, any number of products and targets, and any stored
evidence: `ReadTypeCorrectness`, `PurgeSafety`, `OutcomeSafety`,
`BackedSafety`, `ExclusionSafety`, `OrderSafety`, from the assumptions of the
store, of the queue and `ReadConstants` (the requests are sequences of targets,
every target has a rank, every stored envelope a review state). The invariant is
`ReadIInv == IInv /\ Queue!IInv /\ ReaderInv`:

* The writers' invariants are the ones of `EvidenceStore_proofs` and
  `ReviewLifecycle_proofs` and their step lemmas are cited; the latter is
  instantiated with the catalogue computed from the tables, and `SameQueue`
  shows that this instance is the one the specification uses. A writer leaves
  the reader alone; to the reader it matters only that it adds rows and never
  lifts a hold.
* `ReaderInv` says what each select has established: the request as it was
  accepted (`RequestIsKept`), for each target answered so far a row that backs
  the answer (`AnswersAreKept`), for the target under way that the row at hand
  belongs to it and to the snapshot read first (`RowIsTheTargets`), and that a
  finished read is the composition of all of this (`ResultIsComposed`).
  `HoldIsNoticed` is why a purge cannot be overtaken: a read that began on a held
  product either still has to read the hold or has ended empty.

Of the composition, lemmas say that targets are joined in a permutation of the
request (places are counts, so distinct inputs get distinct places and the
places fill `1..n`), that a slot ends as it was or as an outcome of an input on it
made it, and that an outcome reported is an outcome applied. The join is a
recursive function over the length of the batch. That it exists at all is
normally had from an induction schema; here the least length at which it would
fail is contradicted (`LeastExists`), which needs no schema. `OrderSafety` has
the hypothesis `RanksDiffer`. It is a real one: `localeCompare` may call two
different strings equal, the sort is stable, and then the caller's order decides.
The code states it for valid targets without any such condition.

`QueueRetry_proofs` proves both invariants and the action property of the run
`queue_retry`: `TypeCorrectness`, `OneRunSafety`, `StopSafety`, from
`QueueAssumption` (there is a content; checkpoints are authorized by sets of
contents; bounds are numbers). The invariant ties the reconciler's last look to
the runs (`RetryUnderWay`): from `recheck` on the record of the attempt is there
and nobody has stopped the request; when it dispatches, any run of this attempt
is one that was not listed at once. That survives other runs being asked for
meanwhile, since a person's run has attempt 0, and a late run entering the list,
since `seen` keeps how it was listed. `HeadsMoveForward` is needed because the
reconciler counts only the runs on the request's own head: the last look finds
the branch still there, and as it only moves forward, a run of the attempt
cannot have started from anywhere else. How the runs can change is said once, in
`OneRunChanges` and `AppendedRun`.

`Coordinator_proofs` proves both invariants of the run `coordinator`:
`TypeCorrectness` and `JudgedSafety`, for every number of changes that others
make between the reads, from `CoordinatorAssumption` and `NoneIsNoAnswer` (no
answer of GitHub is the absence of one). The run knows only what it has read, so
the invariant says of each answer when it was so: evidence that is not as
the first pass read it has changed since (`Tracked`), each answer was acceptable
(`Accepted`), and, from the moment the first pass ends, either the head was clean at
once or something the second pass has yet to read is not as it was
(`SecondPassTells`, `Obstructed`). As the second pass goes on, what can still
obstruct it shrinks to nothing. The order of the reads in the code enters here:
the comments before the threads, the pull request last.

`Ascending_proofs` shows that `InOrder` lists every finite set of integers, each
once and in order (`InOrderLists`), and that nothing else does
(`InOrderIsUnique`). The definition is by `CHOOSE`, and not by `SortSeq`,
because the proof system's module `TLC` has no `SortSeq`.

`CollectionIntake_proofs` proves every property of the run
`collection_intake`: `TypeCorrectness`, `ApprovalSafety`, `ResolveSafety`,
`CompletenessSafety` and `Refinement` (`Spec => ImplementsInstallOnce`), from
`PilotAssumption` (pages are sequences of integers), `NoneIsNoDigest` and
`RegistryAssumption` (a registry has the fields of a registry, nothing more).
The pilot's part of the invariant is that what was read was served since the run
began and that at a listing all three texts were read, approved and allowing
(`PilotInv`). The stores' part says of each row which call
made it: a manifest is the record of one page (`ManifestsAreOfPages`), a
registry is a valid one (`RegistriesAreValid`). The lemma behind `ResolveSafety`
is about `validateRegistry` alone: unique normalised keys leave one entity to
each label. That a re-sent manifest is recognised in whatever order its entries
travelled, which is what the refinement needs, is the uniqueness of the sorted
list.

Model-checked only is what the prover does not reach, or what is false. Liveness
under fairness: `ReadCompletes`, `CallsEnd`, `CleanIsMerged`, `RequestSettles`.
And the four properties the code violates, which a counterexample settles.

TLC finds each of the inductive invariants true on the instances, too.

## Not modelled, and why

Of the governor: `discover_collisions`, the checks of paths, methods and jitter,
and the bounds its constructors check, which keep no state, and `last_failure`,
which is only reported. `pendingCases` (an ordering of rows for display),
several products in one index request, malformed targets (refused before
anything is read), the one-target overlay service, the registry's foreign keys
on version columns, and the components whose status in `PROJECT.json` is
`not_modelled`, with the reason there.

Of the control plane: a sweep of the supervisor over several candidates (one
after the other, each from its own reads); `resume_remote_branch`, which takes
up a branch that a queue run pushed; the choice of an issue by the scan, which
takes the first triggered one and stops there, so that a request that raises for
as long as its checkpoint lasts, or for ever after a double dispatch, keeps the
scan from the others; the branch that a publication pushes before it opens the
pull request; runs that a person repeats by hand; the HTTP transport of the
pilot, its normalisation of texts, its stop observations, and a dry run that is
refused a digest. Wording, formatting, logging and validation of strings are
left out.

## Plan

1. `ReviewedSearch` as the consumer of the index, several products in one
   request, the one-target service; two candidates in `Coordinator`, several
   issues in `QueueRetry`. Each widens a module whose proofs then follow: a
   second product in a request adds an index to the reader's invariant, and a
   second issue leaves `QueueRetry`'s as it is but for the reconciler's choice.
2. An abstract specification of the read, which answers with one committed
   state per target between its begin and its end, and of the queue's retries
   (recorded, dispatched, stopped), with refinements as `ReviewLifecycle` and
   `CollectionIntake` have them.

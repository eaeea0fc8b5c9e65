----------------------------- MODULE EvidenceStore -----------------------------
(***************************************************************************)
(* The product side of src/persistence: saveGraph, record and              *)
(* purgeForAgeUnknown over booth_product, scenario, source_snapshot,       *)
(* normalization_history and redaction_tombstone.  Each call is one        *)
(* database transaction and the database runs one at a time, so a call is  *)
(* one step; a call that throws rolls back and is no step.                 *)
(*                                                                         *)
(* A payload is abstracted to where it came from: the result an analysis   *)
(* stores is named by the id of the row that first stored it, so a copy of *)
(* the result can be told wherever it is kept.                             *)
(***************************************************************************)
EXTENDS Naturals, FiniteSets

CONSTANTS
  Products,      \* booth_product ids
  Scenarios,     \* scenario ids
  Sources,       \* source_product_ids: BOOTH item numbers
  SnapshotIds,   \* source_snapshot ids
  HistoryIds,    \* normalization_history ids, ordered as the database does
  Keys,          \* the version keys callers pass
  ColumnSets,    \* the column sets callers save
  GraphHistory,  \* the history rows callers save with a graph
  GraphTimes,    \* the <<first seen, last checked>> pairs callers save
  Analysed,      \* the entities callers record analyses of
  Requests,      \* the triggers callers request, "none" for no request
  Hashes,        \* whether callers pass a body-derived hash
  MaxTime,       \* the latest timestamp a caller passes
  NoRow, None, Redacted

\* The nullable columns of booth_product that describe the product.
Columns ==
  {"observedTitle", "classification", "salesState",
   "sourcePublicationDate", "isFree"}

\* A version key: the three dimensions of REANALYSIS_VERSION_DIMENSIONS.
Dimensions == {"content_version", "normalizer_version", "registry_version"}

Triggers ==
  {"content_changed", "normalizer_version_changed",
   "registry_version_changed", "alias_approved",
   "canonical_entity_added", "manual_trigger"}

Times == 1..MaxTime
Entities == Products \union Scenarios

GraphEntry ==
  [id: HistoryIds, entity: Entities, key: Keys, hashed: BOOLEAN, at: Times]

ASSUME EvidenceConstants ==
  /\ Products \intersect Scenarios = {}
  /\ HistoryIds \subseteq Nat
  \* The ids are uuid columns.
  /\ IsFiniteSet(Scenarios) /\ IsFiniteSet(SnapshotIds) /\ IsFiniteSet(HistoryIds)
  /\ MaxTime \in Nat
  /\ \A k \in Keys : DOMAIN k = Dimensions
  /\ None \notin Keys
  /\ None \notin HistoryIds
  /\ Redacted \notin HistoryIds \union {None}
  /\ \A C \in ColumnSets :
       {"salesState", "sourcePublicationDate"} \subseteq C /\ C \subseteq Columns
  /\ GraphHistory \subseteq SUBSET GraphEntry
  /\ GraphTimes \subseteq Times \X Times
  /\ Analysed \subseteq Entities
  /\ Requests \subseteq Triggers \union {"none"}
  /\ Hashes \subseteq BOOLEAN

VARIABLES
  product,    \* booth_product by id
  scenario,   \* scenario by id
  snapshots,  \* source_snapshot
  history,    \* normalization_history
  tombstone   \* redaction_tombstone by product

evidenceVars == <<product, scenario, snapshots, history, tombstone>>

ProductRow ==
  [source: Sources, allAges: {"approved", "hold"}, columns: SUBSET Columns,
   firstSeen: Times, lastChecked: Times]

ScenarioRow == [product: Products, body: {"stored", "purged"}]

SnapshotRow ==
  [id: SnapshotIds, product: Products, hashed: BOOLEAN,
   outcome: {"observed", "hold_age_unknown"}]

\* hashed: body_derived_sha256 is not null.  oldResult: whose result the
\* column old_result_snapshot repeats.  result: the column "decision".
HistoryRow ==
  [id: HistoryIds, product: Products, entity: Entities,
   kind: {"initial_analysis", "reanalysis"}, trigger: Triggers \union {"none"},
   oldKey: Keys \union {None}, oldResult: HistoryIds \union {None, Redacted},
   key: Keys, hashed: BOOLEAN, result: HistoryIds \union {Redacted},
   createdAt: Times]

TombstoneRow == [snapshots: Nat, histories: Nat, scenarios: Nat, at: Times]

ASSUME NoRowIsNoRow ==
  NoRow \notin ProductRow /\ NoRow \notin ScenarioRow /\ NoRow \notin TombstoneRow

TypeOK ==
  /\ product \in [Products -> ProductRow \union {NoRow}]
  /\ scenario \in [Scenarios -> ScenarioRow \union {NoRow}]
  /\ snapshots \subseteq SnapshotRow
  /\ history \subseteq HistoryRow
  /\ tombstone \in [Products -> TombstoneRow \union {NoRow}]

Init ==
  /\ product = [p \in Products |-> NoRow]
  /\ scenario = [s \in Scenarios |-> NoRow]
  /\ snapshots = {}
  /\ history = {}
  /\ tombstone = [p \in Products |-> NoRow]

ScenariosOf(p) ==
  {s \in Scenarios : scenario[s] # NoRow /\ scenario[s].product = p}
SnapshotsOf(p) == {n \in snapshots : n.product = p}
HistoryOf(p) == {h \in history : h.product = p}
Held(p) == product[p] # NoRow /\ product[p].allAges = "hold"

--------------------------------------------------------------------------------
(* saveGraph: insert only.  A graph names a new product and new scenarios; *)
(* the product's age state must be approved, for a held row may keep none  *)
(* of the columns every caller supplies.                                   *)

\* Broken: a product that is not shown is taken for absent.
NotShown(p) == product[p] = NoRow \/ Held(p)

Absent(p) == product[p] = NoRow

InitialRow(p, e) ==
  [id |-> e.id, product |-> p, entity |-> e.entity,
   kind |-> "initial_analysis", trigger |-> "none", oldKey |-> None,
   oldResult |-> None, key |-> e.key, hashed |-> e.hashed,
   result |-> e.id, createdAt |-> e.at]

UnusedHistoryId(id) == \A h \in history : h.id # id

SaveGraph(p, source, C, S, N, H, first, last) ==
  /\ Absent(p)
  /\ \A q \in Products : product[q] # NoRow => product[q].source # source
  /\ \A s \in S : scenario[s] = NoRow
  /\ \A n \in snapshots : n.id \notin N
  /\ \A e \in H : e.entity \in {p} \union S /\ UnusedHistoryId(e.id)
  /\ \A e1, e2 \in H : e1.id = e2.id => e1 = e2
  /\ first <= last
  /\ product' = [product EXCEPT ![p] =
       [source |-> source, allAges |-> "approved", columns |-> C,
        firstSeen |-> first, lastChecked |-> last]]
  /\ scenario' = [s \in Scenarios |->
       IF s \in S THEN [product |-> p, body |-> "stored"] ELSE scenario[s]]
  /\ snapshots' = snapshots \union
       {[id |-> n, product |-> p, hashed |-> TRUE, outcome |-> "observed"] :
          n \in N}
  /\ history' = history \union {InitialRow(p, e) : e \in H}
  /\ UNCHANGED tombstone

--------------------------------------------------------------------------------
(* record: append the next analysis of one entity *)

\* Broken: that the scenario exists is checked, but not whose it is.
OwnsAnyScenario(p, entity) ==
  /\ product[p] # NoRow
  /\ entity = p \/ (entity \in Scenarios /\ scenario[entity] # NoRow)

Owns(p, entity) ==
  \/ entity = p /\ product[p] # NoRow
  \/ entity \in ScenariosOf(p)

HistoryOn(p, entity) == {h \in HistoryOf(p) : h.entity = entity}

Later(h, g) ==
  h.createdAt > g.createdAt \/ (h.createdAt = g.createdAt /\ h.id > g.id)

IsLatest(h, rows) == h \in rows /\ \A g \in rows \ {h} : Later(h, g)

\* Broken: the rows are ordered by id alone.
GreatestIdOn(p, entity) ==
  CHOOSE h \in HistoryOn(p, entity) : \A g \in HistoryOn(p, entity) : h.id >= g.id

\* latestRow: newest first, the greater id among equals.
LatestOn(p, entity) ==
  CHOOSE h \in HistoryOn(p, entity) : IsLatest(h, HistoryOn(p, entity))

Changed(old, new) == {d \in Dimensions : old[d] # new[d]}

\* validateRequestedTrigger: the dimension a requested trigger must explain.
Explains(trigger, changed) ==
  CASE trigger \in {"none", "manual_trigger"} -> TRUE
    [] trigger = "content_changed" -> "content_version" \in changed
    [] trigger = "normalizer_version_changed" -> "normalizer_version" \in changed
    [] trigger \in {"registry_version_changed", "alias_approved",
                    "canonical_entity_added"} -> "registry_version" \in changed

AutomaticTrigger(changed) ==
  CASE "registry_version" \in changed -> "registry_version_changed"
    [] "registry_version" \notin changed /\ "normalizer_version" \in changed ->
         "normalizer_version_changed"
    [] OTHER -> "content_changed"

TriggerFor(requested, changed) ==
  IF requested # "none" THEN requested ELSE AutomaticTrigger(changed)

Newer(at, h) == at > h.createdAt

\* planReanalysis: requested = "none" stands for no requested trigger.
Plan(p, entity, key, requested) ==
  IF HistoryOn(p, entity) = {}
    THEN IF requested = "none" THEN "initial_analysis" ELSE "error"
  ELSE LET changed == Changed(LatestOn(p, entity).key, key) IN
    IF ~Explains(requested, changed) THEN "error"
    ELSE IF changed = {} /\ requested # "manual_trigger" THEN "skip"
    ELSE "reanalyze"

\* Broken: a row whose id is taken is overwritten.
RecordInitialUpserts(p, entity, id, key, requested, hashed, at) ==
  /\ Owns(p, entity)
  /\ Plan(p, entity, key, requested) = "initial_analysis"
  /\ history' = {h \in history : h.id # id} \union
       {InitialRow(p, [id |-> id, entity |-> entity, key |-> key,
                       hashed |-> hashed, at |-> at])}
  /\ UNCHANGED <<product, scenario, snapshots, tombstone>>

RecordInitial(p, entity, id, key, requested, hashed, at) ==
  /\ Owns(p, entity)
  /\ Plan(p, entity, key, requested) = "initial_analysis"
  /\ UnusedHistoryId(id)
  /\ history' = history \union
       {InitialRow(p, [id |-> id, entity |-> entity, key |-> key,
                       hashed |-> hashed, at |-> at])}
  /\ UNCHANGED <<product, scenario, snapshots, tombstone>>

RecordReanalysis(p, entity, id, key, requested, hashed, at) ==
  /\ Owns(p, entity)
  /\ Plan(p, entity, key, requested) = "reanalyze"
  /\ UnusedHistoryId(id)
  /\ LET previous == LatestOn(p, entity) IN
       /\ Newer(at, previous)
       /\ history' = history \union
            {[id |-> id, product |-> p, entity |-> entity,
              kind |-> "reanalysis",
              trigger |-> TriggerFor(requested, Changed(previous.key, key)),
              oldKey |-> previous.key, oldResult |-> previous.result,
              key |-> key, hashed |-> hashed, result |-> id,
              createdAt |-> at]}
  /\ UNCHANGED <<product, scenario, snapshots, tombstone>>

--------------------------------------------------------------------------------
(* purgeForAgeUnknown: the product's age can no longer be confirmed *)

\* Broken: the result is cleared instead of redacted, is forgotten, and a
\* snapshot keeps its hash.
RedactionToNull(h) == [h EXCEPT !.hashed = FALSE, !.result = None]
RedactionOfHash(h) == [h EXCEPT !.hashed = FALSE]
HashedSnapshot(n) == [n EXCEPT !.outcome = "hold_age_unknown"]

Redaction(h) == [h EXCEPT !.hashed = FALSE, !.result = Redacted]

PurgedSnapshot(n) == [n EXCEPT !.hashed = FALSE, !.outcome = "hold_age_unknown"]

\* The tombstone's unique index rejects a second purge of the product, and
\* the time check a purge dated before the product was first seen.
Purge(p, at) ==
  /\ product[p] # NoRow
  /\ tombstone[p] = NoRow
  /\ product[p].firstSeen <= at
  /\ product' = [product EXCEPT ![p] =
       [@ EXCEPT !.allAges = "hold", !.columns = {}, !.lastChecked = at]]
  /\ scenario' = [s \in Scenarios |->
       IF s \in ScenariosOf(p) THEN [scenario[s] EXCEPT !.body = "purged"]
                               ELSE scenario[s]]
  /\ snapshots' = (snapshots \ SnapshotsOf(p))
                    \union {PurgedSnapshot(n) : n \in SnapshotsOf(p)}
  /\ history' = (history \ HistoryOf(p))
                  \union {Redaction(h) : h \in HistoryOf(p)}
  /\ tombstone' = [tombstone EXCEPT ![p] =
       [snapshots |-> Cardinality(SnapshotsOf(p)),
        histories |-> Cardinality(HistoryOf(p)),
        scenarios |-> Cardinality(ScenariosOf(p)), at |-> at]]

--------------------------------------------------------------------------------

Next ==
  \/ \E p \in Products, source \in Sources, C \in ColumnSets,
        S \in SUBSET Scenarios, N \in SUBSET SnapshotIds, H \in GraphHistory,
        seen \in GraphTimes :
       SaveGraph(p, source, C, S, N, H, seen[1], seen[2])
  \/ \E p \in Products, entity \in Analysed, id \in HistoryIds, key \in Keys,
        requested \in Requests, hashed \in Hashes, at \in Times :
       \/ RecordInitial(p, entity, id, key, requested, hashed, at)
       \/ RecordReanalysis(p, entity, id, key, requested, hashed, at)
  \/ \E p \in Products, at \in Times : Purge(p, at)

Spec == Init /\ [][Next]_evidenceVars

--------------------------------------------------------------------------------
(* loadGraph, when nothing is written between its two reads *)

\* Broken: a row that exists is a graph.
RowExists(row) == row # NoRow

Readable(row) ==
  /\ row # NoRow
  /\ {"observedTitle", "salesState", "sourcePublicationDate"} \subseteq row.columns

ReadableScenarios(p) == {s \in ScenariosOf(p) : scenario[s].body = "stored"}

--------------------------------------------------------------------------------
(* Properties *)

\* A reanalysis continues the analysis that was newest before it: its old key
\* and its old result are that row's, and the key differs unless a person
\* asked for the repetition (record, planReanalysis).
HistoryIsAChain ==
  \A h \in history :
    h.kind = "reanalysis" =>
      LET earlier == {g \in HistoryOn(h.product, h.entity) : Later(h, g)} IN
      \E g \in earlier :
        /\ IsLatest(g, earlier)
        /\ g.createdAt < h.createdAt
        /\ h.oldKey = g.key
        /\ h.oldResult \in {g.id, g.result}
        /\ h.oldKey = h.key => h.trigger = "manual_trigger"

\* Analyses are filed under the product that owns the analysed entity, so a
\* purge of the product reaches every one of them.
HistoryFollowsOwnership ==
  \A h \in history :
    /\ product[h.product] # NoRow
    /\ h.entity \in {h.product} \union ScenariosOf(h.product)

\* A tombstone stands for exactly the rows that were redacted: the product is
\* held, its scenarios and source snapshots are all counted and all purged,
\* and the history it counts is the history that is redacted.
TombstoneCountsRedaction ==
  \A p \in Products :
    /\ Held(p) <=> tombstone[p] # NoRow
    /\ tombstone[p] # NoRow =>
         /\ tombstone[p].scenarios = Cardinality(ScenariosOf(p))
         /\ tombstone[p].snapshots = Cardinality(SnapshotsOf(p))
         /\ tombstone[p].histories =
              Cardinality({h \in HistoryOf(p) : h.result = Redacted})
    /\ tombstone[p] = NoRow => \A h \in HistoryOf(p) : h.result # Redacted

\* No read shows a held product: the product row is not a readable graph, its
\* scenarios are skipped, its source snapshots carry no hash, and a redacted
\* analysis carries none either.
HeldIsUnreadable ==
  \A p \in Products : Held(p) =>
    /\ ~Readable(product[p])
    /\ ReadableScenarios(p) = {}
    /\ \A n \in SnapshotsOf(p) : ~n.hashed
    /\ \A h \in HistoryOf(p) : h.result = Redacted => ~h.hashed

\* Outside the purge of its own product a row of the append-only tables is
\* never changed or removed, the purge changes no row of another product,
\* and what was redacted stays redacted.
AppendOnlyOutsidePurge ==
  [][\A p \in Products :
       \/ HistoryOf(p) \subseteq HistoryOf(p)' /\ SnapshotsOf(p) \subseteq SnapshotsOf(p)'
       \/ /\ ~Held(p) /\ Held(p)'
          /\ \A h \in HistoryOf(p) : Redaction(h) \in history'
          /\ \A q \in Products \ {p} :
               HistoryOf(q)' = HistoryOf(q) /\ SnapshotsOf(q)' = SnapshotsOf(q)]_evidenceVars

\* A held product stays held: no later call restores its age state, its
\* columns or its scenarios.
HeldStaysHeld ==
  [][\A p \in Products : Held(p) =>
       /\ product'[p] = product[p]
       /\ ScenariosOf(p)' = ScenariosOf(p)
       /\ \A s \in ScenariosOf(p) : scenario'[s] = scenario[s]]_evidenceVars

--------------------------------------------------------------------------------
(* What the documents say of a held product *)

\* docs/PHYSICAL_SCHEMA.md, section 8, has the purge leave no prohibited
\* payload: no result of an analysis made before the purge survives in any
\* column of the product's history.
PurgeErasesResults ==
  \A h \in history :
    Held(h.product) /\ h.result = Redacted =>
      h.oldResult \in {None, Redacted}

\* docs/DATA_MODEL.md has no body-derived data appear in any record linked to
\* a held product, whenever the record was written.
HeldKeepsNoBodyHash ==
  \A h \in history : Held(h.product) => ~h.hashed
================================================================================

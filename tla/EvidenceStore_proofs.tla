-------------------------- MODULE EvidenceStore_proofs -------------------------
(***************************************************************************)
(* Proofs about EvidenceStore for every set of products, scenarios, rows,  *)
(* keys and times that its assumptions allow.                              *)
(***************************************************************************)
EXTENDS EvidenceStore, FiniteSetTheorems, WellFoundedInduction, TLAPS

\* The primary keys of the two append-only tables.
IdsAreUnique ==
  /\ \A g, h \in history : g.id = h.id => g = h
  /\ \A m, n \in snapshots : m.id = n.id => m = n

\* Scenarios and snapshots belong to stored products.
OwnersExist ==
  /\ \A s \in Scenarios : scenario[s] # NoRow => product[scenario[s].product] # NoRow
  /\ \A n \in snapshots : product[n.product] # NoRow

\* A result is the row's own until it is redacted, and then unhashed.
ResultsAreOwn ==
  \A h \in history :
    /\ h.result \in {h.id, Redacted}
    /\ h.result = Redacted => ~h.hashed

\* What a purge leaves of the product.
HeldIsPurged ==
  \A p \in Products : Held(p) =>
    /\ product[p].columns = {}
    /\ \A s \in ScenariosOf(p) : scenario[s].body = "purged"
    /\ \A n \in SnapshotsOf(p) : ~n.hashed

IInv ==
  /\ TypeOK
  /\ IdsAreUnique
  /\ OwnersExist
  /\ HistoryFollowsOwnership
  /\ ResultsAreOwn
  /\ HeldIsPurged
  /\ HistoryIsAChain
  /\ TombstoneCountsRedaction

--------------------------------------------------------------------------------
(* The newest row *)

\* Of finitely many rows with ids of their own, one is newer than all others.
LEMMA LatestExists ==
  ASSUME NEW rows \in SUBSET HistoryRow, IsFiniteSet(rows), rows # {},
         \A g, h \in rows : g.id = h.id => g = h
  PROVE  \E h \in rows : IsLatest(h, rows)
<1> DEFINE Newest(h) == {g \in rows : g = h \/ Later(g, h)}
           families == {Newest(h) : h \in rows}
<1>1. IsWellFoundedOn(StrictSubsetOrdering(rows), SUBSET rows)
  BY FS_StrictSubsetOrderingWellFounded, FS_FiniteSubsetsOfFinite
<1>2. families \subseteq SUBSET rows /\ families # {}
  <2>1. PICK h \in rows : TRUE
    OBVIOUS
  <2>2. Newest(h) \in families
    OBVIOUS
  <2> QED BY <2>2
<1>3. PICK U \in families : \A V \in families : <<V, U>> \notin StrictSubsetOrdering(rows)
  <2> HIDE DEF families
  <2> QED BY <1>1, <1>2, WFMin
<1>4. PICK h \in rows : U = Newest(h)
  OBVIOUS
<1>5. ASSUME NEW g \in rows \ {h}, ~Later(h, g)
      PROVE  FALSE
  <2>1. /\ g.id # h.id
        /\ g.id \in Nat /\ h.id \in Nat
        /\ g.createdAt \in Nat /\ h.createdAt \in Nat
    BY EvidenceConstants DEF HistoryRow, Times
  <2>2. Later(g, h)
    BY <1>5, <2>1 DEF Later
  <2>3. ASSUME NEW f \in rows, Later(f, g)
        PROVE  Later(f, h)
    <3>1. f.id \in Nat /\ f.createdAt \in Nat
      BY EvidenceConstants DEF HistoryRow, Times
    <3> QED BY <2>1, <2>2, <2>3, <3>1 DEF Later
  <2>4. Newest(g) \subseteq Newest(h)
    BY <2>2, <2>3
  <2>5. h \in Newest(h) /\ h \notin Newest(g)
    BY <1>5
  <2>6. Newest(g) \in families /\ Newest(g) \in SUBSET rows /\ Newest(h) \in SUBSET rows
    OBVIOUS
  <2>7. <<Newest(g), U>> \in StrictSubsetOrdering(rows)
    <3> HIDE DEF Newest, families
    <3> QED BY <1>4, <2>4, <2>5, <2>6 DEF StrictSubsetOrdering
  <2> QED BY <1>3, <2>6, <2>7
<1> QED BY <1>5 DEF IsLatest

\* The history is finite: each row has an id of its own.
LEMMA HistoryIsFinite ==
  ASSUME TypeOK, IdsAreUnique
  PROVE  IsFiniteSet(history)
<1> DEFINE ids == [h \in history |-> h.id]
<1>1. ids \in Injection(history, HistoryIds)
  BY DEF TypeOK, HistoryRow, IdsAreUnique, Injection, IsInjective
<1>2. IsFiniteSet(HistoryIds)
  BY EvidenceConstants
<1> QED BY <1>1, <1>2, FS_Injection

\* The snapshots are finite, for the same reason.
LEMMA SnapshotsAreFinite ==
  ASSUME TypeOK, IdsAreUnique
  PROVE  IsFiniteSet(snapshots)
<1> DEFINE ids == [n \in snapshots |-> n.id]
<1>1. ids \in Injection(snapshots, SnapshotIds)
  BY DEF TypeOK, SnapshotRow, IdsAreUnique, Injection, IsInjective
<1>2. IsFiniteSet(SnapshotIds)
  BY EvidenceConstants
<1> QED BY <1>1, <1>2, FS_Injection

\* latestRow finds the newest row of an entity that has any.
LEMMA LatestOnIsLatest ==
  ASSUME TypeOK, IdsAreUnique, NEW p, NEW e, HistoryOn(p, e) # {}
  PROVE  /\ LatestOn(p, e) \in HistoryOn(p, e)
         /\ IsLatest(LatestOn(p, e), HistoryOn(p, e))
<1>1. HistoryOn(p, e) \subseteq history
  BY DEF HistoryOn, HistoryOf
<1>2. IsFiniteSet(HistoryOn(p, e))
  BY <1>1, HistoryIsFinite, FS_Subset
<1>3. HistoryOn(p, e) \subseteq HistoryRow
  BY <1>1 DEF TypeOK
<1>4. \A g, h \in HistoryOn(p, e) : g.id = h.id => g = h
  BY <1>1 DEF IdsAreUnique
<1>5. \E h \in HistoryOn(p, e) : IsLatest(h, HistoryOn(p, e))
  BY <1>2, <1>3, <1>4, LatestExists
<1> QED BY <1>5 DEF LatestOn

--------------------------------------------------------------------------------
(* The chain, one entity at a time *)

\* h continues the newest row of `rows` that is older than it.
Continues(h, rows) ==
  LET earlier == {g \in rows : Later(h, g)} IN
  \E g \in earlier :
    /\ IsLatest(g, earlier)
    /\ g.createdAt < h.createdAt
    /\ h.oldKey = g.key
    /\ h.oldResult \in {g.id, g.result}
    /\ h.oldKey = h.key => h.trigger = "manual_trigger"

\* The invariant of the runs, in these terms.
LEMMA ChainByEntity ==
  HistoryIsAChain <=>
    \A h \in history : h.kind = "reanalysis" => Continues(h, HistoryOn(h.product, h.entity))
BY DEF HistoryIsAChain, Continues

\* A row that is not older than h is no predecessor of h.
LEMMA NewerRowsAreNoPredecessors ==
  ASSUME NEW h, NEW rows, NEW r, ~Later(h, r), Continues(h, rows)
  PROVE  Continues(h, rows \union {r})
<1>1. {g \in rows \union {r} : Later(h, g)} = {g \in rows : Later(h, g)}
  OBVIOUS
<1> QED BY <1>1 DEF Continues

\* A redaction changes neither the order of the rows nor what they continue.
LEMMA RedactionKeepsChain ==
  ASSUME NEW rows \in SUBSET HistoryRow, NEW h \in rows, Continues(h, rows),
         \A g \in rows : g.result \in {g.id, Redacted}
  PROVE  Continues(Redaction(h), {Redaction(g) : g \in rows})
<1> DEFINE earlier == {g \in rows : Later(h, g)}
           redacted == {Redaction(g) : g \in rows}
           later == {g \in redacted : Later(Redaction(h), g)}
<1>1. \A g \in rows :
        /\ Redaction(g).id = g.id /\ Redaction(g).createdAt = g.createdAt
        /\ Redaction(g).key = g.key /\ Redaction(g).oldKey = g.oldKey
        /\ Redaction(g).oldResult = g.oldResult
        /\ Redaction(g).trigger = g.trigger
        /\ Redaction(g).result = Redacted
  BY DEF Redaction, HistoryRow
<1>2. \A f, g \in rows : Later(Redaction(f), Redaction(g)) <=> Later(f, g)
  BY <1>1 DEF Later
<1>3. later = {Redaction(g) : g \in earlier}
  BY <1>2
<1>4. PICK g \in earlier :
        /\ IsLatest(g, earlier)
        /\ g.createdAt < h.createdAt
        /\ h.oldKey = g.key
        /\ h.oldResult \in {g.id, g.result}
        /\ h.oldKey = h.key => h.trigger = "manual_trigger"
  BY DEF Continues
<1>5. Redaction(g) \in later
  BY <1>3
<1>6. IsLatest(Redaction(g), later)
  <2> SUFFICES ASSUME NEW f \in earlier, Redaction(f) # Redaction(g)
               PROVE  Later(Redaction(g), Redaction(f))
    BY <1>3, <1>5 DEF IsLatest
  <2>1. Later(g, f)
    BY <1>4 DEF IsLatest
  <2> QED BY <1>2, <2>1
<1>7. Redaction(h).oldResult \in {Redaction(g).id, Redaction(g).result}
  BY <1>1, <1>4
<1>8. /\ Redaction(g).createdAt < Redaction(h).createdAt
      /\ Redaction(h).oldKey = Redaction(g).key
      /\ Redaction(h).oldKey = Redaction(h).key => Redaction(h).trigger = "manual_trigger"
  BY <1>1, <1>4
<1> HIDE DEF earlier
<1> QED BY <1>5, <1>6, <1>7, <1>8 DEF Continues

--------------------------------------------------------------------------------
(* The invariant *)

LEMMA InitIInv == Init => IInv
BY DEF Init, IInv, TypeOK, IdsAreUnique, OwnersExist, HistoryFollowsOwnership,
       ResultsAreOwn, HeldIsPurged, HistoryIsAChain, TombstoneCountsRedaction,
       Held, HistoryOf

\* The first analysis of an entity, as SaveGraph and RecordInitial store it.
LEMMA InitialRowType ==
  ASSUME NEW p \in Products, NEW e \in GraphEntry
  PROVE  /\ InitialRow(p, e) \in HistoryRow
         /\ InitialRow(p, e).id = e.id
         /\ InitialRow(p, e).product = p
         /\ InitialRow(p, e).entity = e.entity
         /\ InitialRow(p, e).kind = "initial_analysis"
         /\ InitialRow(p, e).result = e.id
BY DEF InitialRow, HistoryRow, GraphEntry

\* saveGraph adds a product with rows of its own.
LEMMA SaveGraphKeepsIInv ==
  ASSUME IInv, NEW p \in Products, NEW source \in Sources, NEW C \in ColumnSets,
         NEW S \in SUBSET Scenarios, NEW N \in SUBSET SnapshotIds,
         NEW H \in SUBSET GraphEntry, NEW first \in Times, NEW last \in Times,
         SaveGraph(p, source, C, S, N, H, first, last)
  PROVE  IInv'
<1> DEFINE row == [source |-> source, allAges |-> "approved", columns |-> C,
                   firstSeen |-> first, lastChecked |-> last]
           owned == [product |-> p, body |-> "stored"]
           seen(n) == [id |-> n, product |-> p, hashed |-> TRUE, outcome |-> "observed"]
           rows == {InitialRow(p, e) : e \in H}
<1>1. /\ product[p] = NoRow
      /\ \A s \in S : scenario[s] = NoRow
      /\ \A n \in snapshots : n.id \notin N
      /\ \A e \in H : e.entity \in {p} \union S /\ UnusedHistoryId(e.id)
      /\ \A e1, e2 \in H : e1.id = e2.id => e1 = e2
      /\ product' = [product EXCEPT ![p] = row]
      /\ scenario' = [s \in Scenarios |-> IF s \in S THEN owned ELSE scenario[s]]
      /\ snapshots' = snapshots \union {seen(n) : n \in N}
      /\ history' = history \union rows
      /\ tombstone' = tombstone
  BY DEF SaveGraph, Absent
<1>2. row \in ProductRow /\ owned \in ScenarioRow /\ row # NoRow /\ owned # NoRow
  BY EvidenceConstants, NoRowIsNoRow DEF ProductRow, ScenarioRow
<1>3. /\ row.allAges = "approved" /\ owned.product = p
      /\ \A n \in N : seen(n).id = n /\ seen(n).product = p /\ seen(n) \in SnapshotRow
  BY DEF SnapshotRow
<1>4. \A e \in H : /\ InitialRow(p, e) \in HistoryRow
                   /\ InitialRow(p, e).id = e.id
                   /\ InitialRow(p, e).product = p
                   /\ InitialRow(p, e).entity = e.entity
                   /\ InitialRow(p, e).kind = "initial_analysis"
                   /\ InitialRow(p, e).result = e.id
                   /\ e.id # Redacted
  BY InitialRowType, EvidenceConstants DEF GraphEntry
<1> HIDE DEF row, owned, seen
<1>5. TypeOK'
  BY <1>1, <1>2, <1>3, <1>4 DEF IInv, TypeOK
<1>6. \A q \in Products : product'[q] = IF q = p THEN row ELSE product[q]
  BY <1>1 DEF IInv, TypeOK
<1>7. \A s \in Scenarios : scenario'[s] = IF s \in S THEN owned ELSE scenario[s]
  BY <1>1
<1>8. \A h \in history : h.product # p /\ h.product \in Products
  BY <1>1 DEF IInv, HistoryFollowsOwnership, TypeOK, HistoryRow
<1>9. \A n \in snapshots : n.product # p /\ n.product \in Products
  BY <1>1 DEF IInv, OwnersExist, TypeOK, SnapshotRow
<1>10. \A s \in Scenarios : scenario[s] # NoRow => scenario[s].product # p /\ scenario[s].product \in Products
  BY <1>1 DEF IInv, OwnersExist, TypeOK, ScenarioRow
<1>11. ASSUME NEW q \in Products, q # p
       PROVE  /\ product'[q] = product[q]
              /\ ScenariosOf(q)' = ScenariosOf(q)
              /\ \A s \in ScenariosOf(q) : scenario'[s] = scenario[s]
              /\ SnapshotsOf(q)' = SnapshotsOf(q)
              /\ HistoryOf(q)' = HistoryOf(q)
              /\ Held(q)' <=> Held(q)
  <2>1. product'[q] = product[q]
    BY <1>6, <1>11
  <2>2. ScenariosOf(q)' = ScenariosOf(q) /\ \A s \in ScenariosOf(q) : scenario'[s] = scenario[s]
    BY <1>1, <1>3, <1>7, <1>10, <1>11 DEF ScenariosOf
  <2>3. SnapshotsOf(q)' = SnapshotsOf(q)
    BY <1>1, <1>3, <1>11 DEF SnapshotsOf
  <2>4. HistoryOf(q)' = HistoryOf(q)
    BY <1>1, <1>4, <1>11 DEF HistoryOf
  <2> QED BY <2>1, <2>2, <2>3, <2>4 DEF Held
<1>12. ~Held(p) /\ ~Held(p)'
  BY <1>1, <1>3, <1>6 DEF Held
<1>13. IdsAreUnique'
  <2>1. \A g, h \in history' : g.id = h.id => g = h
    BY <1>1, <1>4 DEF IInv, IdsAreUnique, UnusedHistoryId
  <2>2. \A m, n \in snapshots' : m.id = n.id => m = n
    BY <1>1, <1>3 DEF IInv, IdsAreUnique
  <2> QED BY <2>1, <2>2 DEF IdsAreUnique
<1>14. OwnersExist'
  <2>1. \A s \in Scenarios : scenario'[s] # NoRow => product'[scenario'[s].product] # NoRow
    BY <1>2, <1>3, <1>6, <1>7, <1>10 DEF IInv, OwnersExist
  <2>2. \A n \in snapshots' : product'[n.product] # NoRow
    BY <1>1, <1>2, <1>3, <1>6, <1>9 DEF IInv, OwnersExist
  <2> QED BY <2>1, <2>2 DEF OwnersExist
<1>15. HistoryFollowsOwnership'
  <2>1. ASSUME NEW h \in history
        PROVE  /\ product'[h.product] # NoRow
               /\ h.entity \in {h.product} \union ScenariosOf(h.product)'
    BY <1>8, <1>11 DEF IInv, HistoryFollowsOwnership
  <2>2. S \subseteq ScenariosOf(p)'
    BY <1>2, <1>3, <1>7 DEF ScenariosOf
  <2>3. ASSUME NEW e \in H
        PROVE  /\ product'[p] # NoRow
               /\ e.entity \in {p} \union ScenariosOf(p)'
    BY <1>1, <1>2, <1>6, <2>2
  <2> QED BY <1>1, <1>4, <2>1, <2>3 DEF HistoryFollowsOwnership
<1>16. ResultsAreOwn'
  BY <1>1, <1>4 DEF IInv, ResultsAreOwn
<1>17. HeldIsPurged'
  BY <1>11, <1>12 DEF IInv, HeldIsPurged
<1>18. HistoryIsAChain'
  <2> SUFFICES ASSUME NEW h \in history', h.kind = "reanalysis"
               PROVE  Continues(h, HistoryOn(h.product, h.entity)')
    BY ChainByEntity DEF HistoryIsAChain, Continues
  <2>1. h \in history
    BY <1>1, <1>4
  <2>2. HistoryOn(h.product, h.entity)' = HistoryOn(h.product, h.entity)
    BY <1>8, <1>11, <2>1 DEF HistoryOn
  <2> QED BY <2>1, <2>2, ChainByEntity DEF IInv
<1>19. TombstoneCountsRedaction'
  <2> SUFFICES ASSUME NEW q \in Products
               PROVE  /\ Held(q)' <=> tombstone[q] # NoRow
                      /\ tombstone[q] # NoRow =>
                           /\ tombstone[q].scenarios = Cardinality(ScenariosOf(q)')
                           /\ tombstone[q].snapshots = Cardinality(SnapshotsOf(q)')
                           /\ tombstone[q].histories =
                                Cardinality({h \in HistoryOf(q)' : h.result = Redacted})
                      /\ tombstone[q] = NoRow => \A h \in HistoryOf(q)' : h.result # Redacted
    BY <1>1 DEF TombstoneCountsRedaction
  <2>1. CASE q # p
    BY <1>11, <2>1 DEF IInv, TombstoneCountsRedaction
  <2>2. CASE q = p
    <3>1. tombstone[p] = NoRow
      BY <1>12 DEF IInv, TombstoneCountsRedaction
    <3>2. \A h \in HistoryOf(p)' : h.result # Redacted
      BY <1>1, <1>4, <1>8 DEF HistoryOf
    <3> QED BY <1>12, <2>2, <3>1, <3>2
  <2> QED BY <2>1, <2>2
<1> QED BY <1>5, <1>13, <1>14, <1>15, <1>16, <1>17, <1>18, <1>19 DEF IInv

\* record appends a row that is newer than its entity's others and continues
\* the newest of them, if it continues any.
LEMMA AppendKeepsIInv ==
  ASSUME IInv, NEW p \in Products, NEW r \in HistoryRow,
         r.product = p, Owns(p, r.entity), UnusedHistoryId(r.id), r.result = r.id,
         \A h \in HistoryOn(p, r.entity) : h.createdAt < r.createdAt,
         r.kind = "reanalysis" => Continues(r, HistoryOn(p, r.entity)),
         history' = history \union {r},
         UNCHANGED <<product, scenario, snapshots, tombstone>>
  PROVE  IInv'
<1>1. r.id # Redacted
  BY EvidenceConstants DEF HistoryRow
<1>2. /\ \A q : SnapshotsOf(q)' = SnapshotsOf(q) /\ ScenariosOf(q)' = ScenariosOf(q)
      /\ \A q : Held(q)' <=> Held(q)
  BY DEF SnapshotsOf, ScenariosOf, Held
<1>3. \A q : HistoryOf(q) \subseteq HistoryOf(q)' /\ HistoryOf(q)' \subseteq HistoryOf(q) \union {r}
  BY DEF HistoryOf
<1>4. TypeOK'
  BY DEF IInv, TypeOK
<1>5. IdsAreUnique'
  BY DEF IInv, IdsAreUnique, UnusedHistoryId
<1>6. OwnersExist'
  BY DEF IInv, OwnersExist
<1>7. HistoryFollowsOwnership'
  <2>1. product[p] # NoRow /\ r.entity \in {p} \union ScenariosOf(p)
    BY DEF Owns, ScenariosOf, IInv, OwnersExist
  <2> QED BY <1>2, <2>1 DEF IInv, HistoryFollowsOwnership
<1>8. ResultsAreOwn'
  BY <1>1 DEF IInv, ResultsAreOwn
<1>9. HeldIsPurged'
  BY <1>2 DEF IInv, HeldIsPurged
<1>10. HistoryIsAChain'
  <2> SUFFICES ASSUME NEW h \in history', h.kind = "reanalysis"
               PROVE  Continues(h, HistoryOn(h.product, h.entity)')
    BY ChainByEntity DEF HistoryIsAChain, Continues
  <2> DEFINE others == HistoryOn(h.product, h.entity)
  <2>1. CASE h = r
    <3>1. others' = others \union {r} /\ Continues(r, others)
      BY <2>1 DEF HistoryOn, HistoryOf
    <3>2. r.createdAt \in Nat /\ r.id \in Nat
      BY EvidenceConstants DEF HistoryRow, Times
    <3>3. ~Later(r, r)
      BY <3>2 DEF Later
    <3> QED BY <2>1, <3>1, <3>3, NewerRowsAreNoPredecessors
  <2>2. CASE h # r
    <3>1. h \in history /\ Continues(h, others)
      BY <2>2, ChainByEntity DEF IInv
    <3>2. CASE h.product = p /\ h.entity = r.entity
      <4>1. others' = others \union {r}
        BY <3>2 DEF HistoryOn, HistoryOf
      <4>2. h.createdAt < r.createdAt
        BY <3>1, <3>2 DEF HistoryOn, HistoryOf
      <4>3. r.createdAt \in Nat /\ h.createdAt \in Nat
        BY <3>1, EvidenceConstants DEF HistoryRow, Times, IInv, TypeOK
      <4>4. ~Later(h, r)
        BY <4>2, <4>3 DEF Later
      <4> QED BY <3>1, <4>1, <4>4, NewerRowsAreNoPredecessors
    <3>3. CASE ~(h.product = p /\ h.entity = r.entity)
      <4>1. others' = others
        BY <3>3 DEF HistoryOn, HistoryOf
      <4> QED BY <3>1, <4>1
    <3> QED BY <3>2, <3>3
  <2> QED BY <2>1, <2>2
<1>11. TombstoneCountsRedaction'
  <2>1. \A q \in Products :
          {h \in HistoryOf(q)' : h.result = Redacted} = {h \in HistoryOf(q) : h.result = Redacted}
    BY <1>1, <1>3
  <2>2. \A q \in Products :
          (\A h \in HistoryOf(q) : h.result # Redacted) => \A h \in HistoryOf(q)' : h.result # Redacted
    BY <1>1, <1>3
  <2> QED BY <1>2, <2>1, <2>2 DEF IInv, TombstoneCountsRedaction
<1> QED BY <1>4, <1>5, <1>6, <1>7, <1>8, <1>9, <1>10, <1>11 DEF IInv

\* record, for an entity without history.
LEMMA RecordInitialKeepsIInv ==
  ASSUME IInv, NEW p \in Products, NEW entity \in Entities, NEW id \in HistoryIds,
         NEW key \in Keys, NEW requested, NEW hashed \in BOOLEAN, NEW at \in Times,
         RecordInitial(p, entity, id, key, requested, hashed, at)
  PROVE  IInv'
<1> DEFINE e == [id |-> id, entity |-> entity, key |-> key, hashed |-> hashed, at |-> at]
<1>1. e \in GraphEntry /\ e.id = id /\ e.entity = entity
  BY DEF GraphEntry
<1>2. /\ Owns(p, entity)
      /\ Plan(p, entity, key, requested) = "initial_analysis"
      /\ UnusedHistoryId(id)
      /\ history' = history \union {InitialRow(p, e)}
      /\ UNCHANGED <<product, scenario, snapshots, tombstone>>
  BY DEF RecordInitial
<1>3. HistoryOn(p, entity) = {}
  BY <1>2 DEF Plan
<1> HIDE DEF e
<1>4. /\ InitialRow(p, e) \in HistoryRow
      /\ InitialRow(p, e).id = id
      /\ InitialRow(p, e).product = p
      /\ InitialRow(p, e).entity = entity
      /\ InitialRow(p, e).kind = "initial_analysis"
      /\ InitialRow(p, e).result = id
  BY <1>1, InitialRowType
<1> QED BY <1>2, <1>3, <1>4, AppendKeepsIInv

\* record, for an entity whose newest analysis is repeated or superseded.
LEMMA RecordReanalysisKeepsIInv ==
  ASSUME IInv, NEW p \in Products, NEW entity \in Entities, NEW id \in HistoryIds,
         NEW key \in Keys, NEW requested \in Triggers \union {"none"},
         NEW hashed \in BOOLEAN, NEW at \in Times,
         RecordReanalysis(p, entity, id, key, requested, hashed, at)
  PROVE  IInv'
<1> DEFINE rows == HistoryOn(p, entity)
           previous == LatestOn(p, entity)
           changed == Changed(previous.key, key)
           r == [id |-> id, product |-> p, entity |-> entity, kind |-> "reanalysis",
                 trigger |-> TriggerFor(requested, changed),
                 oldKey |-> previous.key, oldResult |-> previous.result,
                 key |-> key, hashed |-> hashed, result |-> id, createdAt |-> at]
<1>1. /\ Owns(p, entity)
      /\ Plan(p, entity, key, requested) = "reanalyze"
      /\ UnusedHistoryId(id)
      /\ at > previous.createdAt
      /\ history' = history \union {r}
      /\ UNCHANGED <<product, scenario, snapshots, tombstone>>
  BY DEF RecordReanalysis, Newer
<1>2. rows # {} /\ (changed = {} => requested = "manual_trigger")
  BY <1>1 DEF Plan
<1>3. previous \in rows /\ IsLatest(previous, rows)
  BY <1>2, LatestOnIsLatest DEF IInv
<1>4. previous \in HistoryRow /\ rows \subseteq HistoryRow
  BY <1>3 DEF IInv, TypeOK, HistoryOn, HistoryOf
<1>5. TriggerFor(requested, changed) \in Triggers
  BY DEF TriggerFor, AutomaticTrigger, Triggers
<1>6. previous.key = key => TriggerFor(requested, changed) = "manual_trigger"
  BY <1>2 DEF TriggerFor, Changed
<1>7. /\ r \in HistoryRow
      /\ r.id = id /\ r.product = p /\ r.entity = entity /\ r.kind = "reanalysis"
      /\ r.oldKey = previous.key /\ r.oldResult = previous.result /\ r.key = key
      /\ r.result = id /\ r.createdAt = at
      /\ r.trigger = TriggerFor(requested, changed)
  <2> HIDE DEF previous, changed
  <2> QED BY <1>4, <1>5 DEF HistoryRow
<1> HIDE DEF r, previous, rows, changed
<1>8. \A h \in rows : h.createdAt < r.createdAt
  <2> SUFFICES ASSUME NEW h \in rows
               PROVE  h.createdAt < at
    BY <1>7
  <2>1. h = previous \/ Later(previous, h)
    BY <1>3 DEF IsLatest
  <2>2. h.createdAt \in Nat /\ previous.createdAt \in Nat /\ at \in Nat
    BY <1>4 DEF HistoryRow, Times
  <2> QED BY <1>1, <2>1, <2>2 DEF Later
<1>9. Continues(r, rows)
  <2>1. \A h \in rows : h.createdAt \in Nat
    BY <1>4 DEF HistoryRow, Times
  <2>2. r.createdAt \in Nat
    BY <1>7 DEF Times
  <2>3. {g \in rows : Later(r, g)} = rows
    BY <1>8, <2>1, <2>2 DEF Later
  <2> QED BY <1>3, <1>6, <1>7, <1>8, <2>3 DEF Continues
<1> QED BY <1>1, <1>7, <1>8, <1>9, AppendKeepsIInv DEF rows

--------------------------------------------------------------------------------
(* The purge *)

\* What a redaction of a row leaves as it was.
LEMMA RedactionType ==
  ASSUME NEW h \in HistoryRow
  PROVE  /\ Redaction(h) \in HistoryRow
         /\ Redaction(h).id = h.id /\ Redaction(h).product = h.product
         /\ Redaction(h).entity = h.entity /\ Redaction(h).kind = h.kind
         /\ Redaction(h).result = Redacted /\ Redaction(h).hashed = FALSE
BY DEF Redaction, HistoryRow

LEMMA PurgedSnapshotType ==
  ASSUME NEW n \in SnapshotRow
  PROVE  /\ PurgedSnapshot(n) \in SnapshotRow
         /\ PurgedSnapshot(n).id = n.id /\ PurgedSnapshot(n).product = n.product
         /\ PurgedSnapshot(n).hashed = FALSE
BY DEF PurgedSnapshot, SnapshotRow

\* Redacting rows with ids of their own leaves as many rows as there were.
LEMMA RedactionKeepsCount ==
  ASSUME NEW rows \in SUBSET HistoryRow, IsFiniteSet(rows),
         \A g, h \in rows : g.id = h.id => g = h
  PROVE  Cardinality({Redaction(h) : h \in rows}) = Cardinality(rows)
<1> DEFINE redacted == {Redaction(h) : h \in rows}
           f == [h \in rows |-> Redaction(h)]
<1>1. \A g, h \in rows : Redaction(g) = Redaction(h) => g = h
  <2>1. \A h \in rows : Redaction(h).id = h.id
    BY RedactionType
  <2> QED BY <2>1
<1>2. f \in Bijection(rows, redacted)
  BY <1>1 DEF Bijection, Injection, Surjection, IsInjective
<1> HIDE DEF f, redacted
<1>3. ExistsBijection(rows, redacted)
  BY <1>2 DEF ExistsBijection
<1>4. Cardinality(redacted) = Cardinality(rows)
  BY <1>3, FS_Bijection
<1> QED BY <1>4 DEF redacted

LEMMA PurgedSnapshotsKeepCount ==
  ASSUME NEW rows \in SUBSET SnapshotRow, IsFiniteSet(rows),
         \A m, n \in rows : m.id = n.id => m = n
  PROVE  Cardinality({PurgedSnapshot(n) : n \in rows}) = Cardinality(rows)
<1> DEFINE purged == {PurgedSnapshot(n) : n \in rows}
           f == [n \in rows |-> PurgedSnapshot(n)]
<1>1. \A m, n \in rows : PurgedSnapshot(m) = PurgedSnapshot(n) => m = n
  <2>1. \A n \in rows : PurgedSnapshot(n).id = n.id
    BY PurgedSnapshotType
  <2> QED BY <2>1
<1>2. f \in Bijection(rows, purged)
  BY <1>1 DEF Bijection, Injection, Surjection, IsInjective
<1> HIDE DEF f, purged
<1>3. ExistsBijection(rows, purged)
  BY <1>2 DEF ExistsBijection
<1>4. Cardinality(purged) = Cardinality(rows)
  BY <1>3, FS_Bijection
<1> QED BY <1>4 DEF purged

\* What a purge does to each table, one product at a time.
LEMMA PurgeByProduct ==
  ASSUME IInv, NEW p \in Products, NEW at \in Times, Purge(p, at)
  PROVE  /\ product[p] # NoRow /\ tombstone[p] = NoRow
         /\ product' \in [Products -> ProductRow \union {NoRow}]
         /\ Held(p)' /\ product'[p].columns = {}
         /\ scenario' \in [Scenarios -> ScenarioRow \union {NoRow}]
         /\ \A s \in ScenariosOf(p) : scenario'[s].body = "purged"
         /\ \A q \in Products : /\ product'[q] # NoRow <=> product[q] # NoRow
                                /\ ScenariosOf(q)' = ScenariosOf(q)
         /\ \A s \in Scenarios : /\ scenario'[s] # NoRow <=> scenario[s] # NoRow
                                 /\ scenario[s] # NoRow =>
                                      scenario'[s].product = scenario[s].product
         /\ HistoryOf(p)' = {Redaction(h) : h \in HistoryOf(p)}
         /\ SnapshotsOf(p)' = {PurgedSnapshot(n) : n \in SnapshotsOf(p)}
         /\ \A q \in Products \ {p} :
              /\ product'[q] = product[q]
              /\ \A s \in ScenariosOf(q) : scenario'[s] = scenario[s]
              /\ HistoryOf(q)' = HistoryOf(q)
              /\ SnapshotsOf(q)' = SnapshotsOf(q)
              /\ Held(q)' <=> Held(q)
<1> DEFINE held == [product[p] EXCEPT !.allAges = "hold", !.columns = {},
                                      !.lastChecked = at]
<1>1. /\ product[p] # NoRow /\ tombstone[p] = NoRow
      /\ product' = [product EXCEPT ![p] = held]
      /\ scenario' = [s \in Scenarios |->
           IF s \in ScenariosOf(p) THEN [scenario[s] EXCEPT !.body = "purged"]
                                   ELSE scenario[s]]
      /\ snapshots' = (snapshots \ SnapshotsOf(p))
                        \union {PurgedSnapshot(n) : n \in SnapshotsOf(p)}
      /\ history' = (history \ HistoryOf(p)) \union {Redaction(h) : h \in HistoryOf(p)}
  BY DEF Purge
<1>2. /\ product'[p] \in ProductRow
      /\ product'[p].allAges = "hold" /\ product'[p].columns = {}
      /\ \A q \in Products \ {p} : product'[q] = product[q]
      /\ product' \in [Products -> ProductRow \union {NoRow}]
  <2>1. product[p] \in ProductRow
    BY <1>1 DEF IInv, TypeOK
  <2>2. held \in ProductRow /\ held.allAges = "hold" /\ held.columns = {}
    BY <2>1 DEF ProductRow
  <2> HIDE DEF held
  <2> QED BY <1>1, <2>2 DEF IInv, TypeOK
<1>3. \A s \in ScenariosOf(p) :
        /\ scenario'[s] \in ScenarioRow
        /\ scenario'[s].body = "purged" /\ scenario'[s].product = p
  BY <1>1 DEF IInv, TypeOK, ScenarioRow, ScenariosOf
<1>4. \A s \in Scenarios \ ScenariosOf(p) : scenario'[s] = scenario[s]
  BY <1>1
<1>5. scenario' \in [Scenarios -> ScenarioRow \union {NoRow}]
  BY <1>1, <1>3, <1>4 DEF IInv, TypeOK, ScenariosOf
<1>6. \A q \in Products : product'[q] # NoRow <=> product[q] # NoRow
  BY <1>1, <1>2, NoRowIsNoRow
<1>7. \A s \in Scenarios : /\ scenario'[s] # NoRow <=> scenario[s] # NoRow
                           /\ scenario[s] # NoRow => scenario'[s].product = scenario[s].product
  BY <1>3, <1>4, NoRowIsNoRow DEF ScenariosOf
<1>8. \A q \in Products : ScenariosOf(q)' = ScenariosOf(q)
  BY <1>7 DEF ScenariosOf
<1>9. /\ HistoryOf(p) \subseteq HistoryRow
      /\ \A h \in HistoryOf(p) : h.product = p
      /\ \A h \in history \ HistoryOf(p) : h.product # p
      /\ SnapshotsOf(p) \subseteq SnapshotRow
      /\ \A n \in SnapshotsOf(p) : n.product = p
      /\ \A n \in snapshots \ SnapshotsOf(p) : n.product # p
  BY DEF IInv, TypeOK, HistoryOf, SnapshotsOf
<1>10. /\ \A h \in HistoryOf(p) : Redaction(h).product = p
       /\ \A n \in SnapshotsOf(p) : PurgedSnapshot(n).product = p
  BY <1>9, RedactionType, PurgedSnapshotType
<1>11. HistoryOf(p)' = {Redaction(h) : h \in HistoryOf(p)}
  <2>1. HistoryOf(p)' = {h \in history' : h.product = p}
    BY DEF HistoryOf
  <2> QED BY <1>1, <1>9, <1>10, <2>1
<1>12. SnapshotsOf(p)' = {PurgedSnapshot(n) : n \in SnapshotsOf(p)}
  <2>1. SnapshotsOf(p)' = {n \in snapshots' : n.product = p}
    BY DEF SnapshotsOf
  <2> QED BY <1>1, <1>9, <1>10, <2>1
<1>13. ASSUME NEW q \in Products \ {p}
       PROVE  /\ HistoryOf(q)' = HistoryOf(q)
              /\ SnapshotsOf(q)' = SnapshotsOf(q)
              /\ Held(q)' <=> Held(q)
              /\ \A s \in ScenariosOf(q) : scenario'[s] = scenario[s]
  <2>1. HistoryOf(q)' = HistoryOf(q)
    BY <1>1, <1>10 DEF HistoryOf
  <2>2. SnapshotsOf(q)' = SnapshotsOf(q)
    BY <1>1, <1>10 DEF SnapshotsOf
  <2>3. \A s \in ScenariosOf(q) : scenario'[s] = scenario[s]
    BY <1>4 DEF ScenariosOf
  <2> QED BY <1>2, <2>1, <2>2, <2>3 DEF Held
<1>14. Held(p)'
  BY <1>1, <1>2, <1>6 DEF Held
<1>15. \A s \in ScenariosOf(p) : scenario'[s].body = "purged"
  BY <1>3
<1> HIDE DEF held
<1>16. \A q \in Products : /\ product'[q] # NoRow <=> product[q] # NoRow
                           /\ ScenariosOf(q)' = ScenariosOf(q)
  BY <1>6, <1>8
<1>17. \A q \in Products \ {p} :
         /\ product'[q] = product[q]
         /\ \A s \in ScenariosOf(q) : scenario'[s] = scenario[s]
         /\ HistoryOf(q)' = HistoryOf(q)
         /\ SnapshotsOf(q)' = SnapshotsOf(q)
         /\ Held(q)' <=> Held(q)
  BY <1>2, <1>13
<1> QED BY <1>1, <1>2, <1>5, <1>7, <1>11, <1>12, <1>14, <1>15, <1>16, <1>17

LEMMA PurgeKeepsIInv ==
  ASSUME IInv, NEW p \in Products, NEW at \in Times, Purge(p, at)
  PROVE  IInv'
<1>1. /\ product[p] # NoRow /\ tombstone[p] = NoRow
      /\ product' \in [Products -> ProductRow \union {NoRow}]
      /\ Held(p)' /\ product'[p].columns = {}
      /\ scenario' \in [Scenarios -> ScenarioRow \union {NoRow}]
      /\ \A s \in ScenariosOf(p) : scenario'[s].body = "purged"
      /\ \A q \in Products : /\ product'[q] # NoRow <=> product[q] # NoRow
                             /\ ScenariosOf(q)' = ScenariosOf(q)
      /\ \A s \in Scenarios : /\ scenario'[s] # NoRow <=> scenario[s] # NoRow
                              /\ scenario[s] # NoRow =>
                                   scenario'[s].product = scenario[s].product
      /\ HistoryOf(p)' = {Redaction(h) : h \in HistoryOf(p)}
      /\ SnapshotsOf(p)' = {PurgedSnapshot(n) : n \in SnapshotsOf(p)}
      /\ \A q \in Products \ {p} :
           /\ product'[q] = product[q]
           /\ \A s \in ScenariosOf(q) : scenario'[s] = scenario[s]
           /\ HistoryOf(q)' = HistoryOf(q)
           /\ SnapshotsOf(q)' = SnapshotsOf(q)
           /\ Held(q)' <=> Held(q)
  BY PurgeByProduct
<1> DEFINE stone == [snapshots |-> Cardinality(SnapshotsOf(p)),
                     histories |-> Cardinality(HistoryOf(p)),
                     scenarios |-> Cardinality(ScenariosOf(p)), at |-> at]
<1>2. /\ snapshots' = (snapshots \ SnapshotsOf(p))
                        \union {PurgedSnapshot(n) : n \in SnapshotsOf(p)}
      /\ history' = (history \ HistoryOf(p)) \union {Redaction(h) : h \in HistoryOf(p)}
      /\ tombstone' = [tombstone EXCEPT ![p] = stone]
  BY DEF Purge
<1>3. /\ HistoryOf(p) \subseteq history /\ HistoryOf(p) \subseteq HistoryRow
      /\ SnapshotsOf(p) \subseteq snapshots /\ SnapshotsOf(p) \subseteq SnapshotRow
      /\ ScenariosOf(p) \subseteq Scenarios
  BY DEF IInv, TypeOK, HistoryOf, SnapshotsOf, ScenariosOf
<1>4. /\ IsFiniteSet(HistoryOf(p)) /\ IsFiniteSet(SnapshotsOf(p))
      /\ IsFiniteSet(ScenariosOf(p))
  BY <1>3, HistoryIsFinite, SnapshotsAreFinite, EvidenceConstants, FS_Subset DEF IInv
<1>5. stone \in TombstoneRow /\ stone # NoRow
  BY <1>4, FS_CardinalityType, NoRowIsNoRow DEF TombstoneRow
<1>6. /\ stone.snapshots = Cardinality(SnapshotsOf(p))
      /\ stone.histories = Cardinality(HistoryOf(p))
      /\ stone.scenarios = Cardinality(ScenariosOf(p))
  OBVIOUS
<1> HIDE DEF stone
<1>7. \A h \in HistoryOf(p) :
        /\ Redaction(h) \in HistoryRow
        /\ Redaction(h).id = h.id /\ Redaction(h).product = h.product
        /\ Redaction(h).entity = h.entity /\ Redaction(h).kind = h.kind
        /\ Redaction(h).result = Redacted /\ Redaction(h).hashed = FALSE
  BY <1>3, RedactionType
<1>8. \A n \in SnapshotsOf(p) :
        /\ PurgedSnapshot(n) \in SnapshotRow
        /\ PurgedSnapshot(n).id = n.id /\ PurgedSnapshot(n).product = n.product
        /\ PurgedSnapshot(n).hashed = FALSE
  BY <1>3, PurgedSnapshotType
<1>9. TypeOK'
  BY <1>1, <1>2, <1>5, <1>7, <1>8 DEF IInv, TypeOK
<1>10. IdsAreUnique'
  <2>1. \A g, h \in history' : g.id = h.id => g = h
    BY <1>2, <1>3, <1>7 DEF IInv, IdsAreUnique
  <2>2. \A m, n \in snapshots' : m.id = n.id => m = n
    BY <1>2, <1>3, <1>8 DEF IInv, IdsAreUnique
  <2> QED BY <2>1, <2>2 DEF IdsAreUnique
<1>11. OwnersExist'
  <2>1. \A s \in Scenarios : scenario'[s] # NoRow => product'[scenario'[s].product] # NoRow
    BY <1>1 DEF IInv, OwnersExist, TypeOK, ScenarioRow
  <2>2. \A n \in snapshots' : n.product \in Products /\ product[n.product] # NoRow
    BY <1>2, <1>3, <1>8 DEF IInv, OwnersExist, TypeOK, SnapshotRow
  <2> QED BY <1>1, <2>1, <2>2 DEF OwnersExist
<1>12. HistoryFollowsOwnership'
  <2>1. \A h \in history' : /\ h.product \in Products /\ product[h.product] # NoRow
                            /\ h.entity \in {h.product} \union ScenariosOf(h.product)
    BY <1>2, <1>3, <1>7 DEF IInv, HistoryFollowsOwnership, TypeOK, HistoryRow
  <2> QED BY <1>1, <2>1 DEF HistoryFollowsOwnership
<1>13. ResultsAreOwn'
  BY <1>2, <1>7 DEF IInv, ResultsAreOwn
<1>14. HeldIsPurged'
  <2> SUFFICES ASSUME NEW q \in Products, Held(q)'
               PROVE  /\ product'[q].columns = {}
                      /\ \A s \in ScenariosOf(q)' : scenario'[s].body = "purged"
                      /\ \A n \in SnapshotsOf(q)' : ~n.hashed
    BY DEF HeldIsPurged
  <2>1. CASE q = p
    BY <1>1, <1>8, <2>1
  <2>2. CASE q # p
    BY <1>1, <2>2 DEF IInv, HeldIsPurged
  <2> QED BY <2>1, <2>2
<1>15. HistoryIsAChain'
  <2> SUFFICES ASSUME NEW h \in history', h.kind = "reanalysis"
               PROVE  Continues(h, HistoryOn(h.product, h.entity)')
    BY ChainByEntity DEF HistoryIsAChain, Continues
  <2>1. CASE h.product = p
    <3>1. PICK g \in HistoryOf(p) : h = Redaction(g)
      BY <1>1, <2>1 DEF HistoryOf
    <3> DEFINE rows == HistoryOn(p, g.entity)
    <3>2. g \in rows /\ rows \subseteq history /\ rows \subseteq HistoryRow
      BY <1>3 DEF HistoryOn, HistoryOf
    <3>3. g.kind = "reanalysis" /\ g.product = p /\ h.entity = g.entity
      BY <1>7, <2>1, <3>1
    <3>4. Continues(g, rows)
      BY <3>2, <3>3, ChainByEntity DEF IInv
    <3>5. \A f \in rows : f.result \in {f.id, Redacted}
      BY <3>2 DEF IInv, ResultsAreOwn
    <3>6. rows' = {Redaction(f) : f \in rows}
      <4>1. HistoryOn(p, g.entity)' = {f \in HistoryOf(p)' : f.entity = g.entity}
        BY DEF HistoryOn
      <4> QED BY <1>1, <1>7, <4>1 DEF HistoryOn
    <3>7. HistoryOn(h.product, h.entity)' = rows'
      BY <2>1, <3>3
    <3> HIDE DEF rows
    <3>8. Continues(Redaction(g), {Redaction(f) : f \in rows})
      BY <3>2, <3>4, <3>5, RedactionKeepsChain
    <3> QED BY <3>1, <3>6, <3>7, <3>8
  <2>2. CASE h.product # p
    <3>1. h \in history /\ h.product \in Products \ {p}
      BY <1>2, <1>3, <1>7, <2>2 DEF HistoryOf, IInv, TypeOK, HistoryRow
    <3>2. HistoryOn(h.product, h.entity)' = HistoryOn(h.product, h.entity)
      BY <1>1, <3>1 DEF HistoryOn
    <3> QED BY <3>1, <3>2, ChainByEntity DEF IInv
  <2> QED BY <2>1, <2>2
<1>16. TombstoneCountsRedaction'
  <2> SUFFICES ASSUME NEW q \in Products
               PROVE  /\ Held(q)' <=> tombstone'[q] # NoRow
                      /\ tombstone'[q] # NoRow =>
                           /\ tombstone'[q].scenarios = Cardinality(ScenariosOf(q)')
                           /\ tombstone'[q].snapshots = Cardinality(SnapshotsOf(q)')
                           /\ tombstone'[q].histories =
                                Cardinality({h \in HistoryOf(q)' : h.result = Redacted})
                      /\ tombstone'[q] = NoRow => \A h \in HistoryOf(q)' : h.result # Redacted
    BY DEF TombstoneCountsRedaction
  <2>1. CASE q = p
    <3>1. tombstone'[p] = stone
      BY <1>2 DEF IInv, TypeOK
    <3>2. {h \in HistoryOf(p)' : h.result = Redacted} = {Redaction(h) : h \in HistoryOf(p)}
      BY <1>1, <1>7
    <3>3. Cardinality({Redaction(h) : h \in HistoryOf(p)}) = Cardinality(HistoryOf(p))
      BY <1>3, <1>4, RedactionKeepsCount DEF IInv, IdsAreUnique
    <3>4. Cardinality({PurgedSnapshot(n) : n \in SnapshotsOf(p)}) = Cardinality(SnapshotsOf(p))
      BY <1>3, <1>4, PurgedSnapshotsKeepCount DEF IInv, IdsAreUnique
    <3> QED BY <1>1, <1>5, <1>6, <2>1, <3>1, <3>2, <3>3, <3>4
  <2>2. CASE q # p
    <3>1. tombstone'[q] = tombstone[q]
      BY <1>2, <2>2 DEF IInv, TypeOK
    <3>2. /\ ScenariosOf(q)' = ScenariosOf(q) /\ SnapshotsOf(q)' = SnapshotsOf(q)
          /\ HistoryOf(q)' = HistoryOf(q) /\ (Held(q)' <=> Held(q))
      BY <1>1, <2>2
    <3> QED BY <3>1, <3>2 DEF IInv, TombstoneCountsRedaction
  <2> QED BY <2>1, <2>2
<1> QED BY <1>9, <1>10, <1>11, <1>12, <1>13, <1>14, <1>15, <1>16 DEF IInv

--------------------------------------------------------------------------------
(* The theorems *)

\* A step is one of the calls, with the arguments its callers may pass.
LEMMA StepIsACall ==
  ASSUME Next
  PROVE  \/ \E p \in Products, source \in Sources, C \in ColumnSets,
              S \in SUBSET Scenarios, N \in SUBSET SnapshotIds,
              H \in SUBSET GraphEntry, first \in Times, last \in Times :
            SaveGraph(p, source, C, S, N, H, first, last)
         \/ \E p \in Products, entity \in Entities, id \in HistoryIds, key \in Keys,
              requested \in Triggers \union {"none"}, hashed \in BOOLEAN, at \in Times :
            \/ RecordInitial(p, entity, id, key, requested, hashed, at)
            \/ RecordReanalysis(p, entity, id, key, requested, hashed, at)
         \/ \E p \in Products, at \in Times : Purge(p, at)
<1>1. ASSUME NEW p \in Products, NEW source \in Sources, NEW C \in ColumnSets,
             NEW S \in SUBSET Scenarios, NEW N \in SUBSET SnapshotIds,
             NEW H \in GraphHistory, NEW seen \in GraphTimes,
             SaveGraph(p, source, C, S, N, H, seen[1], seen[2])
      PROVE  \E H1 \in SUBSET GraphEntry, first \in Times, last \in Times :
               SaveGraph(p, source, C, S, N, H1, first, last)
  <2>1. H \in SUBSET GraphEntry /\ seen[1] \in Times /\ seen[2] \in Times
    BY EvidenceConstants
  <2> QED BY <1>1, <2>1
<1>2. Analysed \subseteq Entities /\ Requests \subseteq Triggers \union {"none"}
      /\ Hashes \subseteq BOOLEAN
  BY EvidenceConstants
<1>3. CASE \E p \in Products, source \in Sources, C \in ColumnSets,
             S \in SUBSET Scenarios, N \in SUBSET SnapshotIds, H \in GraphHistory,
             seen \in GraphTimes :
             SaveGraph(p, source, C, S, N, H, seen[1], seen[2])
  BY <1>1, <1>3
<1>4. CASE \E p \in Products, entity \in Analysed, id \in HistoryIds, key \in Keys,
             requested \in Requests, hashed \in Hashes, at \in Times :
             \/ RecordInitial(p, entity, id, key, requested, hashed, at)
             \/ RecordReanalysis(p, entity, id, key, requested, hashed, at)
  BY <1>2, <1>4
<1> QED BY <1>3, <1>4 DEF Next

LEMMA StepKeepsIInv == IInv /\ [Next]_evidenceVars => IInv'
<1> SUFFICES ASSUME IInv, [Next]_evidenceVars
             PROVE  IInv'
  OBVIOUS
<1>1. CASE Next
  BY <1>1, StepIsACall, SaveGraphKeepsIInv, RecordInitialKeepsIInv,
     RecordReanalysisKeepsIInv, PurgeKeepsIInv
<1>2. CASE UNCHANGED evidenceVars
  <2> USE <1>2 DEF evidenceVars, IInv
  <2>1. TypeOK' /\ IdsAreUnique' /\ OwnersExist' /\ ResultsAreOwn'
    BY DEF TypeOK, IdsAreUnique, OwnersExist, ResultsAreOwn
  <2>2. HistoryFollowsOwnership'
    BY DEF HistoryFollowsOwnership, ScenariosOf
  <2>3. HeldIsPurged'
    BY DEF HeldIsPurged, Held, ScenariosOf, SnapshotsOf
  <2>4. HistoryIsAChain'
    BY DEF HistoryIsAChain, HistoryOn, HistoryOf
  <2>5. TombstoneCountsRedaction'
    BY DEF TombstoneCountsRedaction, Held, ScenariosOf, SnapshotsOf, HistoryOf
  <2> QED BY <2>1, <2>2, <2>3, <2>4, <2>5
<1> QED BY <1>1, <1>2

\* The inductive invariant holds in every reachable state.
THEOREM Invariance == Spec => []IInv
BY InitIInv, StepKeepsIInv, PTL DEF Spec

\* Every table keeps the types of its columns (schema.ts).
THEOREM TypeCorrectness == Spec => []TypeOK
<1>1. IInv => TypeOK
  BY DEF IInv
<1> QED BY <1>1, Invariance, PTL

\* Every reanalysis continues the analysis that was newest before it, whatever
\* ids and times its callers choose and wherever a purge falls (record).
THEOREM ChainSafety == Spec => []HistoryIsAChain
<1>1. IInv => HistoryIsAChain
  BY DEF IInv
<1> QED BY <1>1, Invariance, PTL

\* Every analysis is filed under the product that owns what was analysed.
THEOREM OwnershipSafety == Spec => []HistoryFollowsOwnership
<1>1. IInv => HistoryFollowsOwnership
  BY DEF IInv
<1> QED BY <1>1, Invariance, PTL

\* A tombstone counts exactly what its purge redacted, for good
\* (purgeForAgeUnknown).
THEOREM TombstoneSafety == Spec => []TombstoneCountsRedaction
<1>1. IInv => TombstoneCountsRedaction
  BY DEF IInv
<1> QED BY <1>1, Invariance, PTL

\* No read shows a held product (loadGraph, purgeForAgeUnknown).
THEOREM HeldSafety == Spec => []HeldIsUnreadable
<1>1. IInv => HeldIsUnreadable
  <2> SUFFICES ASSUME IInv, NEW p \in Products, Held(p)
               PROVE  /\ ~Readable(product[p])
                      /\ ReadableScenarios(p) = {}
                      /\ \A n \in SnapshotsOf(p) : ~n.hashed
                      /\ \A h \in HistoryOf(p) : h.result = Redacted => ~h.hashed
    BY DEF HeldIsUnreadable
  <2>1. ~Readable(product[p])
    BY DEF IInv, HeldIsPurged, Readable
  <2>2. ReadableScenarios(p) = {}
    BY DEF IInv, HeldIsPurged, ReadableScenarios
  <2>3. \A n \in SnapshotsOf(p) : ~n.hashed
    BY DEF IInv, HeldIsPurged
  <2>4. \A h \in HistoryOf(p) : h.result = Redacted => ~h.hashed
    BY DEF IInv, ResultsAreOwn, HistoryOf
  <2> QED BY <2>1, <2>2, <2>3, <2>4
<1> QED BY <1>1, Invariance, PTL

\* The rows of a product that a step may change or remove.
LEMMA OnlyPurgeRewrites ==
  ASSUME IInv, Next, NEW p \in Products
  PROVE  \/ HistoryOf(p) \subseteq HistoryOf(p)' /\ SnapshotsOf(p) \subseteq SnapshotsOf(p)'
         \/ \E at \in Times : Purge(p, at)
<1>1. CASE history \subseteq history' /\ snapshots \subseteq snapshots'
  BY <1>1 DEF HistoryOf, SnapshotsOf
<1>2. CASE \E q \in Products, at \in Times : Purge(q, at)
  <2>1. PICK q \in Products, at \in Times : Purge(q, at)
    BY <1>2
  <2>2. CASE q # p
    <3>1. HistoryOf(p)' = HistoryOf(p) /\ SnapshotsOf(p)' = SnapshotsOf(p)
      BY <2>1, <2>2, PurgeByProduct
    <3> QED BY <3>1
  <2> QED BY <2>1, <2>2
<1>3. ASSUME NEW q, NEW source, NEW C, NEW S, NEW N, NEW H, NEW first, NEW last,
             SaveGraph(q, source, C, S, N, H, first, last)
      PROVE  history \subseteq history' /\ snapshots \subseteq snapshots'
  BY <1>3 DEF SaveGraph
<1>4. ASSUME NEW q, NEW entity, NEW id, NEW key, NEW requested, NEW hashed, NEW at,
             \/ RecordInitial(q, entity, id, key, requested, hashed, at)
             \/ RecordReanalysis(q, entity, id, key, requested, hashed, at)
      PROVE  history \subseteq history' /\ snapshots \subseteq snapshots'
  BY <1>4 DEF RecordInitial, RecordReanalysis
<1> QED BY <1>1, <1>2, <1>3, <1>4, StepIsACall

\* A row of an append-only table changes in no way but the purge of its own
\* product.
THEOREM AppendOnlySafety == Spec => AppendOnlyOutsidePurge
<1> DEFINE Rewrite(p) ==
      /\ ~Held(p) /\ Held(p)'
      /\ \A h \in HistoryOf(p) : Redaction(h) \in history'
      /\ \A q \in Products \ {p} :
           HistoryOf(q)' = HistoryOf(q) /\ SnapshotsOf(q)' = SnapshotsOf(q)
    Append(p) ==
      HistoryOf(p) \subseteq HistoryOf(p)' /\ SnapshotsOf(p) \subseteq SnapshotsOf(p)'
<1>1. ASSUME IInv, Next, NEW p \in Products
      PROVE  Append(p) \/ Rewrite(p)
  <2>1. ASSUME NEW at \in Times, Purge(p, at)
        PROVE  Rewrite(p)
    <3>1. ~Held(p)
      BY <1>1, <2>1 DEF IInv, TombstoneCountsRedaction, Purge
    <3>2. Held(p)' /\ \A q \in Products \ {p} :
            HistoryOf(q)' = HistoryOf(q) /\ SnapshotsOf(q)' = SnapshotsOf(q)
      BY <1>1, <2>1, PurgeByProduct
    <3>3. \A h \in HistoryOf(p) : Redaction(h) \in history'
      BY <2>1 DEF Purge
    <3> QED BY <3>1, <3>2, <3>3
  <2> QED BY <1>1, <2>1, OnlyPurgeRewrites
<1>2. IInv /\ [Next]_evidenceVars =>
        [\A p \in Products :
           \/ HistoryOf(p) \subseteq HistoryOf(p)' /\ SnapshotsOf(p) \subseteq SnapshotsOf(p)'
           \/ /\ ~Held(p) /\ Held(p)'
              /\ \A h \in HistoryOf(p) : Redaction(h) \in history'
              /\ \A q \in Products \ {p} :
                   HistoryOf(q)' = HistoryOf(q) /\ SnapshotsOf(q)' = SnapshotsOf(q)]_evidenceVars
  BY <1>1
<1> QED BY <1>2, Invariance, PTL DEF Spec, AppendOnlyOutsidePurge

\* No later call brings back anything of a held product.
THEOREM HeldStaysHeldSafety == Spec => HeldStaysHeld
<1> DEFINE Stays(p) == /\ product'[p] = product[p]
                       /\ ScenariosOf(p)' = ScenariosOf(p)
                       /\ \A s \in ScenariosOf(p) : scenario'[s] = scenario[s]
<1>1. ASSUME IInv, Next, NEW p \in Products, Held(p)
      PROVE  Stays(p)
  <2>1. ASSUME NEW q \in Products, NEW source, NEW C, NEW S \in SUBSET Scenarios,
               NEW N, NEW H, NEW first, NEW last,
               SaveGraph(q, source, C, S, N, H, first, last)
        PROVE  Stays(p)
    <3>1. /\ q # p
          /\ product' = [product EXCEPT ![q] =
               [source |-> source, allAges |-> "approved", columns |-> C,
                firstSeen |-> first, lastChecked |-> last]]
          /\ scenario' = [s \in Scenarios |->
               IF s \in S THEN [product |-> q, body |-> "stored"] ELSE scenario[s]]
          /\ \A s \in S : scenario[s] = NoRow
      BY <1>1, <2>1 DEF SaveGraph, Absent, Held
    <3>2. product'[p] = product[p]
      BY <3>1 DEF IInv, TypeOK
    <3>3. \A s \in Scenarios : IF s \in S THEN scenario'[s].product = q
                               ELSE scenario'[s] = scenario[s]
      BY <3>1
    <3>4. ScenariosOf(p)' = ScenariosOf(p) /\ \A s \in ScenariosOf(p) : scenario'[s] = scenario[s]
      BY <3>1, <3>3 DEF ScenariosOf
    <3> QED BY <3>2, <3>4
  <2>2. CASE UNCHANGED <<product, scenario>>
    BY <2>2 DEF ScenariosOf
  <2>3. ASSUME NEW q \in Products, NEW at \in Times, Purge(q, at)
        PROVE  Stays(p)
    <3>1. q # p
      BY <1>1, <2>3 DEF IInv, TombstoneCountsRedaction, Purge
    <3> QED BY <1>1, <2>3, <3>1, PurgeByProduct
  <2>4. ASSUME NEW q, NEW entity, NEW id, NEW key, NEW requested, NEW hashed, NEW at,
               \/ RecordInitial(q, entity, id, key, requested, hashed, at)
               \/ RecordReanalysis(q, entity, id, key, requested, hashed, at)
        PROVE  UNCHANGED <<product, scenario>>
    BY <2>4 DEF RecordInitial, RecordReanalysis
  <2> HIDE DEF Stays
  <2> QED BY <1>1, <2>1, <2>2, <2>3, <2>4, StepIsACall
<1>2. IInv /\ [Next]_evidenceVars =>
        [\A p \in Products : Held(p) => Stays(p)]_evidenceVars
  BY <1>1
<1> QED BY <1>2, Invariance, PTL DEF Spec, HeldStaysHeld

================================================================================

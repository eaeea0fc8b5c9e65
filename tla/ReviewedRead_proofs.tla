-------------------------- MODULE ReviewedRead_proofs --------------------------
(***************************************************************************)
(* Proofs about ReviewedRead: what a read that is interleaved with saves,  *)
(* purges and reviews may tell, for every set of products, targets,        *)
(* requests and stored evidence.  The writers' invariants are the ones of  *)
(* EvidenceStore_proofs and ReviewLifecycle_proofs.                        *)
(***************************************************************************)
EXTENDS ReviewedRead, EvidenceStore_proofs, Ascending_proofs, SequenceTheorems

Queue == INSTANCE ReviewLifecycle_proofs WITH catalog <- Catalog

--------------------------------------------------------------------------------
(* The writers *)

\* What the lemmas of ReviewLifecycle_proofs suppose of the constants.
LEMMA QueueConstants ==
  /\ Targets \subseteq Queue!ReviewTarget
  /\ Snapshots \subseteq Queue!ReviewSnapshot
  /\ DecisionReasons \subseteq Queue!AllReasons
  /\ MaxTime \in Nat
  /\ Products \cap Scenarios = {}
BY ReadConstants, EvidenceConstants
   DEF Review!ReviewTarget, Queue!ReviewTarget, Review!ReviewSnapshot, Queue!ReviewSnapshot,
       Review!AllReasons, Queue!AllReasons

\* The queue of the proofs is the queue of the specification.
LEMMA SameQueue ==
  /\ Review!ReviewNext <=> Queue!ReviewNext
  /\ Review!TypeOK <=> Queue!TypeOK
<1>1. ASSUME NEW t, NEW s, NEW asStored, NEW manual, NEW at
      PROVE  Review!OpenCase(t, s, asStored, manual, at)
               <=> Queue!OpenCase(t, s, asStored, manual, at)
  BY DEF Review!OpenCase, Queue!OpenCase, Review!OpenOutcome, Queue!OpenOutcome,
         Review!NewCase, Queue!NewCase, Review!ValidSnapshot, Queue!ValidSnapshot,
         Review!ReviewReasons, Queue!ReviewReasons, Review!CaseReasons, Queue!CaseReasons,
         Review!PriorityFor, Queue!PriorityFor, Review!Owned, Queue!Owned,
         Review!CasesOf, Queue!CasesOf
<1>2. ASSUME NEW c, NEW decision, NEW reason, NEW at
      PROVE  Review!Decide(c, decision, reason, at) <=> Queue!Decide(c, decision, reason, at)
  BY DEF Review!Decide, Queue!Decide, Review!DecideOutcome, Queue!DecideOutcome,
         Review!DecisionsOf, Queue!DecisionsOf, Review!DecisionAllowed,
         Queue!DecisionAllowed, Review!Approvable, Queue!Approvable
<1>3. ASSUME NEW c, NEW d, NEW t, NEW at
      PROVE  Review!Apply(c, d, t, at) <=> Queue!Apply(c, d, t, at)
  BY DEF Review!Apply, Queue!Apply, Review!ApplyOutcome, Queue!ApplyOutcome,
         Review!PlanAccepts, Queue!PlanAccepts, Review!Answers, Queue!Answers,
         Review!ExactTarget, Queue!ExactTarget, Review!Follows, Queue!Follows,
         Review!DecisionAllowed, Queue!DecisionAllowed, Review!Approvable,
         Queue!Approvable, Review!ApplicationsOf, Queue!ApplicationsOf,
         Review!NewApplication, Queue!NewApplication, Review!OutcomeOf, Queue!OutcomeOf,
         Review!TriggerAccepts, Queue!TriggerAccepts, Review!Owned, Queue!Owned
<1>4. Review!ReviewNext <=> Queue!ReviewNext
  BY <1>1, <1>2, <1>3
     DEF Review!ReviewNext, Queue!ReviewNext, Review!Times, Queue!Times,
         Review!Decisions, Queue!Decisions
<1>5. Review!TypeOK <=> Queue!TypeOK
  BY DEF Review!TypeOK, Queue!TypeOK, Review!CaseRow, Queue!CaseRow, Review!DecisionRow,
         Queue!DecisionRow, Review!ApplicationRow, Queue!ApplicationRow,
         Review!CaseReasons, Queue!CaseReasons, Review!Times, Queue!Times,
         Review!Decisions, Queue!Decisions, Review!AllReasons, Queue!AllReasons
<1> QED BY <1>4, <1>5

\* saveGraph, as the tables of a read see it: it owns the product and the
\* scenarios it names and touches no others.
LEMMA SaveIsSeen ==
  ASSUME IInv, NEW p \in Products, NEW source \in Sources, NEW C \in ColumnSets,
         NEW S \in SUBSET Scenarios, NEW first \in Times, NEW last \in Times,
         SaveGraph(p, source, C, S, {}, {}, first, last)
  PROVE  /\ IInv'
         /\ UNCHANGED reviewVars => Queue!SaveGraph(p, S)
         /\ \A q \in Products : Held(q) => Held(q)'
<1> DEFINE row == [source |-> source, allAges |-> "approved", columns |-> C,
                   firstSeen |-> first, lastChecked |-> last]
           owned == [product |-> p, body |-> "stored"]
<1>1. /\ product[p] = NoRow
      /\ \A s \in S : scenario[s] = NoRow
      /\ product' = [product EXCEPT ![p] = row]
      /\ scenario' = [s \in Scenarios |-> IF s \in S THEN owned ELSE scenario[s]]
  BY DEF SaveGraph, Absent
<1>2. row # NoRow /\ owned # NoRow /\ owned.product = p
  BY EvidenceConstants, NoRowIsNoRow DEF ProductRow, ScenarioRow
<1> HIDE DEF row, owned
<1>3. \A q \in Products : product'[q] = IF q = p THEN row ELSE product[q]
  BY <1>1 DEF IInv, TypeOK
<1>4. \A s \in Scenarios : scenario'[s] = IF s \in S THEN owned ELSE scenario[s]
  BY <1>1
<1>5. IInv'
  <2>1. {} \in SUBSET SnapshotIds /\ {} \in SUBSET GraphEntry
    OBVIOUS
  <2> QED BY <2>1, SaveGraphKeepsIInv
<1>6. <<p, p>> \notin Catalog /\ \A s \in S, q \in Products : <<q, s>> \notin Catalog
  BY <1>1, EvidenceConstants DEF Catalog
<1>7. {<<q, q>> : q \in {r \in Products : product'[r] # NoRow}}
        = {<<q, q>> : q \in {r \in Products : product[r] # NoRow}} \union {<<p, p>>}
  BY <1>1, <1>2, <1>3
<1>8. {<<scenario'[s].product, s>> : s \in {r \in Scenarios : scenario'[r] # NoRow}}
        = {<<scenario[s].product, s>> : s \in {r \in Scenarios : scenario[r] # NoRow}}
            \union {<<p, s>> : s \in S}
  BY <1>1, <1>2, <1>4
<1>9. Catalog' = Catalog \union {<<p, p>>} \union {<<p, s>> : s \in S}
  BY <1>7, <1>8 DEF Catalog
<1>10. ASSUME NEW q \in Products, Held(q)
       PROVE  Held(q)'
  BY <1>1, <1>3, <1>10 DEF Held
<1> QED BY <1>5, <1>6, <1>9, <1>10 DEF Queue!SaveGraph, Queue!reviewVars, reviewVars

\* purgeForAgeUnknown, likewise: it owns and disowns nothing.
LEMMA PurgeIsSeen ==
  ASSUME IInv, NEW p \in Products, NEW at \in Times, Purge(p, at)
  PROVE  /\ IInv'
         /\ Catalog' = Catalog
         /\ \A q \in Products : Held(q) => Held(q)'
<1>1. {<<q, q>> : q \in {r \in Products : product'[r] # NoRow}}
        = {<<q, q>> : q \in {r \in Products : product[r] # NoRow}}
  BY PurgeByProduct
<1>2. {<<scenario'[s].product, s>> : s \in {r \in Scenarios : scenario'[r] # NoRow}}
        = {<<scenario[s].product, s>> : s \in {r \in Scenarios : scenario[r] # NoRow}}
  BY PurgeByProduct
<1>3. Catalog' = Catalog
  BY <1>1, <1>2 DEF Catalog
<1>4. \A q \in Products : Held(q) => Held(q)'
  BY PurgeByProduct
<1> QED BY <1>3, <1>4, PurgeKeepsIInv

\* No step of a writer loses a row a read may have seen, or releases a hold.
LEMMA WritersKeep ==
  ASSUME IInv, Queue!IInv,
         \/ StoreNext /\ UNCHANGED reviewVars
         \/ Review!ReviewNext /\ UNCHANGED evidenceVars
  PROVE  /\ IInv' /\ Queue!IInv'
         /\ \A q \in Products : Held(q) => Held(q)'
         /\ cases \subseteq cases'
         /\ decisions \subseteq decisions'
         /\ applications \subseteq applications'
<1>1. ASSUME NEW p \in Products, NEW source \in Sources, NEW C \in ColumnSets,
             NEW S \in SUBSET Scenarios, NEW seen \in GraphTimes,
             SaveGraph(p, source, C, S, {}, {}, seen[1], seen[2]), UNCHANGED reviewVars
      PROVE  IInv' /\ Queue!IInv' /\ \A q \in Products : Held(q) => Held(q)'
  <2>1. seen[1] \in Times /\ seen[2] \in Times
    BY EvidenceConstants
  <2>2. IInv' /\ Queue!SaveGraph(p, S) /\ \A q \in Products : Held(q) => Held(q)'
    BY <1>1, <2>1, SaveIsSeen
  <2>3. Queue!IInv'
    BY <2>2, QueueConstants, Queue!SaveGraphKeepsIInv
  <2> QED BY <2>2, <2>3
<1>2. ASSUME NEW p \in Products, NEW at \in Times, Purge(p, at), UNCHANGED reviewVars
      PROVE  IInv' /\ Queue!IInv' /\ \A q \in Products : Held(q) => Held(q)'
  <2>1. IInv' /\ Catalog' = Catalog /\ \A q \in Products : Held(q) => Held(q)'
    BY <1>2, PurgeIsSeen
  <2>2. UNCHANGED Queue!vars
    BY <1>2, <2>1 DEF Queue!vars, Queue!reviewVars, reviewVars
  <2>3. Queue!IInv'
    BY <2>2, QueueConstants, Queue!StepKeepsIInv
  <2> QED BY <2>1, <2>3
<1>3. CASE StoreNext /\ UNCHANGED reviewVars
  BY <1>1, <1>2, <1>3 DEF StoreNext, reviewVars
<1>4. CASE Review!ReviewNext /\ UNCHANGED evidenceVars
  <2>1. IInv' /\ \A q \in Products : Held(q) => Held(q)'
    BY <1>4, StepKeepsIInv DEF evidenceVars, Held
  <2>2. Catalog' = Catalog
    BY <1>4 DEF Catalog, evidenceVars
  <2>3. Queue!Next
    BY <1>4, <2>2, SameQueue DEF Queue!Next
  <2>4. Queue!IInv'
    BY <2>3, QueueConstants, Queue!StepKeepsIInv
  <2>5. /\ cases \subseteq cases'
        /\ decisions \subseteq decisions'
        /\ applications \subseteq applications'
    BY <1>4, SameQueue
       DEF Queue!ReviewNext, Queue!OpenCase, Queue!Decide, Queue!Apply
  <2> QED BY <2>1, <2>4, <2>5
<1> QED BY <1>3, <1>4

--------------------------------------------------------------------------------
(* The invariant of a read *)

\* The phases that hold a graph, and those of them that look at a target.
LookingUp == {"case", "case_again", "decision", "application"}
Loaded == LookingUp \union {"compose"}
Phases == {"idle", "product", "scenarios", "done"} \union Loaded

Input ==
  [target: Targets, seen: SUBSET Snapshots,
   projection: ReviewStates \union {"unapplied"}]

\* The graph is what one load of the product's rows can build.
IsLoaded(g, p) ==
  \E columns \in SUBSET Columns, read \in SUBSET Scenarios :
    g = GraphOf(p, columns, read)

\* The request was accepted, and what is noted of its targets was so: rows
\* is a later content of review_application_event.
IsRequest(b, rows) ==
  /\ b.p \in Products
  /\ b.list \in Seq(Targets)
  /\ Distinct(b.list) /\ OneProduct(b.p, b.list)
  /\ \A i \in DOMAIN b.list :
       b.effective[i] # "none" =>
         \E a \in rows : a.target = b.list[i] /\ a.outcome = b.effective[i]

\* An answer is about the target `t`, reports an outcome only with its
\* application on record, and reports one if there was one `before`.
IsAnswer(input, t, before, rows) ==
  /\ input.target = t
  /\ input.projection # "unapplied" =>
       \E a \in rows : /\ a.target = t
                       /\ input.projection = Effective(a.outcome)
                       /\ input.seen = {a.case.snapshot}
  /\ before # "none" => input.projection # "unapplied"

AreAnswers(inputs, b, rows) ==
  /\ inputs \in Seq(Input)
  /\ Len(inputs) <= Len(b.list)
  /\ \A i \in DOMAIN inputs : IsAnswer(inputs[i], b.list[i], b.effective[i], rows)

\* A read that began on a held product ends with nothing to show.
HoldIsNoticed ==
  began.held => \/ reader.pc = "product" /\ Held(reader.p)
                \/ reader = NothingShown

RequestIsKept ==
  /\ reader.pc # "idle" => IsRequest(began, applications)
  /\ reader.pc \in {"product", "scenarios"} \union Loaded =>
       reader.p = began.p /\ reader.list = began.list
  /\ reader.pc = "scenarios" => reader.columns \subseteq Columns

AnswersAreKept ==
  /\ reader.pc \in Loaded =>
       IsLoaded(reader.graph, began.p) /\ AreAnswers(reader.inputs, began, applications)
  /\ reader.pc \in LookingUp => Len(reader.inputs) < Len(reader.list)
  /\ reader.pc = "compose" => Len(reader.inputs) = Len(reader.list)

\* The row a look-up goes on with is the target's own, of the case whose
\* snapshot was read first.
RowIsTheTargets ==
  /\ reader.pc \in {"case_again", "decision"} =>
       /\ reader.row \in cases
       /\ reader.row.target = Current
       /\ reader.seen = {reader.row.snapshot}
  /\ reader.pc = "application" =>
       /\ reader.row \in decisions
       /\ reader.row.case.target = Current
       /\ reader.seen = {reader.row.case.snapshot}

\* What a finished read tells is the composition of what it read.
ResultIsComposed ==
  Finished =>
    \/ reader = NothingShown
    \/ LET composed == Composed(reader.graph, reader.inputs) IN
       /\ IsLoaded(reader.graph, began.p)
       /\ AreAnswers(reader.inputs, began, applications)
       /\ Len(reader.inputs) = Len(began.list)
       /\ reader.final = composed.graph
       /\ reader.report = composed.report
       /\ reader.shown = Published(composed.graph)

\* The parts of the invariant that speak of the reader only.
ReaderInv ==
  /\ reader.pc \in Phases
  /\ HoldIsNoticed
  /\ RequestIsKept
  /\ AnswersAreKept
  /\ RowIsTheTargets
  /\ ResultIsComposed

ReadIInv == IInv /\ Queue!IInv /\ ReaderInv

\* What was noted or answered stays true while applications are added.
LEMMA NotesOutlast ==
  ASSUME NEW b, NEW rows, NEW more, rows \subseteq more
  PROVE  /\ IsRequest(b, rows) => IsRequest(b, more)
         /\ \A inputs : AreAnswers(inputs, b, rows) => AreAnswers(inputs, b, more)
BY DEF IsRequest, AreAnswers, IsAnswer

\* One more answer, about the next requested target.
LEMMA AnswerAppended ==
  ASSUME NEW b, NEW rows, b.list \in Seq(Targets),
         NEW inputs, AreAnswers(inputs, b, rows), Len(inputs) < Len(b.list),
         NEW input \in Input,
         IsAnswer(input, b.list[Len(inputs) + 1], b.effective[Len(inputs) + 1], rows)
  PROVE  AreAnswers(Append(inputs, input), b, rows)
<1> DEFINE n == Len(inputs)
           longer == Append(inputs, input)
<1>1. inputs \in Seq(Input) /\ n \in Nat /\ Len(b.list) \in Nat
  BY LenProperties DEF AreAnswers
<1>2. longer \in Seq(Input) /\ Len(longer) = n + 1
  BY <1>1, AppendProperties
<1>3. ASSUME NEW i \in DOMAIN longer
      PROVE  IsAnswer(longer[i], b.list[i], b.effective[i], rows)
  <2>1. i \in 1..n + 1
    BY <1>2, LenProperties
  <2>2. CASE i = n + 1
    BY <1>1, <2>2, AppendProperties
  <2>3. CASE i # n + 1
    <3>1. i \in 1..n /\ i \in DOMAIN inputs
      BY <1>1, <2>1, <2>3, LenProperties
    <3>2. longer[i] = inputs[i]
      BY <1>1, <3>1, AppendProperties
    <3> QED BY <3>1, <3>2 DEF AreAnswers
  <2> QED BY <2>2, <2>3
<1>4. Len(longer) <= Len(b.list)
  BY <1>1, <1>2
<1> QED BY <1>2, <1>3, <1>4 DEF AreAnswers

\* Whatever the writers commit, the reader's notes stay true.
LEMMA WritersKeepReaderInv ==
  ASSUME ReaderInv, UNCHANGED readVars,
         \A q \in Products : Held(q) => Held(q)',
         cases \subseteq cases', decisions \subseteq decisions',
         applications \subseteq applications'
  PROVE  ReaderInv'
<1>1. reader' = reader /\ began' = began
  BY DEF readVars
<1>2. (reader.pc \in Phases)' /\ RequestIsKept'
  BY <1>1, NotesOutlast DEF ReaderInv, RequestIsKept
<1>3. HoldIsNoticed'
  <2>1. reader.pc = "product" => reader.p \in Products
    BY DEF ReaderInv, RequestIsKept, IsRequest
  <2>2. ASSUME reader.pc = "product", Held(reader.p)
        PROVE  Held(reader.p)'
    <3>1. product'[reader.p] # NoRow /\ product'[reader.p].allAges = "hold"
      BY <2>1, <2>2 DEF Held
    <3> QED BY <1>1, <3>1 DEF Held
  <2> QED BY <1>1, <2>2 DEF ReaderInv, HoldIsNoticed
<1>4. AnswersAreKept'
  BY <1>1, NotesOutlast DEF ReaderInv, AnswersAreKept
<1>5. RowIsTheTargets'
  BY <1>1 DEF ReaderInv, RowIsTheTargets, Current
<1>6. ResultIsComposed'
  BY <1>1, NotesOutlast DEF ReaderInv, ResultIsComposed, Finished
<1> QED BY <1>2, <1>3, <1>4, <1>5, <1>6 DEF ReaderInv

\* A read that goes on to its next target, or to the composition.
LEMMA NextTargetKeepsReaderInv ==
  ASSUME NEW g, NEW inputs,
         ~began.held, IsRequest(began, applications),
         IsLoaded(g, began.p), AreAnswers(inputs, began, applications),
         reader' = NextTarget(began.p, began.list, g, inputs),
         began' = began, UNCHANGED reviewVars
  PROVE  ReaderInv'
<1>1. /\ reader'.p = began.p /\ reader'.list = began.list
      /\ reader'.graph = g /\ reader'.inputs = inputs
      /\ reader'.pc = IF Len(inputs) < Len(began.list) THEN "case" ELSE "compose"
  BY DEF NextTarget
<1>2. applications' = applications
  BY DEF reviewVars
<1>3. Len(inputs) \in Nat /\ Len(began.list) \in Nat /\ Len(inputs) <= Len(began.list)
  BY LenProperties DEF AreAnswers, IsRequest
<1>4. (reader.pc \in Phases)' /\ HoldIsNoticed'
  BY <1>1 DEF Phases, Loaded, LookingUp, HoldIsNoticed
<1>5. RequestIsKept'
  BY <1>1, <1>2 DEF RequestIsKept
<1>6. AnswersAreKept'
  BY <1>1, <1>2, <1>3 DEF AnswersAreKept, Loaded, LookingUp
<1>7. RowIsTheTargets' /\ ResultIsComposed'
  BY <1>1 DEF RowIsTheTargets, ResultIsComposed, Finished
<1> QED BY <1>4, <1>5, <1>6, <1>7 DEF ReaderInv

\* loadPublicationIndex
LEMMA RequestKeepsReaderInv ==
  ASSUME Queue!IInv, NEW p \in Products, NEW list \in RequestLists, Request(p, list),
         UNCHANGED <<evidenceVars, reviewVars>>
  PROVE  ReaderInv'
<1>1. /\ reader'.pc = "product" /\ reader'.p = p /\ reader'.list = list
      /\ began'.p = p /\ began'.list = list
      /\ began'.effective = [i \in DOMAIN list |-> OutcomeInEffect(list[i])]
      /\ Distinct(list) /\ OneProduct(p, list)
      /\ began'.held = Held(p)
  BY DEF Request
<1>2. UNCHANGED <<product, cases, decisions, applications>>
  BY DEF evidenceVars, reviewVars
<1>3. list \in Seq(Targets)
  BY ReadConstants
<1>4. ASSUME NEW i \in DOMAIN list, OutcomeInEffect(list[i]) # "none"
      PROVE  \E a \in applications : /\ a.target = list[i]
                                     /\ a.outcome = OutcomeInEffect(list[i])
  BY <1>4 DEF OutcomeInEffect
<1>5. IsRequest(began', applications')
  BY <1>1, <1>2, <1>3, <1>4 DEF IsRequest
<1>6. (reader.pc \in Phases)' /\ RequestIsKept'
  BY <1>1, <1>5 DEF Phases, RequestIsKept, Loaded, LookingUp
<1>7. HoldIsNoticed'
  BY <1>1, <1>2 DEF HoldIsNoticed, Held
<1>8. AnswersAreKept' /\ RowIsTheTargets' /\ ResultIsComposed'
  BY <1>1 DEF AnswersAreKept, Loaded, LookingUp, RowIsTheTargets, ResultIsComposed, Finished
<1> QED BY <1>6, <1>7, <1>8 DEF ReaderInv

\* loadGraph, the product row: a held product's is not readable.
LEMMA ReadProductKeepsReaderInv ==
  ASSUME IInv, ReaderInv, ReadProduct, UNCHANGED <<evidenceVars, reviewVars>>
  PROVE  ReaderInv'
<1>1. /\ reader.pc = "product" /\ began' = began /\ applications' = applications
      /\ reader.p = began.p /\ reader.list = began.list
      /\ began.p \in Products /\ IsRequest(began, applications)
  BY DEF ReadProduct, ReaderInv, RequestIsKept, IsRequest, reviewVars
<1>2. CASE Readable(product[began.p])
  <2>1. /\ reader'.pc = "scenarios" /\ reader'.p = began.p /\ reader'.list = began.list
        /\ reader'.columns = product[began.p].columns
    BY <1>1, <1>2 DEF ReadProduct
  <2>2. product[began.p].columns \subseteq Columns
    BY <1>1, <1>2 DEF Readable, IInv, TypeOK, ProductRow
  <2>3. ~began.held
    <3>1. ~Held(began.p)
      BY <1>1, <1>2 DEF Readable, IInv, HeldIsPurged
    <3>2. reader # NothingShown
      BY <1>1 DEF NothingShown
    <3> QED BY <1>1, <3>1, <3>2 DEF ReaderInv, HoldIsNoticed
  <2> QED
    BY <1>1, <2>1, <2>2, <2>3
       DEF ReaderInv, Phases, Loaded, LookingUp, HoldIsNoticed, RequestIsKept,
           AnswersAreKept, RowIsTheTargets, ResultIsComposed, Finished
<1>3. CASE ~Readable(product[began.p])
  <2>1. reader' = NothingShown /\ reader'.pc = "done"
    BY <1>1, <1>3 DEF ReadProduct, NothingShown
  <2> QED
    BY <1>1, <2>1
       DEF ReaderInv, Phases, Loaded, LookingUp, HoldIsNoticed, RequestIsKept,
           AnswersAreKept, RowIsTheTargets, ResultIsComposed, Finished
<1> QED BY <1>2, <1>3

\* loadGraph, the scenario rows
LEMMA ReadScenariosKeepsReaderInv ==
  ASSUME ReaderInv, ReadScenarios, UNCHANGED <<evidenceVars, reviewVars>>
  PROVE  ReaderInv'
<1> DEFINE g == GraphOf(began.p, reader.columns, ReadableScenarios(began.p))
<1>1. /\ reader.pc = "scenarios" /\ began' = began
      /\ reader.p = began.p /\ reader.list = began.list
      /\ IsRequest(began, applications)
      /\ reader.columns \subseteq Columns
  BY DEF ReadScenarios, ReaderInv, RequestIsKept
<1>2. ~began.held
  <2>1. reader # NothingShown
    BY <1>1 DEF NothingShown
  <2> QED BY <1>1, <2>1 DEF ReaderInv, HoldIsNoticed
<1>3. IsLoaded(g, began.p)
  <2>1. ReadableScenarios(began.p) \in SUBSET Scenarios
    BY DEF ReadableScenarios, ScenariosOf
  <2> QED BY <1>1, <2>1 DEF IsLoaded
<1>4. AreAnswers(<<>>, began, applications)
  <2>1. <<>> \in Seq(Input) /\ Len(<<>>) = 0 /\ DOMAIN <<>> = {}
    BY EmptySeq
  <2>2. Len(began.list) \in Nat
    BY <1>1, LenProperties DEF IsRequest
  <2> QED BY <2>1, <2>2 DEF AreAnswers
<1>5. reader' = NextTarget(began.p, began.list, g, <<>>)
  BY <1>1 DEF ReadScenarios
<1> HIDE DEF g
<1>6. UNCHANGED reviewVars
  BY DEF reviewVars
<1> QED BY <1>1, <1>2, <1>3, <1>4, <1>5, <1>6, NextTargetKeepsReaderInv

\* An application rests on a decision and a case of its own target.
LEMMA ApplicationRests ==
  ASSUME Queue!IInv, NEW a \in applications
  PROVE  /\ a.decision \in decisions /\ a.decision.case = a.case
         /\ a.case \in cases /\ a.case.target = a.target
         /\ a.case.snapshot \in Snapshots
         /\ a.outcome \in {"approved", "excluded_rejected", "excluded_needs_more_evidence"}
<1>1. a.decision \in decisions /\ a.decision.case = a.case /\ a.target = a.case.target
  BY DEF Queue!IInv, Queue!ApplicationTracesToDecision
<1>2. a.case \in cases
  BY <1>1 DEF Queue!IInv, Queue!ApprovalIsEarned
<1>3. a \in Queue!ApplicationRow /\ a.case \in Queue!CaseRow
  BY <1>2 DEF Queue!IInv, Queue!TypeOK
<1> QED BY <1>1, <1>2, <1>3 DEF Queue!ApplicationRow, Queue!CaseRow

\* Where a read stands that looks a target up.
LEMMA LookUpStands ==
  ASSUME ReaderInv, reader.pc \in LookingUp
  PROVE  /\ ~began.held
         /\ IsRequest(began, applications)
         /\ IsLoaded(reader.graph, began.p)
         /\ AreAnswers(reader.inputs, began, applications)
         /\ reader.p = began.p /\ reader.list = began.list
         /\ Len(reader.inputs) < Len(began.list)
         /\ Len(reader.inputs) + 1 \in DOMAIN began.list
         /\ Current = began.list[Len(reader.inputs) + 1]
         /\ Current \in Targets
<1>1. reader.pc \in Loaded /\ reader.pc # "product" /\ reader # NothingShown
      /\ reader.pc # "idle"
  BY DEF Loaded, LookingUp, NothingShown
<1>2. /\ IsRequest(began, applications) /\ IsLoaded(reader.graph, began.p)
      /\ AreAnswers(reader.inputs, began, applications)
      /\ reader.p = began.p /\ reader.list = began.list
      /\ Len(reader.inputs) < Len(began.list)
      /\ ~began.held
  BY <1>1 DEF ReaderInv, RequestIsKept, AnswersAreKept, HoldIsNoticed
<1>3. began.list \in Seq(Targets) /\ reader.inputs \in Seq(Input)
  BY <1>2 DEF IsRequest, AreAnswers
<1>4. Len(reader.inputs) + 1 \in DOMAIN began.list
  BY <1>2, <1>3, LenProperties
<1>5. Current = began.list[Len(reader.inputs) + 1]
  BY <1>2 DEF Current
<1>6. Current \in Targets
  BY <1>3, <1>4, <1>5, LenProperties
<1> QED BY <1>2, <1>4, <1>5, <1>6

\* The look-up goes on with the target's own row.
LEMMA RowKeepsReaderInv ==
  ASSUME ReaderInv, reader.pc \in LookingUp, NEW seen, NEW row, NEW pc,
         \/ /\ pc \in {"case_again", "decision"}
            /\ row \in cases /\ row.target = Current /\ seen = {row.snapshot}
         \/ /\ pc = "application"
            /\ row \in decisions /\ row.case.target = Current
            /\ seen = {row.case.snapshot},
         reader' = WithRow(pc, seen, row), began' = began, UNCHANGED reviewVars
  PROVE  ReaderInv'
<1>1. /\ reader'.pc = pc /\ reader'.p = reader.p /\ reader'.list = reader.list
      /\ reader'.graph = reader.graph /\ reader'.inputs = reader.inputs
      /\ reader'.seen = seen /\ reader'.row = row
  BY DEF WithRow
<1>2. UNCHANGED <<cases, decisions, applications>>
  BY DEF reviewVars
<1>3. Current' = Current
  BY <1>1 DEF Current
<1>4. pc \in LookingUp /\ pc \notin {"idle", "product", "scenarios", "compose", "done"}
  BY DEF LookingUp
<1>5. (reader.pc \in Phases)' /\ HoldIsNoticed' /\ RequestIsKept'
  BY <1>1, <1>2, <1>4, LookUpStands
     DEF Phases, Loaded, HoldIsNoticed, RequestIsKept
<1>6. AnswersAreKept'
  BY <1>1, <1>2, <1>4, LookUpStands DEF AnswersAreKept
<1>7. RowIsTheTargets'
  BY <1>1, <1>2, <1>3 DEF RowIsTheTargets
<1>8. ResultIsComposed'
  BY <1>1, <1>4 DEF ResultIsComposed, Finished
<1> QED BY <1>5, <1>6, <1>7, <1>8 DEF ReaderInv

\* The look-up ends with an answer.
LEMMA AnswerKeepsReaderInv ==
  ASSUME ReaderInv, reader.pc \in LookingUp,
         NEW seen \in SUBSET Snapshots, NEW projection \in ReviewStates \union {"unapplied"},
         projection # "unapplied" =>
           \E a \in applications : /\ a.target = Current
                                   /\ projection = Effective(a.outcome)
                                   /\ seen = {a.case.snapshot},
         (\E a \in applications : a.target = Current) => projection # "unapplied",
         reader' = WithInput(seen, projection), began' = began, UNCHANGED reviewVars
  PROVE  ReaderInv'
<1> DEFINE input == [target |-> Current, seen |-> seen, projection |-> projection]
           n == Len(reader.inputs)
<1>1. /\ input \in Input
      /\ input.target = Current /\ input.seen = seen /\ input.projection = projection
  BY LookUpStands DEF Input
<1>2. reader' = NextTarget(began.p, began.list, reader.graph, Append(reader.inputs, input))
  BY LookUpStands DEF WithInput
<1> HIDE DEF input
<1>3. began.effective[n + 1] # "none" => projection # "unapplied"
  BY LookUpStands DEF IsRequest
<1>4. IsAnswer(input, began.list[n + 1], began.effective[n + 1], applications)
  BY <1>1, <1>3, LookUpStands DEF IsAnswer
<1>5. AreAnswers(Append(reader.inputs, input), began, applications)
  BY <1>1, <1>4, LookUpStands, AnswerAppended DEF IsRequest
<1> QED BY <1>2, <1>5, LookUpStands, NextTargetKeepsReaderInv

\* A target in effect has a case, and a case of the target is that one.
LEMMA CaseOfEffect ==
  ASSUME Queue!IInv, NEW a \in applications
  PROVE  /\ a.case \in CaseRows(a.target)
         /\ \A c \in cases : c.target = a.target => c = a.case
         /\ \A d \in decisions : d.case = a.case => d = a.decision
<1>1. /\ \A c1, c2 \in cases : c1.target = c2.target => c1 = c2
      /\ \A d1, d2 \in decisions : d1.case.target = d2.case.target => d1 = d2
  BY DEF Queue!IInv, Queue!OneDispositionPerTarget
<1> QED BY <1>1, ApplicationRests DEF CaseRows

\* The select of the case
LEMMA ReadCaseKeepsReaderInv ==
  ASSUME Queue!IInv, ReaderInv, ReadCase, UNCHANGED <<evidenceVars, reviewVars>>
  PROVE  ReaderInv'
<1>1. reader.pc \in LookingUp /\ began' = began /\ UNCHANGED reviewVars
  BY DEF ReadCase, LookingUp, reviewVars
<1>2. CASE CaseRows(Current) = {} /\ reader' = WithInput({}, "unapplied")
  <2>1. ~ \E a \in applications : a.target = Current
    BY <1>2, CaseOfEffect
  <2> QED BY <1>1, <1>2, <2>1, AnswerKeepsReaderInv
<1>3. ASSUME NEW c \in CaseRows(Current), reader' = WithRow("case_again", {c.snapshot}, c)
      PROVE  ReaderInv'
  <2>1. c \in cases /\ c.target = Current
    BY <1>3 DEF CaseRows
  <2> QED BY <1>1, <1>3, <2>1, RowKeepsReaderInv
<1> QED BY <1>2, <1>3 DEF ReadCase

\* loadEffectiveProjection, the case
LEMMA ReadCaseAgainKeepsReaderInv ==
  ASSUME Queue!IInv, ReaderInv, ReadCaseAgain, UNCHANGED <<evidenceVars, reviewVars>>
  PROVE  ReaderInv'
<1>1. reader.pc \in LookingUp /\ began' = began /\ UNCHANGED reviewVars
  BY DEF ReadCaseAgain, LookingUp, reviewVars
<1>2. reader.row \in CaseRows(Current) /\ reader.seen = {reader.row.snapshot}
  BY DEF ReadCaseAgain, ReaderInv, RowIsTheTargets, CaseRows
<1>3. PICK c \in CaseRows(Current) : reader' = WithRow("decision", reader.seen, c)
  BY <1>2 DEF ReadCaseAgain
<1>4. c = reader.row
  BY <1>2, <1>3 DEF Queue!IInv, Queue!OneDispositionPerTarget, CaseRows
<1>5. c \in cases /\ c.target = Current /\ reader.seen = {c.snapshot}
  BY <1>2, <1>4 DEF CaseRows
<1> QED BY <1>1, <1>3, <1>5, RowKeepsReaderInv

\* loadEffectiveProjection, the decision
LEMMA ReadDecisionKeepsReaderInv ==
  ASSUME Queue!IInv, ReaderInv, ReadDecision, UNCHANGED <<evidenceVars, reviewVars>>
  PROVE  ReaderInv'
<1> DEFINE found == {d \in decisions : d.case = reader.row}
<1>1. reader.pc \in LookingUp /\ began' = began /\ UNCHANGED reviewVars
  BY DEF ReadDecision, LookingUp, reviewVars
<1>2. /\ reader.row \in cases /\ reader.row.target = Current
      /\ reader.seen = {reader.row.snapshot}
  BY DEF ReadDecision, ReaderInv, RowIsTheTargets
<1>3. reader.row.snapshot \in Snapshots
  BY <1>2 DEF Queue!IInv, Queue!TypeOK, Queue!CaseRow
<1>4. CASE found = {} /\ reader' = WithInput(reader.seen, "unapplied")
  <2>1. ~ \E a \in applications : a.target = Current
    BY <1>2, <1>4, CaseOfEffect, ApplicationRests
  <2>2. reader.seen \in SUBSET Snapshots
    BY <1>2, <1>3
  <2> QED BY <1>1, <1>4, <2>1, <2>2, AnswerKeepsReaderInv
<1>5. ASSUME NEW d \in found, reader' = WithRow("application", reader.seen, d)
      PROVE  ReaderInv'
  BY <1>1, <1>2, <1>5, RowKeepsReaderInv
<1> QED BY <1>4, <1>5 DEF ReadDecision

\* loadEffectiveProjection, the application
LEMMA ReadApplicationKeepsReaderInv ==
  ASSUME Queue!IInv, ReaderInv, ReadApplication, UNCHANGED <<evidenceVars, reviewVars>>
  PROVE  ReaderInv'
<1> DEFINE found == {a \in applications : a.decision = reader.row}
<1>1. reader.pc \in LookingUp /\ began' = began /\ UNCHANGED reviewVars
  BY DEF ReadApplication, LookingUp, reviewVars
<1>2. /\ reader.row \in decisions /\ reader.row.case.target = Current
      /\ reader.seen = {reader.row.case.snapshot}
  BY DEF ReadApplication, ReaderInv, RowIsTheTargets
<1>3. reader.row.case.snapshot \in Snapshots
  BY <1>2 DEF Queue!IInv, Queue!TypeOK, Queue!DecisionRow, Queue!CaseRow
<1>4. reader.seen \in SUBSET Snapshots
  BY <1>2, <1>3
<1>5. \A a \in applications : a.target = Current <=> a.decision = reader.row
  <2>1. \A d1, d2 \in decisions : d1.case.target = d2.case.target => d1 = d2
    BY DEF Queue!IInv, Queue!OneDispositionPerTarget
  <2> QED BY <1>2, <2>1, ApplicationRests
<1>6. CASE found = {} /\ reader' = WithInput(reader.seen, "unapplied")
  BY <1>1, <1>4, <1>5, <1>6, AnswerKeepsReaderInv
<1>7. ASSUME NEW a \in found, reader' = WithInput(reader.seen, Effective(a.outcome))
      PROVE  ReaderInv'
  <2>1. a.target = Current /\ reader.seen = {a.case.snapshot}
    BY <1>2, <1>5, ApplicationRests
  <2>2. Effective(a.outcome) \in ReviewStates /\ "unapplied" \notin ReviewStates
    BY ApplicationRests DEF Effective, ReviewStates
  <2>3. Effective(a.outcome) \in ReviewStates \union {"unapplied"}
    BY <2>2
  <2> QED BY <1>1, <1>4, <1>7, <2>1, <2>2, <2>3, AnswerKeepsReaderInv
<1>8. CASE reader' = Idle
  <2>1. reader'.pc = "idle" /\ ~began.held
    BY <1>1, <1>8, LookUpStands DEF Idle
  <2> QED
    BY <1>1, <2>1
       DEF ReaderInv, Phases, Loaded, LookingUp, HoldIsNoticed, RequestIsKept,
           AnswersAreKept, RowIsTheTargets, ResultIsComposed, Finished
<1> QED BY <1>6, <1>7, <1>8 DEF ReadApplication

\* composeReviewedPublicationIndex
LEMMA ComposeKeepsReaderInv ==
  ASSUME ReaderInv, Compose, UNCHANGED <<evidenceVars, reviewVars>>
  PROVE  ReaderInv'
<1> DEFINE composed == Composed(reader.graph, reader.inputs)
<1>1. /\ reader.pc = "compose" /\ began' = began /\ applications' = applications
      /\ reader'.pc = "done" /\ reader'.graph = reader.graph
      /\ reader'.inputs = reader.inputs /\ reader'.final = composed.graph
      /\ reader'.report = composed.report /\ reader'.shown = Published(composed.graph)
  BY DEF Compose, reviewVars
<1> HIDE DEF composed
<1>2. /\ IsRequest(began, applications) /\ IsLoaded(reader.graph, began.p)
      /\ AreAnswers(reader.inputs, began, applications)
      /\ Len(reader.inputs) = Len(began.list)
  BY <1>1 DEF ReaderInv, RequestIsKept, AnswersAreKept, Loaded
<1>3. ~began.held
  <2>1. reader # NothingShown
    BY <1>1 DEF NothingShown
  <2> QED BY <1>1, <2>1 DEF ReaderInv, HoldIsNoticed
<1>4. ResultIsComposed'
  <2>1. reader'.final = Composed(reader'.graph, reader'.inputs).graph
        /\ reader'.report = Composed(reader'.graph, reader'.inputs).report
        /\ reader'.shown = Published(Composed(reader'.graph, reader'.inputs).graph)
    BY <1>1 DEF composed
  <2> QED BY <1>1, <1>2, <2>1 DEF ResultIsComposed
<1> QED
  BY <1>1, <1>2, <1>3, <1>4
     DEF ReaderInv, Phases, Loaded, LookingUp, HoldIsNoticed, RequestIsKept,
         AnswersAreKept, RowIsTheTargets

LEMMA InitReadIInv == ReadInit => ReadIInv
<1> SUFFICES ASSUME ReadInit
             PROVE  ReadIInv
  OBVIOUS
<1>1. IInv
  BY InitIInv DEF ReadInit
<1>2. Catalog = {}
  <2>1. \A p \in Products : product[p] = NoRow
    BY DEF ReadInit, Init
  <2>2. \A s \in Scenarios : scenario[s] = NoRow
    BY DEF ReadInit, Init
  <2> QED BY <2>1, <2>2 DEF Catalog
<1>3. Queue!IInv
  BY <1>2, QueueConstants, Queue!InitIInv DEF ReadInit, Queue!Init
<1>4. ReaderInv
  BY DEF ReadInit, Idle, ReaderInv, Phases, Loaded, LookingUp, HoldIsNoticed,
         RequestIsKept, AnswersAreKept, RowIsTheTargets, ResultIsComposed, Finished
<1> QED BY <1>1, <1>3, <1>4 DEF ReadIInv

\* No step of the reader touches a table.
LEMMA ReadersKeepTables ==
  ASSUME IInv, Queue!IInv, UNCHANGED <<evidenceVars, reviewVars>>
  PROVE  IInv' /\ Queue!IInv'
<1>1. IInv'
  BY StepKeepsIInv
<1>2. UNCHANGED Queue!vars
  BY DEF Queue!vars, Queue!reviewVars, evidenceVars, reviewVars, Catalog
<1>3. Queue!IInv'
  BY <1>2, QueueConstants, Queue!StepKeepsIInv
<1> QED BY <1>1, <1>3

LEMMA StepKeepsReadIInv == ReadIInv /\ [ReadNext]_vars => ReadIInv'
<1> SUFFICES ASSUME IInv, Queue!IInv, ReaderInv, [ReadNext]_vars
             PROVE  IInv' /\ Queue!IInv' /\ ReaderInv'
  BY DEF ReadIInv
<1>1. CASE StoreNext /\ UNCHANGED <<reviewVars, readVars>>
  <2>1. UNCHANGED reviewVars /\ UNCHANGED readVars
    BY <1>1
  <2> QED BY <1>1, <2>1, WritersKeep, WritersKeepReaderInv
<1>2. CASE Review!ReviewNext /\ UNCHANGED <<evidenceVars, readVars>>
  <2>1. UNCHANGED evidenceVars /\ UNCHANGED readVars
    BY <1>2
  <2> QED BY <1>2, <2>1, WritersKeep, WritersKeepReaderInv
<1>3. ASSUME UNCHANGED <<evidenceVars, reviewVars>>,
             \/ \E p \in Products, list \in RequestLists : Request(p, list)
             \/ Advance
      PROVE  IInv' /\ Queue!IInv' /\ ReaderInv'
  BY <1>3, ReadersKeepTables, RequestKeepsReaderInv, ReadProductKeepsReaderInv,
     ReadScenariosKeepsReaderInv, ReadCaseKeepsReaderInv, ReadCaseAgainKeepsReaderInv,
     ReadDecisionKeepsReaderInv, ReadApplicationKeepsReaderInv, ComposeKeepsReaderInv
     DEF Advance
<1>4. CASE UNCHANGED vars
  <2>1. UNCHANGED <<evidenceVars, reviewVars>> /\ UNCHANGED readVars
    BY <1>4 DEF vars
  <2>2. UNCHANGED <<product, cases, decisions, applications>>
    BY <2>1 DEF evidenceVars, reviewVars
  <2>3. \A q \in Products : Held(q) => Held(q)'
    BY <2>2 DEF Held
  <2> QED BY <2>1, <2>2, <2>3, ReadersKeepTables, WritersKeepReaderInv
<1> QED BY <1>1, <1>2, <1>3, <1>4 DEF ReadNext

\* The inductive invariant of the reader beside the writers.
THEOREM ReadInvariance == ReadSpec => []ReadIInv
BY InitReadIInv, StepKeepsReadIInv, PTL DEF ReadSpec

\* A read that begins after a purge committed is told nothing of the product.
THEOREM PurgeSafety == ReadSpec => []PurgedStaysHidden
<1>1. ReadIInv => PurgedStaysHidden
  BY DEF ReadIInv, ReaderInv, HoldIsNoticed, PurgedStaysHidden, Finished
<1> QED BY <1>1, ReadInvariance, PTL

\* The outcomes in effect in the queue are those of the applications.
LEMMA EffectIsTheOutcome ==
  ASSUME Queue!IInv, NEW a \in applications
  PROVE  OutcomeInEffect(a.target) = a.outcome
BY DEF Queue!IInv, Queue!OneDispositionPerTarget, OutcomeInEffect

LEMMA OutcomesFromReadIInv == ReadIInv => OutcomesAreInEffect
<1>1. ASSUME ReadIInv, Composition, NEW i \in DOMAIN reader.inputs
      PROVE  LET input == reader.inputs[i]
                 t == began.list[i] IN
             /\ input.target = t
             /\ input.projection # "unapplied" =>
                  /\ OutcomeInEffect(t) # "none"
                  /\ input.projection = Effective(OutcomeInEffect(t))
                  /\ \E c \in cases : c.target = t /\ input.seen = {c.snapshot}
             /\ began.effective[i] # "none" =>
                  input.projection = Effective(began.effective[i])
  <2> DEFINE input == reader.inputs[i]
             t == began.list[i]
  <2>1. AreAnswers(reader.inputs, began, applications) /\ IsRequest(began, applications)
        /\ Len(reader.inputs) = Len(began.list)
    <3>1. reader # NothingShown /\ reader.pc # "idle" /\ Finished
      BY <1>1 DEF Composition, Finished, NothingShown
    <3> QED BY <1>1, <3>1 DEF ReadIInv, ReaderInv, ResultIsComposed, RequestIsKept
  <2>2. IsAnswer(input, t, began.effective[i], applications)
    BY <2>1 DEF AreAnswers
  <2>3. i \in DOMAIN began.list
    BY <2>1, LenProperties DEF AreAnswers, IsRequest
  <2> HIDE DEF input, t
  <2>4. ASSUME input.projection # "unapplied"
        PROVE  /\ OutcomeInEffect(t) # "none"
               /\ input.projection = Effective(OutcomeInEffect(t))
               /\ \E c \in cases : c.target = t /\ input.seen = {c.snapshot}
    <3>1. PICK a \in applications : /\ a.target = t
                                    /\ input.projection = Effective(a.outcome)
                                    /\ input.seen = {a.case.snapshot}
      BY <2>2, <2>4 DEF IsAnswer
    <3>2. OutcomeInEffect(t) = a.outcome
      BY <1>1, <3>1, EffectIsTheOutcome DEF ReadIInv
    <3>3. a.case \in cases /\ a.case.target = t /\ a.outcome # "none"
      BY <1>1, <3>1, ApplicationRests DEF ReadIInv
    <3> QED BY <3>1, <3>2, <3>3
  <2>5. ASSUME began.effective[i] # "none"
        PROVE  input.projection = Effective(began.effective[i])
    <3>1. PICK a \in applications : a.target = t /\ a.outcome = began.effective[i]
      BY <2>1, <2>3, <2>5 DEF IsRequest, t
    <3>2. OutcomeInEffect(t) = began.effective[i]
      BY <1>1, <3>1, EffectIsTheOutcome DEF ReadIInv
    <3> QED BY <2>2, <2>4, <2>5, <3>2 DEF IsAnswer
  <2>6. input.target = t
    BY <2>2 DEF IsAnswer
  <2> QED BY <2>4, <2>5, <2>6 DEF input, t
<1> QED BY <1>1 DEF OutcomesAreInEffect

\* The reads of a target never mix two answers: what is reported is in effect
\* for exactly the target, and what was in effect at the start is not missed.
THEOREM OutcomeSafety == ReadSpec => []OutcomesAreInEffect
BY OutcomesFromReadIInv, ReadInvariance, PTL

--------------------------------------------------------------------------------
(* The composition: one target *)

IsGraph(g) ==
  /\ {"product", "scenarios", "envelopes"} \subseteq DOMAIN g
  /\ \A slot \in DOMAIN g.envelopes : "reviewState" \in DOMAIN g.envelopes[slot]

LEMMA LoadedIsGraph ==
  ASSUME NEW g, NEW p, IsLoaded(g, p)
  PROVE  /\ IsGraph(g)
         /\ g.product = p /\ g.scenarios \subseteq Scenarios
         /\ DOMAIN g.envelopes \subseteq DOMAIN Stored
         /\ \A slot \in DOMAIN g.envelopes : g.envelopes[slot] = Stored[slot]
<1>1. PICK columns \in SUBSET Columns, read \in SUBSET Scenarios :
        g = GraphOf(p, columns, read)
  BY DEF IsLoaded
<1>2. PICK slots \in SUBSET DOMAIN Stored :
        g = [product |-> p, scenarios |-> read, separated |-> Separated,
             onHold |-> OnHold, envelopes |-> [slot \in slots |-> Stored[slot]]]
  BY <1>1 DEF GraphOf
<1>3. /\ g.product = p /\ g.scenarios = read
      /\ g.envelopes = [slot \in slots |-> Stored[slot]]
      /\ {"product", "scenarios", "envelopes"} \subseteq DOMAIN g
  BY <1>2
<1> QED BY <1>3, ReadConstants DEF IsGraph

\* A review state takes a field only from its own projection.
LEMMA OutcomeIsProjection ==
  ASSUME NEW g, NEW input, InputOutcome(g, input) \in ReviewStates
  PROVE  /\ InputOutcome(g, input) = input.projection
         /\ Slot(input.target) \in DOMAIN g.envelopes
BY DEF InputOutcome, OverlayOutcome, ReviewStates

\* One target changes the review state of its own field at most.
LEMMA OverlaidStep ==
  ASSUME NEW g, IsGraph(g), NEW input
  PROVE  /\ IsGraph(Overlaid(g, input))
         /\ Overlaid(g, input).product = g.product
         /\ Overlaid(g, input).scenarios = g.scenarios
         /\ DOMAIN Overlaid(g, input).envelopes = DOMAIN g.envelopes
         /\ \A other \in DOMAIN g.envelopes \ {Slot(input.target)} :
              Overlaid(g, input).envelopes[other] = g.envelopes[other]
         /\ InputOutcome(g, input) \in ReviewStates =>
              Overlaid(g, input).envelopes[Slot(input.target)].reviewState = input.projection
         /\ InputOutcome(g, input) \notin ReviewStates => Overlaid(g, input) = g
<1> DEFINE h == Overlaid(g, input)
           slot == Slot(input.target)
           state == input.projection
           row == [g.envelopes[slot] EXCEPT !.reviewState = state]
           envelopes == [g.envelopes EXCEPT ![slot] = row]
<1>1. CASE InputOutcome(g, input) \in ReviewStates
  <2>1. slot \in DOMAIN g.envelopes /\ InputOutcome(g, input) = state
    BY <1>1, OutcomeIsProjection
  <2>2. h = [g EXCEPT !.envelopes = envelopes]
    BY <1>1, <2>1 DEF Overlaid, WithReviewState
  <2>3. row.reviewState = state /\ "reviewState" \in DOMAIN row
    BY <2>1 DEF IsGraph
  <2> HIDE DEF row
  <2>4. /\ DOMAIN envelopes = DOMAIN g.envelopes
        /\ envelopes[slot] = row
        /\ \A other \in DOMAIN g.envelopes \ {slot} : envelopes[other] = g.envelopes[other]
    BY <2>1
  <2> HIDE DEF envelopes
  <2>5. /\ DOMAIN h = DOMAIN g
        /\ h.envelopes = envelopes /\ h.product = g.product /\ h.scenarios = g.scenarios
    BY <2>2 DEF IsGraph
  <2>6. IsGraph(h)
    BY <2>1, <2>3, <2>4, <2>5 DEF IsGraph
  <2> HIDE DEF h, slot, state
  <2> QED BY <1>1, <2>1, <2>3, <2>4, <2>5, <2>6 DEF h, slot, state
<1>2. CASE InputOutcome(g, input) \notin ReviewStates
  <2>1. h = g
    BY <1>2 DEF Overlaid
  <2> QED BY <1>2, <2>1
<1> QED BY <1>1, <1>2

\* Whether a target is joined depends on its own field alone.
LEMMA OutcomeIsOfTheField ==
  ASSUME NEW g, NEW h, NEW input,
         h.product = g.product, h.scenarios = g.scenarios,
         DOMAIN h.envelopes = DOMAIN g.envelopes,
         Slot(input.target) \in DOMAIN g.envelopes =>
           h.envelopes[Slot(input.target)] = g.envelopes[Slot(input.target)]
  PROVE  InputOutcome(h, input) = InputOutcome(g, input)
BY DEF InputOutcome, OverlayOutcome, Present

--------------------------------------------------------------------------------
(* The composition: the targets in turn *)

\* The recursion of the composition, up to the target `m`.
IsTurns(f, g, ordered, m) ==
  f = [k \in 0..m |-> IF k = 0 THEN g ELSE Overlaid(f[k - 1], ordered[k])]

LEMMA TurnsExist ==
  ASSUME NEW g, NEW ordered, NEW n \in Nat
  PROVE  \E f : IsTurns(f, g, ordered, n)
<1> DEFINE Built(m) == \E f : IsTurns(f, g, ordered, m)
           Bad == {m \in 0..n : ~Built(m)}
<1> HIDE DEF Built
<1>1. SUFFICES ASSUME Bad # {}
               PROVE  Built(n)
  BY DEF Built
<1>2. Bad \in SUBSET Int /\ IsFiniteSet(Bad)
  <2>1. IsFiniteSet(0..n) /\ Bad \in SUBSET (0..n)
    BY FS_Interval
  <2>2. 0..n \subseteq Int
    OBVIOUS
  <2> HIDE DEF Bad
  <2> QED BY <2>1, <2>2, FS_Subset
<1>3. PICK m \in Bad : \A x \in Bad : m <= x
  <2> HIDE DEF Bad
  <2> QED BY <1>1, <1>2, LeastExists
<1>4. m \in 0..n /\ ~Built(m)
  OBVIOUS
<1>5. CASE m = 0
  <2> DEFINE f == [k \in 0..0 |-> g]
  <2>1. f = [k \in 0..0 |-> IF k = 0 THEN g ELSE Overlaid(f[k - 1], ordered[k])]
    OBVIOUS
  <2> HIDE DEF f
  <2>2. IsTurns(f, g, ordered, 0)
    BY <2>1 DEF IsTurns
  <2> QED BY <1>4, <1>5, <2>2 DEF Built
<1>6. CASE m # 0
  <2>1. m - 1 \in 0..n /\ m - 1 < m /\ m \in 1..n
    BY <1>4, <1>6
  <2>2. m - 1 \notin Bad
    BY <1>3, <2>1
  <2>3. PICK f : IsTurns(f, g, ordered, m - 1)
    BY <2>1, <2>2 DEF Built
  <2> DEFINE h == [k \in 0..m |-> IF k = m THEN Overlaid(f[m - 1], ordered[m]) ELSE f[k]]
  <2>4. ASSUME NEW k \in 0..m
        PROVE  h[k] = IF k = 0 THEN g ELSE Overlaid(h[k - 1], ordered[k])
    <3>1. CASE k = m
      <4>1. k # 0 /\ k - 1 \in 0..m /\ k - 1 # m
        BY <2>1, <3>1
      <4>2. h[k - 1] = f[m - 1] /\ h[k] = Overlaid(f[m - 1], ordered[m])
        BY <3>1, <4>1
      <4> QED BY <3>1, <4>1, <4>2
    <3>2. CASE k # m
      <4>1. k \in 0..m - 1
        BY <2>1, <3>2
      <4>2. h[k] = f[k]
        BY <3>2
      <4>3. f[k] = IF k = 0 THEN g ELSE Overlaid(f[k - 1], ordered[k])
        BY <2>3, <4>1 DEF IsTurns
      <4>4. k # 0 => h[k - 1] = f[k - 1]
        BY <2>1, <4>1
      <4> QED BY <4>2, <4>3, <4>4
    <3> QED BY <3>1, <3>2
  <2>5. h = [k \in 0..m |-> IF k = 0 THEN g ELSE Overlaid(h[k - 1], ordered[k])]
    <3>1. h = [k \in 0..m |-> h[k]]
      OBVIOUS
    <3> HIDE DEF h
    <3> QED BY <2>4, <3>1
  <2> HIDE DEF h
  <2>6. IsTurns(h, g, ordered, m)
    BY <2>5 DEF IsTurns
  <2> QED BY <1>4, <2>6 DEF Built
<1> QED BY <1>5, <1>6

\* What the recursion of the composition computes, target by target.
LEMMA TurnsAreTaken ==
  ASSUME NEW g, NEW ordered, Len(ordered) \in Nat
  PROVE  LET after == OverlaidInTurn(g, ordered) IN
         /\ after[0] = g
         /\ \A k \in 1..Len(ordered) : after[k] = Overlaid(after[k - 1], ordered[k])
<1> DEFINE n == Len(ordered)
           after == OverlaidInTurn(g, ordered)
<1>1. \E f : IsTurns(f, g, ordered, n)
  BY TurnsExist
<1>2. after = CHOOSE f : IsTurns(f, g, ordered, n)
  BY DEF OverlaidInTurn, IsTurns
<1>3. IsTurns(after, g, ordered, n)
  BY <1>1, <1>2
<1> HIDE DEF after
<1>4. \A k \in 0..n : after[k] = IF k = 0 THEN g ELSE Overlaid(after[k - 1], ordered[k])
  BY <1>3 DEF IsTurns
<1> QED BY <1>4 DEF after

\* The target at `j` was joined with the graph the targets before it left.
IsJoined(after, ordered, j) ==
  InputOutcome(after[j - 1], ordered[j]) \in ReviewStates

\* After `k` targets a field is as it was, none of its targets having been
\* joined, or has the review state of one of them that was.
IsTouched(after, g, ordered, k, slot) ==
  \/ /\ after[k].envelopes[slot] = g.envelopes[slot]
     /\ \A j \in 1..k : Slot(ordered[j].target) = slot => ~IsJoined(after, ordered, j)
  \/ \E j \in 1..k :
       /\ Slot(ordered[j].target) = slot
       /\ IsJoined(after, ordered, j)
       /\ after[k].envelopes[slot].reviewState = ordered[j].projection

AreTouched(after, g, ordered, k) ==
  /\ IsGraph(after[k])
  /\ after[k].product = g.product /\ after[k].scenarios = g.scenarios
  /\ DOMAIN after[k].envelopes = DOMAIN g.envelopes
  /\ \A slot \in DOMAIN g.envelopes : IsTouched(after, g, ordered, k, slot)

LEMMA TurnTouches ==
  ASSUME NEW after, NEW g, NEW ordered, NEW k \in Nat, k # 0,
         AreTouched(after, g, ordered, k - 1),
         after[k] = Overlaid(after[k - 1], ordered[k])
  PROVE  AreTouched(after, g, ordered, k)
<1> DEFINE own == Slot(ordered[k].target)
<1>0. PICK prior, input : prior = after[k - 1] /\ input = ordered[k]
  OBVIOUS
<1>1. /\ IsGraph(prior) /\ prior.product = g.product /\ prior.scenarios = g.scenarios
      /\ DOMAIN prior.envelopes = DOMAIN g.envelopes
  BY <1>0 DEF AreTouched
<1> DEFINE h == Overlaid(prior, input)
<1>2. /\ IsGraph(h) /\ h.product = prior.product /\ h.scenarios = prior.scenarios
      /\ DOMAIN h.envelopes = DOMAIN prior.envelopes
      /\ \A other \in DOMAIN prior.envelopes \ {Slot(input.target)} :
           h.envelopes[other] = prior.envelopes[other]
      /\ InputOutcome(prior, input) \in ReviewStates =>
           h.envelopes[Slot(input.target)].reviewState = input.projection
      /\ InputOutcome(prior, input) \notin ReviewStates => h = prior
  BY <1>1, OverlaidStep
<1> HIDE DEF h
<1>3. after[k] = h
  BY <1>0 DEF h
<1>4. /\ IsGraph(after[k])
      /\ after[k].product = g.product /\ after[k].scenarios = g.scenarios
      /\ DOMAIN after[k].envelopes = DOMAIN g.envelopes
      /\ \A other \in DOMAIN g.envelopes \ {own} :
           after[k].envelopes[other] = prior.envelopes[other]
      /\ IsJoined(after, ordered, k) =>
           after[k].envelopes[own].reviewState = ordered[k].projection
      /\ ~IsJoined(after, ordered, k) => after[k] = prior
  BY <1>0, <1>1, <1>2, <1>3 DEF IsJoined
<1>5. ASSUME NEW slot \in DOMAIN g.envelopes
      PROVE  IsTouched(after, g, ordered, k, slot)
  <2>1. IsTouched(after, g, ordered, k - 1, slot)
    BY DEF AreTouched
  <2>2. 1..k = (1..k - 1) \union {k} /\ k \in 1..k
    OBVIOUS
  <2>3. CASE slot = own /\ IsJoined(after, ordered, k)
    BY <1>4, <2>2, <2>3 DEF IsTouched
  <2>4. CASE ~(slot = own /\ IsJoined(after, ordered, k))
    <3>1. after[k].envelopes[slot] = prior.envelopes[slot]
      BY <1>4, <2>4
    <3> QED BY <1>0, <2>1, <2>2, <2>4, <3>1 DEF IsTouched
  <2> QED BY <2>3, <2>4
<1> QED BY <1>4, <1>5 DEF AreTouched

LEMMA TurnsTouch ==
  ASSUME NEW g, IsGraph(g), NEW ordered, Len(ordered) \in Nat
  PROVE  \A k \in 0..Len(ordered) : AreTouched(OverlaidInTurn(g, ordered), g, ordered, k)
<1> DEFINE n == Len(ordered)
           after == OverlaidInTurn(g, ordered)
           Bad == {k \in 0..n : ~AreTouched(after, g, ordered, k)}
<1>1. after[0] = g /\ \A k \in 1..n : after[k] = Overlaid(after[k - 1], ordered[k])
  BY TurnsAreTaken
<1> HIDE DEF after
<1>2. SUFFICES ASSUME Bad # {}
               PROVE  FALSE
  BY DEF after
<1>3. Bad \in SUBSET Int /\ IsFiniteSet(Bad)
  <2>1. IsFiniteSet(0..n) /\ Bad \in SUBSET (0..n)
    BY FS_Interval
  <2>2. 0..n \subseteq Int
    OBVIOUS
  <2> HIDE DEF Bad
  <2> QED BY <2>1, <2>2, FS_Subset
<1>4. PICK k \in Bad : \A x \in Bad : k <= x
  <2> HIDE DEF Bad
  <2> QED BY <1>2, <1>3, LeastExists
<1>5. k \in 0..n /\ ~AreTouched(after, g, ordered, k)
  OBVIOUS
<1>6. k # 0
  <2>1. 1..0 = {}
    OBVIOUS
  <2>2. AreTouched(after, g, ordered, 0)
    BY <1>1, <2>1 DEF AreTouched, IsTouched
  <2> QED BY <1>5, <2>2
<1>7. k \in Nat /\ k \in 1..n /\ k - 1 \in 0..n /\ k - 1 < k
  BY <1>5, <1>6
<1>8. k - 1 \notin Bad
  BY <1>4, <1>7
<1>9. AreTouched(after, g, ordered, k - 1)
  BY <1>7, <1>8
<1> HIDE DEF Bad
<1> QED BY <1>1, <1>5, <1>6, <1>7, <1>9, TurnTouches

--------------------------------------------------------------------------------
(* The composition: the order of the targets *)

\* The sort gives every input a place of its own.
LEMMA PlacesAreTaken ==
  ASSUME NEW inputs, NEW n \in Nat, DOMAIN inputs = 1..n,
         \A i \in 1..n : Rank(inputs[i].target) \in Nat
  PROVE  /\ \A i \in 1..n : Place(inputs, i) \in 1..n
         /\ \A i, j \in 1..n : Place(inputs, i) = Place(inputs, j) => i = j
         /\ \A k \in 1..n : \E i \in 1..n : Place(inputs, i) = k
<1> DEFINE Prior(i) == {j \in 1..n : Before(inputs, j, i)}
           rank(i) == Rank(inputs[i].target)
<1>1. \A i \in 1..n : rank(i) \in Nat
  OBVIOUS
<1>2. \A i, j \in 1..n : Before(inputs, i, j) <=> \/ rank(i) < rank(j)
                                                  \/ rank(i) = rank(j) /\ i < j
  BY DEF Before
<1> HIDE DEF rank
<1>3. \A i \in 1..n : ~Before(inputs, i, i)
  BY <1>1, <1>2
<1>4. \A i, j \in 1..n : i = j \/ Before(inputs, i, j) \/ Before(inputs, j, i)
  BY <1>1, <1>2
<1>5. ASSUME NEW h \in 1..n, NEW i \in 1..n, NEW j \in 1..n,
             Before(inputs, h, i), Before(inputs, i, j)
      PROVE  Before(inputs, h, j)
  <2>1. rank(h) \in Nat /\ rank(i) \in Nat /\ rank(j) \in Nat
    BY <1>1
  <2>2. rank(h) < rank(i) \/ (rank(h) = rank(i) /\ h < i)
    BY <1>2, <1>5
  <2>3. rank(i) < rank(j) \/ (rank(i) = rank(j) /\ i < j)
    BY <1>2, <1>5
  <2>4. rank(h) < rank(j) \/ (rank(h) = rank(j) /\ h < j)
    BY <2>1, <2>2, <2>3
  <2> QED BY <1>2, <2>4
<1>6. IsFiniteSet(1..n) /\ Cardinality(1..n) = n
  BY FS_Interval
<1>7. \A i \in 1..n : IsFiniteSet(Prior(i)) /\ Cardinality(Prior(i)) \in Nat
  <2>1. \A i \in 1..n : Prior(i) \in SUBSET (1..n)
    OBVIOUS
  <2> HIDE DEF Prior
  <2> QED BY <1>6, <2>1, FS_Subset, FS_CardinalityType
<1>8. ASSUME NEW i \in 1..n, NEW S \in SUBSET (1..n), Prior(i) \subseteq S, i \in S
      PROVE  Cardinality(Prior(i)) < Cardinality(S)
  <2>1. i \notin Prior(i)
    BY <1>3
  <2> HIDE DEF Prior
  <2>2. IsFiniteSet(S) /\ Cardinality(S) \in Nat
    BY <1>6, FS_Subset, FS_CardinalityType
  <2>3. Cardinality(Prior(i)) <= Cardinality(S) /\ Cardinality(Prior(i)) # Cardinality(S)
    BY <1>8, <2>1, <2>2, FS_Subset
  <2> QED BY <1>7, <2>2, <2>3
<1>9. \A i \in 1..n : Place(inputs, i) = Cardinality(Prior(i)) + 1
  BY DEF Place
<1>10. \A i \in 1..n : Place(inputs, i) \in 1..n
  <2> SUFFICES ASSUME NEW i \in 1..n
               PROVE  Place(inputs, i) \in 1..n
    OBVIOUS
  <2>1. Cardinality(Prior(i)) < n
    BY <1>6, <1>8
  <2> HIDE DEF Prior
  <2> QED BY <1>7, <1>9, <2>1
<1>11. ASSUME NEW i \in 1..n, NEW j \in 1..n, Before(inputs, i, j)
       PROVE  Place(inputs, i) < Place(inputs, j)
  <2>1. Prior(i) \subseteq Prior(j) /\ i \in Prior(j) /\ Prior(j) \in SUBSET (1..n)
    BY <1>5, <1>11
  <2>2. Cardinality(Prior(i)) < Cardinality(Prior(j))
    BY <1>8, <2>1
  <2> HIDE DEF Prior
  <2> QED BY <1>7, <1>9, <2>2
<1> HIDE DEF Prior
<1>12. ASSUME NEW i \in 1..n, NEW j \in 1..n, Place(inputs, i) = Place(inputs, j)
       PROVE  i = j
  <2>1. Place(inputs, i) \in Int /\ Place(inputs, j) \in Int
    BY <1>10
  <2>2. ~Before(inputs, i, j) /\ ~Before(inputs, j, i)
    BY <1>11, <1>12, <2>1
  <2> QED BY <1>4, <2>2
<1>13. \A k \in 1..n : \E i \in 1..n : Place(inputs, i) = k
  <2> DEFINE place == [i \in 1..n |-> Place(inputs, i)]
  <2>1. place \in [1..Cardinality(1..n) -> 1..n] /\ IsInjective(place)
    BY <1>6, <1>10, <1>12 DEF IsInjective
  <2>2. \A i \in 1..n : place[i] = Place(inputs, i)
    OBVIOUS
  <2> HIDE DEF place
  <2>3. \A k \in 1..n : \E i \in 1..Cardinality(1..n) : place[i] = k
    BY <1>6, <2>1, InjectionCovers
  <2> QED BY <1>6, <2>2, <2>3
<1> QED BY <1>10, <1>12, <1>13

\* The sort only rearranges: each input stands at its place.
LEMMA OrderedRearranges ==
  ASSUME NEW inputs \in Seq(Input)
  PROVE  /\ Ordered(inputs) \in Seq(Input)
         /\ Len(Ordered(inputs)) = Len(inputs)
         /\ \A i \in 1..Len(inputs) : /\ Place(inputs, i) \in 1..Len(inputs)
                                      /\ Ordered(inputs)[Place(inputs, i)] = inputs[i]
         /\ \A k \in 1..Len(inputs) :
              \E i \in 1..Len(inputs) : Place(inputs, i) = k /\ Ordered(inputs)[k] = inputs[i]
<1> DEFINE n == Len(inputs)
           ordered == Ordered(inputs)
           chosen(k) == CHOOSE i \in DOMAIN inputs : Place(inputs, i) = k
<1>1. n \in Nat /\ DOMAIN inputs = 1..n /\ \A i \in 1..n : inputs[i] \in Input
  BY LenProperties
<1>2. \A i \in 1..n : Rank(inputs[i].target) \in Nat
  BY <1>1, ReadConstants DEF Input
<1>3. ordered = [k \in 1..n |-> inputs[chosen(k)]]
  BY <1>1 DEF Ordered
<1> HIDE DEF ordered
<1>4. \A k \in 1..n : chosen(k) \in 1..n /\ Place(inputs, chosen(k)) = k
  BY <1>1, <1>2, PlacesAreTaken
<1> HIDE DEF chosen
<1>5. \A k \in 1..n : ordered[k] = inputs[chosen(k)]
  BY <1>3
<1>6. \A k \in 1..n :
        \E i \in 1..n : Place(inputs, i) = k /\ ordered[k] = inputs[i]
  BY <1>4, <1>5
<1>7. ASSUME NEW i \in 1..n
      PROVE  Place(inputs, i) \in 1..n /\ ordered[Place(inputs, i)] = inputs[i]
  <2>1. Place(inputs, i) \in 1..n
    BY <1>1, <1>2, PlacesAreTaken
  <2>2. chosen(Place(inputs, i)) = i
    BY <1>1, <1>2, <1>4, <2>1, PlacesAreTaken
  <2> QED BY <1>5, <2>1, <2>2
<1>8. ordered \in [1..n -> Input]
  BY <1>1, <1>3, <1>4
<1>9. ordered \in Seq(Input) /\ Len(ordered) = n
  BY <1>1, <1>8, LenProperties
<1> QED BY <1>6, <1>7, <1>9 DEF ordered

\* The composition changes review states only, each to that of a requested
\* target on the very field.
LEMMA CompositionTouches ==
  ASSUME NEW g, IsGraph(g), NEW inputs \in Seq(Input)
  PROVE  /\ Composed(g, inputs).graph.product = g.product
         /\ Composed(g, inputs).graph.scenarios = g.scenarios
         /\ DOMAIN Composed(g, inputs).graph.envelopes = DOMAIN g.envelopes
         /\ \A slot \in DOMAIN g.envelopes :
              \/ Composed(g, inputs).graph.envelopes[slot] = g.envelopes[slot]
              \/ \E i \in 1..Len(inputs) :
                   /\ Slot(inputs[i].target) = slot
                   /\ inputs[i].projection \in ReviewStates
                   /\ Composed(g, inputs).graph.envelopes[slot].reviewState
                        = inputs[i].projection
<1> DEFINE n == Len(inputs)
           ordered == Ordered(inputs)
           after == OverlaidInTurn(g, ordered)
           final == Composed(g, inputs).graph
<1>1. n \in Nat /\ Len(ordered) = n
  BY LenProperties, OrderedRearranges
<1>2. final = after[n]
  BY <1>1 DEF Composed
<1>3. AreTouched(after, g, ordered, n)
  BY <1>1, TurnsTouch
<1>4. ASSUME NEW slot \in DOMAIN g.envelopes, after[n].envelopes[slot] # g.envelopes[slot]
      PROVE  \E i \in 1..n : /\ Slot(inputs[i].target) = slot
                             /\ inputs[i].projection \in ReviewStates
                             /\ after[n].envelopes[slot].reviewState = inputs[i].projection
  <2>1. PICK j \in 1..n : /\ Slot(ordered[j].target) = slot
                          /\ IsJoined(after, ordered, j)
                          /\ after[n].envelopes[slot].reviewState = ordered[j].projection
    BY <1>3, <1>4 DEF AreTouched, IsTouched
  <2>2. ordered[j].projection \in ReviewStates
    BY <2>1, OutcomeIsProjection DEF IsJoined
  <2>3. \E i \in 1..n : ordered[j] = inputs[i]
    BY OrderedRearranges
  <2> HIDE DEF after, ordered
  <2> QED BY <2>1, <2>2, <2>3
<1> HIDE DEF final, after
<1>5. /\ final.product = g.product /\ final.scenarios = g.scenarios
      /\ DOMAIN final.envelopes = DOMAIN g.envelopes
  BY <1>2, <1>3 DEF AreTouched
<1> QED BY <1>2, <1>4, <1>5 DEF final

\* A target that is the only one on its field and fits the loaded graph gives
\* the field its own projection, whatever is composed before and after it.
LEMMA LoneTargetIsJoined ==
  ASSUME NEW g, IsGraph(g), NEW inputs \in Seq(Input), NEW i \in 1..Len(inputs),
         InputOutcome(g, inputs[i]) \in ReviewStates,
         \A j \in 1..Len(inputs) :
           Slot(inputs[j].target) = Slot(inputs[i].target) => j = i
  PROVE  /\ Slot(inputs[i].target) \in DOMAIN g.envelopes
         /\ Composed(g, inputs).graph.envelopes[Slot(inputs[i].target)].reviewState
              = inputs[i].projection
<1> DEFINE n == Len(inputs)
           ordered == Ordered(inputs)
           after == OverlaidInTurn(g, ordered)
           slot == Slot(inputs[i].target)
           k == Place(inputs, i)
<1>1. n \in Nat /\ Len(ordered) = n /\ k \in 1..n /\ ordered[k] = inputs[i]
  BY LenProperties, OrderedRearranges
<1>2. \A j \in 1..n : Slot(ordered[j].target) = slot => j = k
  <2> SUFFICES ASSUME NEW j \in 1..n, Slot(ordered[j].target) = slot
               PROVE  j = k
    OBVIOUS
  <2>1. PICK m \in 1..n : Place(inputs, m) = j /\ ordered[j] = inputs[m]
    BY OrderedRearranges
  <2> HIDE DEF ordered
  <2> QED BY <2>1
<1>3. slot \in DOMAIN g.envelopes
  BY OutcomeIsProjection
<1>4. AreTouched(after, g, ordered, k - 1) /\ AreTouched(after, g, ordered, n)
  <2>1. k - 1 \in 0..n /\ n \in 0..n
    BY <1>1
  <2> HIDE DEF k
  <2> QED BY <1>1, <2>1, TurnsTouch
<1>5. Composed(g, inputs).graph = after[n]
  BY <1>1 DEF Composed
<1> HIDE DEF ordered, after, slot, k
<1>6. after[k - 1].envelopes[slot] = g.envelopes[slot]
  <2>1. IsTouched(after, g, ordered, k - 1, slot)
    BY <1>3, <1>4 DEF AreTouched
  <2>2. \A j \in 1..k - 1 : j \in 1..n /\ j # k
    BY <1>1
  <2>3. \A j \in 1..k - 1 : Slot(ordered[j].target) # slot
    BY <1>2, <2>2
  <2> QED BY <2>1, <2>3 DEF IsTouched
<1>7. IsJoined(after, ordered, k)
  <2>1. PICK h : h = after[k - 1]
    OBVIOUS
  <2>2. InputOutcome(h, inputs[i]) = InputOutcome(g, inputs[i])
    <3>1. /\ h.product = g.product /\ h.scenarios = g.scenarios
          /\ DOMAIN h.envelopes = DOMAIN g.envelopes
      BY <1>4, <2>1 DEF AreTouched
    <3>2. h.envelopes[Slot(inputs[i].target)] = g.envelopes[Slot(inputs[i].target)]
      BY <1>6, <2>1 DEF slot
    <3> QED BY <3>1, <3>2, OutcomeIsOfTheField
  <2> QED BY <1>1, <2>1, <2>2 DEF IsJoined
<1>8. IsTouched(after, g, ordered, n, slot)
  BY <1>3, <1>4 DEF AreTouched
<1>9. after[n].envelopes[slot].reviewState = ordered[k].projection
  <2>1. Slot(ordered[k].target) = slot
    BY <1>1 DEF slot
  <2>2. PICK j \in 1..n : /\ Slot(ordered[j].target) = slot
                          /\ after[n].envelopes[slot].reviewState = ordered[j].projection
    BY <1>1, <1>7, <1>8, <2>1 DEF IsTouched
  <2> QED BY <1>2, <2>2
<1> QED BY <1>1, <1>3, <1>5, <1>9 DEF slot

--------------------------------------------------------------------------------
(* What a finished read shows *)

\* A composition is of a loaded graph and of true answers to the request.
LEMMA CompositionStands ==
  ASSUME ReadIInv, Finished, reader # NothingShown
  PROVE  /\ IsRequest(began, applications)
         /\ AreAnswers(reader.inputs, began, applications)
         /\ reader.inputs \in Seq(Input)
         /\ DOMAIN reader.inputs = 1..Len(reader.inputs)
         /\ DOMAIN began.list = DOMAIN reader.inputs
         /\ \A i \in DOMAIN reader.inputs :
              /\ began.list[i] \in Targets /\ began.list[i].product = began.p
              /\ reader.inputs[i] \in Input
              /\ IsAnswer(reader.inputs[i], began.list[i], began.effective[i], applications)
         /\ IsLoaded(reader.graph, began.p)
         /\ reader.final = Composed(reader.graph, reader.inputs).graph
         /\ reader.report = Composed(reader.graph, reader.inputs).report
         /\ reader.shown = Published(reader.final)
<1>1. /\ IsLoaded(reader.graph, began.p)
      /\ AreAnswers(reader.inputs, began, applications)
      /\ Len(reader.inputs) = Len(began.list)
      /\ reader.final = Composed(reader.graph, reader.inputs).graph
      /\ reader.report = Composed(reader.graph, reader.inputs).report
      /\ reader.shown = Published(reader.final)
  BY DEF ReadIInv, ReaderInv, ResultIsComposed
<1>2. IsRequest(began, applications)
  BY DEF ReadIInv, ReaderInv, RequestIsKept, Finished
<1>3. reader.inputs \in Seq(Input) /\ began.list \in Seq(Targets)
  BY <1>1, <1>2 DEF AreAnswers, IsRequest
<1>4. /\ DOMAIN reader.inputs = 1..Len(reader.inputs)
      /\ DOMAIN began.list = DOMAIN reader.inputs
  BY <1>1, <1>3, LenProperties
<1>5. \A i \in DOMAIN reader.inputs :
        /\ began.list[i] \in Targets /\ began.list[i].product = began.p
        /\ reader.inputs[i] \in Input
        /\ IsAnswer(reader.inputs[i], began.list[i], began.effective[i], applications)
  BY <1>1, <1>2, <1>3, <1>4, LenProperties DEF IsRequest, AreAnswers, OneProduct
<1> QED BY <1>1, <1>2, <1>3, <1>4, <1>5

LEMMA CompositionIsResult ==
  ASSUME ReadIInv, Composition
  PROVE  Finished /\ reader # NothingShown
BY DEF Composition, NothingShown

\* The tables and the reader keep their types.
THEOREM ReadTypeCorrectness == ReadSpec => []ReadTypeOK
<1>1. ASSUME ReadIInv
      PROVE  ReadTypeOK
  <2>1. TypeOK /\ Review!TypeOK
    BY <1>1, SameQueue DEF ReadIInv, IInv, Queue!IInv
  <2>2. reader.pc \in {"idle", "product", "scenarios", "case", "case_again",
                       "decision", "application", "compose", "done"}
    BY <1>1 DEF ReadIInv, ReaderInv, Phases, Loaded, LookingUp
  <2>3. ASSUME reader.pc \in {"case", "case_again", "decision", "application", "compose"}
        PROVE  /\ Len(reader.inputs) <= Len(reader.list)
               /\ \A i \in DOMAIN reader.inputs :
                    reader.inputs[i].projection \in ReviewStates \union {"unapplied"}
    <3>1. AreAnswers(reader.inputs, began, applications) /\ reader.list = began.list
      BY <1>1, <2>3
         DEF ReadIInv, ReaderInv, RequestIsKept, AnswersAreKept, Loaded, LookingUp
    <3>2. reader.inputs \in Seq(Input) /\ Len(reader.inputs) <= Len(reader.list)
      BY <3>1 DEF AreAnswers
    <3>3. \A i \in DOMAIN reader.inputs : reader.inputs[i] \in Input
      BY <3>2, LenProperties
    <3> QED BY <3>2, <3>3 DEF Input
  <2>4. ASSUME Finished
        PROVE  reader.shown \subseteq Scenarios
    <3>1. CASE reader = NothingShown
      BY <3>1 DEF NothingShown
    <3>2. CASE reader # NothingShown
      <4>1. /\ reader.inputs \in Seq(Input) /\ IsLoaded(reader.graph, began.p)
            /\ reader.final = Composed(reader.graph, reader.inputs).graph
            /\ reader.shown = Published(reader.final)
        BY <1>1, <2>4, <3>2, CompositionStands
      <4>2. reader.final.scenarios = reader.graph.scenarios
            /\ reader.graph.scenarios \subseteq Scenarios
        BY <4>1, LoadedIsGraph, CompositionTouches
      <4> QED BY <4>1, <4>2 DEF Published
    <3> QED BY <3>1, <3>2
  <2> QED BY <2>1, <2>2, <2>3, <2>4 DEF ReadTypeOK
<1> QED BY <1>1, ReadInvariance, PTL

\* A field is shown as approved only if it was saved so, or a requested target
\* on that very field has an approval in effect.
THEOREM BackedSafety == ReadSpec => []ApprovalIsBacked
<1>1. ASSUME ReadIInv, Composition, NEW slot \in DOMAIN reader.final.envelopes,
             reader.final.envelopes[slot].reviewState = "approved",
             Stored[slot].reviewState # "approved"
      PROVE  \E t \in Targets : /\ t \in {began.list[i] : i \in DOMAIN began.list}
                                /\ Slot(t) = slot
                                /\ OutcomeInEffect(t) = "approved"
  <2>1. Finished /\ reader # NothingShown
    BY <1>1, CompositionIsResult
  <2>2. /\ reader.inputs \in Seq(Input) /\ IsLoaded(reader.graph, began.p)
        /\ DOMAIN reader.inputs = 1..Len(reader.inputs)
        /\ DOMAIN began.list = DOMAIN reader.inputs
        /\ reader.final = Composed(reader.graph, reader.inputs).graph
        /\ \A i \in DOMAIN reader.inputs :
             /\ began.list[i] \in Targets
             /\ IsAnswer(reader.inputs[i], began.list[i], began.effective[i], applications)
    BY <1>1, <2>1, CompositionStands
  <2>3. /\ IsGraph(reader.graph)
        /\ \A other \in DOMAIN reader.graph.envelopes :
             reader.graph.envelopes[other] = Stored[other]
    BY <2>2, LoadedIsGraph
  <2>4. slot \in DOMAIN reader.graph.envelopes
    BY <1>1, <2>2, <2>3, CompositionTouches
  <2>5. PICK i \in 1..Len(reader.inputs) :
          /\ Slot(reader.inputs[i].target) = slot
          /\ reader.final.envelopes[slot].reviewState = reader.inputs[i].projection
    BY <1>1, <2>2, <2>3, <2>4, CompositionTouches
  <2>6. PICK t \in Targets : t = began.list[i]
    BY <2>2
  <2>7. PICK a \in applications :
          /\ a.target = t
          /\ Effective(a.outcome) = "approved"
    BY <1>1, <2>2, <2>5, <2>6 DEF IsAnswer
  <2>8. a.outcome = "approved"
    BY <1>1, <2>7, ApplicationRests DEF Effective, ReadIInv
  <2>9. OutcomeInEffect(t) = "approved"
    BY <1>1, <2>7, <2>8, EffectIsTheOutcome DEF ReadIInv
  <2>10. Slot(t) = slot /\ i \in DOMAIN began.list
    BY <2>2, <2>5, <2>6 DEF IsAnswer
  <2> QED BY <2>6, <2>9, <2>10
<1>2. ReadIInv => ApprovalIsBacked
  BY <1>1 DEF ApprovalIsBacked
<1> QED BY <1>2, ReadInvariance, PTL

\* The gate shows no scenario with an excluded value in a field it looks at.
LEMMA GateHoldsBack ==
  ASSUME NEW g, NEW s, NEW slot \in Gates(g.product, s),
         slot \in DOMAIN g.envelopes,
         g.envelopes[slot].reviewState \in {"rejected", "needs_more_evidence"}
  PROVE  s \notin Published(g)
<1>1. PICK e : e = g.envelopes[slot]
  OBVIOUS
<1>2. ~ApprovedValue(e) /\ ~PublishableValue(e) /\ ~PublishableUnknown(e)
  BY <1>1 DEF ApprovedValue, PublishableValue, PublishableUnknown, PublishableMetadata
<1>3. \A kinds : ~ClassifiedAs(e, kinds)
  BY <1>2 DEF ClassifiedAs
<1>4. Facet(e) = "none"
  BY <1>2 DEF Facet
<1>5. Projection(g, s) # "published"
  BY <1>1, <1>2, <1>3, <1>4 DEF Gates, Projection, FacetFields
<1> QED BY <1>5 DEF Published

\* An exclusion in effect when the read began hides every scenario its field
\* gates, if it is about the stored evidence and alone on its field.
THEOREM ExclusionSafety == ReadSpec => []ExclusionHides
<1>1. ASSUME ReadIInv, Composition, NEW i \in DOMAIN reader.inputs, NEW s \in Scenarios,
             began.effective[i] \in {"excluded_rejected", "excluded_needs_more_evidence"},
             AloneOnSlot(began.list[i], began.list),
             InputOutcome(reader.graph, reader.inputs[i]) \in ReviewStates,
             Slot(began.list[i]) \in Gates(began.list[i].product, s)
      PROVE  s \notin reader.shown
  <2>1. Finished /\ reader # NothingShown
    BY <1>1, CompositionIsResult
  <2>2. /\ reader.inputs \in Seq(Input) /\ IsLoaded(reader.graph, began.p)
        /\ DOMAIN reader.inputs = 1..Len(reader.inputs)
        /\ DOMAIN began.list = DOMAIN reader.inputs
        /\ reader.final = Composed(reader.graph, reader.inputs).graph
        /\ reader.shown = Published(reader.final)
        /\ IsRequest(began, applications)
        /\ \A j \in DOMAIN reader.inputs :
             /\ began.list[j] \in Targets /\ began.list[j].product = began.p
             /\ IsAnswer(reader.inputs[j], began.list[j], began.effective[j], applications)
    BY <1>1, <2>1, CompositionStands
  <2>3. IsGraph(reader.graph) /\ reader.graph.product = began.p
    BY <2>2, LoadedIsGraph
  <2> DEFINE slot == Slot(reader.inputs[i].target)
  <2>4. \A j \in DOMAIN reader.inputs : reader.inputs[j].target = began.list[j]
    BY <2>2 DEF IsAnswer
  <2>5. \A j \in 1..Len(reader.inputs) : Slot(reader.inputs[j].target) = slot => j = i
    BY <1>1, <2>2, <2>4 DEF AloneOnSlot, IsRequest, Distinct
  <2>6. reader.inputs[i].projection \in {"rejected", "needs_more_evidence"}
    <3>1. OutcomesAreInEffect
      BY <1>1, OutcomesFromReadIInv
    <3>2. reader.inputs[i].projection = Effective(began.effective[i])
      BY <1>1, <3>1 DEF OutcomesAreInEffect
    <3> QED BY <1>1, <3>2 DEF Effective
  <2>7. /\ slot \in DOMAIN reader.graph.envelopes
        /\ reader.final.envelopes[slot].reviewState = reader.inputs[i].projection
    BY <1>1, <2>2, <2>3, <2>5, LoneTargetIsJoined
  <2>8. /\ reader.final.product = began.p
        /\ DOMAIN reader.final.envelopes = DOMAIN reader.graph.envelopes
    BY <2>2, <2>3, CompositionTouches
  <2>9. slot \in Gates(reader.final.product, s)
    BY <1>1, <2>2, <2>4, <2>8
  <2> QED BY <2>2, <2>6, <2>7, <2>8, <2>9, GateHoldsBack
<1>2. ReadIInv => ExclusionHides
  BY <1>1 DEF ExclusionHides
<1> QED BY <1>2, ReadInvariance, PTL

--------------------------------------------------------------------------------
(* The order of the caller *)

\* The comparison of compareReviewTargets tells the targets apart.
RanksDiffer == \A t, u \in Targets : Rank(t) = Rank(u) => t = u

\* Where the sort puts `x` among the inputs `S`, in whatever order they come.
PlaceAmong(S, x) ==
  Cardinality({y \in S : Rank(y.target) < Rank(x.target)}) + 1

LEMMA PlaceIsAmong ==
  ASSUME NEW S, IsFiniteSet(S), NEW n \in Nat, NEW q \in Bijection(1..n, S),
         \A x, y \in S : Rank(x.target) = Rank(y.target) => x = y,
         \A x \in S : Rank(x.target) \in Nat
  PROVE  \A i \in 1..n : Place(q, i) = PlaceAmong(S, q[i])
<1> SUFFICES ASSUME NEW i \in 1..n
             PROVE  Place(q, i) = PlaceAmong(S, q[i])
  OBVIOUS
<1> DEFINE prior == {j \in 1..n : Before(q, j, i)}
           smaller == {y \in S : Rank(y.target) < Rank(q[i].target)}
           image == [j \in prior |-> q[j]]
<1>1. /\ q \in [1..n -> S] /\ DOMAIN q = 1..n
      /\ \A j, k \in 1..n : q[j] = q[k] => j = k
      /\ \A x \in S : \E j \in 1..n : q[j] = x
  BY DEF Bijection, Injection, IsInjective, Surjection
<1>2. ASSUME NEW j \in 1..n
      PROVE  Before(q, j, i) <=> Rank(q[j].target) < Rank(q[i].target)
  <2>1. Rank(q[j].target) \in Nat /\ Rank(q[i].target) \in Nat
    BY <1>1
  <2>2. Rank(q[j].target) = Rank(q[i].target) => j = i
    BY <1>1
  <2>3. j \in Int
    OBVIOUS
  <2> QED BY <2>1, <2>2, <2>3 DEF Before
<1>3. image \in Bijection(prior, smaller)
  <2>1. image \in [prior -> smaller]
    BY <1>1, <1>2
  <2>2. \A j, k \in prior : image[j] = image[k] => j = k
    BY <1>1
  <2>3. \A x \in smaller : \E j \in prior : image[j] = x
    BY <1>1, <1>2
  <2> HIDE DEF image, prior, smaller
  <2> QED BY <2>1, <2>2, <2>3 DEF Bijection, Injection, IsInjective, Surjection
<1>4. IsFiniteSet(prior)
  <2>1. IsFiniteSet(1..n) /\ prior \in SUBSET (1..n)
    BY FS_Interval
  <2> HIDE DEF prior
  <2> QED BY <2>1, FS_Subset
<1>5. Cardinality(smaller) = Cardinality(prior)
  <2> HIDE DEF image, prior, smaller
  <2> QED BY <1>3, <1>4, FS_Bijection DEF ExistsBijection
<1>6. Place(q, i) = Cardinality(prior) + 1
  BY <1>1 DEF Place
<1>7. PlaceAmong(S, q[i]) = Cardinality(smaller) + 1
  BY DEF PlaceAmong
<1> QED BY <1>5, <1>6, <1>7

\* Two orders of the same inputs are sorted into one.
LEMMA SortForgetsOrder ==
  ASSUME RanksDiffer,
         NEW inputs \in Seq(Input), NEW q \in Orders(inputs),
         \A i, j \in DOMAIN inputs : inputs[i].target = inputs[j].target => i = j
  PROVE  Ordered(q) = Ordered(inputs)
<1> DEFINE n == Len(inputs)
           S == {inputs[i] : i \in DOMAIN inputs}
<1>1. n \in Nat /\ DOMAIN inputs = 1..n /\ \A i \in 1..n : inputs[i] \in Input
  BY LenProperties
<1>2. q \in [1..n -> S] /\ \A i, j \in 1..n : q[i] = q[j] => i = j
  BY <1>1 DEF Orders, Distinct
<1>3. S \subseteq Input /\ \A x, y \in S : x.target = y.target => x = y
  BY <1>1
<1>4. \A x, y \in S : Rank(x.target) = Rank(y.target) => x = y
  BY <1>3 DEF RanksDiffer, Input
<1>5. \A x \in S : Rank(x.target) \in Nat
  BY <1>3, ReadConstants DEF Input
<1>6. inputs \in Bijection(1..n, S)
  <2>1. inputs \in [1..n -> S] /\ \A x \in S : \E i \in 1..n : inputs[i] = x
    BY <1>1, LenProperties
  <2>2. \A i, j \in 1..n : inputs[i] = inputs[j] => i = j
    BY <1>1
  <2> HIDE DEF S
  <2> QED BY <1>1, <2>1, <2>2 DEF Bijection, Injection, IsInjective, Surjection
<1> HIDE DEF S
<1>7. IsFiniteSet(S) /\ Cardinality(S) = n
  <2>1. IsFiniteSet(1..n) /\ Cardinality(1..n) = n
    BY <1>1, FS_Interval
  <2> QED BY <1>6, <2>1, FS_Bijection DEF ExistsBijection
<1>8. \A x \in S : \E i \in 1..n : q[i] = x
  <2>1. q \in [1..Cardinality(S) -> S] /\ IsInjective(q)
    BY <1>2, <1>7 DEF IsInjective
  <2>2. \A x \in S : \E i \in 1..Cardinality(S) : q[i] = x
    BY <1>7, <2>1, InjectionCovers
  <2> QED BY <1>7, <2>2
<1>9. q \in Bijection(1..n, S)
  BY <1>2, <1>8 DEF Bijection, Injection, IsInjective, Surjection
<1>10. q \in Seq(Input) /\ Len(q) = n
  <2>1. q \in [1..n -> Input]
    BY <1>2, <1>3
  <2> QED BY <1>1, <2>1, LenProperties
<1>11. /\ \A i \in 1..n : Place(q, i) = PlaceAmong(S, q[i])
       /\ \A i \in 1..n : Place(inputs, i) = PlaceAmong(S, inputs[i])
  BY <1>1, <1>4, <1>5, <1>6, <1>7, <1>9, PlaceIsAmong
<1>12. ASSUME NEW k \in 1..n
       PROVE  Ordered(q)[k] = Ordered(inputs)[k]
  <2>1. PICK m \in 1..n : Place(inputs, m) = k /\ Ordered(inputs)[k] = inputs[m]
    BY OrderedRearranges
  <2>2. inputs[m] \in S
    BY <1>1, <1>6 DEF S
  <2>3. PICK j \in 1..n : q[j] = inputs[m]
    BY <1>8, <2>2
  <2>4. Place(q, j) = k
    BY <1>11, <2>1, <2>3
  <2>5. Ordered(q)[k] = q[j]
    BY <1>10, <2>4, OrderedRearranges
  <2> QED BY <2>1, <2>3, <2>5
<1>13. /\ Ordered(q) \in [1..n -> Input] /\ Ordered(inputs) \in [1..n -> Input]
  BY <1>10, OrderedRearranges, LenProperties
<1> QED BY <1>12, <1>13

\* Where the comparison tells the targets apart, a batch does not depend on
\* the order in which the caller named them (composeReviewedOverlayBatch).
THEOREM OrderSafety ==
  ASSUME RanksDiffer
  PROVE  ReadSpec => []BatchIgnoresCallerOrder
<1>1. ASSUME ReadIInv, Composition, NEW order \in Orders(reader.inputs)
      PROVE  /\ Composed(reader.graph, order).graph = reader.final
             /\ Composed(reader.graph, order).report = reader.report
  <2>1. Finished /\ reader # NothingShown
    BY <1>1, CompositionIsResult
  <2>2. /\ reader.inputs \in Seq(Input) /\ IsRequest(began, applications)
        /\ DOMAIN began.list = DOMAIN reader.inputs
        /\ reader.final = Composed(reader.graph, reader.inputs).graph
        /\ reader.report = Composed(reader.graph, reader.inputs).report
        /\ \A i \in DOMAIN reader.inputs :
             IsAnswer(reader.inputs[i], began.list[i], began.effective[i], applications)
    BY <1>1, <2>1, CompositionStands
  <2>3. \A i, j \in DOMAIN reader.inputs :
          reader.inputs[i].target = reader.inputs[j].target => i = j
    BY <2>2 DEF IsAnswer, IsRequest, Distinct
  <2>4. Ordered(order) = Ordered(reader.inputs)
    BY <1>1, <2>2, <2>3, SortForgetsOrder
  <2>5. Composed(reader.graph, order) = Composed(reader.graph, reader.inputs)
    BY <2>4 DEF Composed
  <2> QED BY <2>2, <2>5
<1>2. ReadIInv => BatchIgnoresCallerOrder
  BY <1>1 DEF BatchIgnoresCallerOrder
<1> QED BY <1>2, ReadInvariance, PTL
================================================================================

------------------------ MODULE CollectionIntake_proofs ------------------------
(***************************************************************************)
(* Proofs about CollectionIntake and the pilot it starts from, for every   *)
(* site, set of pages, set of registries and bound that the assumptions    *)
(* allow.                                                                  *)
(***************************************************************************)
EXTENDS CollectionIntake, Ascending_proofs, SequenceTheorems

Docs == {"robots", "guideline", "terms"}
AnyText == RobotsTexts \union PolicyTexts

PilotShape ==
  /\ site \in [Docs -> AnyText]
  /\ served \in [Docs -> SUBSET AnyText]
  /\ pilot \in [phase : {"idle", "preflight", "listing"},
                approval : Digests \union {None},
                read : Seq(AnyText)]

\* The site's texts of now are among those it served since the run began.
ServedIsCurrent ==
  pilot.phase # "idle" => \A d \in Docs : site[d] \in served[d]

\* What was read was served at its time, and a listing follows its approval.
ReadWasServed ==
  /\ Len(pilot.read) <= Len(Documents)
  /\ \A i \in DOMAIN pilot.read : pilot.read[i] \in served[Documents[i]]

ListingIsApproved ==
  pilot.phase = "listing" =>
    /\ Len(pilot.read) = Len(Documents)
    /\ pilot.approval = pilot.read
    /\ Allows(pilot.read[1])

PilotInv ==
  /\ PilotShape
  /\ ServedIsCurrent
  /\ ReadWasServed
  /\ ListingIsApproved

LEMMA DocumentsAre ==
  /\ ToSet(Documents) = Docs
  /\ Len(Documents) = 3
  /\ Documents[1] = "robots" /\ Documents[2] = "guideline" /\ Documents[3] = "terms"
  /\ \A i \in 1..3 : Documents[i] \in Docs
<1>1. DOMAIN Documents = 1..3
  BY DEF Documents
<1>2. ToSet(Documents) = {Documents[1], Documents[2], Documents[3]}
  BY <1>1 DEF ToSet
<1> QED BY <1>1, <1>2 DEF Documents, Docs

--------------------------------------------------------------------------------
(* The pilot *)

LEMMA PilotInitially == PilotInit => PilotInv
<1> SUFFICES ASSUME PilotInit
             PROVE  PilotInv
  OBVIOUS
<1>1. site \in [Docs -> AnyText]
  BY DEF PilotInit, Sites, Docs, AnyText
<1>2. served \in [Docs -> SUBSET AnyText]
  BY DocumentsAre DEF PilotInit, NothingServed
<1>3. pilot = [phase |-> "idle", approval |-> None, read |-> <<>>]
  BY DEF PilotInit, IdlePilot
<1> QED BY <1>1, <1>2, <1>3, DocumentsAre
        DEF PilotInv, PilotShape, ServedIsCurrent, ReadWasServed, ListingIsApproved

\* A run that ends, leaves evidence and nothing else.
LEMMA LeavingKeepsPilotInv ==
  ASSUME PilotInv, pilot' = IdlePilot, served' = NothingServed, site' = site,
         Digests \subseteq Digests'
  PROVE  PilotInv'
<1>1. pilot' = [phase |-> "idle", approval |-> None, read |-> <<>>]
  BY DEF IdlePilot
<1>2. served' \in [Docs -> SUBSET AnyText]
  BY DocumentsAre DEF NothingServed
<1> QED BY <1>1, <1>2, DocumentsAre
        DEF PilotInv, PilotShape, ServedIsCurrent, ReadWasServed, ListingIsApproved

LEMMA DigestsGrow ==
  ASSUME evidence \subseteq evidence'
  PROVE  Digests \subseteq Digests'
BY DEF Digests

LEMMA LeaveKeepsPilotInv ==
  ASSUME PilotInv, NEW state, NEW digest, NEW requests, NEW records,
         Leave(state, digest, requests, records), site' = site
  PROVE  PilotInv'
<1>1. pilot' = IdlePilot /\ served' = NothingServed /\ evidence \subseteq evidence'
  BY DEF Leave
<1> QED BY <1>1, DigestsGrow, LeavingKeepsPilotInv

LEMMA PilotKeepsPilotInv ==
  ASSUME PilotInv, PilotNext
  PROVE  PilotInv'
<1> USE DocumentsAre
<1>1. CASE DryRun
  <2>1. UNCHANGED <<site, pilot, served>> /\ Digests \subseteq Digests'
    BY <1>1, DigestsGrow DEF DryRun
  <2> QED BY <2>1 DEF PilotInv, PilotShape, ServedIsCurrent, ReadWasServed, ListingIsApproved
<1>2. ASSUME NEW approval \in Digests \union {None}, Begin(approval)
      PROVE  PilotInv'
  <2>1. /\ pilot' = [phase |-> "preflight", approval |-> approval, read |-> <<>>]
        /\ served' = [d \in Docs |-> {site[d]}]
        /\ site' = site /\ Digests' = Digests
    BY <1>2 DEF Begin, Digests
  <2>2. PilotShape'
    BY <1>2, <2>1 DEF PilotInv, PilotShape
  <2> QED BY <2>1, <2>2 DEF PilotInv, ServedIsCurrent, ReadWasServed, ListingIsApproved
<1>3. CASE ReadPolicy
  <2> DEFINE n == Len(pilot.read)
             text == site[Documents[n + 1]]
  <2>1. /\ pilot.phase = "preflight"
        /\ pilot.read \in Seq(AnyText)
        /\ n \in Nat /\ n < 3
        /\ UNCHANGED <<site, served>> /\ Digests' = Digests
    BY <1>3 DEF ReadPolicy, Digests, PilotInv, PilotShape
  <2>2. text \in AnyText /\ text \in served[Documents[n + 1]]
    <3>1. Documents[n + 1] \in Docs
      BY <2>1
    <3> QED BY <2>1, <3>1 DEF PilotInv, PilotShape, ServedIsCurrent
  <2>3. /\ pilot' = [phase |-> "preflight", approval |-> pilot.approval,
                     read |-> Append(pilot.read, text)]
    BY <1>3, <2>1 DEF ReadPolicy, PilotInv, PilotShape
  <2> DEFINE longer == Append(pilot.read, text)
  <2> HIDE DEF text
  <2>4. /\ longer \in Seq(AnyText) /\ Len(longer) = n + 1
        /\ DOMAIN longer = 1..n + 1
        /\ \A i \in 1..n : longer[i] = pilot.read[i]
        /\ longer[n + 1] = text
        /\ DOMAIN pilot.read = 1..n
    BY <2>1, <2>2
  <2> HIDE DEF longer
  <2>5. PilotShape'
    BY <2>1, <2>3, <2>4 DEF PilotInv, PilotShape, longer
  <2>6. ReadWasServed'
    <3>1. \A i \in 1..n + 1 : longer[i] \in served[Documents[i]]
      BY <2>1, <2>2, <2>4 DEF PilotInv, ReadWasServed
    <3>2. pilot'.read = longer
      BY <2>3 DEF longer
    <3> QED BY <2>1, <2>4, <3>1, <3>2 DEF ReadWasServed
  <2> QED BY <2>1, <2>3, <2>5, <2>6 DEF PilotInv, ServedIsCurrent, ListingIsApproved
<1>4. CASE PreflightStops
  BY <1>4, LeaveKeepsPilotInv DEF PreflightStops
<1>5. CASE Judge
  <2>1. CASE MayList
    <3>1. /\ pilot.phase = "preflight" /\ Len(pilot.read) = 3
          /\ Allows(pilot.read[1]) /\ pilot.approval = pilot.read
          /\ UNCHANGED <<site, served, evidence>>
      BY <1>5, <2>1 DEF Judge, MayList
    <3>2. pilot' = [phase |-> "listing", approval |-> pilot.approval, read |-> pilot.read]
      BY <1>5, <2>1 DEF Judge, PilotInv, PilotShape
    <3>3. PilotShape'
      BY <3>1, <3>2 DEF PilotInv, PilotShape, Digests
    <3> QED BY <3>1, <3>2, <3>3 DEF PilotInv, ServedIsCurrent, ReadWasServed, ListingIsApproved
  <2>2. CASE ~MayList
    BY <1>5, <2>2, LeaveKeepsPilotInv DEF Judge
  <2> QED BY <2>1, <2>2
<1>6. ASSUME NEW links \in Pages, List(links)
      PROVE  PilotInv'
  BY <1>6, LeaveKeepsPilotInv DEF List
<1>7. CASE ListingStops
  BY <1>7, LeaveKeepsPilotInv DEF ListingStops
<1>8. CASE Kill
  <2>1. Digests \subseteq Digests'
    BY <1>8 DEF Kill, Digests
  <2> QED BY <1>8, <2>1, LeavingKeepsPilotInv DEF Kill
<1>9. ASSUME NEW d \in ToSet(Documents), NEW text \in TextsOf(d), Publish(d, text)
      PROVE  PilotInv'
  <2>1. /\ d \in Docs /\ text \in AnyText
        /\ pilot' = pilot /\ Digests' = Digests
        /\ site' = [site EXCEPT ![d] = text]
        /\ served' = IF pilot.phase = "idle" THEN served
                     ELSE [served EXCEPT ![d] = @ \union {text}]
    BY <1>9 DEF Publish, TextsOf, AnyText, Digests
  <2>2. site' \in [Docs -> AnyText] /\ served' \in [Docs -> SUBSET AnyText]
    BY <2>1 DEF PilotInv, PilotShape
  <2>3. \A e \in Docs : served[e] \subseteq served'[e]
    BY <2>1 DEF PilotInv, PilotShape
  <2>4. ServedIsCurrent'
    BY <2>1 DEF PilotInv, PilotShape, ServedIsCurrent
  <2>5. ReadWasServed'
    <3>1. \A i \in DOMAIN pilot.read : i \in 1..3
      BY DEF PilotInv, PilotShape, ReadWasServed
    <3> QED BY <2>1, <2>3, <3>1 DEF PilotInv, ReadWasServed
  <2> QED BY <2>1, <2>2, <2>4, <2>5 DEF PilotInv, PilotShape, ListingIsApproved
<1> QED BY <1>1, <1>2, <1>3, <1>4, <1>5, <1>6, <1>7, <1>8, <1>9 DEF PilotNext

--------------------------------------------------------------------------------
(* The listing and its evidence *)

\* The products of a page that can be extracted.
ProductsOf(links) == ToSet(links) \ {Foreign}

LEMMA CandidatesAreListed ==
  ASSUME NEW links \in Pages
  PROVE  /\ ProductsOf(links) \in SUBSET Int
         /\ IsFiniteSet(ProductsOf(links))
         /\ Lists(CandidatesOf(links), ProductsOf(links))
<1>1. links \in Seq(Int)
  BY PilotAssumption
<1>2. links \in [1..Len(links) -> Int] /\ Len(links) \in Nat
  BY <1>1
<1>3. ToSet(links) \in SUBSET Int
  BY <1>2 DEF ToSet
<1>4. IsFiniteSet(ToSet(links))
  <2>1. links \in Surjection(1..Len(links), ToSet(links))
    BY <1>2 DEF Surjection, ToSet
  <2>2. IsFiniteSet(1..Len(links))
    BY <1>2, FS_Interval
  <2> QED BY <2>1, <2>2, FS_Surjection
<1>5. ProductsOf(links) \in SUBSET ToSet(links)
  BY DEF ProductsOf
<1>6. IsFiniteSet(ProductsOf(links))
  BY <1>4, <1>5, FS_Subset
<1>7. ProductsOf(links) \in SUBSET Int
  BY <1>3, <1>5
<1>8. CandidatesOf(links) = InOrder(ProductsOf(links))
  BY DEF CandidatesOf, ProductsOf
<1> QED BY <1>6, <1>7, <1>8, InOrderLists

\* The evidence of a complete run holds the whole of the page it crawled.
EvidenceIsOfPages ==
  /\ crawled \subseteq Pages
  /\ \A e \in evidence : e.stop_state = "complete" =>
       \E links \in crawled :
         Extractable(links) /\ e.listing_records = <<Record(links)>>

LEMMA PilotKeepsEvidence ==
  ASSUME EvidenceIsOfPages, PilotNext
  PROVE  EvidenceIsOfPages'
<1>1. ASSUME NEW state, state # "complete", NEW digest, NEW requests, NEW records,
             Leave(state, digest, requests, records), crawled \subseteq crawled',
             crawled' \subseteq Pages
      PROVE  EvidenceIsOfPages'
  BY <1>1 DEF Leave, EvidenceIsOfPages
<1>2. CASE DryRun
  BY <1>2 DEF DryRun, DryRunEvidence, EvidenceIsOfPages
<1>3. CASE PreflightStops
  BY <1>1, <1>3 DEF PreflightStops, EvidenceIsOfPages
<1>4. CASE Judge
  <2>1. CASE MayList
    BY <1>4, <2>1 DEF Judge, EvidenceIsOfPages
  <2>2. CASE ~MayList
    BY <1>1, <1>4, <2>2 DEF Judge, EvidenceIsOfPages
  <2> QED BY <2>1, <2>2
<1>5. ASSUME NEW links \in Pages, List(links)
      PROVE  EvidenceIsOfPages'
  <2>1. crawled' = crawled \union {links} /\ crawled' \subseteq Pages
    BY <1>5 DEF List, EvidenceIsOfPages
  <2>2. CASE Extractable(links)
    <3>1. Leave("complete", pilot.read, 1, <<Record(links)>>)
      BY <1>5, <2>2 DEF List
    <3> DEFINE left ==
          [mode |-> "network", stop_state |-> "complete", policy_digest |-> pilot.read,
           listing_requests |-> 1, listing_records |-> <<Record(links)>>]
    <3>2. evidence' = evidence \union {left}
      BY <3>1 DEF Leave
    <3>3. left.listing_records = <<Record(links)>>
      OBVIOUS
    <3> HIDE DEF left
    <3> QED BY <2>1, <2>2, <3>2, <3>3 DEF EvidenceIsOfPages
  <2>3. CASE ~Extractable(links)
    BY <1>1, <1>5, <2>1, <2>3 DEF List
  <2> QED BY <2>2, <2>3
<1>6. CASE ListingStops
  BY <1>1, <1>6 DEF ListingStops, EvidenceIsOfPages
<1>7. ASSUME UNCHANGED <<evidence, crawled>>
      PROVE  EvidenceIsOfPages'
  BY <1>7 DEF EvidenceIsOfPages
<1> QED BY <1>2, <1>3, <1>4, <1>5, <1>6, <1>7
        DEF PilotNext, Begin, ReadPolicy, Kill, Publish

--------------------------------------------------------------------------------
(* The manifests *)

\* The manifest of a page, as it is stored.
ManifestRecord(sha, links) ==
  [source |-> [sha |-> sha, raw |-> links],
   entries |-> CandidatesOf(links),
   fingerprint |-> <<[sha |-> sha, raw |-> links], CandidatesOf(links)>>]

\* However the candidates of a page are arranged, they are valid together or
\* not at all, and normalise to the candidates.
LEMMA ArrangementsNormalize ==
  ASSUME NEW links \in Pages, NEW entries \in SetToSeqs(ToSet(CandidatesOf(links)))
  PROVE  /\ NormalizedEntries(entries) = CandidatesOf(links)
         /\ EntriesAreValid(entries) <=> EntriesAreValid(CandidatesOf(links))
<1> DEFINE S == ProductsOf(links)
           n == Cardinality(S)
           c == CandidatesOf(links)
<1>1. S \in SUBSET Int /\ IsFiniteSet(S) /\ Lists(c, S)
  BY CandidatesAreListed
<1>2. n \in Nat
  BY <1>1, FS_CardinalityType
<1> HIDE DEF S, c
<1>3. ToSet(c) = S
  BY <1>1 DEF Lists, ToSet
<1>4. entries \in [1..n -> S] /\ \A i, j \in 1..n : i # j => entries[i] # entries[j]
  BY <1>3 DEF SetToSeqs, c
<1>5. IsInjective(entries)
  BY <1>4 DEF IsInjective
<1>6. ToSet(entries) = S
  <2>1. \A x \in S : \E i \in 1..n : entries[i] = x
    BY <1>1, <1>4, <1>5, InjectionCovers
  <2> QED BY <1>4, <2>1 DEF ToSet
<1>7. IsInjective(c)
  <2>1. c \in [1..n -> S] /\ \A i, j \in 1..n : i < j => c[i] < c[j]
    BY <1>1 DEF Lists
  <2>2. ASSUME NEW i \in 1..n, NEW j \in 1..n, c[i] = c[j]
        PROVE  i = j
    <3>1. c[i] \in Int /\ c[j] \in Int
      BY <1>1, <2>1
    <3>2. ~(i < j) /\ ~(j < i)
      BY <2>1, <2>2, <3>1
    <3> HIDE DEF n
    <3> QED BY <1>2, <3>2
  <2> QED BY <2>1, <2>2 DEF IsInjective
<1>8. Len(entries) = n /\ Len(c) = n
  <2>1. c \in [1..n -> S]
    BY <1>1 DEF Lists
  <2> HIDE DEF n
  <2> QED BY <1>2, <1>4, <2>1
<1>9. entries = <<>> <=> c = <<>>
  <2>1. c \in [1..n -> S]
    BY <1>1 DEF Lists
  <2> HIDE DEF n
  <2> QED BY <1>2, <1>4, <1>8, <2>1
<1>10. c = InOrder(S)
  BY DEF CandidatesOf, ProductsOf, S, c
<1> QED BY <1>5, <1>6, <1>7, <1>8, <1>9, <1>10 DEF NormalizedEntries, EntriesAreValid, c

LEMMA CandidatesAreAnArrangement ==
  ASSUME NEW links \in Pages
  PROVE  CandidatesOf(links) \in SetToSeqs(ToSet(CandidatesOf(links)))
<1> DEFINE S == ProductsOf(links)
           n == Cardinality(S)
           c == CandidatesOf(links)
<1>1. S \in SUBSET Int /\ IsFiniteSet(S) /\ Lists(c, S)
  BY CandidatesAreListed
<1>2. n \in Nat
  BY <1>1, FS_CardinalityType
<1> HIDE DEF S, c
<1>3. ToSet(c) = S
  BY <1>1 DEF Lists, ToSet
<1>4. c \in [1..n -> S] /\ \A i, j \in 1..n : i < j => c[i] < c[j]
  BY <1>1 DEF Lists
<1>5. ASSUME NEW i \in 1..n, NEW j \in 1..n, i # j
      PROVE  c[i] # c[j]
  <2>1. c[i] \in Int /\ c[j] \in Int
    BY <1>1, <1>4
  <2> HIDE DEF n
  <2>2. i < j \/ j < i
    BY <1>2, <1>5
  <2> QED BY <1>4, <2>1, <2>2
<1> QED BY <1>3, <1>4, <1>5 DEF SetToSeqs, c

\* What arrives of a page's manifest is valid as soon as its candidates are,
\* and is validated into the manifest itself.
LEMMA ArrivedIsTheManifest ==
  ASSUME NEW sha, NEW links \in Pages, EntriesAreValid(CandidatesOf(links)),
         NEW entries \in SetToSeqs(ToSet(CandidatesOf(links)))
  PROVE  LET arrived == [ManifestRecord(sha, links) EXCEPT !.entries = entries]
         IN /\ ManifestIsValid(arrived)
            /\ Validated(arrived) = ManifestRecord(sha, links)
<1> DEFINE c == CandidatesOf(links)
           source == [sha |-> sha, raw |-> links]
           arrived == [ManifestRecord(sha, links) EXCEPT !.entries = entries]
<1>1. NormalizedEntries(entries) = c /\ EntriesAreValid(entries)
  BY ArrangementsNormalize
<1> HIDE DEF c
<1>2. arrived = [source |-> source, entries |-> entries, fingerprint |-> <<source, c>>]
  BY DEF ManifestRecord, c
<1>3. ManifestIsValid(arrived)
  BY <1>1, <1>2 DEF ManifestIsValid, Fingerprint
<1>4. Validated(arrived) = [arrived EXCEPT !.entries = c]
  BY <1>1, <1>2, <1>3 DEF Validated
<1>5. Validated(arrived) = ManifestRecord(sha, links)
  BY <1>2, <1>4 DEF ManifestRecord, c
<1> QED BY <1>3, <1>5

\* The manifest itself arrives like any other arrangement.
LEMMA ManifestIsItself ==
  ASSUME NEW sha, NEW links \in Pages, EntriesAreValid(CandidatesOf(links))
  PROVE  /\ ManifestIsValid(ManifestRecord(sha, links))
         /\ Validated(ManifestRecord(sha, links)) = ManifestRecord(sha, links)
<1>1. [ManifestRecord(sha, links) EXCEPT !.entries = CandidatesOf(links)]
        = ManifestRecord(sha, links)
  BY DEF ManifestRecord
<1> QED BY <1>1, CandidatesAreAnArrangement, ArrivedIsTheManifest

\* createDiscoveryManifest of a page's candidates.
LEMMA NewManifestIs ==
  ASSUME NEW sha, NEW links \in Pages
  PROVE  NewManifest(sha, links, CandidatesOf(links)) =
           IF EntriesAreValid(CandidatesOf(links)) THEN ManifestRecord(sha, links) ELSE None
<1>1. CASE EntriesAreValid(CandidatesOf(links))
  <2>1. NormalizedEntries(CandidatesOf(links)) = CandidatesOf(links)
    BY CandidatesAreAnArrangement, ArrangementsNormalize
  <2>2. NewManifest(sha, links, CandidatesOf(links)) = Validated(ManifestRecord(sha, links))
    BY <1>1, <2>1 DEF NewManifest, ManifestRecord, Fingerprint
  <2> QED BY <1>1, <2>2, ManifestIsItself
<1>2. CASE ~EntriesAreValid(CandidatesOf(links))
  BY <1>2 DEF NewManifest
<1> QED BY <1>1, <1>2

\* What a person makes of a run's evidence is the manifest of a crawled page.
LEMMA MadeOfAPage ==
  ASSUME EvidenceIsOfPages, NEW sha, NEW e \in evidence, ManifestOf(sha, e) # None
  PROVE  \E links \in crawled :
           /\ links \in Pages
           /\ Extractable(links)
           /\ EntriesAreValid(CandidatesOf(links))
           /\ ManifestOf(sha, e) = ManifestRecord(sha, links)
<1>1. ListingSucceeded(e)
  BY DEF ManifestOf
<1>2. PICK links \in crawled : Extractable(links) /\ e.listing_records = <<Record(links)>>
  BY <1>1 DEF EvidenceIsOfPages, ListingSucceeded
<1>3. links \in Pages
  BY DEF EvidenceIsOfPages
<1>4. ManifestOf(sha, e) = NewManifest(sha, links, CandidatesOf(links))
  BY <1>1, <1>2 DEF ManifestOf, Record
<1> QED BY <1>2, <1>3, <1>4, NewManifestIs

\* Every stored manifest is that of a crawled page, under its fingerprint.
ManifestRow(sha, links) ==
  [fingerprint |-> ManifestRecord(sha, links).fingerprint,
   source |-> ManifestRecord(sha, links).source,
   manifest |-> ManifestRecord(sha, links)]

ManifestsAreOfPages ==
  \A key \in DOMAIN manifests :
    \E sha \in Shas, links \in crawled :
      /\ links \in Pages
      /\ EntriesAreValid(CandidatesOf(links))
      /\ manifests[key] = ManifestRow(sha, links)
      /\ key = ManifestRecord(sha, links).fingerprint

LEMMA RowOfAPageIsVerified ==
  ASSUME NEW sha, NEW links \in Pages, EntriesAreValid(CandidatesOf(links))
  PROVE  RowIsVerified(ManifestRow(sha, links))
BY ManifestIsItself DEF RowIsVerified, ManifestRow

\* Accept, seen from the page whose manifest it is.
LEMMA AcceptIs ==
  ASSUME EvidenceIsOfPages, ManifestsAreOfPages,
         NEW sha \in Shas, NEW e \in evidence, Accept(sha, e)
  PROVE  \E links \in crawled :
           LET made == ManifestRecord(sha, links)
               key == made.fingerprint
           IN /\ links \in Pages
              /\ Extractable(links)
              /\ EntriesAreValid(CandidatesOf(links))
              /\ Validated(accepted'.manifest) = made
              /\ \/ /\ key \notin DOMAIN manifests
                    /\ manifests' = With(manifests, key, ManifestRow(sha, links))
                    /\ accepted'.state = "inserted"
                 \/ /\ key \in DOMAIN manifests
                    /\ manifests' = manifests
                    /\ accepted'.state =
                         IF Validated(manifests[key].manifest) = made
                           THEN "existing" ELSE "conflict"
<1> DEFINE made == ManifestOf(sha, e)
           key == made.fingerprint
           arrived(entries) == [made EXCEPT !.entries = entries]
<1>1. PICK links \in crawled :
        /\ links \in Pages
        /\ Extractable(links)
        /\ EntriesAreValid(CandidatesOf(links))
        /\ made = ManifestRecord(sha, links)
  BY MadeOfAPage DEF Accept
<1>2. PICK entries \in SetToSeqs(ToSet(made.entries)) :
        IF key \in DOMAIN manifests
          THEN /\ accepted' =
                    [state |-> IF SameManifest(manifests[key], arrived(entries))
                                 THEN "existing" ELSE "conflict",
                     manifest |-> arrived(entries)]
               /\ UNCHANGED manifests
          ELSE /\ manifests' =
                    With(manifests, key,
                         [fingerprint |-> key, source |-> arrived(entries).source,
                          manifest |-> Validated(arrived(entries))])
               /\ accepted' = [state |-> "inserted", manifest |-> arrived(entries)]
  BY DEF Accept
<1>3. entries \in SetToSeqs(ToSet(CandidatesOf(links)))
  BY <1>1 DEF ManifestRecord
<1>4. Validated(arrived(entries)) = ManifestRecord(sha, links)
  BY <1>1, <1>3, ArrivedIsTheManifest
<1>5. arrived(entries).source = ManifestRecord(sha, links).source
  BY <1>1 DEF ManifestRecord
<1> HIDE DEF made, arrived
<1>6. CASE key \in DOMAIN manifests
  BY <1>1, <1>2, <1>4, <1>6 DEF SameManifest
<1>7. CASE key \notin DOMAIN manifests
  BY <1>1, <1>2, <1>4, <1>5, <1>7 DEF ManifestRow
<1> QED BY <1>6, <1>7

--------------------------------------------------------------------------------
(* The registries *)

RegistryRow(registry) ==
  [registryVersion |-> registry.registryVersion,
   sha256 |-> Canonical(registry),
   manifest |-> Jsonb(registry)]

\* Every stored registry is a valid one that somebody sent, under its version.
RegistriesAreValid ==
  \A version \in DOMAIN registries :
    \E registry \in Registries :
      /\ ValidRegistry(registry)
      /\ registries[version] = RegistryRow(registry)
      /\ version = registry.registryVersion

\* The order of the keys of its JSON says nothing about a registry.
LEMMA KeysDoNotMatter ==
  ASSUME NEW registry \in Registries
  PROVE  LET stored == Jsonb(registry)
         IN /\ Canonical(stored) = Canonical(registry)
            /\ stored.registryVersion = registry.registryVersion
            /\ Canonical(registry).registryVersion = registry.registryVersion
            /\ stored.entities = registry.entities
            /\ stored.aliases = registry.aliases
            /\ ValidRegistry(stored) = ValidRegistry(registry)
<1> DEFINE stored == Jsonb(registry)
           sorted == Canonical(registry)
<1>1. registry = [registryVersion |-> registry.registryVersion,
                  wellFormed |-> registry.wellFormed, keys |-> registry.keys,
                  domains |-> registry.domains, entities |-> registry.entities,
                  aliases |-> registry.aliases]
  BY RegistryAssumption
<1>2. stored = [registryVersion |-> registry.registryVersion,
                wellFormed |-> registry.wellFormed, keys |-> "jsonb",
                domains |-> registry.domains, entities |-> registry.entities,
                aliases |-> registry.aliases]
  BY <1>1 DEF Jsonb
<1>3. sorted = [registryVersion |-> registry.registryVersion,
                wellFormed |-> registry.wellFormed, keys |-> "sorted",
                domains |-> registry.domains, entities |-> registry.entities,
                aliases |-> registry.aliases]
  BY <1>1 DEF Canonical
<1>4. Canonical(stored) = sorted
  BY <1>2, <1>3 DEF Canonical
<1>5. /\ stored.wellFormed = registry.wellFormed
      /\ stored.domains = registry.domains
      /\ stored.entities = registry.entities
      /\ stored.aliases = registry.aliases
      /\ stored.registryVersion = registry.registryVersion
      /\ sorted.registryVersion = registry.registryVersion
  BY <1>2, <1>3
<1> HIDE DEF stored, sorted
<1>6. ValidRegistry(stored) = ValidRegistry(registry)
  BY <1>5 DEF ValidRegistry, EvidenceIsOfficial, IdsAreGlobal, FamiliesAgree,
       AliasIsSound, NamesAreUnambiguous, LabelsAreAliases, OfType, Ids
<1> QED BY <1>4, <1>5, <1>6 DEF stored, sorted

LEMMA RowOfARegistryIsVerified ==
  ASSUME NEW registry \in Registries, ValidRegistry(registry)
  PROVE  SnapshotIsVerified(RegistryRow(registry))
BY KeysDoNotMatter DEF SnapshotIsVerified, RegistryRow

\* InstallRegistry, seen from the content of what is installed.
LEMMA InstallIs ==
  ASSUME RegistriesAreValid, NEW registry \in Registries, InstallRegistry(registry)
  PROVE  LET version == registry.registryVersion
         IN \/ /\ installed'.state = "refused"
               /\ registries' = registries
            \/ /\ ValidRegistry(registry)
               /\ installed'.manifest = registry
               /\ version \in DOMAIN registries
               /\ registries' = registries
               /\ installed'.state =
                    IF Canonical(registries[version].manifest) = Canonical(registry)
                      THEN "existing" ELSE "conflict"
            \/ /\ ValidRegistry(registry)
               /\ installed'.manifest = registry
               /\ version \notin DOMAIN registries
               /\ registries' = With(registries, version, RegistryRow(registry))
               /\ installed'.state = "inserted"
<1> DEFINE version == registry.registryVersion
<1>1. CASE ~ValidRegistry(registry)
  BY <1>1 DEF InstallRegistry
<1>2. CASE ValidRegistry(registry) /\ version \in DOMAIN registries
  <2>1. SameRegistry(registries[version], registry)
          <=> Canonical(registries[version].manifest) = Canonical(registry)
    BY <1>2 DEF InstallRegistry, SnapshotIsVerified, SameRegistry
  <2> QED BY <1>2, <2>1 DEF InstallRegistry
<1>3. CASE ValidRegistry(registry) /\ version \notin DOMAIN registries
  BY <1>3 DEF InstallRegistry, RegistryRow
<1> QED BY <1>1, <1>2, <1>3

--------------------------------------------------------------------------------
(* The inductive invariant *)

BoundsHold ==
  /\ started \in 0..MaxRuns
  /\ changes \in 0..MaxChanges
  /\ installs \in 0..MaxInstalls

IInv ==
  /\ PilotInv
  /\ EvidenceIsOfPages
  /\ ManifestsAreOfPages
  /\ RegistriesAreValid
  /\ BoundsHold

LEMMA Initially == Init => IInv
<1> SUFFICES ASSUME Init
             PROVE  IInv
  OBVIOUS
<1>1. PilotInv
  BY PilotInitially DEF Init
<1>2. EvidenceIsOfPages
  BY DEF Init, PilotInit, EvidenceIsOfPages
<1>3. ManifestsAreOfPages /\ RegistriesAreValid
  BY DEF Init, ManifestsAreOfPages, RegistriesAreValid
<1>4. BoundsHold
  BY PilotAssumption, RegistryAssumption DEF Init, PilotInit, BoundsHold
<1> QED BY <1>1, <1>2, <1>3, <1>4 DEF IInv

\* What leaves the pilot alone keeps what is known of it.
LEMMA PilotAtRest ==
  ASSUME UNCHANGED pilotVars
  PROVE  /\ PilotInv => PilotInv'
         /\ EvidenceIsOfPages => EvidenceIsOfPages'
BY DEF pilotVars, PilotInv, PilotShape, ServedIsCurrent, ReadWasServed, ListingIsApproved,
       Digests, EvidenceIsOfPages

LEMMA InstallKeepsIInv ==
  ASSUME IInv, NEW registry \in Registries, InstallRegistry(registry)
  PROVE  IInv'
<1>1. UNCHANGED <<pilotVars, manifests>>
  BY DEF InstallRegistry
<1>2. PilotInv' /\ EvidenceIsOfPages'
  BY <1>1, PilotAtRest DEF IInv
<1>3. ManifestsAreOfPages'
  BY <1>1 DEF IInv, ManifestsAreOfPages, pilotVars
<1>4. RegistriesAreValid'
  <2>1. CASE registries' = registries
    BY <2>1 DEF IInv, RegistriesAreValid
  <2>2. CASE /\ ValidRegistry(registry)
             /\ registries' =
                  With(registries, registry.registryVersion, RegistryRow(registry))
    BY <2>2 DEF IInv, RegistriesAreValid, With
  <2> QED BY <2>1, <2>2, InstallIs DEF IInv
<1>5. BoundsHold'
  BY <1>1, RegistryAssumption DEF IInv, BoundsHold, InstallRegistry, pilotVars
<1> QED BY <1>2, <1>3, <1>4, <1>5 DEF IInv

LEMMA AcceptKeepsIInv ==
  ASSUME IInv, NEW sha \in Shas, NEW e \in evidence, Accept(sha, e)
  PROVE  IInv'
<1>1. UNCHANGED <<pilotVars, registries, installs>>
  BY DEF Accept
<1>2. PilotInv' /\ EvidenceIsOfPages'
  BY <1>1, PilotAtRest DEF IInv
<1>3. crawled' = crawled
  BY <1>1 DEF pilotVars
<1>4. ManifestsAreOfPages'
  <2>1. CASE manifests' = manifests
    BY <1>3, <2>1 DEF IInv, ManifestsAreOfPages
  <2>2. ASSUME NEW links \in crawled, links \in Pages,
               EntriesAreValid(CandidatesOf(links)),
               manifests' = With(manifests, ManifestRecord(sha, links).fingerprint,
                                 ManifestRow(sha, links))
        PROVE  ManifestsAreOfPages'
    BY <1>3, <2>2 DEF IInv, ManifestsAreOfPages, With
  <2> QED BY <2>1, <2>2, AcceptIs DEF IInv
<1>5. RegistriesAreValid' /\ BoundsHold'
  BY <1>1 DEF IInv, RegistriesAreValid, BoundsHold, pilotVars
<1> QED BY <1>2, <1>4, <1>5 DEF IInv

LEMMA PilotKeepsIInv ==
  ASSUME IInv, PilotNext, UNCHANGED <<stores, answers, installs>>
  PROVE  IInv'
<1>1. PilotInv' /\ EvidenceIsOfPages'
  BY PilotKeepsPilotInv, PilotKeepsEvidence DEF IInv
<1>2. crawled \subseteq crawled'
  BY DEF PilotNext, DryRun, Begin, ReadPolicy, PreflightStops, Judge, List, ListingStops,
         Kill, Publish
<1>3. ManifestsAreOfPages' /\ RegistriesAreValid'
  BY <1>2 DEF IInv, ManifestsAreOfPages, RegistriesAreValid, stores
<1>4. started' \in 0..MaxRuns /\ changes' \in 0..MaxChanges
  <2>1. \/ started' = started
        \/ started < MaxRuns /\ started' = started + 1
    BY DEF PilotNext, DryRun, Begin, ReadPolicy, PreflightStops, Judge, List,
           ListingStops, Kill, Publish
  <2>2. \/ changes' = changes
        \/ changes < MaxChanges /\ changes' = changes + 1
    BY DEF PilotNext, DryRun, Begin, ReadPolicy, PreflightStops, Judge, List,
           ListingStops, Kill, Publish
  <2> QED BY <2>1, <2>2, PilotAssumption DEF IInv, BoundsHold
<1> QED BY <1>1, <1>3, <1>4 DEF IInv, BoundsHold

LEMMA NextKeepsIInv == IInv /\ [Next]_vars => IInv'
<1> SUFFICES ASSUME IInv, [Next]_vars
             PROVE  IInv'
  OBVIOUS
<1>1. CASE UNCHANGED vars
  BY <1>1, PilotAtRest
     DEF IInv, vars, stores, pilotVars, ManifestsAreOfPages, RegistriesAreValid, BoundsHold
<1>2. CASE Next
  BY <1>2, InstallKeepsIInv, AcceptKeepsIInv, PilotKeepsIInv DEF Next
<1> QED BY <1>1, <1>2

\* The parts of the inductive invariant hold in every reachable state.
THEOREM Invariance == Spec => []IInv
BY Initially, NextKeepsIInv, PTL DEF Spec

--------------------------------------------------------------------------------
(* What follows *)

\* The stores and the pilot keep what is of its kind.
THEOREM TypeCorrectness == Spec => []IntakeTypeOK
<1>1. ASSUME IInv
      PROVE  IntakeTypeOK
  <2>1. \A version \in DOMAIN registries : SnapshotIsVerified(registries[version])
    BY <1>1, RowOfARegistryIsVerified DEF IInv, RegistriesAreValid
  <2>2. ASSUME NEW key \in DOMAIN manifests
        PROVE  RowIsVerified(manifests[key]) /\ manifests[key].fingerprint = key
    BY <1>1, RowOfAPageIsVerified DEF IInv, ManifestsAreOfPages, ManifestRow
  <2>3. pilot.phase \in {"idle", "preflight", "listing"}
    BY <1>1 DEF IInv, PilotInv, PilotShape
  <2> QED BY <1>1, <2>1, <2>2, <2>3
          DEF IntakeTypeOK, IInv, PilotInv, ReadWasServed, ListingIsApproved, BoundsHold
<1> QED BY <1>1, Invariance, PTL

\* A sequence of three is a function on the three places.
LEMMA ThreeTexts ==
  ASSUME NEW S, NEW r \in Seq(S), Len(r) = 3
  PROVE  DOMAIN r = 1..3 /\ r \in [1..3 -> S]
<1>1. r \in [1..Len(r) -> S]
  BY LenProperties
<1> QED BY <1>1

\* A listing is asked for only on texts of this very run that a person approved
\* together from an earlier run's evidence, and that allow it: whatever the site
\* publishes between the documents, between the runs or before the listing.
THEOREM ApprovalSafety == Spec => []ListingFollowsApproval
<1>1. ASSUME IInv
      PROVE  ListingFollowsApproval
  <2> SUFFICES ASSUME pilot.phase = "listing"
               PROVE  /\ \A i \in DOMAIN Documents : pilot.approval[i] \in served[Documents[i]]
                      /\ pilot.approval \in Digests
                      /\ Allows(pilot.approval[1])
    BY DEF ListingFollowsApproval
  <2>1. /\ Len(pilot.read) = 3 /\ pilot.approval = pilot.read
        /\ Allows(pilot.read[1])
        /\ pilot.read \in Seq(AnyText)
        /\ pilot.approval \in Digests \union {None}
    BY <1>1, DocumentsAre DEF IInv, PilotInv, PilotShape, ListingIsApproved
  <2>2. DOMAIN pilot.read = 1..3 /\ pilot.read \in [1..3 -> AnyText]
    BY <2>1, ThreeTexts
  <2>3. pilot.read # None
    BY <2>2, NoneIsNoDigest, DocumentsAre DEF AnyDigest, AnyText
  <2>4. DOMAIN Documents = 1..3
    BY DEF Documents
  <2>5. \A i \in 1..3 : pilot.read[i] \in served[Documents[i]]
    BY <1>1, <2>2 DEF IInv, PilotInv, ReadWasServed
  <2> QED BY <2>1, <2>3, <2>4, <2>5
<1> QED BY <1>1, Invariance, PTL

\* The candidates of a name of one type are one.
LEMMA OneCandidate ==
  ASSUME NEW registry, ValidRegistry(registry), NEW text, NEW type \in TargetTypes,
         NEW alias \in registry.aliases, alias.type = type, alias.key = ComparisonKey[text]
  PROVE  Resolve(text, type, registry) =
           [state |-> "resolved", candidates |-> {[type |-> type, target |-> alias.target]}]
<1> DEFINE named == {a \in registry.aliases :
                       /\ a.type \in TargetTypes
                       /\ a.review = "approved"
                       /\ a.key = ComparisonKey[text]
                       /\ type \in {None, a.type}}
           one == [type |-> type, target |-> alias.target]
<1>1. \A a \in registry.aliases : AliasIsSound(registry, a)
  BY DEF ValidRegistry
<1>2. alias \in named
  BY <1>1 DEF AliasIsSound
<1>3. \A a \in named : a.type = type /\ a.target = alias.target /\ a.conflict = "clear"
  BY <1>1, RegistryAssumption DEF ValidRegistry, NamesAreUnambiguous, AliasIsSound
<1> HIDE DEF named
<1>4. Candidates(named) = {one}
  BY <1>2, <1>3 DEF Candidates
<1>5. Cardinality({one}) = 1
  BY FS_Singleton
<1> HIDE DEF one
<1>6. ~(\E a \in named : a.conflict = "hold_alias_conflict")
  BY <1>3
<1>7. ~(\E a, b \in Candidates(named) : a.type = b.type /\ a.target # b.target)
  BY <1>4
<1>8. ~(Cardinality(Candidates(named)) > 1)
  BY <1>4, <1>5
<1> QED BY <1>2, <1>4, <1>6, <1>7, <1>8 DEF Resolve, named, one

\* A name of a valid registry is never held, and ambiguous at most while its
\* type is open.
LEMMA NamesResolve ==
  ASSUME NEW registry, ValidRegistry(registry), NEW text
  PROVE  /\ Resolve(text, None, registry).state # "hold_alias_conflict"
         /\ \A type \in TargetTypes :
              Resolve(text, type, registry).state \in {"no_match", "resolved"}
<1>1. Resolve(text, None, registry).state # "hold_alias_conflict"
  <2> DEFINE named == {a \in registry.aliases :
                         /\ a.type \in TargetTypes
                         /\ a.review = "approved"
                         /\ a.key = ComparisonKey[text]
                         /\ None \in {None, a.type}}
  <2>1. \A a \in named : a.conflict = "clear"
    BY DEF ValidRegistry, AliasIsSound
  <2>2. \A a, b \in named : a.type = b.type => a.target = b.target
    BY DEF ValidRegistry, NamesAreUnambiguous
  <2> HIDE DEF named
  <2>3. ~(\E a \in named : a.conflict = "hold_alias_conflict")
    BY <2>1
  <2>4. ~(\E a, b \in Candidates(named) : a.type = b.type /\ a.target # b.target)
    BY <2>2 DEF Candidates
  <2> QED BY <2>3, <2>4 DEF Resolve, named
<1>2. ASSUME NEW type \in TargetTypes
      PROVE  Resolve(text, type, registry).state \in {"no_match", "resolved"}
  <2> DEFINE named == {a \in registry.aliases :
                         /\ a.type \in TargetTypes
                         /\ a.review = "approved"
                         /\ a.key = ComparisonKey[text]
                         /\ type \in {None, a.type}}
  <2>1. CASE named = {}
    <3> HIDE DEF named
    <3>1. Candidates(named) = {}
      BY <2>1 DEF Candidates
    <3>2. ~(Cardinality(Candidates(named)) > 1)
      BY <3>1, FS_EmptySet
    <3> QED BY <2>1, <3>1, <3>2 DEF Resolve, named
  <2>2. CASE named # {}
    <3>1. PICK alias \in registry.aliases :
            alias.type = type /\ alias.key = ComparisonKey[text]
      BY <2>2, RegistryAssumption
    <3> QED BY <3>1, OneCandidate
  <2> QED BY <2>1, <2>2
<1> QED BY <1>1, <1>2

\* Every stored registry answers each entity's label with that entity, and
\* holds no name for a conflict.
THEOREM ResolveSafety == Spec => []InstalledResolves
<1>1. ASSUME IInv, NEW version \in DOMAIN registries
      PROVE  LET registry == registries[version].manifest
             IN /\ \A e \in registry.entities :
                     Resolve(e.label, e.type, registry) =
                       [state |-> "resolved",
                        candidates |-> {[type |-> e.type, target |-> e.id]}]
                /\ \A text \in Texts :
                     /\ Resolve(text, None, registry).state # "hold_alias_conflict"
                     /\ \A type \in TargetTypes :
                          Resolve(text, type, registry).state \in {"no_match", "resolved"}
  <2> DEFINE registry == registries[version].manifest
  <2>1. ValidRegistry(registry)
    BY <1>1, RowOfARegistryIsVerified DEF IInv, RegistriesAreValid, SnapshotIsVerified
  <2> HIDE DEF registry
  <2>2. ASSUME NEW e \in registry.entities
        PROVE  Resolve(e.label, e.type, registry) =
                 [state |-> "resolved",
                  candidates |-> {[type |-> e.type, target |-> e.id]}]
    <3>1. PICK alias \in registry.aliases :
            alias.type = e.type /\ alias.target = e.id /\ alias.text = e.label
      BY <2>1 DEF ValidRegistry, LabelsAreAliases
    <3>2. alias.key = ComparisonKey[e.label] /\ e.type \in TargetTypes
      BY <2>1, <3>1 DEF ValidRegistry, AliasIsSound
    <3> QED BY <2>1, <3>1, <3>2, OneCandidate
  <2> QED BY <2>1, <2>2, NamesResolve DEF registry
<1>2. ASSUME IInv
      PROVE  InstalledResolves
  BY <1>1, <1>2 DEF InstalledResolves
<1> QED BY <1>2, Invariance, PTL

\* Every stored manifest is the whole of a page that an approved run crawled.
THEOREM CompletenessSafety == Spec => []IntakeIsComplete
<1>1. ASSUME IInv, NEW key \in DOMAIN manifests
      PROVE  LET identities == Report(key).identities
             IN \E links \in crawled :
                  /\ manifests[key].source.raw = links
                  /\ {identities[i].productId : i \in DOMAIN identities} =
                       ToSet(links) \ {Foreign}
                  /\ \A i, j \in DOMAIN identities :
                       i < j => identities[i].productId < identities[j].productId
                  /\ \A i \in DOMAIN identities : ~identities[i].detailAccessAuthorized
  <2> DEFINE identities == Report(key).identities
  <2>1. PICK sha \in Shas, links \in crawled :
          /\ links \in Pages
          /\ EntriesAreValid(CandidatesOf(links))
          /\ manifests[key] = ManifestRow(sha, links)
    BY <1>1 DEF IInv, ManifestsAreOfPages
  <2> DEFINE c == CandidatesOf(links)
             S == ProductsOf(links)
             n == Cardinality(S)
  <2>2. Validated(manifests[key].manifest) = ManifestRecord(sha, links)
    BY <2>1, ManifestIsItself DEF ManifestRow
  <2>3. Lists(c, S)
    BY <2>1, CandidatesAreListed
  <2> HIDE DEF c, S
  <2>4. DOMAIN c = 1..n
    BY <2>3 DEF Lists
  <2>5. identities = [i \in DOMAIN c |->
                        [productId |-> c[i], ageState |-> "unknown",
                         detailAccessAuthorized |-> FALSE, publicationEligible |-> FALSE]]
    BY <1>1, <2>2 DEF Report, BlockedIdentities, ManifestRecord, c
  <2> HIDE DEF identities
  <2>6. /\ DOMAIN identities = 1..n
        /\ \A i \in 1..n : /\ identities[i].productId = c[i]
                           /\ ~identities[i].detailAccessAuthorized
    BY <2>4, <2>5
  <2>7. {identities[i].productId : i \in DOMAIN identities} = S
    <3>1. \A i \in 1..n : c[i] \in S
      BY <2>3 DEF Lists
    <3>2. \A x \in S : \E i \in 1..n : c[i] = x
      BY <2>3 DEF Lists
    <3> HIDE DEF n
    <3> QED BY <2>6, <3>1, <3>2
  <2>8. \A i, j \in DOMAIN identities :
          i < j => identities[i].productId < identities[j].productId
    BY <2>3, <2>6 DEF Lists
  <2>9. manifests[key].source.raw = links
    BY <2>1 DEF ManifestRow, ManifestRecord
  <2> QED BY <2>6, <2>7, <2>8, <2>9 DEF identities, S, ProductsOf
<1>2. ASSUME IInv
      PROVE  IntakeIsComplete
  BY <1>1, <1>2 DEF IntakeIsComplete
<1> QED BY <1>2, Invariance, PTL

--------------------------------------------------------------------------------
(* Refinement: both stores are InstallOnce *)

LEMMA OnceInitially ==
  Init => RegistryOnce!OnceInit /\ ManifestOnce!OnceInit
BY DEF Init, AnswerOf, RegistryOnce!OnceInit, ManifestOnce!OnceInit

\* Installing a registry is refusing, inserting, recognising or contradicting
\* its canonical content.
LEMMA InstallRefines ==
  ASSUME IInv, NEW registry \in Registries, InstallRegistry(registry)
  PROVE  RegistryOnce!OnceNext
<1> DEFINE version == registry.registryVersion
           c == Canonical(registry)
           stored == [v \in DOMAIN registries |-> Canonical(registries[v].manifest)]
<1>1. VersionOf(c) = version
  BY KeysDoNotMatter DEF VersionOf
<1>2. CASE installed'.state = "refused" /\ registries' = registries
  <2>1. RegistryOnce!Refuse
    BY <1>2 DEF RegistryOnce!Refuse, AnswerOf
  <2> QED BY <2>1 DEF RegistryOnce!OnceNext
<1>3. CASE /\ ValidRegistry(registry)
           /\ installed'.manifest = registry
           /\ version \in DOMAIN registries
           /\ registries' = registries
           /\ installed'.state =
                IF Canonical(registries[version].manifest) = c
                  THEN "existing" ELSE "conflict"
  <2>1. c \in ValidRegistries
    BY <1>3 DEF ValidRegistries
  <2>2. AnswerOf(installed, Canonical)' = [state |-> installed'.state, content |-> c]
    BY <1>3 DEF AnswerOf
  <2>3. RegistryOnce!Recognize(c) \/ RegistryOnce!Conflict(c)
    BY <1>1, <1>3, <2>2
       DEF RegistryOnce!Recognize, RegistryOnce!Conflict, RegistryOnce!Answer
  <2> QED BY <2>1, <2>3 DEF RegistryOnce!OnceNext
<1>4. CASE /\ ValidRegistry(registry)
           /\ installed'.manifest = registry
           /\ version \notin DOMAIN registries
           /\ registries' = With(registries, version, RegistryRow(registry))
           /\ installed'.state = "inserted"
  <2>1. c \in ValidRegistries
    BY <1>4 DEF ValidRegistries
  <2>2. AnswerOf(installed, Canonical)' = [state |-> "inserted", content |-> c]
    BY <1>4 DEF AnswerOf
  <2>3. DOMAIN registries' = DOMAIN registries \union {version}
    BY <1>4 DEF With
  <2>4. \A v \in DOMAIN registries' :
          Canonical(registries'[v].manifest) = IF v = version THEN c ELSE stored[v]
    BY <1>4, KeysDoNotMatter DEF With, RegistryRow
  <2>5. stored' = [v \in DOMAIN stored \union {version} |->
                     IF v = version THEN c ELSE stored[v]]
    BY <2>3, <2>4
  <2>6. RegistryOnce!Insert(c)
    BY <1>1, <1>4, <2>2, <2>5 DEF RegistryOnce!Insert, RegistryOnce!Answer
  <2> QED BY <2>1, <2>6 DEF RegistryOnce!OnceNext
<1> QED BY <1>2, <1>3, <1>4, InstallIs DEF IInv

\* Accepting a manifest is inserting, recognising or contradicting it.
LEMMA AcceptRefines ==
  ASSUME IInv, NEW sha \in Shas, NEW e \in evidence, Accept(sha, e)
  PROVE  ManifestOnce!OnceNext
<1> DEFINE made(links) == ManifestRecord(sha, links)
           stored == [k \in DOMAIN manifests |-> Validated(manifests[k].manifest)]
<1>1. PICK links \in crawled :
        /\ links \in Pages
        /\ Extractable(links)
        /\ EntriesAreValid(CandidatesOf(links))
        /\ Validated(accepted'.manifest) = made(links)
        /\ \/ /\ made(links).fingerprint \notin DOMAIN manifests
              /\ manifests' = With(manifests, made(links).fingerprint, ManifestRow(sha, links))
              /\ accepted'.state = "inserted"
           \/ /\ made(links).fingerprint \in DOMAIN manifests
              /\ manifests' = manifests
              /\ accepted'.state =
                   IF Validated(manifests[made(links).fingerprint].manifest) = made(links)
                     THEN "existing" ELSE "conflict"
  BY AcceptIs DEF IInv
<1> DEFINE m == made(links)
           key == m.fingerprint
<1>2. m \in Manifests
  <2>1. m = NewManifest(sha, links, CandidatesOf(links))
    BY <1>1, NewManifestIs
  <2> QED BY <1>1, <2>1 DEF Manifests
<1>3. FingerprintOf(m) = key
  BY DEF FingerprintOf
<1>4. AnswerOf(accepted, Validated)' = [state |-> accepted'.state, content |-> m]
  BY <1>1 DEF AnswerOf
<1> HIDE DEF made
<1>5. CASE key \notin DOMAIN manifests
  <2>1. manifests' = With(manifests, key, ManifestRow(sha, links))
        /\ accepted'.state = "inserted"
    BY <1>1, <1>5
  <2>2. DOMAIN manifests' = DOMAIN manifests \union {key}
    BY <2>1 DEF With
  <2>3. Validated(ManifestRow(sha, links).manifest) = m
    BY <1>1, ManifestIsItself DEF ManifestRow, made
  <2>4. \A k \in DOMAIN manifests' :
          Validated(manifests'[k].manifest) = IF k = key THEN m ELSE stored[k]
    BY <2>1, <2>3 DEF With
  <2>5. stored' = [k \in DOMAIN stored \union {key} |->
                     IF k = key THEN m ELSE stored[k]]
    BY <2>2, <2>4
  <2>6. ManifestOnce!Insert(m)
    BY <1>3, <1>4, <1>5, <2>1, <2>5 DEF ManifestOnce!Insert, ManifestOnce!Answer
  <2> QED BY <1>2, <2>6 DEF ManifestOnce!OnceNext
<1>6. CASE key \in DOMAIN manifests
  <2>1. /\ manifests' = manifests
        /\ accepted'.state = IF Validated(manifests[key].manifest) = m
                              THEN "existing" ELSE "conflict"
    BY <1>1, <1>6
  <2>2. ManifestOnce!Recognize(m) \/ ManifestOnce!Conflict(m)
    BY <1>3, <1>4, <1>6, <2>1
       DEF ManifestOnce!Recognize, ManifestOnce!Conflict, ManifestOnce!Answer
  <2> QED BY <1>2, <2>2 DEF ManifestOnce!OnceNext
<1> QED BY <1>5, <1>6

LEMMA StepRefines ==
  IInv /\ [Next]_vars
    => /\ [RegistryOnce!OnceNext]_RegistryOnce!onceVars
       /\ [ManifestOnce!OnceNext]_ManifestOnce!onceVars
<1> SUFFICES ASSUME IInv, [Next]_vars
             PROVE  /\ [RegistryOnce!OnceNext]_RegistryOnce!onceVars
                    /\ [ManifestOnce!OnceNext]_ManifestOnce!onceVars
  OBVIOUS
<1>1. UNCHANGED <<registries, installed>> => UNCHANGED RegistryOnce!onceVars
  BY DEF RegistryOnce!onceVars
<1>2. UNCHANGED <<manifests, accepted>> => UNCHANGED ManifestOnce!onceVars
  BY DEF ManifestOnce!onceVars
<1>3. ASSUME NEW registry \in Registries, InstallRegistry(registry)
      PROVE  /\ [RegistryOnce!OnceNext]_RegistryOnce!onceVars
             /\ [ManifestOnce!OnceNext]_ManifestOnce!onceVars
  <2>1. UNCHANGED <<manifests, accepted>>
    BY <1>3 DEF InstallRegistry
  <2> QED BY <1>2, <1>3, <2>1, InstallRefines
<1>4. ASSUME NEW sha \in Shas, NEW e \in evidence, Accept(sha, e)
      PROVE  /\ [RegistryOnce!OnceNext]_RegistryOnce!onceVars
             /\ [ManifestOnce!OnceNext]_ManifestOnce!onceVars
  <2>1. UNCHANGED <<registries, installed>>
    BY <1>4 DEF Accept
  <2> QED BY <1>1, <1>4, <2>1, AcceptRefines
<1>5. CASE UNCHANGED <<stores, answers>>
  BY <1>1, <1>2, <1>5 DEF stores, answers
<1> QED BY <1>3, <1>4, <1>5 DEF Next, vars

\* Both stores implement InstallOnce: a key keeps the content it was first
\* given, and every caller learns whether that is the content it sent, in
\* whatever order its keys or its entries came.
THEOREM Refinement == Spec => ImplementsInstallOnce
<1>1. Spec => []IInv
  BY Invariance
<1>2. Init => RegistryOnce!OnceInit /\ ManifestOnce!OnceInit
  BY OnceInitially
<1>3. IInv /\ [Next]_vars
        => /\ [RegistryOnce!OnceNext]_RegistryOnce!onceVars
           /\ [ManifestOnce!OnceNext]_ManifestOnce!onceVars
  BY StepRefines
<1> QED BY <1>1, <1>2, <1>3, PTL
        DEF Spec, ImplementsInstallOnce, RegistryOnce!OnceSpec, ManifestOnce!OnceSpec
================================================================================

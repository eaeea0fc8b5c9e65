---------------------------- MODULE CollectionIntake ---------------------------
(* From the evidence of a pilot run to the discovery manifests, and the      *)
(* registry beside them: the two append-only stores and what is read back.   *)
(* Source: src/persistence/registry-repository.ts,                           *)
(* discovery-manifest-repository.ts and discovery-intake-service.ts.         *)
(*                                                                           *)
(* A call is one transaction and the database runs one at a time.  A caller  *)
(* who lost the answer calls again, which is another call with the same      *)
(* input.                                                                    *)
EXTENDS CollectionPilot

CONSTANTS
  Texts, ComparisonKey,  \* of Registry
  MaxEntries,            \* of DiscoveryManifest
  Registries,   \* the registries somebody may try to install
  Shas,         \* the commits a manifest may be made at
  MaxInstalls   \* bound on the registry calls of a behaviour

INSTANCE Registry
INSTANCE DiscoveryManifest

\* The fields of a parsed registry; None is no target type.
ASSUME RegistryAssumption ==
  /\ MaxInstalls \in Nat
  /\ None \notin TargetTypes
  /\ \A r \in Registries :
       r = [registryVersion |-> r.registryVersion, wellFormed |-> r.wellFormed,
            keys |-> r.keys, domains |-> r.domains,
            entities |-> r.entities, aliases |-> r.aliases]

VARIABLES
  registries,  \* registry_snapshot: version |-> [registryVersion, sha256, manifest]
  manifests,   \* discovery_manifest: fingerprint |-> [fingerprint, source, manifest]
  installed,   \* the last answer of the registry: [state, manifest]
  accepted,    \* the last answer of the manifest store: [state, manifest]
  installs     \* the registry calls that are left

stores == <<registries, manifests>>
answers == <<installed, accepted>>
vars == <<pilotVars, stores, answers, installs>>

With(f, key, value) ==
  [k \in DOMAIN f \union {key} |-> IF k = key THEN value ELSE f[k]]

--------------------------------------------------------------------------------
(* The registry *)

\* Broken: the keys stay in the order they came in.
CanonicalAsWritten(registry) == registry

\* canonicalRegistryJson: the object with its keys sorted.  A hash of it is it.
Canonical(registry) == [registry EXCEPT !.keys = "sorted"]

\* What a jsonb column gives back: the same object, its keys in another order.
Jsonb(registry) == [registry EXCEPT !.keys = "jsonb"]

SnapshotIsVerified(row) ==
  /\ ValidRegistry(row.manifest)
  /\ row.sha256 = Canonical(row.manifest)
  /\ row.registryVersion = row.manifest.registryVersion

\* Broken: the JSON texts are compared as they are.
SameRegistryText(row, registry) ==
  /\ row.sha256 = Canonical(registry)
  /\ row.manifest = registry

SameRegistry(row, registry) ==
  /\ row.sha256 = Canonical(registry)
  /\ Canonical(row.manifest) = Canonical(registry)

InstallRegistry(registry) ==
  LET version == registry.registryVersion
      answer(state) == installed' = [state |-> state, manifest |-> registry]
  IN /\ installs > 0
     /\ installs' = installs - 1
     /\ \/ /\ ~ValidRegistry(registry)
           /\ answer("refused")
           /\ UNCHANGED registries
        \/ /\ ValidRegistry(registry)
           /\ version \in DOMAIN registries
           /\ SnapshotIsVerified(registries[version])
           /\ answer(IF SameRegistry(registries[version], registry)
                       THEN "existing" ELSE "conflict")
           /\ UNCHANGED registries
        \/ /\ ValidRegistry(registry)
           /\ version \notin DOMAIN registries
           /\ registries' =
                With(registries, version,
                     [registryVersion |-> version,
                      sha256 |-> Canonical(registry),
                      manifest |-> Jsonb(registry)])
           /\ answer("inserted")
     /\ UNCHANGED <<pilotVars, manifests, accepted>>

--------------------------------------------------------------------------------
(* The manifests *)

RowIsVerified(row) ==
  /\ ManifestIsValid(row.manifest)
  /\ row.fingerprint = row.manifest.fingerprint
  /\ row.source = row.manifest.source

SameManifest(row, manifest) == Validated(row.manifest) = Validated(manifest)

\* A person makes a manifest from the evidence of a run, and installs it; the
\* entries may reach the store in another order.
Accept(sha, e) ==
  LET made == ManifestOf(sha, e)
      key == made.fingerprint
      answer(state, manifest) ==
        accepted' = [state |-> state, manifest |-> manifest]
  IN /\ made # None
     /\ \E entries \in SetToSeqs(ToSet(made.entries)) :
          LET manifest == [made EXCEPT !.entries = entries]
          IN IF key \in DOMAIN manifests
               THEN /\ RowIsVerified(manifests[key])
                    /\ answer(IF SameManifest(manifests[key], manifest)
                                THEN "existing" ELSE "conflict", manifest)
                    /\ UNCHANGED manifests
               ELSE /\ manifests' =
                         With(manifests, key,
                              [fingerprint |-> key,
                               source |-> manifest.source,
                               manifest |-> Validated(manifest)])
                    /\ answer("inserted", manifest)
     /\ UNCHANGED <<pilotVars, registries, installed, installs>>

\* DiscoveryIntakeService.loadExact, of a row that verifies.
Report(fingerprint) ==
  IF fingerprint \in DOMAIN manifests
    THEN [state |-> "found",
          identities |-> BlockedIdentities(Validated(manifests[fingerprint].manifest))]
    ELSE [state |-> "manifest_not_found", identities |-> <<>>]

--------------------------------------------------------------------------------

\* A behaviour either runs the pilot or installs registries: the two share
\* nothing, so that interleaving them would only repeat states, and the site
\* a registry is installed beside does not matter.
Init ==
  /\ PilotInit
  /\ registries = [version \in {} |-> version]
  /\ manifests = [fingerprint \in {} |-> fingerprint]
  /\ installed = [state |-> "none"]
  /\ accepted = [state |-> "none"]
  /\ installs \in {0, MaxInstalls}
  /\ installs = 0 \/ site.robots = CHOOSE robots \in RobotsTexts : TRUE

Next ==
  \/ \E registry \in Registries : InstallRegistry(registry)
  \/ installs = 0 /\ installed.state = "none" /\ PilotNext
     /\ UNCHANGED <<stores, answers, installs>>
  \/ \E sha \in Shas : \E e \in evidence : Accept(sha, e)

Spec == Init /\ [][Next]_vars

--------------------------------------------------------------------------------
(* Properties *)

\* What the two stores and the pilot keep is of its kind; the pilot has read a
\* prefix of the documents, and asks for a listing only after all of them.
IntakeTypeOK ==
  /\ \A version \in DOMAIN registries : SnapshotIsVerified(registries[version])
  /\ \A key \in DOMAIN manifests :
       RowIsVerified(manifests[key]) /\ manifests[key].fingerprint = key
  /\ pilot.phase \in {"idle", "preflight", "listing"}
  /\ Len(pilot.read) <= Len(Documents)
  /\ \A i \in DOMAIN pilot.read : pilot.read[i] \in served[Documents[i]]
  /\ pilot.phase = "listing" => Len(pilot.read) = Len(Documents)
  /\ started \in 0..MaxRuns
  /\ changes \in 0..MaxChanges
  /\ installs \in 0..MaxInstalls

\* In every registry that was stored, each entity answers to its own label when
\* its type is known, and no name at all is held for a conflict.  A caller may
\* meet an ambiguity only when it leaves the type open.
InstalledResolves ==
  \A version \in DOMAIN registries :
    LET registry == registries[version].manifest
    IN /\ \A e \in registry.entities :
            Resolve(e.label, e.type, registry) =
              [state |-> "resolved",
               candidates |-> {[type |-> e.type, target |-> e.id]}]
       /\ \A text \in Texts :
            /\ Resolve(text, None, registry).state # "hold_alias_conflict"
            /\ \A type \in TargetTypes :
                 Resolve(text, type, registry).state \in {"no_match", "resolved"}

\* Every manifest in the store is the whole of one listing the site served to
\* an approved run: the intake reports exactly its products, each once and in
\* numeric order, however the entries travelled, and clears none of them.
IntakeIsComplete ==
  \A key \in DOMAIN manifests :
    LET identities == Report(key).identities
    IN \E links \in crawled :
         /\ manifests[key].source.raw = links
         /\ {identities[i].productId : i \in DOMAIN identities} =
              ToSet(links) \ {Foreign}
         /\ \A i, j \in DOMAIN identities :
              i < j => identities[i].productId < identities[j].productId
         /\ \A i \in DOMAIN identities : ~identities[i].detailAccessAuthorized

ValidRegistries == {Canonical(r) : r \in {r \in Registries : ValidRegistry(r)}}

AnswerOf(answer, Content(_)) ==
  IF answer.state \in {"none", "refused"}
    THEN [state |-> answer.state]
    ELSE [state |-> answer.state, content |-> Content(answer.manifest)]

VersionOf(registry) == registry.registryVersion

RegistryOnce ==
  INSTANCE InstallOnce WITH
    Contents <- ValidRegistries,
    KeyOf <- VersionOf,
    stored <- [v \in DOMAIN registries |-> Canonical(registries[v].manifest)],
    answer <- AnswerOf(installed, Canonical)

Manifests ==
  {NewManifest(sha, links, CandidatesOf(links)) :
     sha \in Shas, links \in {p \in Pages : Extractable(p)}}

FingerprintOf(manifest) == manifest.fingerprint

ManifestOnce ==
  INSTANCE InstallOnce WITH
    Contents <- Manifests,
    KeyOf <- FingerprintOf,
    stored <- [k \in DOMAIN manifests |-> Validated(manifests[k].manifest)],
    answer <- AnswerOf(accepted, Validated)

\* The two tables are immutable stores: a registry version or a fingerprint
\* keeps the content it was first given, what does not validate is never
\* stored, and a caller that sends the same content again is told so, in
\* whatever order the keys of its JSON or the entries of its list stand.
ImplementsInstallOnce == RegistryOnce!OnceSpec /\ ManifestOnce!OnceSpec
================================================================================

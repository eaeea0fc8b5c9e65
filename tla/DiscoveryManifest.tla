--------------------------- MODULE DiscoveryManifest ---------------------------
(* The fingerprinted manifest of product identities, and the evidence of a   *)
(* listing crawl it is made from.  Source: src/discovery-manifest.ts.        *)
(*                                                                           *)
(* An entry is its product ID: the canonical URL is computed from the ID on  *)
(* both sides.  A hash is what it hashes.  None is a DiscoveryManifestError. *)
EXTENDS Integers, Sequences, SequencesExt, Ascending

CONSTANTS
  MaxEntries,  \* MAX_DISCOVERY_MANIFEST_ENTRIES
  None

EntriesAreValid(entries) ==
  /\ entries # <<>>
  /\ Len(entries) <= MaxEntries
  /\ IsInjective(entries)

\* normalizeEntries: the entries in the order of their product IDs, wherever
\* each of them stood.
NormalizedEntries(entries) == InOrder(ToSet(entries))

Fingerprint(source, entries) == <<source, entries>>

ManifestIsValid(manifest) ==
  /\ EntriesAreValid(manifest.entries)
  /\ manifest.fingerprint =
       Fingerprint(manifest.source, NormalizedEntries(manifest.entries))

\* validateDiscoveryManifest
Validated(manifest) ==
  IF ManifestIsValid(manifest)
    THEN [manifest EXCEPT !.entries = NormalizedEntries(manifest.entries)]
    ELSE None

\* createDiscoveryManifest
NewManifest(sha, raw, entries) ==
  LET source == [sha |-> sha, raw |-> raw]
      normalized == NormalizedEntries(entries)
  IN IF EntriesAreValid(entries)
       THEN Validated([source |-> source,
                       entries |-> normalized,
                       fingerprint |-> Fingerprint(source, normalized)])
       ELSE None

ListingSucceeded(evidence) ==
  /\ evidence.mode = "network"
  /\ evidence.stop_state = "complete"
  /\ evidence.listing_requests = 1
  /\ Len(evidence.listing_records) = 1
  /\ LET record == evidence.listing_records[1]
     IN record.candidate_count = Len(record.discovery_candidates)

\* createDiscoveryManifestFromStage28Evidence
ManifestOf(sha, evidence) ==
  IF ListingSucceeded(evidence)
    THEN NewManifest(sha, evidence.listing_records[1].raw_sha256,
                     evidence.listing_records[1].discovery_candidates)
    ELSE None

\* toProductDiscoveryRequests, then the report of the intake: nothing is
\* classified, cleared or authorised by being discovered.
BlockedIdentities(manifest) ==
  [i \in DOMAIN manifest.entries |->
     [productId |-> manifest.entries[i],
      ageState |-> "unknown",
      detailAccessAuthorized |-> FALSE,
      publicationEligible |-> FALSE]]
================================================================================

---------------------------- MODULE CollectionPilot ----------------------------
(* A run of the collection pilot.  It reads the site's three policy          *)
(* documents one by one, stops unless they are exactly the ones a person     *)
(* approved from the evidence of an earlier run, and only then asks for the  *)
(* one listing page.  Every run leaves evidence, unless it is killed.        *)
(* Source: scripts/booth_collection_pilot.py and the workflow                *)
(* booth-collection-pilot.yml, whose concurrency group runs one at a time.   *)
(*                                                                           *)
(* A document is a token for its semantic text as it was served: a digest of *)
(* three documents is the three tokens.  Which refusal stopped a run is not  *)
(* told apart; that it stopped is.                                           *)
EXTENDS Integers, Sequences, FiniteSets, SequencesExt, Ascending

CONSTANTS
  RobotsTexts,    \* robots.txt, each a set of groups [agents, rules]
  PolicyTexts,    \* what the guideline and the terms may say
  Pages,          \* listing pages, each the sequence of its anchors
  Foreign,        \* an anchor that names no product
  UserAgent,      \* USER_AGENT_TOKEN
  MaxCandidates,  \* MAX_LISTING_CANDIDATES
  MaxRuns,        \* bound on the runs that are started
  MaxChanges,     \* bound on the changes of the site
  None

ASSUME PilotAssumption ==
  /\ MaxRuns \in Nat /\ MaxChanges \in Nat
  /\ Pages \subseteq Seq(Int)

VARIABLES
  site,      \* document |-> its text now
  pilot,     \* [phase, approval, read, digest, requests]
  evidence,  \* the evidence of the runs so far
  served,    \* history: document |-> its texts since the run began
  crawled,   \* history: the pages that an allowed request was answered with
  started, changes

pilotVars == <<site, pilot, evidence, served, crawled, started, changes>>

\* PREFLIGHT_URLS, in order.
Documents == <<"robots", "guideline", "terms">>

Sites == [robots : RobotsTexts, guideline : PolicyTexts, terms : PolicyTexts]

TextsOf(document) == IF document = "robots" THEN RobotsTexts ELSE PolicyTexts

\* A digest of the three documents is the three texts; "no digest" is not one.
AnyDigest == [1..Len(Documents) -> RobotsTexts \union PolicyTexts]

ASSUME NoneIsNoDigest == None \notin AnyDigest

--------------------------------------------------------------------------------
(* robots.txt *)

\* RobotsPolicy.rules_for: the groups that name the agent, or else the ones
\* for everybody.
GroupsFor(robots, agent) ==
  LET exact == {g \in robots : agent \in g.agents}
  IN IF exact # {} THEN exact ELSE {g \in robots : "*" \in g.agents}

\* Of a rule [allow, specificity, matches], `matches` says whether its pattern
\* matches the listing's path.
MatchingRules(robots) ==
  {rule \in UNION {g.rules : g \in GroupsFor(robots, UserAgent)} : rule.matches}

Allows(robots) ==
  LET matching == MatchingRules(robots)
      longest ==
        {r \in matching : \A other \in matching : r.specificity >= other.specificity}
  IN matching = {} \/ \E r \in longest : r.allow

--------------------------------------------------------------------------------
(* A run *)

IdlePilot == [phase |-> "idle", approval |-> None, read |-> <<>>]

\* Broken: only the first products of a page that shows too many are kept.
FirstCandidatesOf(links) ==
  LET all == InOrder(ToSet(links) \ {Foreign})
  IN SubSeq(all, 1, IF Len(all) > MaxCandidates THEN MaxCandidates ELSE Len(all))

\* extract_listing_candidates: each product once, in numeric order.
CandidatesOf(links) == InOrder(ToSet(links) \ {Foreign})

Extractable(links) == Len(CandidatesOf(links)) \in 1..MaxCandidates

Record(links) ==
  [raw_sha256 |-> links,
   candidate_count |-> Len(CandidatesOf(links)),
   discovery_candidates |-> CandidatesOf(links)]

DryRunEvidence ==
  [mode |-> "dry-run", stop_state |-> "dry_run", policy_digest |-> None,
   listing_requests |-> 0, listing_records |-> <<>>]

NothingServed == [d \in ToSet(Documents) |-> {}]

\* The run ends, and writes its evidence.
Leave(state, digest, requests, records) ==
  /\ evidence' = evidence \union
       {[mode |-> "network", stop_state |-> state, policy_digest |-> digest,
         listing_requests |-> requests, listing_records |-> records]}
  /\ pilot' = IdlePilot
  /\ served' = NothingServed

Digests == {e.policy_digest : e \in evidence} \ {None}

\* Which text a policy has at first does not matter.
FirstText == CHOOSE text \in PolicyTexts : TRUE

PilotInit ==
  /\ site \in Sites
  /\ site.guideline = FirstText /\ site.terms = FirstText
  /\ pilot = IdlePilot
  /\ evidence = {}
  /\ served = NothingServed
  /\ crawled = {}
  /\ started = 0
  /\ changes = 0

DryRun ==
  /\ pilot.phase = "idle"
  /\ started < MaxRuns
  /\ started' = started + 1
  /\ evidence' = evidence \union {DryRunEvidence}
  /\ UNCHANGED <<site, pilot, served, crawled, changes>>

\* A person starts a run, with a digest reviewed in earlier evidence or none.
Begin(approval) ==
  /\ pilot.phase = "idle"
  /\ started < MaxRuns
  /\ started' = started + 1
  /\ pilot' = [phase |-> "preflight", approval |-> approval, read |-> <<>>]
  /\ served' = [d \in ToSet(Documents) |-> {site[d]}]
  /\ UNCHANGED <<site, evidence, crawled, changes>>

\* preflight: the next document.
ReadPolicy ==
  /\ pilot.phase = "preflight"
  /\ Len(pilot.read) < Len(Documents)
  /\ pilot' = [pilot EXCEPT !.read = Append(@, site[Documents[Len(@) + 1]])]
  /\ UNCHANGED <<site, evidence, served, crawled, started, changes>>

\* A document is refused or unrecognised (classify_response, preflight), or
\* robots.txt, which is parsed last, has no group for the pilot.  A run whose
\* arguments main refuses stops likewise, with nothing read.
PreflightStops ==
  /\ pilot.phase = "preflight"
  /\ Len(pilot.read) = Len(Documents) => GroupsFor(pilot.read[1], UserAgent) = {}
  /\ Leave("stopped", None, 0, <<>>)
  /\ UNCHANGED <<site, crawled, started, changes>>

\* Broken: an approved digest is taken for a permission.
MayListIfApproved == pilot.approval = pilot.read

\* All documents are read: their digest is computed, and is in the evidence
\* even of a run that robots.txt or the missing approval stops.
MayList ==
  /\ Allows(pilot.read[1])
  /\ pilot.approval = pilot.read

Judge ==
  /\ pilot.phase = "preflight"
  /\ Len(pilot.read) = Len(Documents)
  /\ GroupsFor(pilot.read[1], UserAgent) # {}
  /\ IF MayList
       THEN /\ pilot' = [pilot EXCEPT !.phase = "listing"]
            /\ UNCHANGED <<evidence, served>>
       ELSE Leave("stopped", pilot.read, 0, <<>>)
  /\ UNCHANGED <<site, crawled, started, changes>>

\* The listing is answered with a page that shows these anchors.
List(links) ==
  /\ pilot.phase = "listing"
  /\ crawled' = crawled \union {links}
  /\ IF Extractable(links)
       THEN Leave("complete", pilot.read, 1, <<Record(links)>>)
       ELSE Leave("stopped", pilot.read, 1, <<>>)
  /\ UNCHANGED <<site, started, changes>>

\* The listing is refused, redirected, or shows a challenge or an age gate.
ListingStops ==
  /\ pilot.phase = "listing"
  /\ Leave("stopped", pilot.read, 1, <<>>)
  /\ UNCHANGED <<site, crawled, started, changes>>

\* The job is cancelled, or exceeds its fifteen minutes: no evidence.
Kill ==
  /\ pilot.phase # "idle"
  /\ pilot' = IdlePilot
  /\ served' = NothingServed
  /\ UNCHANGED <<site, evidence, crawled, started, changes>>

\* The site changes a document.
Publish(document, text) ==
  /\ changes < MaxChanges
  /\ text # site[document]
  /\ changes' = changes + 1
  /\ site' = [site EXCEPT ![document] = text]
  /\ served' = IF pilot.phase = "idle" THEN served
               ELSE [served EXCEPT ![document] = @ \union {text}]
  /\ UNCHANGED <<pilot, evidence, crawled, started>>

PilotNext ==
  \/ DryRun
  \/ \E approval \in Digests \union {None} : Begin(approval)
  \/ ReadPolicy
  \/ PreflightStops
  \/ Judge
  \/ \E links \in Pages : List(links)
  \/ ListingStops
  \/ Kill
  \/ \E d \in ToSet(Documents) : \E text \in TextsOf(d) : Publish(d, text)

--------------------------------------------------------------------------------
(* Properties *)

\* Whenever the listing is asked for, the three documents are ones the site
\* served during this very run, a person approved them together from the
\* evidence of an earlier run, and the robots.txt among them allows the
\* request.  An approval of an earlier text, or one of a digest that
\* robots.txt had stopped, opens nothing.
ListingFollowsApproval ==
  pilot.phase = "listing" =>
    /\ \A i \in DOMAIN Documents : pilot.approval[i] \in served[Documents[i]]
    /\ pilot.approval \in Digests
    /\ Allows(pilot.approval[1])
================================================================================

-------------------------------- MODULE Registry -------------------------------
(* The registry of systems, editions and books and of the names they go by.  *)
(* Source: src/registry.ts.                                                  *)
(*                                                                           *)
(* A text is a token; ComparisonKey says which texts the normaliser takes    *)
(* for the same name.  `wellFormed` stands for the field checks that relate  *)
(* to nothing else: versions, dates, the form of an ID, empty strings.  A    *)
(* URL is its host, when it is a valid HTTPS URL without credentials.        *)
EXTENDS Integers, FiniteSets

CONSTANTS
  Texts,
  ComparisonKey,  \* text |-> normalizeRegistryComparisonKey(text)
  None

TargetTypes == {"system_family", "edition", "book"}

\* An entity: [type, id, label, hosts (of its evidence), family, edition].
OfType(registry, type) == {e \in registry.entities : e.type = type}
Ids(registry, type) == {e.id : e \in OfType(registry, type)}

EvidenceIsOfficial(registry) ==
  \A e \in registry.entities : e.hosts # {} /\ e.hosts \subseteq registry.domains

IdsAreGlobal(registry) ==
  \A a, b \in registry.entities : a.id = b.id => a = b

FamiliesAgree(registry) ==
  \A e \in registry.entities \ OfType(registry, "system_family") :
    /\ e.family \in Ids(registry, "system_family")
    /\ e.edition # None =>
         \E edition \in OfType(registry, "edition") :
           edition.id = e.edition /\ edition.family = e.family

\* An alias: [text, key, kind, type, target, host, review, conflict].
AliasIsSound(registry, alias) ==
  /\ alias.key = ComparisonKey[alias.text]
  /\ alias.type \in TargetTypes
  /\ alias.target \in Ids(registry, alias.type)
  /\ alias.host \in registry.domains
  /\ alias.review = "approved"
  /\ alias.conflict = "clear"

\* Broken: names are compared as they were written.
NamesAreUnambiguousAsWritten(registry) ==
  \A a, b \in registry.aliases :
    a.type = b.type /\ a.text = b.text => a.target = b.target

NamesAreUnambiguous(registry) ==
  \A a, b \in registry.aliases :
    a.type = b.type /\ a.key = b.key => a.target = b.target

LabelsAreAliases(registry) ==
  \A e \in registry.entities :
    \E alias \in registry.aliases :
      /\ alias.type = e.type
      /\ alias.target = e.id
      /\ alias.kind = "official_label"
      /\ alias.review = "approved"
      /\ alias.text = e.label

ValidRegistry(registry) ==
  /\ registry.wellFormed
  /\ EvidenceIsOfficial(registry)
  /\ IdsAreGlobal(registry)
  /\ FamiliesAgree(registry)
  /\ \A alias \in registry.aliases : AliasIsSound(registry, alias)
  /\ NamesAreUnambiguous(registry)
  /\ LabelsAreAliases(registry)

--------------------------------------------------------------------------------

Candidates(aliases) == {[type |-> a.type, target |-> a.target] : a \in aliases}

\* resolveRegistryAlias: `type` is None when the caller does not know it.
Resolve(text, type, registry) ==
  LET aliases ==
        {a \in registry.aliases :
           /\ a.type \in TargetTypes
           /\ a.review = "approved"
           /\ a.key = ComparisonKey[text]
           /\ type \in {None, a.type}}
      candidates == Candidates(aliases)
      conflict ==
        \/ \E a \in aliases : a.conflict = "hold_alias_conflict"
        \/ \E a, b \in candidates : a.type = b.type /\ a.target # b.target
      state ==
        CASE aliases = {}                 -> "no_match"
          [] conflict                     -> "hold_alias_conflict"
          [] Cardinality(candidates) > 1  -> "ambiguous"
          [] OTHER                        -> "resolved"
  IN [state |-> state, candidates |-> candidates]
================================================================================

--------------------------- MODULE MCCollectionIntake --------------------------
(* A small instance of CollectionIntake for TLC. *)
EXTENDS CollectionIntake

\* Two spellings of one name, and another name.
MCTexts == {"Insane", "INSANE", "Emoklore"}
MCComparisonKey ==
  [t \in MCTexts |-> IF t = "Emoklore" THEN "emoklore" ELSE "insane"]

Entity(type, id, label, family, edition) ==
  [type |-> type, id |-> id, label |-> label, hosts |-> {"official"},
   family |-> family, edition |-> edition]

Alias(e, text) ==
  [text |-> text, key |-> MCComparisonKey[text], kind |-> "official_label",
   type |-> e.type, target |-> e.id, host |-> "official", review |-> "approved",
   conflict |-> "clear"]

F1 == Entity("system_family", "f1", "Insane", None, None)
F2 == Entity("system_family", "f2", "Emoklore", None, None)
F3 == Entity("system_family", "f3", "INSANE", None, None)
E1 == Entity("edition", "e1", "Insane", "f1", None)
E2 == Entity("edition", "f1", "Insane", "f1", None)
B1 == Entity("book", "b1", "Insane", "f1", "e1")
B2 == Entity("book", "b2", "Emoklore", "f2", "e1")

Labels(entities) == {Alias(e, e.label) : e \in entities}

RegistryOf(version, entities, aliases) ==
  [registryVersion |-> version, wellFormed |-> TRUE, keys |-> "written",
   domains |-> {"official"}, entities |-> entities, aliases |-> aliases]

\* The entities of a registry: families alone, two of them with one name, an
\* edition of the same name as its family, one with the ID of its family, one
\* of no family, a book, and one that is of another family than its edition.
EntitySets ==
  {{F1}, {F1, F2}, {F1, F3}, {F1, E1}, {F1, E2}, {E1}, {F1, E1, B1},
   {F1, F2, E1, B2}}

\* Besides their labels: another spelling, another name, one name less, and a
\* name that is pending, held, of a wrong key, without target, or unofficial.
AliasSets(entities) ==
  LET labels == Labels(entities)
      other == Alias(F1, "INSANE")
  IN {labels, labels \union {other}, labels \union {Alias(F1, "Emoklore")},
      labels \ {Alias(F1, "Insane")},
      (labels \ {Alias(F1, "Insane")}) \union {other},
      labels \union {[other EXCEPT !.review = "pending"]},
      labels \union {[other EXCEPT !.conflict = "hold_alias_conflict"]},
      labels \union {[other EXCEPT !.key = "INSANE"]},
      labels \union {[other EXCEPT !.target = "none"]},
      labels \union {[other EXCEPT !.host = "elsewhere"]}}

MCRegistries ==
  UNION {{RegistryOf(version, entities, aliases) : aliases \in AliasSets(entities)} :
           version \in {"registry-1", "registry-2"}, entities \in EntitySets}
  \union {[RegistryOf("registry-1", {F1}, Labels({F1})) EXCEPT !.wellFormed = FALSE],
          RegistryOf("registry-1", {[F1 EXCEPT !.hosts = {}]}, Labels({F1}))}

Rule(allow, specificity, matches) ==
  [allow |-> allow, specificity |-> specificity, matches |-> matches]

\* Open; closed for the pilot by name; closed for all, and open on a tie for the
\* pilot; for another agent only.
MCRobotsTexts ==
  {{[agents |-> {"*"}, rules |-> {Rule(FALSE, 3, FALSE)}]},
   {[agents |-> {"*"}, rules |-> {}],
    [agents |-> {"pilot"}, rules |-> {Rule(TRUE, 2, TRUE), Rule(FALSE, 5, TRUE)}]},
   {[agents |-> {"*"}, rules |-> {Rule(FALSE, 5, TRUE)}],
    [agents |-> {"pilot"}, rules |-> {Rule(FALSE, 5, TRUE), Rule(TRUE, 5, TRUE)}]},
   {[agents |-> {"other"}, rules |-> {}]}}

MCPages == {<<>>, <<0>>, <<0, 2, 1, 2>>, <<1, 2>>, <<2, 1, 3>>}
================================================================================

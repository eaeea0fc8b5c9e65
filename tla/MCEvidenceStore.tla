---------------------------- MODULE MCEvidenceStore ----------------------------
(* EvidenceStore for TLC: a product with a scenario beside a second product *)
(* that a purge must not touch; histories long enough for a chain of three  *)
(* analyses with a repetition, a purge in any position and a record after   *)
(* the purge.  Row ids run against time in some of the saved histories.     *)
EXTENDS EvidenceStore, TLC

CONSTANTS p1, p2, s1, b1, b2

Key(c, r) ==
  [d \in Dimensions |->
     CASE d = "content_version" -> c
       [] d = "normalizer_version" -> 1
       [] d = "registry_version" -> r]

MCKeys == {Key(1, 1), Key(2, 2)}

MCColumnSets == {Columns}

Entry(id, entity, key, at) ==
  [id |-> id, entity |-> entity, key |-> key, hashed |-> TRUE, at |-> at]

\* None, one row, and two rows of one entity written at the same time.
MCGraphHistory ==
  {{}, {Entry(2, p1, Key(1, 1), 1)}, {Entry(2, p2, Key(1, 1), 1)},
   {Entry(1, s1, Key(1, 1), 1), Entry(3, s1, Key(2, 2), 1)}}

\* First seen at 2, so that a purge dated 1 is out of order.
MCGraphTimes == {<<2, 2>>}

\* Nothing tells one product or source number from another.
MCSymmetry == Permutations(Products) \union Permutations(Sources)
================================================================================

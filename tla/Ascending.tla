------------------------------- MODULE Ascending -------------------------------
(* Finite sets of numbers as sequences in numeric order, which is how both   *)
(* the pilot and the manifest write their product IDs down.                  *)
EXTENDS Integers, SequencesExt

\* Every element once, the smallest first.
InOrder(S) ==
  CHOOSE f \in SetToSeqs(S) : \A i, j \in DOMAIN f : i < j => f[i] < f[j]
================================================================================

---------------------------- MODULE MCPostgresTxn ----------------------------
(* Small instances of PostgresTxn for TLC. *)
EXTENDS PostgresTxn, TLC

\* Session ids are only compared for equality.
SessionSymmetry == Permutations(Sessions)
=============================================================================

----------------------------- MODULE MCKafkaTxn -----------------------------
(* Small instances of KafkaTxn for TLC. *)
EXTENDS KafkaTxn, TLC

CONSTANTS i1, i2, t1, p1, p2

\* Batches of two records, or of one with a key.
MCPayloads == {<<NoKey, NoKey>>, <<Value("k")>>, <<Tombstone("k")>>}

\* Partitions and producer instances are only compared for equality.
Symmetry == Permutations(Partitions) \union Permutations(Producers)
=============================================================================

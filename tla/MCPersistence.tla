---------------------------- MODULE MCPersistence ----------------------------
(* Small instances of Persistence for TLC. *)
EXTENDS Persistence, TLC

\* Clients are only compared for equality.
ClientSymmetry == Permutations(Clients)

\* The places of mark: after the change (MySQL's text protocol), before the
\* engine is locked (Kafka, Elasticsearch), nowhere (MySQL's prepared
\* statements, Kafka topics created by Metadata).  With the change (Postgres,
\* Redis) is the case of "after" in which nothing happens in between.
AllSites == [s \in Services |-> {"after", "before", "never"}]

\* The places of mark that lose nothing.
CarefulSites == [s \in Services |-> {"inside", "after"}]
=============================================================================

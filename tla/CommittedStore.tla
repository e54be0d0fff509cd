---------------------------- MODULE CommittedStore ----------------------------
(***************************************************************************)
(* What the Postgres service promises about its databases: each is a set   *)
(* of writes to which a transaction adds, in one step, writes of its own   *)
(* session only.  Nothing is ever taken out, except the temporary objects  *)
(* of a session that ends and whole databases that are dropped.            *)
(***************************************************************************)
EXTENDS Integers

CONSTANTS Sessions, Databases, InitialDatabases, MaxWrites

VARIABLE store   \* the existing databases, each a set of writes

Writes(s) == [by : {s}, n : 1..MaxWrites, kind : {"perm", "temp", "onCommit"}]

Init == store = [d \in InitialDatabases |-> {}]

CommitTxn(s, d) ==
    /\ d \in DOMAIN store
    /\ \E T \in SUBSET Writes(s) :
          store' = [store EXCEPT ![d] = store[d] \cup T]

EndSession(s, d) ==
    /\ d \in DOMAIN store
    /\ store' = [store EXCEPT ![d] = {w \in store[d] : w.by = s => w.kind = "perm"}]

CreateDatabase(d) ==
    /\ d \notin DOMAIN store
    /\ store' = [e \in DOMAIN store \cup {d} |-> IF e = d THEN {} ELSE store[e]]

DropDatabases(names) ==
    store' = [e \in DOMAIN store \ names |-> store[e]]

Next ==
    \/ \E s \in Sessions, d \in Databases : CommitTxn(s, d) \/ EndSession(s, d)
    \/ \E d \in Databases : CreateDatabase(d)
    \/ \E names \in SUBSET Databases : DropDatabases(names)

Spec == Init /\ [][Next]_store
=============================================================================

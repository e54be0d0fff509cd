----------------------------- MODULE MCMySqlTxn -----------------------------
(* Small instances of the MySQL transactions: what each connection sends.   *)
EXTENDS MySqlTxn, TLC

Rows(some) == [r \in Row |-> IF r \in some THEN 1 ELSE 0]
Play(parent, child, action, controls) ==
    [rows |-> [t \in Tables |-> Rows(IF t = "parent" THEN parent ELSE child)],
     fk |-> action # "none", action |-> action, controls |-> controls]

(* Two connections that send so many statements together, and each first    *)
(* one of a set, then one of another.                                       *)
Pair(most, p, sends) ==
    {[conns |-> d, each |-> Len(sends), most |-> most, sends |-> [c \in d |-> sends]] @@ p :
        d \in kSubset(2, Conns)}

TwoOf(statements) == <<statements, statements>>

(* Rows of one table are inserted, with a key or without, and deleted.      *)
Writes == Pair(3, Play({<<1, 0>>}, {}, "none", {"txn", "disconnect", "timeout"}),
               TwoOf({Stmt("insert", "parent", 0, 0), Stmt("insert", "parent", 1, 1),
                      Stmt("upsert", "parent", 2, 1), Stmt("delete", "parent", 1, 0)}))

(* Savepoints.                                                              *)
Savepoints == Pair(4, Play({<<1, 0>>}, {}, "none", {"begin", "savepoint"}),
                   <<{Stmt("replace", "parent", 2, 1), Stmt("update", "parent", 1, 1)},
                     {Stmt("update", "parent", 1, 1)}, {}>>)

(* The implicit transactions of autocommit = 0, and DDL, which commits.     *)
Implicit == Pair(3, Play({<<1, 0>>}, {}, "none", {"autocommit", "savepoint"}),
                 TwoOf({Stmt("ignore", "parent", 2, 1), Stmt("truncate", "parent", 0, 0)}))

(* Locking reads and a queue of jobs.                                       *)
Locking == Pair(3, Play({<<1, 0>>, <<2, 0>>}, {}, "none", {"begin"}),
                TwoOf({Stmt("for update", "parent", 1, 0), Stmt("for share", "parent", 1, 0),
                       Stmt("nowait", "parent", 1, 0), Stmt("skip locked", "parent", 0, 0),
                       Stmt("update", "parent", 1, 1), Stmt("delete", "parent", 2, 0)}))
Upgrades == Pair(4, Play({<<1, 0>>}, {}, "none", {"begin"}),
                 <<{Stmt("for share", "parent", 1, 0)}, {Stmt("update", "parent", 1, 1)}>>)

(* A parent and its children.                                               *)
Family(action, statements) == Pair(3, Play({<<1, 0>>}, {<<1, 1>>}, action, {"begin"}), TwoOf(statements))
Families ==
    Family("cascade", {Stmt("delete", "parent", 1, 0), Stmt("insert", "child", 2, 1),
                       Stmt("truncate", "parent", 0, 0)})
    \union Family("setnull", {Stmt("move", "parent", 1, 2), Stmt("insert", "child", 2, 1)})
    \union Family("restrict", {Stmt("delete", "parent", 1, 0), Stmt("update", "child", 1, 2)})

(* Three connections lock a row each, and then another.                     *)
Row1 == Stmt("for update", "parent", 1, 0)
Row2 == Stmt("for update", "parent", 2, 0)
Row3 == Stmt("for update", "child", 1, 0)
Sends == <<<<{Row1}, {Row2}>>, <<{Row2}, {Row3}>>, <<{Row3}, {Row1, Row2}>>>>
Circles ==
    {[conns |-> Conns, each |-> 2, most |-> 6, sends |-> [c \in Conns |-> Sends[number[c]]]]
        @@ Play({<<1, 0>>, <<2, 0>>}, {<<1, 0>>}, "none", {"begin"}) : number \in Bijection(Conns, 1..3)}

AllPlays ==
    UNION {Writes, Savepoints, Implicit, Locking, Upgrades, Families, Circles}

(* Connections are only compared for equality.                              *)
ConnSymmetry == Permutations(Conns)
============================================================================

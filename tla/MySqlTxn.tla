------------------------------ MODULE MySqlTxn ------------------------------
(* The MySQL service's transactions.  Every connection has a thread and an  *)
(* Engine; they share the DbState, whose lock is held for one look or one   *)
(* write at a time and not for a statement: a statement loads a table,      *)
(* works on its copy, looks for rows other transactions hold and stores the *)
(* copy.  A transaction writes in place and keeps an undo log: each table   *)
(* as it was before its first write and as it last left it.                 *)
(*                                                                          *)
(* A row is its primary key and a value.  The tables are "parent" and       *)
(* "child"; where play.fk holds, the child's value is a foreign key to the  *)
(* parent's primary key (0 is NULL) with the action play.action.            *)
EXTENDS Integers, Sequences, FiniteSets, SequencesExt, FiniteSetsExt

CONSTANTS Conns,          \* connections
          MaxId,          \* the largest primary key
          Names,          \* names of savepoints
          Plays           \* what the clients send, see MCMySqlTxn

ASSUME BoundsAreNat ==
    MaxId \in Nat /\ \A p \in Plays : p.conns \subseteq Conns /\ {p.each, p.most} \subseteq Nat

VARIABLES tables,     \* DbState.schemas: rows and next_auto_increment
          openTxns,   \* DbState.open_txns: the undo log of each open transaction
          waits,      \* DbState.waits: the connection each waits for
          conn,       \* the Engine of each connection and the statement it runs
          promised,   \* history: the rows the acknowledged commits amount to
          did,        \* history: what each open transaction has changed
          past,       \* history: what happened that the exceptions name
          play        \* the clients' statements and the foreign key

vars == <<tables, openTxns, waits, conn, promised, did, past, play>>

----------------------------------------------------------------------------
(* Rows: a table's rows are a multiset.                                     *)

Tables == {"parent", "child"}
Ids == 1..MaxId
Row == Ids \X (0..MaxId)
None == <<0, 0>>

Nothing == [r \in Row |-> 0]
Present(rows) == {r \in Row : rows[r] > 0}
Plus(f, g) == [r \in Row |-> f[r] + g[r]]
Net(before, after) == [r \in Row |-> after[r] - before[r]]

(* row_diff: the rows that only `before` has.                               *)
Only(before, after) ==
    [r \in Row |-> IF before[r] > after[r] THEN before[r] - after[r] ELSE 0]

(* row_key of the rows in which two images differ.                          *)
ChangedKeys(before, after) == {r[1] : r \in {x \in Row : before[x] # after[x]}}

WithKey(rows, id) == {r \in Present(rows) : r[1] = id}
Without(rows, gone) == [r \in Row |-> IF r \in gone THEN 0 ELSE rows[r]]
With(rows, r) == [rows EXCEPT ![r] = @ + 1]

(* DbState::undo and the heart of committed_view: one transaction's row     *)
(* changes reversed, those of others left.                                  *)
Faulty_Undone(current, before, ours) == before

Undone(current, before, ours) ==
    Plus(Only(current, Only(ours, before)), Only(before, ours))

----------------------------------------------------------------------------
(* The shared state as the other connections see it.                        *)

Put(f, x, y) == [z \in DOMAIN f \union {x} |-> IF z = x THEN y ELSE f[z]]
Drop(f, x) == [z \in DOMAIN f \ {x} |-> f[z]]

(* TxUndo::default *)
NoUndo == [tables |-> [t \in {} |-> Nothing], locks |-> {}]

LogsOf(t, me) == {c \in DOMAIN openTxns \ {me} : t \in DOMAIN openTxns[c].tables}

(* locked_rows: the keys of t that others' transactions changed or locked.  *)
LockedRows(me, t) ==
    UNION {{[by |-> c, id |-> i, exclusive |-> TRUE] :
                i \in ChangedKeys(openTxns[c].tables[t].before, openTxns[c].tables[t].ours)} :
           c \in LogsOf(t, me)}
    \union UNION {{[by |-> c, id |-> l.id, exclusive |-> l.exclusive] :
                       l \in {k \in openTxns[c].locks : k.table = t}} :
                  c \in DOMAIN openTxns \ {me}}

(* committed_view: t without the uncommitted changes of others.             *)
CommittedView(me, t) ==
    FoldSet(LAMBDA c, rows : Undone(rows, openTxns[c].tables[t].before, openTxns[c].tables[t].ours),
            tables[t].rows, LogsOf(t, me))

(* undo of a transaction's log: the counters are not rolled back.           *)
UndoLog(log) ==
    [t \in Tables |-> IF t \in DOMAIN log
                      THEN [tables[t] EXCEPT !.rows = Undone(@, log[t].before, log[t].ours)]
                      ELSE tables[t]]

(* snapshot: the rows that are saved, every open transaction undone.        *)
Snapshot(t) == CommittedView("nobody", t)

(* referencing, cascade_reach *)
Referencing(t) == IF play.fk /\ t = "parent" THEN {"child"} ELSE {}
CascadeReach(t) == {t} \union Referencing(t)
FkRelevant == play.fk

----------------------------------------------------------------------------
(* Statements.                                                              *)

Stmt(op, t, id, val) == [op |-> op, table |-> t, id |-> id, val |-> val]
NoStmt == Stmt("-", "parent", 0, 0)
Inserts == {"insert", "ignore", "replace", "upsert"}

Max2(a, b) == IF a > b THEN a ELSE b

(* What a statement makes of the table it loaded: the new table, the parent *)
(* rows it changed (with the row each became, None when it is gone), the    *)
(* rows whose parent must exist, and whether it fails.                      *)
Result(t, changes, check, failed) ==
    [table |-> t, changes |-> changes, check |-> check, failed |-> failed]

(* The key an INSERT uses: given, or the next AUTO_INCREMENT.               *)
InsertId(t, s) == IF s.id = 0 THEN t.next ELSE s.id

(* Two rows share the key (find_key_conflict skips only the row itself).    *)
Twice(rows, old) == Cardinality(old) > 1 \/ \E r \in old : rows[r] > 1

(* A row of INSERT: the counter moves past its key; find_key_conflict       *)
(* decides between a new row and the mode's way with a duplicate.  REPLACE  *)
(* and ON DUPLICATE KEY UPDATE both count the old row as deleted.  MaxId is  *)
(* the column's largest value.                                              *)
Inserted(t, s) ==
    LET id == InsertId(t, s)
        row == <<id, s.val>>
        old == WithKey(t.rows, id)
        moved == [t EXCEPT !.next = Max2(@, id + 1)]
        changed == [moved EXCEPT !.rows = With(Without(@, old), row)]
        gone(all) == {<<r, None>> : r \in all}
    IN  CASE id > MaxId -> Result(t, {}, {}, TRUE)
          [] id <= MaxId /\ old = {} -> Result([moved EXCEPT !.rows = With(@, row)], {}, {row}, FALSE)
          [] old # {} /\ (s.op = "insert" \/ (s.op = "upsert" /\ Twice(t.rows, old))) ->
                 Result(moved, {}, {}, TRUE)
          [] old # {} /\ s.op = "ignore" -> Result(moved, {}, {}, FALSE)
          [] old # {} /\ s.op = "replace" ->
                 Result(changed, gone(old), {row} \ old, FALSE)
          [] old # {} /\ s.op = "upsert" /\ ~Twice(t.rows, old) ->
                 Result(changed, gone(old \ {row}), {row} \ old, FALSE)

(* UPDATE t SET val, or (op "move") SET id: a duplicate key fails at once.  *)
Updated(t, s) ==
    LET old == WithKey(t.rows, s.id)
        new(r) == IF s.op = "move" THEN <<s.val, r[2]>> ELSE <<r[1], s.val>>
        r == CHOOSE x \in old : TRUE
        changed == [t EXCEPT !.rows = With(Without(@, old), new(r))]
    IN  CASE old = {} -> Result(t, {}, {}, FALSE)
          [] old # {} /\ (\/ Twice(t.rows, old)
                          \/ (s.op = "move" /\ s.val # s.id /\ WithKey(t.rows, s.val) # {})) ->
                 Result(t, {}, {}, TRUE)
          [] OTHER -> Result(changed, IF new(r) = r THEN {} ELSE {<<r, new(r)>>},
                             IF new(r) = r THEN {} ELSE {new(r)}, FALSE)

Deleted(t, s) ==
    LET old == WithKey(t.rows, s.id)
    IN  Result([t EXCEPT !.rows = Without(@, old)], {<<r, None>> : r \in old}, {}, FALSE)

Executed(t, s) ==
    CASE s.op \in Inserts -> Inserted(t, s)
      [] s.op \in {"update", "move"} -> Updated(t, s)
      [] s.op = "delete" -> Deleted(t, s)

(* on_parent_change on the child's rows, for parent rows that lost their key. *)
Orphaned(rows, changes) ==
    {r \in Present(rows) : \E ch \in changes : ch[1][1] = r[2] /\ ch[2][1] # r[2]}

Faulty_ParentChanged(rows, changes) == rows

ParentChanged(rows, changes) ==
    LET hits == Orphaned(rows, changes)
        becomes(r) == LET ch == CHOOSE x \in changes : x[1][1] = r[2]
                      IN  IF play.action = "cascade" THEN ch[2][1] ELSE 0
        stays == {r \in hits : play.action = "setnull" \/ becomes(r) # 0}
    IN  [x \in Row |->
            (IF x \in hits THEN 0 ELSE rows[x])
            + FoldSet(LAMBDA r, n : n + (IF <<r[1], becomes(r)>> = x THEN rows[r] ELSE 0), 0, stays)]

----------------------------------------------------------------------------
(* Connections.                                                             *)

(* A statement under way: what it loaded and what it will store, the tables *)
(* still to check or to store, the rows others held when a locking read     *)
(* looked, and whether it has stored anything yet.                          *)
NoWork == [pending |-> [t \in {} |-> Nothing], changes |-> {}, check |-> {}, failed |-> FALSE,
           todo |-> <<>>, held |-> {}, known |-> {}, holder |-> "nobody", stored |-> FALSE]

(* Engine::default *)
NewConn == [pc |-> "idle", stmt |-> NoStmt, written |-> {}, work |-> NoWork,
            inTx |-> FALSE, autocommit |-> TRUE, savepoints |-> <<>>, left |-> play.each]

NoChange == [t \in Tables |-> Nothing]

Init ==
    /\ play \in Plays
    /\ tables = [t \in Tables |-> [rows |-> play.rows[t],
                                   next |-> 1 + Max({0} \union {r[1] : r \in Present(play.rows[t])})]]
    /\ openTxns = [c \in {} |-> NoUndo]
    /\ waits = [c \in {} |-> {}]
    /\ conn = [c \in Conns |-> NewConn]
    /\ promised = play.rows
    /\ did = [c \in Conns |-> NoChange]
    /\ past = [spoiled |-> {}, mixed |-> {}, late |-> {}, freed |-> {}, dirty |-> FALSE]

Goto(c, pc) == conn' = [conn EXCEPT ![c].pc = pc]

----------------------------------------------------------------------------
(* What the exceptions of the properties name.                              *)
(* spoiled: tables in which statements got in each other's way (see         *)
(*   CommittedExactly).                                                     *)
(* mixed: <<c, t>> where another connection has changed t since c logged    *)
(*   or loaded it.                                                          *)
(* late: a row that two transactions hold, as one took it when the other    *)
(*   had looked for locks and not yet taken it.                             *)
(* freed: <<c, d>> where d has let go of a row since c met it.              *)
(* dirty: a foreign key was checked against rows that are not committed, or *)
(*   that changed before the statement stored.                              *)

Spoil(ts) == past' = [past EXCEPT !.spoiled = @ \union ts]
If(x, condition) == IF condition THEN {x} ELSE {}

(* c changes tables that others have in their logs, or have loaded.         *)
Changing(new) == {t \in Tables : new[t].rows # tables[t].rows}
Mixing(c, ts) ==
    {x \in (Conns \ {c}) \X ts : x[1] \in LogsOf(x[2], c) \/ x[2] \in DOMAIN conn[x[1]].work.pending}
(* What is mixed when c no longer has a table loaded.                       *)
StillLogged(c) ==
    {x \in past.mixed : x[1] = c => c \in DOMAIN openTxns /\ x[2] \in DOMAIN openTxns[c].tables}

(* Those that met a row of c's.                                             *)
WaitingFor(c) ==
    {d \in Conns \ {c} : \/ conn[d].work.holder = c
                         \/ d \in DOMAIN waits /\ waits[d] = c
                         \/ \E h \in conn[d].work.held : h.by = c}
LetGo(c) == {<<d, c>> : d \in WaitingFor(c)}
NoneOf(c, pairs) == {x \in pairs : x[1] # c}

(* c's transaction ends, with the tables it puts back.                      *)
Ends(c, new) ==
    [past EXCEPT !.mixed = NoneOf(c, @ \union Mixing(c, Changing(new))),
                 !.late = {l \in @ : c \notin l.conns},
                 !.freed = NoneOf(c, @) \union LetGo(c)]

(* A transaction has stored t and not yet recorded it in its log.           *)
Unrecorded(c, t) ==
    \E d \in Conns \ {c} : conn[d].inTx /\ conn[d].work.stored /\ t \in CascadeReach(conn[d].stmt.table)

Plus2(f, g) == [t \in Tables |-> Plus(f[t], g[t])]

Changes(c, t) == {r[1] : r \in {x \in Row : did[c][t][x] # 0}}
LocksOf(c, t) == IF c \in DOMAIN openTxns THEN {l \in openTxns[c].locks : l.table = t} ELSE {}

(* The rows of t that the transactions of others hold; those that c can     *)
(* know of; and those it takes although another has them, having looked     *)
(* before the other took them or ended its statement.                       *)
Holdings(c, t, others) ==
    UNION {{[by |-> d, id |-> i, exclusive |-> TRUE] : i \in Changes(d, t)}
           \union {[by |-> d, id |-> l.id, exclusive |-> l.exclusive] : l \in LocksOf(d, t)} :
           d \in others \ {c}}
Known(c, t) == Holdings(c, t, {d \in Conns : ~conn[d].work.stored})
Overlapping(c, t, keys, exclusive) ==
    {[conns |-> {c, h.by}, table |-> t, id |-> h.id] :
        h \in {x \in Holdings(c, t, Conns) \ conn[c].work.known :
                  x.id \in keys /\ (exclusive \/ x.exclusive)}}

(* The steps of a statement hold DbState's lock one at a time; c has one.    *)
At(c, pc) == conn[c].pc = pc
Done(c) == [conn[c] EXCEPT !.pc = "idle", !.stmt = NoStmt, !.written = {}, !.work = NoWork]
Quietly == UNCHANGED <<promised, did, play>>

(* A connection sends at most play.each statements, all together play.most. *)
Sent == FoldSet(LAMBDA c, n : n + play.each - conn[c].left, 0, Conns)
MaySend(c) == At(c, "idle") /\ conn[c].left > 0 /\ Sent < play.most
ToSend(c) == IF MaySend(c) THEN play.sends[c][play.each - conn[c].left + 1] ELSE {}

----------------------------------------------------------------------------
(* What a connection does to its transaction.                               *)

(* Engine::commit: the writes stay, the log goes.                           *)
Committed(c, next) ==
    /\ past' = Ends(c, tables)
    /\ openTxns' = Drop(openTxns, c)
    /\ promised' = Plus2(promised, did[c])
    /\ did' = [did EXCEPT ![c] = NoChange]
    /\ conn' = [conn EXCEPT ![c] = [next EXCEPT !.inTx = FALSE, !.savepoints = <<>>]]
    /\ UNCHANGED <<tables, play>>

(* The tables of a statement that ends with an error, having stored one.    *)
Halved(c) == IF conn[c].work.stored THEN CascadeReach(conn[c].stmt.table) ELSE {}

(* Engine::rollback and ROLLBACK: the log is undone.                        *)
RolledBack(c, next) ==
    /\ tables' = IF c \in DOMAIN openTxns THEN UndoLog(openTxns[c].tables) ELSE tables
    /\ past' = [Ends(c, tables') EXCEPT !.spoiled = @ \union Halved(c)]
    /\ openTxns' = Drop(openTxns, c)
    /\ did' = [did EXCEPT ![c] = NoChange]
    /\ conn' = [conn EXCEPT ![c] = [next EXCEPT !.inTx = FALSE, !.savepoints = <<>>]]
    /\ UNCHANGED <<promised, play>>

(* BEGIN commits a transaction that is open.                                *)
Begin(c) ==
    /\ At(c, "idle")
    /\ openTxns' = Drop(openTxns, c)
    /\ promised' = Plus2(promised, did[c])
    /\ did' = [did EXCEPT ![c] = NoChange]
    /\ conn' = [conn EXCEPT ![c].inTx = TRUE, ![c].savepoints = <<>>]
    /\ past' = Ends(c, tables)
    /\ UNCHANGED <<tables, waits, play>>

Commit(c) ==
    /\ At(c, "idle") /\ conn[c].inTx
    /\ Committed(c, conn[c])
    /\ UNCHANGED waits

Rollback(c) ==
    /\ At(c, "idle") /\ conn[c].inTx
    /\ RolledBack(c, conn[c])
    /\ UNCHANGED waits

(* SET autocommit: switching it on commits.                                 *)
SetAutocommit(c, on) ==
    /\ "autocommit" \in play.controls
    /\ At(c, "idle") /\ conn[c].autocommit # on
    /\ IF on THEN Committed(c, [conn[c] EXCEPT !.autocommit = TRUE])
       ELSE /\ conn' = [conn EXCEPT ![c].autocommit = FALSE]
            /\ UNCHANGED <<tables, openTxns, promised, did, past, play>>
    /\ UNCHANGED waits

(* The connection ends, its Session is dropped, and a client connects anew. *)
Disconnect(c) ==
    /\ "disconnect" \in play.controls
    /\ At(c, "idle") /\ conn[c] # [NewConn EXCEPT !.left = conn[c].left]
    /\ RolledBack(c, [NewConn EXCEPT !.left = conn[c].left])
    /\ UNCHANGED waits

(* SAVEPOINT: how every table in the log stands now.                        *)
Savepoint(c, name) ==
    LET log == IF c \in DOMAIN openTxns THEN openTxns[c].tables ELSE NoUndo.tables
        now == [t \in DOMAIN log |-> tables[t].rows]
        others == SelectSeq(conn[c].savepoints, LAMBDA sp : sp.name # name)
    IN  /\ At(c, "idle") /\ (conn[c].inTx \/ ~conn[c].autocommit)
        /\ conn' = [conn EXCEPT ![c].inTx = TRUE,
                                ![c].savepoints = Append(others, [name |-> name, tables |-> now, did |-> did[c]])]
        /\ UNCHANGED <<tables, openTxns, waits, promised, did, past, play>>

Named(c, name) == {i \in DOMAIN conn[c].savepoints : conn[c].savepoints[i].name = name}

(* ROLLBACK TO SAVEPOINT: tables in the log since before the savepoint go   *)
(* back to how they stood, the others to their image before the             *)
(* transaction, and leave the log.                                          *)
SavepointImage(sp, t, before) == IF t \in DOMAIN sp.tables THEN sp.tables[t] ELSE before

RollbackTo(c, name) ==
    \E i \in Named(c, name) :
        LET sp == conn[c].savepoints[i]
            undo == openTxns[c]
            partial == [t \in DOMAIN undo.tables |->
                           [undo.tables[t] EXCEPT !.before = SavepointImage(sp, t, @)]]
            kept == [t \in DOMAIN undo.tables \intersect DOMAIN sp.tables |->
                        [undo.tables[t] EXCEPT !.ours = UndoLog(partial)[t].rows]]
        IN  /\ MaySend(c)
            /\ conn' = [conn EXCEPT ![c].savepoints = SubSeq(@, 1, i), ![c].left = @ - 1]
            /\ did' = [did EXCEPT ![c] = sp.did]
            /\ IF c \in DOMAIN openTxns
               THEN /\ tables' = UndoLog(partial)
                    /\ openTxns' = [openTxns EXCEPT ![c].tables = kept]
                    /\ past' = [past EXCEPT
                          !.spoiled = @ \union {t \in DOMAIN kept : <<c, t>> \in past.mixed},
                          !.mixed = {x \in @ \union Mixing(c, Changing(tables')) :
                                        x[1] = c => x[2] \in DOMAIN kept},
                          !.freed = @ \union LetGo(c)]
               ELSE UNCHANGED <<tables, openTxns, past>>
            /\ UNCHANGED <<waits, promised, play>>

ReleaseSavepoint(c, name) ==
    \E i \in Named(c, name) :
        /\ At(c, "idle")
        /\ conn' = [conn EXCEPT ![c].savepoints = SubSeq(@, 1, i - 1)]
        /\ UNCHANGED <<tables, openTxns, waits, promised, did, past, play>>

----------------------------------------------------------------------------
(* A statement, step by step.                                               *)

(* before_plan: a write in a transaction logs every table it can reach that *)
(* is not in the log yet; a locking read opens the log.                     *)
Logged(undo, keys) ==
    [undo EXCEPT !.tables =
        [t \in DOMAIN undo.tables \union keys |->
            IF t \in DOMAIN undo.tables THEN undo.tables[t]
            ELSE [before |-> tables[t].rows, ours |-> tables[t].rows]]]

UndoOf(c) == IF c \in DOMAIN openTxns THEN openTxns[c] ELSE NoUndo
Lockings == {"for update", "for share", "nowait", "skip locked"}

(* run_plan starts.                                                         *)
BeforePlan(c, s) ==
    LET inTx == conn[c].inTx \/ ~conn[c].autocommit
        keys == IF inTx /\ s.op \notin Lockings THEN CascadeReach(s.table) ELSE {}
    IN  /\ MaySend(c)
        /\ conn' = [conn EXCEPT ![c].pc = IF s.op \in Lockings THEN "held" ELSE "load",
                                ![c].stmt = s, ![c].written = keys, ![c].inTx = inTx, ![c].left = @ - 1]
        /\ openTxns' = IF inTx THEN Put(openTxns, c, Logged(UndoOf(c), keys)) ELSE openTxns
        /\ UNCHANGED <<tables, waits, promised, did, past, play>>

(* Where a statement goes when its copy is ready: finish_write where        *)
(* foreign keys matter, store_table otherwise.                              *)
Prepared(c, work) ==
    LET s == conn[c].stmt IN
    CASE work.failed -> "failed"
      [] ~work.failed /\ FkRelevant /\ s.table = "child" /\ work.check # {} -> "parents"
      [] ~work.failed /\ FkRelevant /\ s.table = "parent" /\ work.changes # {} -> "children"
      [] ~work.failed /\ ~FkRelevant -> "recheck"
      [] OTHER -> IF s.op = "delete" THEN "recheck" ELSE "check"

(* load_table, and the work on the copy.                                    *)
Load(c) ==
    LET s == conn[c].stmt
        t == tables[s.table]
        res == Executed(t, s)
        work == [conn[c].work EXCEPT
                    !.pending = [x \in {s.table} |-> [base |-> t, table |-> res.table]],
                    !.changes = res.changes, !.check = res.check, !.failed = res.failed,
                    !.todo = <<s.table>>]
        duplicate == s.op \in Inserts /\ WithKey(t.rows, InsertId(t, s)) # {}
    IN  /\ At(c, "load")
        /\ conn' = [conn EXCEPT ![c].work = work,
                                ![c].pc = IF duplicate THEN "conflict" ELSE Prepared(c, work)]
        /\ Quietly /\ UNCHANGED <<tables, openTxns, waits, past>>

(* A lock that is in the way: run_plan hears of its holder.                 *)
Blocked(c, holder) == conn' = [conn EXCEPT ![c].pc = "blocked", ![c].work.holder = holder]
Sees(c, holders) == past' = [past EXCEPT !.freed = @ \ ({c} \X holders)]

(* An INSERT's duplicate: wait_if_locked.                                   *)
Conflict(c) ==
    LET s == conn[c].stmt
        id == InsertId(conn[c].work.pending[s.table].base, s)
        holders == {l.by : l \in {k \in LockedRows(c, s.table) : k.id = id}}
    IN  /\ At(c, "conflict")
        /\ \/ \E h \in holders : Blocked(c, h) /\ Sees(c, {h})
           \/ holders = {} /\ Goto(c, Prepared(c, conn[c].work)) /\ UNCHANGED past
        /\ Quietly /\ UNCHANGED <<tables, openTxns, waits>>

Dirty(condition) == past' = [past EXCEPT !.dirty = @ \/ condition]
Keys(rows) == {r[1] : r \in Present(rows)}

(* check_parents: every new or changed child row has its parent, committed  *)
(* or not.                                                                  *)
CheckParents(c) ==
    LET needed == {r[2] : r \in conn[c].work.check} \ {0}
        found == needed \subseteq Keys(tables["parent"].rows)
    IN  /\ At(c, "parents")
        /\ conn' = [conn EXCEPT ![c].pc = IF found THEN "check" ELSE "failed"]
        /\ Dirty(\/ found /\ ~(needed \subseteq Keys(CommittedView(c, "parent")))
                 \/ Unrecorded(c, "parent"))
        /\ Quietly /\ UNCHANGED <<tables, openTxns, waits>>

(* on_parent_change: the rows that reference a parent row that went or got  *)
(* another key forbid it, go with it, follow it or are set to NULL.         *)
OnParentChange(c) ==
    LET work == conn[c].work
        child == tables["child"]
        hits == Orphaned(child.rows, work.changes)
        new == [child EXCEPT !.rows = ParentChanged(@, work.changes)]
    IN  /\ At(c, "children")
        /\ IF play.action = "restrict" /\ hits # {} THEN Goto(c, "failed")
           ELSE conn' = [conn EXCEPT ![c].pc = "check",
                                     ![c].work.pending = Put(@, "child", [base |-> child, table |-> new]),
                                     ![c].work.todo = <<"child", "parent">>]
        /\ Dirty(\/ ~(Orphaned(CommittedView(c, "child"), work.changes) \subseteq hits)
                 \/ Unrecorded(c, "child"))
        /\ Quietly /\ UNCHANGED <<tables, openTxns, waits>>

(* check_write_locks: who holds a row of t that the write would change.     *)
Faulty_WriteLocks(c, t) == {}

WriteLocks(c, t) ==
    LET keys == ChangedKeys(tables[t].rows, conn[c].work.pending[t].table.rows)
    IN  {l.by : l \in {k \in LockedRows(c, t) : k.id \in keys}}

(* finish_write looks at the locks of every pending table first.            *)
CheckWriteLocks(c) ==
    LET work == conn[c].work
        t == Head(work.todo)
        order == IF "child" \in DOMAIN work.pending /\ Cardinality(DOMAIN work.pending) = 2
                 THEN <<"child", "parent">> ELSE <<conn[c].stmt.table>>
    IN  /\ At(c, "check")
        /\ \/ \E h \in WriteLocks(c, t) : Blocked(c, h) /\ Sees(c, {h})
           \/ /\ WriteLocks(c, t) = {}
              /\ conn' = [conn EXCEPT ![c].pc = IF Len(work.todo) > 1 THEN "check" ELSE "recheck",
                                      ![c].work.todo = IF Len(@) > 1 THEN Tail(@) ELSE order]
              /\ UNCHANGED past
        /\ Quietly /\ UNCHANGED <<tables, openTxns, waits>>

(* store_table looks again ...                                              *)
Recheck(c) ==
    LET t == Head(conn[c].work.todo)
    IN  /\ At(c, "recheck")
        /\ \/ \E h \in WriteLocks(c, t) : Blocked(c, h) /\ Sees(c, {h})
           \/ /\ WriteLocks(c, t) = {}
              /\ conn' = [conn EXCEPT ![c].pc = "store", ![c].work.known = Known(c, t)]
              /\ Spoil(If(t, Unrecorded(c, t)))
        /\ Quietly /\ UNCHANGED <<tables, openTxns, waits>>

(* What the foreign-key checks found no longer holds, or not of what is     *)
(* committed.                                                               *)
Outdated(c, t) ==
    LET work == conn[c].work
        left == IF "child" \in DOMAIN work.pending THEN Present(work.pending["child"].table.rows) ELSE {}
        needed == IF conn[c].stmt.table = "child" THEN {r[2] : r \in work.check} \ {0} ELSE {}
    IN  /\ FkRelevant
        /\ \/ t = "parent" /\ ~(Orphaned(tables["child"].rows, work.changes) \subseteq left)
           \/ ~(needed \subseteq Keys(tables["parent"].rows) \intersect Keys(CommittedView(c, "parent")))

(* ... and stores the copy, whatever the table is by now.                   *)
StoreTable(c) ==
    LET work == conn[c].work
        t == Head(work.todo)
        p == work.pending[t]
        keys == IF conn[c].inTx THEN ChangedKeys(p.base.rows, p.table.rows) ELSE {}
        change == [x \in Tables |-> IF x = t THEN Net(p.base.rows, p.table.rows) ELSE Nothing]
    IN  /\ At(c, "store")
        /\ tables' = [tables EXCEPT ![t] = p.table]
        /\ conn' = [conn EXCEPT ![c].work.todo = Tail(@), ![c].work.stored = TRUE, ![c].work.known = {},
                                ![c].pc = IF Len(work.todo) > 1 THEN "recheck" ELSE "after"]
        /\ IF conn[c].inTx THEN did' = [did EXCEPT ![c] = Plus2(@, change)] /\ UNCHANGED promised
                           ELSE promised' = Plus2(promised, change) /\ UNCHANGED did
        /\ past' = [past EXCEPT !.spoiled = @ \union If(t, <<c, t>> \in past.mixed),
                                !.mixed = @ \union Mixing(c, Changing(tables')),
                                !.late = @ \union Overlapping(c, t, keys, TRUE),
                                !.dirty = @ \/ Outdated(c, t)]
        /\ UNCHANGED <<openTxns, waits, play>>

(* Rows that were changed are as before the transaction again.              *)
Frees(log, now) ==
    \E t \in DOMAIN log : ~(ChangedKeys(log[t].before, log[t].ours)
                              \subseteq ChangedKeys(now[t].before, now[t].ours))

(* run_plan's end, and after_plan: the log's tables as the write left them. *)
AfterPlan(c) ==
    LET log == UndoOf(c).tables
        now == [t \in DOMAIN log |-> IF t \in conn[c].written
                                     THEN [log[t] EXCEPT !.ours = tables[t].rows] ELSE log[t]]
    IN  /\ At(c, "after")
        /\ openTxns' = IF c \in DOMAIN openTxns THEN [openTxns EXCEPT ![c].tables = now] ELSE openTxns
        /\ waits' = Drop(waits, c)
        /\ conn' = [conn EXCEPT ![c] = Done(c)]
        /\ past' = [past EXCEPT
              !.spoiled = @ \union {t \in conn[c].written : <<c, t>> \in past.mixed},
              !.mixed = StillLogged(c),
              !.freed = NoneOf(c, @) \union IF Frees(log, now) THEN LetGo(c) ELSE {}]
        /\ Quietly /\ UNCHANGED tables

Errs(c) ==
    [past EXCEPT !.spoiled = @ \union Halved(c), !.mixed = StillLogged(c), !.freed = NoneOf(c, @)]

(* An error is answered.  An INSERT has used up the keys it generated.      *)
Fails(c) ==
    LET s == conn[c].stmt
        p == conn[c].work.pending[s.table]
        consumes == s.op \in Inserts /\ p.table.next > p.base.next
    IN  /\ At(c, "failed") /\ past' = Errs(c)
        /\ tables' = IF consumes THEN [tables EXCEPT ![s.table].next = p.table.next] ELSE tables
        /\ waits' = Drop(waits, c)
        /\ conn' = [conn EXCEPT ![c] = Done(c)]
        /\ Quietly /\ UNCHANGED openTxns

(* Following `waits` from a connection, step by step.                       *)
Follow(w, from, c) ==
    LET at[n \in 0..Cardinality(Conns)] ==
            IF n = 0 THEN from
            ELSE IF at[n - 1] \in DOMAIN w THEN w[at[n - 1]] ELSE "nobody"
    IN  \E n \in 1..Cardinality(Conns) : at[n] = c

(* run_plan waits for the holder, unless that closes a cycle.               *)
Faulty_ClosesCycle(c, holder) == holder \in DOMAIN waits

ClosesCycle(c, holder) == Follow(waits, holder, c)

Wait(c) ==
    LET holder == conn[c].work.holder
        cycle == ClosesCycle(c, holder)
    IN  /\ At(c, "blocked")
        /\ waits' = IF cycle THEN Drop(waits, c) ELSE Put(waits, c, holder)
        /\ Goto(c, IF cycle THEN "deadlock" ELSE "waiting")
        /\ Quietly /\ UNCHANGED <<tables, openTxns, past>>

(* After 5 ms the statement is run again from its start.                    *)
Retry(c) ==
    /\ At(c, "waiting")
    /\ conn' = [conn EXCEPT ![c].pc = IF conn[c].stmt.op \in Lockings THEN "held" ELSE "load",
                            ![c].work = [NoWork EXCEPT !.stored = conn[c].work.stored]]
    /\ past' = [past EXCEPT !.mixed = StillLogged(c)]
    /\ Quietly /\ UNCHANGED <<tables, openTxns, waits>>

(* innodb_lock_wait_timeout: error 1205, the transaction goes on.           *)
Timeout(c) ==
    /\ "timeout" \in play.controls
    /\ At(c, "waiting")
    /\ waits' = Drop(waits, c)
    /\ conn' = [conn EXCEPT ![c] = Done(c)]
    /\ past' = Errs(c)
    /\ Quietly /\ UNCHANGED <<tables, openTxns>>

(* Error 1213: the transaction is rolled back.                              *)
Deadlock(c) ==
    /\ At(c, "deadlock")
    /\ RolledBack(c, Done(c))
    /\ UNCHANGED waits

----------------------------------------------------------------------------
(* Locking reads and DDL.                                                   *)

Exclusive(s) == s.op # "for share"

(* The rows others hold, when the statement starts.                         *)
Held(c) ==
    LET t == conn[c].stmt.table
        held == LockedRows(c, t)
    IN  /\ At(c, "held")
        /\ conn' = [conn EXCEPT ![c].pc = "take", ![c].work.held = held, ![c].work.known = Known(c, t)]
        /\ Sees(c, {h.by : h \in held})
        /\ Quietly /\ UNCHANGED <<tables, openTxns, waits>>

(* Those of the held rows that a locking read cannot have.                  *)
InTheWay(s, held) == {h \in held : Exclusive(s) \/ h.exclusive}

(* The keys the read selects: those given, or (SKIP LOCKED) the first row   *)
(* that is not locked.                                                      *)
Selected(c, s) ==
    LET seen == Keys(CommittedView(c, s.table))
        free == seen \ {h.id : h \in InTheWay(s, conn[c].work.held)}
    IN  IF s.op # "skip locked" THEN seen \intersect {s.id}
        ELSE IF free = {} THEN {} ELSE {Min(free)}

TakeLocks(c) ==
    LET s == conn[c].stmt
        keys == Selected(c, s)
        way == {h \in InTheWay(s, conn[c].work.held) : h.id \in keys}
        locks == {[table |-> s.table, id |-> k, exclusive |-> Exclusive(s)] : k \in keys}
    IN  /\ At(c, "take")
        /\ \/ /\ way # {} /\ s.op # "nowait"
              /\ \E h \in way : Blocked(c, h.by)
              /\ UNCHANGED <<openTxns, waits, past>>
           \/ /\ way # {} /\ s.op = "nowait"
              /\ conn' = [conn EXCEPT ![c] = Done(c)]
              /\ waits' = Drop(waits, c) /\ past' = Errs(c)
              /\ UNCHANGED openTxns
           \/ /\ way = {}
              /\ Goto(c, "after")
              /\ IF c \in DOMAIN openTxns
                 THEN /\ openTxns' = [openTxns EXCEPT ![c].locks = @ \union locks]
                      /\ past' = [past EXCEPT !.late = @ \union Overlapping(c, s.table, keys, Exclusive(s))]
                 ELSE UNCHANGED <<openTxns, past>>
              /\ UNCHANGED waits
        /\ Quietly /\ UNCHANGED tables

(* TRUNCATE (as other DDL) first commits, then empties the table, unless    *)
(* another table references it.                                             *)
Ddl(c, s) ==
    /\ MaySend(c)
    /\ Committed(c, [conn[c] EXCEPT !.pc = "truncate", !.stmt = s, !.left = @ - 1])
    /\ UNCHANGED waits

Truncate(c) ==
    LET t == conn[c].stmt.table
        others == LogsOf(t, c)
    IN  /\ At(c, "truncate")
        /\ IF Referencing(t) # {} THEN UNCHANGED <<tables, promised, past>>
           ELSE /\ tables' = [tables EXCEPT ![t] = [rows |-> Nothing, next |-> 1]]
                /\ promised' = [promised EXCEPT ![t] = Nothing]
                /\ past' = [past EXCEPT !.spoiled = @ \union If(t, others # {}),
                                        !.mixed = @ \union Mixing(c, Changing(tables'))]
        /\ waits' = Drop(waits, c)
        /\ conn' = [conn EXCEPT ![c] = Done(c)]
        /\ UNCHANGED <<openTxns, did, play>>

----------------------------------------------------------------------------
Client(c) ==
    \/ "txn" \in play.controls /\ (Begin(c) \/ Rollback(c))
    \/ "begin" \in play.controls /\ ((~conn[c].inTx /\ MaySend(c) /\ Begin(c)) \/ Rollback(c))
    \/ Commit(c)
    \/ \E on \in BOOLEAN : SetAutocommit(c, on)
    \/ Disconnect(c)
    \/ \E n \in Names : /\ "savepoint" \in play.controls
                        /\ Savepoint(c, n) \/ RollbackTo(c, n) \/ ReleaseSavepoint(c, n)
    \/ \E s \in ToSend(c) : IF s.op = "truncate" THEN Ddl(c, s) ELSE BeforePlan(c, s)

Server(c) ==
    \/ Load(c) \/ Conflict(c) \/ CheckParents(c) \/ OnParentChange(c)
    \/ CheckWriteLocks(c) \/ Recheck(c) \/ StoreTable(c) \/ AfterPlan(c) \/ Fails(c)
    \/ Wait(c) \/ Retry(c) \/ Deadlock(c)
    \/ Held(c) \/ TakeLocks(c) \/ Truncate(c)

Next == \E c \in play.conns : Client(c) \/ Server(c) \/ Timeout(c)

Spec == Init /\ [][Next]_vars

----------------------------------------------------------------------------
(* Properties.                                                              *)

Settled == \A c \in Conns : ~conn[c].work.stored

(* What the service saves is what was committed, and what a connection      *)
(* reads is that and its own changes, when other connections write to the   *)
(* same table, commit or roll back before or after it (snapshot,            *)
(* committed_view, undo).  The exceptions are tables that are spoiled: a    *)
(* statement stored its copy when the table had changed since it loaded it, *)
(* or looked at the locks when another had stored and not logged; a         *)
(* transaction wrote to a table, or went back to a savepoint, when another  *)
(* connection had changed the table since it first logged it (after_plan    *)
(* takes the whole table for its own); the table was truncated under a      *)
(* transaction; or a statement failed that had stored one of its tables.    *)
CommittedExactly ==
    Settled => \A t \in Tables \ past.spoiled :
        /\ Snapshot(t) = promised[t]
        /\ \A c \in Conns : CommittedView(c, t) = Plus(promised[t], did[c][t])

HeldRows(c, t, exclusive) ==
    Changes(c, t) \union {l.id : l \in {k \in LocksOf(c, t) : exclusive => k.exclusive}}

(* No two open transactions have changed, or locked for update, the same    *)
(* row; a row locked to share is changed by nobody else (check_write_locks, *)
(* wait_if_locked, FOR UPDATE, SKIP LOCKED).  The exceptions: a row the one *)
(* took, or was in the middle of a statement taking, after the other had    *)
(* looked for locks and before it took the row itself; and spoiled tables,  *)
(* whose logs are wrong.                                                    *)
LocksExclude ==
    Settled => \A c, d \in Conns : c # d => \A t \in Tables \ past.spoiled :
        \A i \in HeldRows(c, t, TRUE) \intersect HeldRows(d, t, FALSE) :
            [conns |-> {c, d}, table |-> t, id |-> i] \in past.late

(* Every committed child row has its committed parent, whatever is deleted, *)
(* renumbered, rolled back or cascaded (check_parents, on_parent_change).   *)
(* The exceptions: a check met rows that were not committed, or that        *)
(* changed before the statement stored; and spoiled tables.                 *)
NoOrphans ==
    Settled /\ play.fk /\ ~past.dirty /\ past.spoiled = {} =>
        \A r \in Present(promised["child"]) : r[2] # 0 => r[2] \in Keys(promised["parent"])

(* d's statement is held up by rows of e's transaction.                     *)
BlockedBy(d, e) ==
    /\ ~At(d, "idle")
    /\ \E t \in CascadeReach(conn[d].stmt.table) : \E l \in LockedRows(d, t) : l.by = e

(* The connection that d waits for, where c is about to.                    *)
NextOf(c, d) == IF d = c THEN conn[c].work.holder ELSE waits[d]

(* A transaction is rolled back with error 1213 only in a circle of         *)
(* connections each of which is in a statement that waits for a row the     *)
(* next one holds (run_plan: `waits` is kept while a statement is tried     *)
(* again and dropped at each of its ends).  The exception: the next one has *)
(* let go of its row since the waiting one met it.                          *)
VictimsWait ==
    [][\A c \in Conns : At(c, "blocked") /\ conn'[c].pc = "deadlock" =>
          \E circle \in SUBSET ({c} \union DOMAIN waits) :
              /\ c \in circle /\ {NextOf(c, d) : d \in circle} = circle
              /\ \A d \in circle : LET e == NextOf(c, d) IN
                    BlockedBy(d, e) \/ (~At(d, "idle") /\ <<d, e>> \in past.freed)]_vars
============================================================================

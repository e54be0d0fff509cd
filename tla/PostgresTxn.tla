----------------------------- MODULE PostgresTxn -----------------------------
(***************************************************************************)
(* Sessions and transactions of the Postgres service.                      *)
(*                                                                         *)
(* Source: src/src/postgres/engine.rs (Engine, Global, Session, Txn) and   *)
(* the wire-protocol layer that drives it, src/src/postgres/server.rs.     *)
(*                                                                         *)
(* A database is a whole value (`DbState`): BEGIN clones it, a statement   *)
(* changes the clone, COMMIT stores the clone back.  One write lock for    *)
(* the whole server (`Global::writer`) is what keeps two clones from       *)
(* overwriting each other.  A DbState is abstracted to the set of writes   *)
(* applied to it; a write is a row of this set, whatever it did (INSERT,   *)
(* DELETE, DDL).                                                           *)
(*                                                                         *)
(* Each action below is one critical section of the engine's mutex         *)
(* together with the session-local work around it; `pc` says where the     *)
(* connection's thread is between two of them.                             *)
(***************************************************************************)
EXTENDS Integers, Sequences, FiniteSets

CONSTANTS
    Sessions,         \* the session ids `Engine::connect` hands out
    NoSession,        \* `Global::writer == None`
    Databases,        \* database names
    InitialDatabases, \* the ones that exist when the service starts
    Names,            \* savepoint names
    Kinds,            \* the kinds of write clients make, see KindNames
    MaxWrites,        \* bound: write statements run by one session
    MaxStatements,    \* bound: statements in one simple-query message
    MaxSavepoints,    \* bound: depth of a session's savepoint stack
    ClientPatterns    \* the unusual client behaviours allowed, see Patterns

\* "perm": a write to an ordinary object; "temp": to an object of the
\* session's temporary schema; "onCommit": to a temporary table declared
\* ON COMMIT DELETE ROWS or ON COMMIT DROP.
KindNames == {"perm", "temp", "onCommit"}

\* "savepoint-first": SAVEPOINT before the transaction's first write;
\* "begin-in-implicit": BEGIN after a write of the same multi-statement query
\* or pipeline; "message-error": a Parse, Bind or Describe that fails after a
\* write of the same pipeline; "copy-eof": the client closes its connection
\* inside COPY FROM STDIN; "slow-writer": a transaction that keeps the write
\* lock longer than the 30 s a disconnecting session waits for it.
Patterns == {"savepoint-first", "begin-in-implicit", "message-error",
             "copy-eof", "slow-writer"}

ASSUME PostgresConstants ==
    /\ NoSession \notin Sessions
    /\ InitialDatabases \subseteq Databases /\ InitialDatabases # {}
    /\ Kinds \subseteq KindNames
    /\ MaxWrites \in Nat /\ MaxStatements \in Nat /\ MaxSavepoints \in Nat
    /\ ClientPatterns \subseteq Patterns

VARIABLES
    exists,    \* keys of Global::databases
    db,        \* the committed DbState of each database
    writer,    \* Global::writer
    sess,      \* each session's Session and the state of its thread
    promised   \* history: the writes whose commit a client was told of

vars == <<exists, db, writer, sess, promised>>

Row == [by : Sessions, n : 1..MaxWrites, kind : KindNames]

Savepoint == [name : Names, state : SUBSET Row, mine : SUBSET Row]

\* "late": gone, its wait for the write lock timed out.
PCs == {"new", "main", "next", "acquire", "run", "copy", "leaving", "gone", "late"}

\* `open` is `txn.is_some()`; state, wrote and savepoints are the Txn's;
\* `implicit` is in_implicit_tx, `skip` main_loop's skip_until_sync, `left`
\* the statements simple_query still has to run, `auto` run_data_statement's
\* own `implicit`, `copy` copy_in's `failed`.  `eof` says the client has
\* closed its end.  `made` numbers the writes and `mine` is history: the
\* writes of the transaction as its client sees it.
Session ==
    [pc : PCs, database : Databases, status : {"Idle", "InTransaction", "Failed"},
     open : BOOLEAN, state : SUBSET Row, wrote : BOOLEAN,
     savepoints : Seq(Savepoint), implicit : BOOLEAN, skip : BOOLEAN,
     mode : {"query", "exec"}, left : 0..MaxStatements + 1, auto : BOOLEAN,
     copy : {"no", "ok", "failed"}, eof : BOOLEAN, made : 0..MaxWrites,
     mine : SUBSET Row]

NewSession(pc, d) ==
    [pc |-> pc, database |-> d, status |-> "Idle", open |-> FALSE,
     state |-> {}, wrote |-> FALSE, savepoints |-> <<>>, implicit |-> FALSE,
     skip |-> FALSE, mode |-> "query", left |-> 0, auto |-> FALSE,
     copy |-> "no", eof |-> FALSE, made |-> 0, mine |-> {}]

Init ==
    /\ exists = InitialDatabases
    /\ db = [d \in Databases |-> {}]
    /\ writer = NoSession
    /\ sess = [s \in Sessions |->
                 NewSession("new", CHOOSE d \in InitialDatabases : TRUE)]
    /\ promised = [d \in Databases |-> {}]

\* The keys of Global::sessions.
Registered == {s \in Sessions : sess[s].pc \notin {"new", "gone", "late"}}

-----------------------------------------------------------------------------
(* What the engine's helpers do to a session.                              *)

\* Engine::begin: a fresh clone of the committed state.
Begin(r) ==
    [r EXCEPT !.open = TRUE, !.state = db[r.database], !.wrote = FALSE,
              !.savepoints = <<>>]

\* Engine::rollback, and what Engine::commit leaves of the session: the Txn
\* is gone (the write lock is released by Settle).
CloseTxn(r) ==
    [r EXCEPT !.open = FALSE, !.state = {}, !.wrote = FALSE,
              !.savepoints = <<>>, !.mine = {}]

\* Engine::begin_implicit.
BeginImplicit(r) ==
    IF r.open THEN r ELSE [Begin(r) EXCEPT !.implicit = TRUE]

\* Engine::rollback_implicit.
RollbackImplicit(r) ==
    IF ~r.implicit THEN r
    ELSE IF r.status = "InTransaction" THEN [r EXCEPT !.implicit = FALSE]
    ELSE [CloseTxn(r) EXCEPT !.implicit = FALSE, !.status = "Idle"]

\* The end of Engine::execute when the statement failed.
ExecuteError(r) ==
    CASE r.status = "InTransaction" -> [r EXCEPT !.status = "Failed"]
      [] r.status = "Idle" /\ r.open -> CloseTxn(r)
      [] OTHER -> r

\* server.rs `error`: the ErrorResponse fails an explicit transaction.
ServerError(r) ==
    IF r.status = "InTransaction" THEN [r EXCEPT !.status = "Failed"] ELSE r

\* What simple_query or the Execute message does about a failed statement.
AnswerError(r) ==
    LET e == [ServerError(r) EXCEPT !.pc = "main", !.left = 0, !.auto = FALSE,
                                    !.copy = "no"]
    IN  IF r.mode = "query" THEN RollbackImplicit(e)
                            ELSE [e EXCEPT !.skip = TRUE]

\* A statement failed: inside COPY it only sets `failed`.
StatementError(r) ==
    IF r.copy = "no" THEN AnswerError(ExecuteError(r))
    ELSE [ExecuteError(r) EXCEPT !.pc = "copy", !.copy = "failed"]

\* A statement succeeded: inside COPY its loop goes on.
StatementDone(r) ==
    IF r.copy = "no" THEN [r EXCEPT !.pc = "next", !.left = @ - 1, !.auto = FALSE]
                     ELSE [r EXCEPT !.pc = "copy"]

\* dml's on_commit_actions: a session's ON COMMIT tables are emptied.
OnCommitActions(state, s) ==
    {w \in state : ~(w.by = s /\ w.kind = "onCommit")}

\* Faulty: leaves the temporary tables that outlive a commit.
Faulty_DropTemp(state, s) == OnCommitActions(state, s)

\* Engine::disconnect's drop_schema_objects of the session's temp schema.
DropTemp(state, s) == {w \in state : ~(w.by = s /\ w.kind # "perm")}

-----------------------------------------------------------------------------
(* Ways a step ends.                                                       *)

\* Faulty: the end of a transaction forgets the write lock.
Faulty_Settle(s, r) == sess' = [sess EXCEPT ![s] = r] /\ UNCHANGED writer

\* The session becomes r; a transaction that ended gives the lock back.
Settle(s, r) ==
    /\ sess' = [sess EXCEPT ![s] = r]
    /\ writer' = IF writer = s /\ ~r.open THEN NoSession ELSE writer

\* No committed state changes.
Local(s, r) == Settle(s, r) /\ UNCHANGED <<exists, db, promised>>

\* Engine::commit of session s, whose transaction is r's, ending in `after`.
Commit(s, r, after) ==
    LET d == r.database IN
    /\ db' = IF r.open /\ r.wrote
             THEN [db EXCEPT ![d] = OnCommitActions(r.state, s)] ELSE db
    /\ promised' = [promised EXCEPT ![d] = @ \cup OnCommitActions(r.mine, s)]
    /\ Settle(s, after)
    /\ UNCHANGED exists

\* Engine::commit, or its failure: a deferred constraint that a write left
\* violated rolls the transaction back.
CommitOr(s, r, after, failure) ==
    \/ Commit(s, r, after)
    \/ r.open /\ r.wrote /\ Local(s, failure)

\* The session after Engine::commit_implicit.
ImplicitEnded(r) ==
    LET e == [r EXCEPT !.implicit = FALSE]
    IN  IF r.implicit /\ r.status # "InTransaction" THEN CloseTxn(e) ELSE e

\* Engine::commit_implicit.
CommitImplicit(s, r, after, failure) ==
    IF r.implicit /\ r.status # "InTransaction"
    THEN CommitOr(s, r, after, failure)
    ELSE Local(s, after)

-----------------------------------------------------------------------------
(* Connections and protocol messages (server.rs: serve, main_loop).        *)

\* Engine::connect.
Connect(s, d) ==
    /\ sess[s].pc = "new"
    /\ d \in exists
    /\ Local(s, NewSession("main", d))

\* main_loop is waiting for a message that it will not skip.
AtMessage(s) == sess[s].pc = "main" /\ ~sess[s].skip /\ ~sess[s].eof

\* A Query message of n statements: several of them share a transaction.
\* (Clients end a pipeline with Sync before they send a Query.)
SimpleQuery(s, n) ==
    LET r == sess[s] IN
    /\ AtMessage(s) /\ ~r.implicit
    /\ Local(s, [IF n > 1 THEN BeginImplicit(r) ELSE r
                   EXCEPT !.pc = "next", !.mode = "query", !.left = n])

\* An Execute message: its statement joins the pipeline's transaction.
ExecuteMessage(s) ==
    /\ AtMessage(s)
    /\ Local(s, [BeginImplicit(sess[s])
                   EXCEPT !.pc = "next", !.mode = "exec", !.left = 1])

\* A Parse, Bind or Describe that fails, or a Query that does not parse.
\* An error inside a pipeline withdraws what its client was told before.
MessageError(s) ==
    LET r == sess[s] IN
    /\ AtMessage(s)
    /\ r.implicit /\ r.wrote => "message-error" \in ClientPatterns
    /\ \E extended \in BOOLEAN :
          /\ r.implicit => extended
          /\ Local(s, [ServerError(r) EXCEPT !.skip = extended,
                      !.mine = IF r.implicit /\ r.status = "Idle" THEN {} ELSE @])

\* Sync ends the pipeline.
Sync(s) ==
    LET r == [sess[s] EXCEPT !.skip = FALSE] IN
    /\ sess[s].pc = "main" /\ ~sess[s].eof
    /\ IF r.implicit /\ r.status = "Failed"
       THEN Local(s, RollbackImplicit(r))
       ELSE CommitImplicit(s, r, ImplicitEnded(r),
                           [ImplicitEnded(r) EXCEPT !.status = "Idle"])

\* The last statement of the message has run.
MessageDone(s) ==
    LET r == [sess[s] EXCEPT !.pc = "main"] IN
    /\ sess[s].pc = "next" /\ sess[s].left = 0
    /\ IF r.mode = "query"
       THEN CommitImplicit(s, r, ImplicitEnded(r),
                           [ImplicitEnded(r) EXCEPT !.status = "Idle"])
       ELSE Local(s, r)

\* main_loop returns: Terminate, end of stream or a socket error.
Leave(s) ==
    /\ sess[s].pc = "main"
    /\ Local(s, [sess[s] EXCEPT !.pc = "leaving"])

\* Engine::disconnect, once no other transaction is writing.  Nothing of the
\* Session is left.
Disconnect(s) ==
    LET r == sess[s]  d == r.database IN
    /\ r.pc = "leaving"
    /\ writer \in {NoSession, s}
    /\ db' = [db EXCEPT ![d] = DropTemp(@, s)]
    /\ promised' = [promised EXCEPT ![d] = DropTemp(@, s)]
    /\ Settle(s, NewSession("gone", d))
    /\ UNCHANGED exists

\* Engine::disconnect gives up waiting after 30 s and drops nothing.
DisconnectTimesOut(s) ==
    /\ "slow-writer" \in ClientPatterns
    /\ sess[s].pc = "leaving"
    /\ writer \notin {NoSession, s}
    /\ Local(s, NewSession("late", sess[s].database))

-----------------------------------------------------------------------------
(* Statements (Engine::execute, run_statement, run_data_statement).        *)

AtStatement(s) == sess[s].pc = "next" /\ sess[s].left > 0

\* In a failed block everything but COMMIT, ROLLBACK and ROLLBACK TO is
\* refused (25P02).
Refused(s) ==
    /\ AtStatement(s)
    /\ sess[s].status = "Failed"
    /\ Local(s, StatementError(sess[s]))

\* A statement the block's state lets through.
Runs(s) == AtStatement(s) /\ sess[s].status # "Failed"

\* BEGIN: a warning in a block, otherwise a new transaction (also when a
\* pipeline or a multi-statement query has an implicit one).
StartTransaction(s) ==
    LET r == sess[s] IN
    /\ Runs(s)
    /\ r.wrote /\ r.status = "Idle" => "begin-in-implicit" \in ClientPatterns
    /\ Local(s, IF r.open /\ r.status # "Idle" THEN StatementDone(r)
                ELSE StatementDone([Begin(r) EXCEPT !.status = "InTransaction"]))

\* Faulty: stores what a failed block did before its error.
Faulty_CommitStatement(s) ==
    LET r == [sess[s] EXCEPT !.state = db[sess[s].database] \cup sess[s].mine]
        ended == [CloseTxn(r) EXCEPT !.status = "Idle"] IN
    /\ AtStatement(s)
    /\ CommitOr(s, r, StatementDone(ended), StatementError(ended))

\* COMMIT; of a failed block, ROLLBACK.
CommitStatement(s) ==
    LET r == sess[s]
        ended == [CloseTxn(r) EXCEPT !.status = "Idle"] IN
    /\ AtStatement(s)
    /\ IF r.status = "Failed" \/ ~r.open
       THEN Local(s, StatementDone(ended))
       ELSE CommitOr(s, r, StatementDone(ended), StatementError(ended))

RollbackStatement(s) ==
    /\ AtStatement(s)
    /\ Local(s, StatementDone([CloseTxn(sess[s]) EXCEPT !.status = "Idle"]))

\* SAVEPOINT keeps a clone of the transaction's state.
SavepointStatement(s, n) ==
    LET r == sess[s] IN
    /\ Runs(s)
    /\ Len(r.savepoints) < MaxSavepoints
    /\ r.wrote \/ "savepoint-first" \in ClientPatterns
    /\ Local(s, IF ~r.open THEN StatementError(r)
                ELSE StatementDone([r EXCEPT !.savepoints =
                    Append(@, [name |-> n, state |-> r.state, mine |-> r.mine])]))

\* `savepoints.iter().rposition(..)`: i is the last savepoint of that name.
Named(r, n) == {i \in 1..Len(r.savepoints) : r.savepoints[i].name = n}
IsLast(i, r, n) == i \in Named(r, n) /\ \A j \in Named(r, n) : j <= i

NoSuchSavepoint(s, n) ==
    Named(sess[s], n) = {} /\ Local(s, StatementError(sess[s]))

ReleaseSavepoint(s, n) ==
    LET r == sess[s] IN
    /\ Runs(s)
    /\ \/ NoSuchSavepoint(s, n)
       \/ \E i \in 1..MaxSavepoints :
             /\ IsLast(i, r, n)
             /\ Local(s, StatementDone([r EXCEPT !.savepoints = SubSeq(@, 1, i - 1)]))

\* Engine::rollback_to: the savepoint's clone becomes the transaction's
\* state again and a failed block is usable again.
RollbackTo(s, n) ==
    LET r == sess[s] IN
    /\ AtStatement(s)
    /\ \/ NoSuchSavepoint(s, n)
       \/ \E i \in 1..MaxSavepoints :
             /\ IsLast(i, r, n)
             /\ Local(s, StatementDone([r EXCEPT !.state = r.savepoints[i].state,
                           !.mine = r.savepoints[i].mine,
                           !.savepoints = SubSeq(@, 1, i),
                           !.status = "InTransaction"]))

CreateDatabase(s, d, ifNotExists) ==
    LET r == sess[s] IN
    /\ Runs(s)
    /\ IF r.open \/ (d \in exists /\ ~ifNotExists)
       THEN Local(s, StatementError(r))
       ELSE /\ exists' = exists \cup {d}
            /\ db' = IF d \in exists THEN db ELSE [db EXCEPT ![d] = {}]
            /\ promised' = IF d \in exists THEN promised
                                           ELSE [promised EXCEPT ![d] = {}]
            /\ Settle(s, StatementDone(r))

\* Faulty: does not look at the connected sessions.
Faulty_DropDatabase(s, names, ifExists) ==
    LET r == sess[s]
        bad == IF ifExists THEN {} ELSE names \ exists IN
    /\ Runs(s)
    /\ IF r.open
       THEN Local(s, StatementError(r))
       ELSE /\ \E dropped \in SUBSET (names \ bad) :
                 /\ bad = {} => dropped = names
                 /\ exists' = exists \ dropped
            /\ Settle(s, IF bad = {} THEN StatementDone(r) ELSE StatementError(r))
            /\ UNCHANGED <<db, promised>>

\* DROP DATABASE names: refused at a name some session is connected to, or
\* (without IF EXISTS) that does not exist; the names before it are gone.
DropDatabase(s, names, ifExists) ==
    LET r == sess[s]
        busy == {d \in names : \E t \in Registered : sess[t].database = d}
        bad == busy \cup (IF ifExists THEN {} ELSE names \ exists) IN
    /\ Runs(s)
    /\ IF r.open
       THEN Local(s, StatementError(r))
       ELSE /\ \E dropped \in SUBSET (names \ bad) :
                 /\ bad = {} => dropped = names
                 /\ exists' = exists \ dropped
            /\ Settle(s, IF bad = {} THEN StatementDone(r) ELSE StatementError(r))
            /\ UNCHANGED <<db, promised>>

\* A statement that does not write; it may fail.
Query(s) ==
    /\ Runs(s)
    /\ \/ Local(s, StatementDone(sess[s]))
       \/ Local(s, StatementError(sess[s]))

\* run_data_statement of a statement that writes, up to acquire_writer.
WriteStatement(s) ==
    LET r == sess[s] IN
    /\ Runs(s)
    /\ r.made < MaxWrites
    /\ Local(s, [IF r.open THEN r ELSE Begin(r)
                   EXCEPT !.pc = "acquire", !.auto = ~r.open])

\* Faulty: writes on top of the state BEGIN cloned.
Faulty_AcquireWriter(s) ==
    /\ sess[s].pc = "acquire"
    /\ writer \in {NoSession, s}
    /\ writer' = s
    /\ sess' = [sess EXCEPT ![s].wrote = TRUE, ![s].pc = "run"]
    /\ UNCHANGED <<exists, db, promised>>

\* acquire_writer: the transaction's first write starts from the latest state.
AcquireWriter(s) ==
    LET r == sess[s] IN
    /\ r.pc = "acquire"
    /\ writer \in {NoSession, s}
    /\ writer' = s
    /\ sess' = [sess EXCEPT ![s] =
                  [r EXCEPT !.state = IF r.wrote THEN @ ELSE db[r.database],
                            !.wrote = TRUE, !.pc = "run"]]
    /\ UNCHANGED <<exists, db, promised>>

\* Faulty: no deadline.
Faulty_AcquireFails(s) == FALSE

\* acquire_writer waits in vain: canceled, or 30 s are over.
AcquireFails(s) ==
    /\ sess[s].pc = "acquire"
    /\ writer \notin {NoSession, s}
    /\ Local(s, StatementError(sess[s]))

\* run_in_txn, and the commit of a statement that is its own transaction.
\* (Nobody else can commit in between: the write lock is held.)  A statement
\* that fails may have applied part of its work.
RunWrite(s, kind) ==
    LET r == sess[s]
        w == [by |-> s, n |-> r.made + 1, kind |-> kind]
        ran == [r EXCEPT !.state = @ \cup {w}, !.made = @ + 1]
        done == [ran EXCEPT !.mine = @ \cup {w}] IN
    /\ r.pc = "run"
    /\ \/ IF r.auto
          THEN CommitOr(s, done, StatementDone(CloseTxn(done)),
                        StatementError(CloseTxn(done)))
          ELSE Local(s, StatementDone(done))
       \/ Local(s, StatementError(ran))

-----------------------------------------------------------------------------
(* COPY FROM STDIN (server.rs: copy_in).                                   *)

CopyStatement(s) ==
    /\ AtStatement(s)
    /\ Local(s, [BeginImplicit(sess[s]) EXCEPT !.pc = "copy", !.copy = "ok"])

\* flush_batch: a batch of rows becomes one INSERT run through `execute`.
CopyBatch(s) ==
    LET r == sess[s] IN
    /\ r.pc = "copy" /\ r.copy = "ok" /\ ~r.eof
    /\ r.made < MaxWrites
    /\ Local(s, IF r.status = "Failed" THEN StatementError(r)
                ELSE [r EXCEPT !.pc = "acquire", !.auto = FALSE])

\* A line that cannot be decoded.
CopyBadLine(s) ==
    /\ sess[s].pc = "copy" /\ sess[s].copy = "ok" /\ ~sess[s].eof
    /\ Local(s, [sess[s] EXCEPT !.copy = "failed"])

\* The end of copy_in once `failed` is set: by an earlier error, by CopyFail
\* or by an unexpected message.
CopyFails(s) ==
    LET r == sess[s] IN
    /\ r.pc = "copy"
    /\ r.eof => r.copy = "failed"
    /\ Local(s, AnswerError(RollbackImplicit(r)))

\* CopyDone with nothing failed, or (eof) the end of the client's stream.
CopyDone(s, eof) ==
    LET r == IF eof THEN [sess[s] EXCEPT !.eof = TRUE,
                            !.mine = IF sess[s].implicit THEN {} ELSE @]
                    ELSE sess[s]
        ended == [ImplicitEnded(r) EXCEPT !.copy = "no"] IN
    /\ r.pc = "copy" /\ r.copy = "ok"
    /\ eof => "copy-eof" \in ClientPatterns
    /\ sess[s].eof => eof
    /\ CommitImplicit(s, r, StatementDone(ended),
                      AnswerError([ended EXCEPT !.status = "Idle"]))

\* The socket fails inside COPY: the connection ends at once.
CopyReset(s) ==
    /\ sess[s].pc = "copy" /\ ~sess[s].eof
    /\ Local(s, [sess[s] EXCEPT !.pc = "leaving"])

-----------------------------------------------------------------------------

\* Every client has come and gone.
AllGone == (\A s \in Sessions : sess[s].pc \in {"gone", "late"}) /\ UNCHANGED vars

ClientStep(s) ==
    \/ \E d \in Databases : Connect(s, d)
    \/ \E n \in 1..MaxStatements : SimpleQuery(s, n)
    \/ ExecuteMessage(s) \/ MessageError(s) \/ Sync(s) \/ Leave(s)
    \/ CopyBatch(s) \/ CopyBadLine(s) \/ CopyFails(s) \/ CopyReset(s)
    \/ \E eof \in BOOLEAN : CopyDone(s, eof)
    \/ Refused(s) \/ StartTransaction(s) \/ CommitStatement(s)
    \/ RollbackStatement(s) \/ Query(s) \/ WriteStatement(s) \/ CopyStatement(s)
    \/ \E n \in Names : SavepointStatement(s, n) \/ ReleaseSavepoint(s, n)
                        \/ RollbackTo(s, n)
    \/ \E d \in Databases, ine \in BOOLEAN : CreateDatabase(s, d, ine)
    \/ \E names \in (SUBSET Databases) \ {{}}, ie \in BOOLEAN :
          DropDatabase(s, names, ie)

\* What the server does by itself.
ServerStep(s) ==
    \/ AcquireWriter(s) \/ AcquireFails(s)
    \/ \E k \in Kinds : RunWrite(s, k)
    \/ MessageDone(s)
    \/ Disconnect(s) \/ DisconnectTimesOut(s)

Next == AllGone \/ \E s \in Sessions : ClientStep(s) \/ ServerStep(s)

Spec == Init /\ [][Next]_vars

\* The server's threads keep running; clients may stop at any point.
FairSpec == Spec /\ \A s \in Sessions : WF_vars(ServerStep(s))

-----------------------------------------------------------------------------
(* Properties.                                                             *)

\* The variables hold values of the types engine.rs and server.rs declare.
TypeOK ==
    /\ exists \subseteq Databases
    /\ db \in [Databases -> SUBSET Row]
    /\ writer \in Sessions \cup {NoSession}
    /\ sess \in [Sessions -> Session]
    /\ promised \in [Databases -> SUBSET Row]

\* Only the holder of Global::writer has a state it will store at COMMIT, and
\* the lock is never left behind by a session that has no transaction (it
\* would block every other writer for good).
WriteLock ==
    /\ \A s \in Sessions : sess[s].wrote => writer = s
    /\ writer # NoSession => sess[writer].open /\ writer \in Registered

\* The database holds exactly the writes of the transactions whose commit was
\* acknowledged: nothing committed is overwritten by another session's stale
\* clone, nothing of a failed or rolled-back statement gets in.
CommittedExactly == \A d \in exists : db[d] = promised[d]

\* A session's temporary objects go with it, although other transactions hold
\* and store clones of the whole database that contain them
\* (Engine::disconnect).  The exception is a session whose disconnect timed
\* out waiting for the write lock: its temporary objects stay for good.
TempObjectsGo ==
    \A s \in Sessions : sess[s].pc = "gone" =>
        \A d \in exists : \A w \in db[d] : w.by = s => w.kind = "perm"

\* A connected session's database exists, so that the engine's
\* `databases.get(..).unwrap()` cannot panic, whatever DROP DATABASE and
\* connect race.
DatabaseOfSessionExists == \A s \in Registered : sess[s].database \in exists

\* A transaction block, failed or not, has a transaction; a failed block of a
\* pipeline is never one that commit_implicit would commit.
BlockHasTransaction ==
    \A s \in Registered : sess[s].pc # "leaving" /\ sess[s].status # "Idle" =>
        /\ sess[s].open
        /\ sess[s].implicit /\ sess[s].status = "Failed" =>
              sess[s].pc = "copy" \/ sess[s].skip

\* No step of a session whose block has failed changes a database, other than
\* the removal of its temporary objects when it disconnects: COMMIT of a
\* failed block is ROLLBACK.
FailedBlockCommitsNothing ==
    [][\A s \in Sessions :
          sess[s].status = "Failed" /\ sess[s].pc # "leaving" /\ sess'[s] # sess[s]
          => db' = db]_vars

\* A statement that waits for the write lock is answered, and a connection
\* that ended gives back everything it held, however long other clients sit
\* in their transactions.
NobodyWaitsForever ==
    \A s \in Sessions :
        /\ sess[s].pc = "acquire" ~> sess[s].pc # "acquire"
        /\ sess[s].pc = "leaving" ~> sess[s].pc \in {"gone", "late"}

Store == INSTANCE CommittedStore WITH store <- [d \in exists |-> db[d]]

\* Seen from outside the service is a store to which whole transactions of
\* one session are added (Engine::commit).
StoreSpec == Store!Spec
=============================================================================

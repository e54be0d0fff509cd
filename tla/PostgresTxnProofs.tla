-------------------------- MODULE PostgresTxnProofs --------------------------
(***************************************************************************)
(* The safety properties of PostgresTxn, for any number of sessions,       *)
(* databases, writes and savepoints.                                       *)
(*                                                                         *)
(* IInv is the inductive invariant.  Its control part (Control, and who    *)
(* holds the write lock) holds whatever the clients do.  Its data part     *)
(* (Data) says what a transaction's clone may contain: once it has         *)
(* written, the committed state plus the session's own writes, because     *)
(* nobody else can commit while it holds the lock.  That is true of        *)
(* clients that keep off the patterns by which the code itself breaks it   *)
(* (Careful), so every data conjunct is conditional on Careful.            *)
(*                                                                         *)
(* Each step of the system replaces one session's record by a helper's     *)
(* result, so the argument is: the helpers keep a record Sound, and        *)
(* LocalKeeps, SettleKeeps and CommitKeeps lift that to the whole state.   *)
(* TemporaryObjectsGo needs more: no step moves a session to another       *)
(* database (Stays), so what is temporary in a database is of a session    *)
(* connected to it (Owned).                                                *)
(***************************************************************************)
EXTENDS PostgresTxn, TLAPS

\* Clients that do none of the things the code gives a surprising meaning to.
Careful == ClientPatterns \subseteq {"slow-writer"}

\* Where a connection's thread can be, and what it then has in hand.
Control(r) ==
    /\ r.pc \in {"new", "main", "next"} => r.copy = "no" /\ ~r.auto
    /\ r.pc \in {"acquire", "run"} =>
          /\ r.open /\ r.made < MaxWrites
          /\ r.status # "Failed" /\ r.copy # "failed"
    /\ r.pc = "run" => r.wrote
    /\ r.pc \in {"acquire", "run", "copy"} => r.left > 0
    /\ r.pc = "copy" => r.copy # "no" /\ (r.copy = "ok" => r.open)
    /\ r.copy # "no" => ~r.auto
    /\ r.auto => r.status = "Idle"
    /\ r.wrote \/ r.savepoints # <<>> => r.open
    /\ r.pc \notin {"gone", "late"} /\ r.status # "Idle" => r.open
    /\ r.implicit /\ r.status = "Failed" =>
          \/ r.pc = "main" /\ r.skip
          \/ r.pc = "copy" /\ r.copy = "failed"
          \/ r.pc \in {"leaving", "gone", "late"}

\* What the transaction of session s and its savepoints hold.
Data(s, r) ==
    /\ \A w \in r.mine : w.by = s
    /\ ~r.wrote => r.mine = {} /\ r.savepoints = <<>>
    /\ r.wrote /\ r.status # "Failed" => r.state = db[r.database] \cup r.mine
    /\ \A i \in 1..Len(r.savepoints) :
          /\ r.savepoints[i].state = db[r.database] \cup r.savepoints[i].mine
          /\ \A w \in r.savepoints[i].mine : w.by = s

Sound(s, r) == r \in Session /\ Control(r) /\ (Careful => Data(s, r))

IInv ==
    /\ TypeOK
    /\ \A s \in Sessions :
          /\ Sound(s, sess[s])
          /\ sess[s].wrote => writer = s
          /\ writer = s => sess[s].open
          /\ sess[s].pc \in {"new", "gone", "late"} => ~sess[s].open
          /\ sess[s].pc \notin {"new", "gone", "late"} => sess[s].database \in exists
    /\ Careful => \A d \in Databases :
          /\ db[d] = promised[d]
          /\ \A w \in db[d] : w.kind # "onCommit"

(* The part of Data a statement that fails need not have kept: its state.  *)
Data0(s, r) ==
    /\ \A w \in r.mine : w.by = s
    /\ ~r.wrote => r.mine = {} /\ r.savepoints = <<>>
    /\ \A i \in 1..Len(r.savepoints) :
          /\ r.savepoints[i].state = db[r.database] \cup r.savepoints[i].mine
          /\ \A w \in r.savepoints[i].mine : w.by = s

\* The clone is the committed state and the session's own writes.
Fresh(r) == r.state = db[r.database] \cup r.mine

-----------------------------------------------------------------------------
(* What the helpers leave in each field of a session.                      *)

\* A transaction starts with no savepoints (Engine::begin).
LEMMA EmptySeq == <<>> \in Seq(Savepoint)
OBVIOUS

\* Engine::rollback, field by field.
LEMMA CloseTxnFields ==
    ASSUME NEW r \in Session
    PROVE  /\ CloseTxn(r) \in Session
           /\ CloseTxn(r).pc = r.pc
           /\ CloseTxn(r).database = r.database
           /\ CloseTxn(r).status = r.status
           /\ CloseTxn(r).open = FALSE
           /\ CloseTxn(r).state = {}
           /\ CloseTxn(r).wrote = FALSE
           /\ CloseTxn(r).savepoints = <<>>
           /\ CloseTxn(r).implicit = r.implicit
           /\ CloseTxn(r).skip = r.skip
           /\ CloseTxn(r).mode = r.mode
           /\ CloseTxn(r).left = r.left
           /\ CloseTxn(r).auto = r.auto
           /\ CloseTxn(r).copy = r.copy
           /\ CloseTxn(r).eof = r.eof
           /\ CloseTxn(r).made = r.made
           /\ CloseTxn(r).mine = {}
BY EmptySeq, Zenon DEF CloseTxn, Session

\* Engine::begin, field by field.
LEMMA BeginFields ==
    ASSUME NEW r \in Session, db \in [Databases -> SUBSET Row]
    PROVE  /\ Begin(r) \in Session
           /\ Begin(r).pc = r.pc
           /\ Begin(r).database = r.database
           /\ Begin(r).status = r.status
           /\ Begin(r).open = TRUE
           /\ Begin(r).state = db[r.database]
           /\ Begin(r).wrote = FALSE
           /\ Begin(r).savepoints = <<>>
           /\ Begin(r).implicit = r.implicit
           /\ Begin(r).skip = r.skip
           /\ Begin(r).mode = r.mode
           /\ Begin(r).left = r.left
           /\ Begin(r).auto = r.auto
           /\ Begin(r).copy = r.copy
           /\ Begin(r).eof = r.eof
           /\ Begin(r).made = r.made
           /\ Begin(r).mine = r.mine
BY EmptySeq, Zenon DEF Begin, Session

\* server.rs `error`, field by field: only the status can change.
LEMMA ServerErrorFields ==
    ASSUME NEW r \in Session
    PROVE  /\ ServerError(r) \in Session
           /\ ServerError(r).status =
                IF r.status = "InTransaction" THEN "Failed" ELSE r.status
           /\ ServerError(r).pc = r.pc
           /\ ServerError(r).database = r.database
           /\ ServerError(r).open = r.open
           /\ ServerError(r).state = r.state
           /\ ServerError(r).wrote = r.wrote
           /\ ServerError(r).savepoints = r.savepoints
           /\ ServerError(r).implicit = r.implicit
           /\ ServerError(r).skip = r.skip
           /\ ServerError(r).mode = r.mode
           /\ ServerError(r).left = r.left
           /\ ServerError(r).auto = r.auto
           /\ ServerError(r).copy = r.copy
           /\ ServerError(r).eof = r.eof
           /\ ServerError(r).made = r.made
           /\ ServerError(r).mine = r.mine
<1>1. CASE r.status = "InTransaction"
  BY <1>1, Zenon DEF ServerError, Session
<1>2. CASE r.status # "InTransaction"
  BY <1>2 DEF ServerError, Session
<1> QED BY <1>1, <1>2, Zenon

\* The three cases of a failed statement at the end of Engine::execute.
LEMMA ExecuteErrorFields ==
    ASSUME NEW r \in Session
    PROVE  LET e == ExecuteError(r) IN
           /\ r.status = "InTransaction" => e = [r EXCEPT !.status = "Failed"]
           /\ r.status = "Idle" /\ r.open => e = CloseTxn(r)
           /\ r.status = "Failed" \/ (r.status = "Idle" /\ ~r.open) => e = r
           /\ e \in Session
<1>1. CASE r.status = "InTransaction"
  BY <1>1, Zenon DEF ExecuteError, Session
<1>2. CASE r.status = "Idle" /\ r.open
  BY <1>2, CloseTxnFields, Zenon DEF ExecuteError
<1>3. CASE r.status = "Failed" \/ (r.status = "Idle" /\ ~r.open)
  BY <1>3, Zenon DEF ExecuteError
<1> QED BY <1>1, <1>2, <1>3, Zenon DEF Session

\* Answering an error leaves a sound session that waits for a message.
LEMMA AnswerErrorSound ==
    ASSUME NEW s \in Sessions, NEW r \in Session,
           r.wrote \/ r.savepoints # <<>> => r.open, r.status # "Idle" => r.open,
           Careful => Data0(s, r) /\ (r.wrote /\ r.status = "Idle" => Fresh(r))
    PROVE  LET a == AnswerError(r) IN
           /\ Sound(s, a)
           /\ a.database = r.database /\ (a.wrote => r.wrote) /\ a.pc = "main"
<1> DEFINE q == ServerError(r)
           e == [q EXCEPT !.pc = "main", !.left = 0, !.auto = FALSE, !.copy = "no"]
<1>1. /\ e \in Session
      /\ e.pc = "main" /\ e.left = 0 /\ e.auto = FALSE /\ e.copy = "no"
      /\ e.status = IF r.status = "InTransaction" THEN "Failed" ELSE r.status
      /\ e.database = r.database /\ e.open = r.open /\ e.state = r.state
      /\ e.wrote = r.wrote /\ e.savepoints = r.savepoints
      /\ e.implicit = r.implicit /\ e.skip = r.skip /\ e.mode = r.mode
      /\ e.eof = r.eof /\ e.made = r.made /\ e.mine = r.mine
  <2>1. /\ q \in Session
        /\ q.status = IF r.status = "InTransaction" THEN "Failed" ELSE r.status
        /\ q.database = r.database /\ q.open = r.open /\ q.state = r.state
        /\ q.wrote = r.wrote /\ q.savepoints = r.savepoints
        /\ q.implicit = r.implicit /\ q.skip = r.skip /\ q.mode = r.mode
        /\ q.eof = r.eof /\ q.made = r.made /\ q.mine = r.mine
    BY ServerErrorFields, Zenon
  <2>2. 0 \in 0..MaxStatements + 1 /\ "main" \in PCs
    BY PostgresConstants DEF PCs
  <2> HIDE DEF q
  <2> QED BY <2>1, <2>2, Zenon DEF Session
<1>0. r.status \in {"Idle", "InTransaction", "Failed"} /\ r.implicit \in BOOLEAN
  BY Zenon DEF Session
<1> HIDE DEF e
<1>2. CASE r.mode = "query" /\ r.implicit
  <2> DEFINE c == CloseTxn(e)
             a == [c EXCEPT !.implicit = FALSE, !.status = "Idle"]
  <2>0. AnswerError(r) = RollbackImplicit(e)
    BY <1>2, Zenon DEF AnswerError, e
  <2>1. AnswerError(r) = a
    BY <2>0, <1>0, <1>1, <1>2, Zenon DEF RollbackImplicit
  <2>2. /\ c \in Session /\ c.pc = "main" /\ c.copy = "no" /\ c.auto = FALSE
        /\ c.open = FALSE /\ c.wrote = FALSE /\ c.savepoints = <<>> /\ c.mine = {}
        /\ c.database = r.database
    BY <1>1, CloseTxnFields, Zenon
  <2> HIDE DEF c
  <2>3. /\ a \in Session /\ a.pc = "main" /\ a.copy = "no" /\ a.auto = FALSE
        /\ a.open = FALSE /\ a.wrote = FALSE /\ a.savepoints = <<>> /\ a.mine = {}
        /\ a.database = r.database /\ a.implicit = FALSE /\ a.status = "Idle"
    BY <2>2, Zenon DEF Session
  <2> HIDE DEF a
  <2> QED BY <2>1, <2>3 DEF Sound, Control, Data
<1>3. CASE r.mode = "query" /\ ~r.implicit
  <2>1. AnswerError(r) = e
    <3>1. AnswerError(r) = RollbackImplicit(e)
      BY <1>3, Zenon DEF AnswerError, e
    <3> QED BY <3>1, <1>1, <1>3, Zenon DEF RollbackImplicit
  <2> QED BY <2>1, <1>0, <1>1, <1>3 DEF Sound, Control, Data, Data0, Fresh
<1>4. CASE r.mode # "query"
  <2> DEFINE a == [e EXCEPT !.skip = TRUE]
  <2>1. AnswerError(r) = a
    BY <1>4, Zenon DEF AnswerError, e
  <2>2. /\ a \in Session /\ a.skip = TRUE /\ a.pc = "main" /\ a.left = 0
        /\ a.auto = FALSE /\ a.copy = "no" /\ a.status = e.status
        /\ a.database = e.database /\ a.open = e.open /\ a.state = e.state
        /\ a.wrote = e.wrote /\ a.savepoints = e.savepoints
        /\ a.implicit = e.implicit /\ a.mine = e.mine
    BY <1>1, ZenonT(60) DEF Session
  <2> HIDE DEF a
  <2> QED BY <2>1, <2>2, <1>0, <1>1 DEF Sound, Control, Data, Data0, Fresh
<1> QED BY <1>2, <1>3, <1>4, Zenon

\* A failed statement leaves a sound session, inside COPY or not.
LEMMA StatementErrorSound ==
    ASSUME NEW s \in Sessions, NEW r \in Session,
           r.wrote \/ r.savepoints # <<>> => r.open, r.status # "Idle" => r.open,
           r.left > 0, r.copy # "no" => ~r.auto, Careful => Data0(s, r)
    PROVE  LET a == StatementError(r) IN
           /\ Sound(s, a)
           /\ a.database = r.database /\ (a.wrote => r.wrote)
           /\ a.pc \in {"main", "copy"}
<1> DEFINE x == ExecuteError(r)
<1>1. /\ x \in Session /\ x.database = r.database
      /\ x.copy = r.copy /\ x.left = r.left /\ x.auto = r.auto
      /\ (x.wrote => r.wrote) /\ (x.wrote \/ x.savepoints # <<>> => x.open)
      /\ (x.status # "Idle" => x.open) /\ (x.status = "Idle" => ~x.open)
      /\ x.status # "InTransaction"
      /\ Careful => Data0(s, x)
  <2>0. r.status \in {"Idle", "InTransaction", "Failed"} /\ r.open \in BOOLEAN
    BY Zenon DEF Session
  <2>1. CASE r.status = "InTransaction"
    <3>1. x = [r EXCEPT !.status = "Failed"]
      BY <2>1, ExecuteErrorFields, Zenon
    <3> QED BY <3>1, <2>1 DEF Session, Data0
  <2>2. CASE r.status = "Idle" /\ r.open
    <3>1. x = CloseTxn(r)
      BY <2>2, ExecuteErrorFields, Zenon
    <3> HIDE DEF x
    <3>2. /\ x \in Session /\ x.database = r.database /\ x.copy = r.copy
          /\ x.left = r.left /\ x.auto = r.auto /\ x.wrote = FALSE
          /\ x.open = FALSE /\ x.status = r.status
          /\ x.mine = {} /\ x.savepoints = <<>>
      BY <3>1, CloseTxnFields, Zenon
    <3> QED BY <3>2, <2>2 DEF Data0
  <2>3. CASE r.status = "Failed" \/ (r.status = "Idle" /\ ~r.open)
    <3>1. x = r
      BY <2>3, ExecuteErrorFields, Zenon
    <3> QED BY <3>1, <2>3, Zenon
  <2> QED BY <2>0, <2>1, <2>2, <2>3, Zenon
<1> HIDE DEF x
<1>2. CASE r.copy = "no"
  <2>1. StatementError(r) = AnswerError(x)
    BY <1>2, Zenon DEF StatementError, x
  <2> QED BY <2>1, <1>1, AnswerErrorSound
<1>3. CASE r.copy # "no"
  <2> DEFINE a == [x EXCEPT !.pc = "copy", !.copy = "failed"]
  <2>1. StatementError(r) = a
    BY <1>3, Zenon DEF StatementError, x
  <2>2. "copy" \in PCs
    BY Zenon DEF PCs
  <2>3. /\ a \in Session /\ a.pc = "copy" /\ a.copy = "failed"
        /\ a.database = x.database /\ a.left = x.left /\ a.auto = x.auto
        /\ a.wrote = x.wrote /\ a.open = x.open /\ a.status = x.status
        /\ a.mine = x.mine /\ a.savepoints = x.savepoints
    BY <1>1, <2>2, Zenon DEF Session
  <2>4. x.status \in {"Idle", "InTransaction", "Failed"}
    BY <1>1, Zenon DEF Session
  <2> HIDE DEF a
  <2> QED BY <2>1, <2>3, <2>4, <1>1, <1>3 DEF Sound, Control, Data, Data0
<1> QED BY <1>2, <1>3, Zenon

\* A statement that succeeded leaves a sound session.
LEMMA StatementDoneSound ==
    ASSUME NEW s \in Sessions, NEW r \in Session,
           r.wrote \/ r.savepoints # <<>> => r.open, r.status # "Idle" => r.open,
           r.left > 0, r.copy # "no" => ~r.auto, r.copy = "ok" => r.open,
           r.copy # "failed", ~(r.implicit /\ r.status = "Failed"),
           Careful => Data0(s, r) /\ (r.wrote /\ r.status # "Failed" => Fresh(r))
    PROVE  LET a == StatementDone(r) IN
           /\ Sound(s, a)
           /\ a.database = r.database /\ a.wrote = r.wrote /\ a.open = r.open
           /\ a.pc \in {"next", "copy"}
<1>0. "copy" \in PCs /\ "next" \in PCs
  BY Zenon DEF PCs
<1>1. CASE r.copy = "no"
  <2> DEFINE a == [r EXCEPT !.pc = "next", !.left = @ - 1, !.auto = FALSE]
  <2>1. StatementDone(r) = a
    BY <1>1, Zenon DEF StatementDone
  <2>2. r.left - 1 \in 0..MaxStatements + 1
    BY PostgresConstants DEF Session
  <2>3. /\ a \in Session /\ a.pc = "next" /\ a.copy = "no" /\ a.auto = FALSE
        /\ a.database = r.database /\ a.wrote = r.wrote /\ a.open = r.open
        /\ a.status = r.status /\ a.mine = r.mine /\ a.savepoints = r.savepoints
        /\ a.state = r.state /\ a.implicit = r.implicit
    BY <1>0, <1>1, <2>2, Zenon DEF Session
  <2> HIDE DEF a
  <2> QED BY <2>1, <2>3, Zenon DEF Sound, Control, Data, Data0, Fresh
<1>2. CASE r.copy # "no"
  <2> DEFINE a == [r EXCEPT !.pc = "copy"]
  <2>1. StatementDone(r) = a
    BY <1>2, Zenon DEF StatementDone
  <2>2. r.copy = "ok"
    BY <1>2, Zenon DEF Session
  <2>3. /\ a \in Session /\ a.pc = "copy" /\ a.copy = r.copy /\ a.auto = r.auto
        /\ a.database = r.database /\ a.wrote = r.wrote /\ a.open = r.open
        /\ a.status = r.status /\ a.mine = r.mine /\ a.savepoints = r.savepoints
        /\ a.state = r.state /\ a.implicit = r.implicit /\ a.left = r.left
    BY <1>0, Zenon DEF Session
  <2> HIDE DEF a
  <2> QED BY <2>1, <2>2, <2>3 DEF Sound, Control, Data, Data0, Fresh
<1> QED BY <1>1, <1>2, Zenon

\* A step that only replaces one session's record keeps IInv.
LEMMA LocalKeeps ==
    ASSUME IInv, NEW s \in Sessions, NEW r, Local(s, r), Sound(s, r),
           r.wrote => writer = s,
           r.pc \in {"new", "gone", "late"} => ~r.open,
           r.pc \notin {"new", "gone", "late"} => r.database \in exists
    PROVE  IInv'
BY PostgresConstants DEF IInv, TypeOK, Local, Settle, Sound, Control, Data

\* Engine::commit keeps IInv: the stored clone is the database as it is, plus
\* the session's own writes, since the session holds the write lock.
LEMMA CommitKeeps ==
    ASSUME IInv, NEW s \in Sessions, NEW r \in Session, NEW after,
           Commit(s, r, after), Sound(s, after), ~after.open,
           after.pc \notin {"new", "gone", "late"}, after.database \in exists,
           r.wrote => writer = s, r.database \in Databases,
           Careful => Data0(s, r) /\ (r.wrote => r.open /\ Fresh(r))
    PROVE  IInv'
<1> DEFINE d == r.database
           stored == OnCommitActions(r.state, s)
<1>1. stored \subseteq Row
  BY Zenon DEF OnCommitActions, Session
<1>2. Careful /\ r.wrote => stored = db[d] \cup OnCommitActions(r.mine, s)
  BY Zenon DEF OnCommitActions, IInv, Fresh
<1>3. OnCommitActions(r.mine, s) \subseteq Row
  BY Zenon DEF OnCommitActions, Session
<1>4. Careful => \A w \in OnCommitActions(r.mine, s) : w.kind # "onCommit"
  BY Zenon DEF OnCommitActions, Data0
<1>5. Careful /\ ~r.wrote => OnCommitActions(r.mine, s) = {}
  BY Zenon DEF OnCommitActions, Data0
<1>6. TypeOK'
  BY <1>1, <1>3, PostgresConstants, Zenon DEF Commit, Settle, IInv, TypeOK, Sound
<1>7. ASSUME Careful, NEW e \in Databases
      PROVE  db'[e] = promised'[e] /\ \A w \in db'[e] : w.kind # "onCommit"
  BY <1>2, <1>4, <1>5, <1>7, ZenonT(60) DEF Commit, IInv, TypeOK, Data0
<1>8. \A t \in Sessions : t # s /\ r.wrote => ~sess[t].wrote
  BY Zenon DEF IInv
<1>9. ASSUME NEW t \in Sessions
      PROVE  /\ Sound(t, sess[t])'
             /\ sess'[t].wrote => writer' = t
             /\ writer' = t => sess'[t].open
             /\ sess'[t].pc \in {"new", "gone", "late"} => ~sess'[t].open
             /\ sess'[t].pc \notin {"new", "gone", "late"} => sess'[t].database \in exists'
  <2>1. CASE t = s
    <3>1. sess'[t] = after /\ writer' = IF writer = s THEN NoSession ELSE writer
      BY <2>1, Zenon DEF Commit, Settle, IInv, TypeOK
    <3>2. after.wrote = FALSE /\ (Careful => after.mine = {} /\ after.savepoints = <<>>)
      BY Zenon DEF Sound, Control, Data, Session
    <3>3. Sound(t, sess[t])'
      BY <2>1, <3>1, <3>2 DEF Sound, Control, Data
    <3> QED BY <2>1, <3>1, <3>2, <3>3, PostgresConstants, Zenon DEF Commit
  <2>2. CASE t # s
    <3>1. sess'[t] = sess[t] /\ exists' = exists
          /\ writer' = IF writer = s THEN NoSession ELSE writer
      BY <2>2, Zenon DEF Commit, Settle, IInv, TypeOK
    <3>2. db' = db \/ ~sess[t].wrote
      BY <2>2, <1>8, Zenon DEF Commit
    <3>3. Sound(t, sess[t])'
      BY <3>1, <3>2 DEF IInv, Sound, Control, Data
    <3> QED BY <2>2, <3>1, <3>3, PostgresConstants, Zenon DEF IInv
  <2> QED BY <2>1, <2>2, Zenon
<1> QED BY <1>6, <1>7, <1>9, Zenon DEF IInv

\* What IInv says of one session.
LEMMA SessionFacts ==
    ASSUME IInv, NEW s \in Sessions
    PROVE  LET r == sess[s] IN
           /\ r \in Session /\ Control(r) /\ Sound(s, r)
           /\ Careful => Data0(s, r) /\ (r.wrote /\ r.status # "Failed" => Fresh(r))
           /\ r.wrote => writer = s
           /\ r.pc \in {"new", "gone", "late"} => ~r.open
           /\ r.pc \notin {"new", "gone", "late"} => r.database \in exists
           /\ db \in [Databases -> SUBSET Row]
BY Zenon DEF IInv, TypeOK, Sound, Data, Data0, Fresh

\* A failed statement keeps IInv.
LEMMA ErrorKeeps ==
    ASSUME IInv, NEW s \in Sessions, NEW r \in Session,
           Local(s, StatementError(r)), r.database \in exists,
           r.wrote \/ r.savepoints # <<>> => r.open, r.wrote => writer = s,
           r.status # "Idle" => r.open,
           r.left > 0, r.copy # "no" => ~r.auto, Careful => Data0(s, r)
    PROVE  IInv'
<1> DEFINE a == StatementError(r)
<1>1. /\ Sound(s, a) /\ a.database = r.database /\ (a.wrote => r.wrote)
      /\ a.pc \in {"main", "copy"}
  BY StatementErrorSound, Zenon
<1> HIDE DEF a
<1>2. Local(s, a)
  BY Zenon DEF a
<1> QED BY <1>1, <1>2, LocalKeeps, Zenon

\* A statement that succeeded without committing keeps IInv.
LEMMA DoneKeeps ==
    ASSUME IInv, NEW s \in Sessions, NEW r \in Session,
           Local(s, StatementDone(r)), r.database \in exists,
           r.wrote \/ r.savepoints # <<>> => r.open, r.wrote => writer = s,
           r.status # "Idle" => r.open,
           r.left > 0, r.copy # "no" => ~r.auto, r.copy = "ok" => r.open,
           r.copy # "failed", ~(r.implicit /\ r.status = "Failed"),
           Careful => Data0(s, r) /\ (r.wrote /\ r.status # "Failed" => Fresh(r))
    PROVE  IInv'
<1> DEFINE a == StatementDone(r)
<1>1. /\ Sound(s, a) /\ a.database = r.database /\ a.wrote = r.wrote
      /\ a.pc \in {"next", "copy"}
  BY StatementDoneSound, Zenon
<1> HIDE DEF a
<1>2. Local(s, a)
  BY Zenon DEF a
<1> QED BY <1>1, <1>2, LocalKeeps, Zenon

-----------------------------------------------------------------------------
(* One lemma per action.                                                   *)

\* A statement refused in a failed block (25P02).
LEMMA RefusedKeeps ==
    ASSUME IInv, NEW s \in Sessions, Refused(s) PROVE IInv'
BY SessionFacts, ErrorKeeps, Zenon DEF Refused, AtStatement, Control, Session

\* A statement that does not write.
LEMMA QueryKeeps ==
    ASSUME IInv, NEW s \in Sessions, Query(s) PROVE IInv'
<1> USE DEF Runs, AtStatement, Control
<1>1. CASE Local(s, StatementDone(sess[s]))
  BY <1>1, SessionFacts, DoneKeeps, Zenon DEF Query
<1>2. CASE Local(s, StatementError(sess[s]))
  BY <1>2, SessionFacts, ErrorKeeps, Zenon DEF Query
<1> QED BY <1>1, <1>2, Zenon DEF Query

\* ROLLBACK.
LEMMA RollbackStatementKeeps ==
    ASSUME IInv, NEW s \in Sessions, RollbackStatement(s) PROVE IInv'
<1> DEFINE c == CloseTxn(sess[s])
           r == [c EXCEPT !.status = "Idle"]
<1>1. sess[s] \in Session
  BY SessionFacts, Zenon
<1>2. /\ c \in Session /\ c.wrote = FALSE /\ c.mine = {} /\ c.savepoints = <<>>
      /\ c.left = sess[s].left /\ c.auto = sess[s].auto /\ c.copy = sess[s].copy
      /\ c.database = sess[s].database
  BY <1>1, CloseTxnFields, Zenon
<1> HIDE DEF c
<1>3. /\ r \in Session /\ r.wrote = FALSE /\ r.mine = {} /\ r.savepoints = <<>>
      /\ r.left = c.left /\ r.auto = c.auto /\ r.copy = c.copy
      /\ r.database = c.database /\ r.status = "Idle"
  BY <1>2, Zenon DEF Session
<1>4. Local(s, StatementDone(r)) /\ AtStatement(s)
  BY Zenon DEF RollbackStatement, c
<1> HIDE DEF r
<1> QED
  BY <1>2, <1>3, <1>4, SessionFacts, DoneKeeps DEF AtStatement, Control, Data0

\* acquire_writer gives up (canceled or timed out).
LEMMA AcquireFailsKeeps ==
    ASSUME IInv, NEW s \in Sessions, AcquireFails(s) PROVE IInv'
BY SessionFacts, ErrorKeeps, Zenon DEF AcquireFails, Control, Session

\* What Engine::connect and disconnect make of a session is sound.
LEMMA NewSessionSound ==
    ASSUME NEW s \in Sessions, NEW d \in Databases, NEW pc \in {"new", "main", "gone", "late"}
    PROVE  LET r == NewSession(pc, d) IN
           /\ Sound(s, r) /\ r.wrote = FALSE /\ r.open = FALSE
           /\ r.pc = pc /\ r.database = d
<1> DEFINE r == NewSession(pc, d)
<1>1. pc \in PCs /\ 0 \in 0..MaxStatements + 1 /\ 0 \in 0..MaxWrites
  BY PostgresConstants DEF PCs
<1>2. r \in Session
  BY <1>1, EmptySeq, Zenon DEF NewSession, Session
<1>3. /\ r.pc = pc /\ r.database = d /\ r.status = "Idle" /\ r.open = FALSE
      /\ r.wrote = FALSE /\ r.savepoints = <<>> /\ r.implicit = FALSE
      /\ r.auto = FALSE /\ r.copy = "no" /\ r.mine = {}
  BY Zenon DEF NewSession
<1> HIDE DEF r
<1>4. Control(r)
  BY <1>3, Zenon DEF Control
<1>5. Data(s, r)
  BY <1>3 DEF Data
<1> QED BY <1>2, <1>3, <1>4, <1>5, Zenon DEF Sound, r

\* Engine::connect.
LEMMA ConnectKeeps ==
    ASSUME IInv, NEW s \in Sessions, NEW d \in Databases, Connect(s, d)
    PROVE  IInv'
<1> DEFINE r == NewSession("main", d)
<1>1. Sound(s, r) /\ r.wrote = FALSE /\ r.pc = "main" /\ r.database = d
  BY NewSessionSound, Zenon
<1>2. d \in exists /\ Local(s, r)
  BY Zenon DEF Connect
<1> HIDE DEF r
<1> QED BY <1>1, <1>2, LocalKeeps, Zenon

\* main_loop returns, between messages or inside COPY.
LEMMA LeaveKeeps ==
    ASSUME IInv, NEW s \in Sessions, Leave(s) \/ CopyReset(s) PROVE IInv'
<1> DEFINE r == [sess[s] EXCEPT !.pc = "leaving"]
<1>1. "leaving" \in PCs
  BY Zenon DEF PCs
<1>2. Local(s, r) /\ sess[s].pc \in {"main", "copy"}
  BY Zenon DEF Leave, CopyReset
<1>3. Sound(s, r) /\ r.wrote = sess[s].wrote /\ r.database = sess[s].database
      /\ r.pc = "leaving"
  BY <1>1, <1>2, SessionFacts DEF Sound, Control, Data, Session
<1> HIDE DEF r
<1> QED BY <1>2, <1>3, SessionFacts, LocalKeeps, Zenon

\* Engine::begin_implicit, field by field.
LEMMA BeginImplicitFields ==
    ASSUME NEW r \in Session, db \in [Databases -> SUBSET Row],
           r.wrote \/ r.savepoints # <<>> => r.open, Careful /\ ~r.wrote => r.mine = {}
    PROVE  LET b == BeginImplicit(r) IN
           /\ b \in Session /\ b.open = TRUE /\ b.pc = r.pc
           /\ b.database = r.database /\ b.status = r.status
           /\ b.wrote = r.wrote /\ b.mine = r.mine /\ b.auto = r.auto
           /\ b.copy = r.copy /\ b.made = r.made /\ b.left = r.left
           /\ b.skip = r.skip /\ (r.open => b.state = r.state)
           /\ (r.open => b.savepoints = r.savepoints /\ b.implicit = r.implicit)
           /\ (~r.open => b.savepoints = <<>>)
<1>1. CASE r.open
  BY <1>1 DEF BeginImplicit, Session
<1>2. CASE ~r.open
  <2> DEFINE c == Begin(r)
             b == [c EXCEPT !.implicit = TRUE]
  <2>1. /\ c \in Session /\ c.open = TRUE /\ c.pc = r.pc
        /\ c.database = r.database /\ c.status = r.status
        /\ c.wrote = FALSE /\ c.mine = r.mine /\ c.auto = r.auto
        /\ c.copy = r.copy /\ c.made = r.made /\ c.left = r.left
        /\ c.skip = r.skip /\ c.savepoints = <<>>
    BY BeginFields, Zenon
  <2> HIDE DEF c
  <2>2. /\ b \in Session /\ b.open = TRUE /\ b.pc = r.pc
        /\ b.database = r.database /\ b.status = r.status
        /\ b.wrote = FALSE /\ b.mine = r.mine /\ b.auto = r.auto
        /\ b.copy = r.copy /\ b.made = r.made /\ b.left = r.left
        /\ b.skip = r.skip /\ b.savepoints = <<>>
    BY <2>1, Zenon DEF Session
  <2>3. BeginImplicit(r) = b
    BY <1>2, Zenon DEF BeginImplicit, c
  <2>4. r.wrote = FALSE
    BY <1>2, Zenon DEF Session
  <2> HIDE DEF b
  <2> QED BY <2>2, <2>3, <2>4, <1>2, Zenon
<1> QED BY <1>1, <1>2, Zenon

\* A Query message arrives.
LEMMA SimpleQueryKeeps ==
    ASSUME IInv, NEW s \in Sessions, NEW n \in 1..MaxStatements, SimpleQuery(s, n)
    PROVE  IInv'
<1> DEFINE r == sess[s]
           b == IF n > 1 THEN BeginImplicit(r) ELSE r
           a == [b EXCEPT !.pc = "next", !.mode = "query", !.left = n]
<1>0. r \in Session /\ r.pc = "main" /\ ~r.implicit /\ Local(s, a)
  BY SessionFacts, Zenon DEF SimpleQuery, AtMessage
<1>1. /\ b \in Session /\ b.pc = r.pc
      /\ b.database = r.database /\ b.status = r.status
      /\ b.wrote = r.wrote /\ b.mine = r.mine /\ b.auto = r.auto
      /\ b.copy = r.copy /\ (r.open => b.open /\ b.state = r.state)
      /\ (r.open => b.savepoints = r.savepoints /\ b.implicit = r.implicit)
      /\ (~r.open => b.savepoints = <<>> \/ b.savepoints = r.savepoints)
  BY <1>0, SessionFacts, BeginImplicitFields, Zenon DEF Control, Data0
<1>2. n \in 0..MaxStatements + 1 /\ "next" \in PCs
  BY PostgresConstants DEF PCs
<1> HIDE DEF b
<1>3. /\ a \in Session /\ a.pc = "next"
      /\ a.database = r.database /\ a.status = r.status
      /\ a.wrote = r.wrote /\ a.mine = r.mine /\ a.auto = r.auto
      /\ a.copy = r.copy /\ a.open = b.open /\ a.state = b.state
      /\ a.savepoints = b.savepoints /\ a.implicit = b.implicit
  BY <1>1, <1>2, ZenonT(60) DEF Session
<1>4. r.status # "Idle" => r.open
  BY <1>0, SessionFacts, Zenon DEF Control
<1> HIDE DEF a
<1>5. Sound(s, a)
  BY <1>0, <1>1, <1>3, <1>4, SessionFacts DEF Sound, Control, Data, Data0, Fresh
<1> QED BY <1>0, <1>3, <1>5, SessionFacts, LocalKeeps, Zenon

\* An Execute message arrives.
LEMMA ExecuteMessageKeeps ==
    ASSUME IInv, NEW s \in Sessions, ExecuteMessage(s) PROVE IInv'
<1> DEFINE r == sess[s]
           b == BeginImplicit(r)
           a == [b EXCEPT !.pc = "next", !.mode = "exec", !.left = 1]
<1>0. r \in Session /\ r.pc = "main" /\ ~r.skip /\ Local(s, a)
  BY SessionFacts, Zenon DEF ExecuteMessage, AtMessage
<1>1. /\ b \in Session /\ b.pc = r.pc /\ b.open = TRUE
      /\ b.database = r.database /\ b.status = r.status
      /\ b.wrote = r.wrote /\ b.mine = r.mine /\ b.auto = r.auto
      /\ b.copy = r.copy /\ (r.open => b.state = r.state)
      /\ (r.open => b.savepoints = r.savepoints /\ b.implicit = r.implicit)
      /\ (~r.open => b.savepoints = <<>>)
  BY <1>0, SessionFacts, BeginImplicitFields, Zenon DEF Control, Data0
<1>2. 1 \in 0..MaxStatements + 1 /\ "next" \in PCs
  BY PostgresConstants DEF PCs
<1> HIDE DEF b
<1>3. /\ a \in Session /\ a.pc = "next"
      /\ a.database = r.database /\ a.status = r.status
      /\ a.wrote = r.wrote /\ a.mine = r.mine /\ a.auto = r.auto
      /\ a.copy = r.copy /\ a.open = TRUE /\ a.state = b.state
      /\ a.savepoints = b.savepoints /\ a.implicit = b.implicit
  BY <1>1, <1>2, ZenonT(60) DEF Session
<1>4. (r.status # "Idle" => r.open) /\ (r.wrote \/ r.savepoints # <<>> => r.open)
  BY <1>0, SessionFacts, Zenon DEF Control
<1> HIDE DEF a
<1>5. Sound(s, a)
  BY <1>0, <1>1, <1>3, <1>4, SessionFacts DEF Sound, Control, Data, Data0, Fresh
<1> QED BY <1>0, <1>3, <1>5, SessionFacts, LocalKeeps, Zenon

\* A step that changes the databases themselves, but no clone's base, keeps IInv.
LEMMA SettleKeeps ==
    ASSUME IInv, NEW s \in Sessions, NEW r, Settle(s, r), Sound(s, r), ~r.wrote,
           r.pc \in {"new", "gone", "late"} => ~r.open,
           r.pc \notin {"new", "gone", "late"} => r.database \in exists',
           exists' \subseteq Databases, db' \in [Databases -> SUBSET Row],
           promised' \in [Databases -> SUBSET Row],
           \A t \in Sessions : t # s =>
              /\ sess[t].wrote => db'[sess[t].database] = db[sess[t].database]
              /\ sess[t].pc \notin {"new", "gone", "late"} => sess[t].database \in exists',
           Careful => \A d \in Databases :
              db'[d] = promised'[d] /\ \A w \in db'[d] : w.kind # "onCommit"
    PROVE  IInv'
<1>1. TypeOK'
  BY PostgresConstants, Zenon DEF IInv, TypeOK, Settle, Sound
<1>2. ASSUME NEW t \in Sessions
      PROVE  /\ Sound(t, sess[t])'
             /\ sess'[t].wrote => writer' = t
             /\ writer' = t => sess'[t].open
             /\ sess'[t].pc \in {"new", "gone", "late"} => ~sess'[t].open
             /\ sess'[t].pc \notin {"new", "gone", "late"} => sess'[t].database \in exists'
  <2>1. CASE t = s
    <3>1. sess'[t] = r /\ writer' = IF writer = s /\ ~r.open THEN NoSession ELSE writer
      BY <2>1, Zenon DEF Settle, IInv, TypeOK
    <3>2. r.wrote = FALSE /\ (Careful => r.mine = {} /\ r.savepoints = <<>>)
      BY Zenon DEF Sound, Control, Data, Session
    <3>3. Sound(t, sess[t])'
      BY <2>1, <3>1, <3>2 DEF Sound, Control, Data
    <3> QED BY <2>1, <3>1, <3>2, <3>3, PostgresConstants, Zenon
  <2>2. CASE t # s
    <3>1. sess'[t] = sess[t]
          /\ writer' = IF writer = s /\ ~r.open THEN NoSession ELSE writer
      BY <2>2, Zenon DEF Settle, IInv, TypeOK
    <3>2. Sound(t, sess[t])'
      BY <2>2, <3>1 DEF IInv, Sound, Control, Data
    <3> QED BY <2>2, <3>1, <3>2, PostgresConstants, Zenon DEF IInv
  <2> QED BY <2>1, <2>2, Zenon
<1> QED BY <1>1, <1>2, Zenon DEF IInv

\* Engine::disconnect drops temporary objects: nobody else is writing, so no
\* clone that will be stored has them.
LEMMA DisconnectKeeps ==
    ASSUME IInv, NEW s \in Sessions, Disconnect(s) PROVE IInv'
<1> DEFINE d == sess[s].database
           a == NewSession("gone", d)
<1>1. Sound(s, a) /\ a.wrote = FALSE /\ a.open = FALSE /\ a.pc = "gone"
  <2>1. d \in Databases
    BY SessionFacts, Zenon DEF Session
  <2> QED BY <2>1, NewSessionSound, Zenon
<1>2. Settle(s, a) /\ exists' = exists
  BY Zenon DEF Disconnect
<1> HIDE DEF a
<1>3. /\ db' \in [Databases -> SUBSET Row]
      /\ promised' \in [Databases -> SUBSET Row]
      /\ exists' \subseteq Databases
  BY <1>2, Zenon DEF Disconnect, IInv, TypeOK, DropTemp
<1>4. \A t \in Sessions : t # s => ~sess[t].wrote
  BY PostgresConstants, Zenon DEF Disconnect, IInv
<1>5. Careful => \A e \in Databases :
         db'[e] = promised'[e] /\ \A w \in db'[e] : w.kind # "onCommit"
  BY Zenon DEF Disconnect, IInv, TypeOK, DropTemp
<1>6. \A t \in Sessions : sess[t].pc \notin {"new", "gone", "late"} =>
                             sess[t].database \in exists'
  BY <1>2, Zenon DEF IInv
<1> QED BY <1>1, <1>2, <1>3, <1>4, <1>5, <1>6, SettleKeeps, Zenon

\* Engine::disconnect gives up after its deadline.
LEMMA DisconnectTimesOutKeeps ==
    ASSUME IInv, NEW s \in Sessions, DisconnectTimesOut(s) PROVE IInv'
<1> DEFINE d == sess[s].database
           a == NewSession("late", d)
<1>1. Sound(s, a) /\ a.wrote = FALSE /\ a.open = FALSE /\ a.pc = "late"
  <2>1. d \in Databases
    BY SessionFacts, Zenon DEF Session
  <2> QED BY <2>1, NewSessionSound, Zenon
<1>2. Local(s, a)
  BY Zenon DEF DisconnectTimesOut
<1> HIDE DEF a
<1> QED BY <1>1, <1>2, LocalKeeps, Zenon

\* CREATE DATABASE.
LEMMA CreateDatabaseKeeps ==
    ASSUME IInv, NEW s \in Sessions, NEW d \in Databases, NEW ine \in BOOLEAN,
           CreateDatabase(s, d, ine)
    PROVE  IInv'
<1> DEFINE r == sess[s]
           a == StatementDone(r)
<1>0. Runs(s) /\ AtStatement(s)
  BY Zenon DEF CreateDatabase, Runs
<1>1. CASE r.open \/ (d \in exists /\ ~ine)
  BY <1>0, <1>1, SessionFacts, ErrorKeeps, Zenon DEF CreateDatabase, Runs, AtStatement, Control
<1>2. CASE ~(r.open \/ (d \in exists /\ ~ine))
  <2>1. /\ exists' = exists \cup {d}
        /\ db' = IF d \in exists THEN db ELSE [db EXCEPT ![d] = {}]
        /\ promised' = IF d \in exists THEN promised ELSE [promised EXCEPT ![d] = {}]
        /\ Settle(s, a)
    BY <1>2, Zenon DEF CreateDatabase
  <2>2. /\ Sound(s, a) /\ a.database = r.database /\ a.wrote = r.wrote
        /\ a.pc \in {"next", "copy"}
    BY <1>0, SessionFacts, StatementDoneSound, Zenon DEF Runs, AtStatement, Control
  <2>3. ~r.wrote /\ r.database \in exists
    BY <1>0, <1>2, SessionFacts, Zenon DEF AtStatement, Control
  <2> HIDE DEF a
  <2>4. /\ db' \in [Databases -> SUBSET Row]
        /\ promised' \in [Databases -> SUBSET Row]
        /\ exists' \subseteq Databases
    BY <2>1, Zenon DEF IInv, TypeOK
  <2>5. \A t \in Sessions : sess[t].wrote => sess[t].database \in exists
    BY SessionFacts, Zenon DEF Control
  <2>6. \A t \in Sessions : t # s =>
              /\ sess[t].wrote => db'[sess[t].database] = db[sess[t].database]
              /\ sess[t].pc \notin {"new", "gone", "late"} => sess[t].database \in exists'
    BY <2>1, <2>5, Zenon DEF IInv, TypeOK
  <2>7. Careful => \A e \in Databases :
           db'[e] = promised'[e] /\ \A w \in db'[e] : w.kind # "onCommit"
    BY <2>1, Zenon DEF IInv, TypeOK
  <2>8. r.wrote \in BOOLEAN
    BY SessionFacts, Zenon DEF Session
  <2> QED BY <2>1, <2>2, <2>3, <2>4, <2>6, <2>7, <2>8, SettleKeeps, Zenon
<1> QED BY <1>1, <1>2, Zenon

\* DROP DATABASE: a database with a connected session stays.
LEMMA DropDatabaseKeeps ==
    ASSUME IInv, NEW s \in Sessions, NEW names \in SUBSET Databases,
           NEW ie \in BOOLEAN, DropDatabase(s, names, ie)
    PROVE  IInv'
<1> DEFINE r == sess[s]
           busy == {d \in names : \E t \in Registered : sess[t].database = d}
           bad == busy \cup (IF ie THEN {} ELSE names \ exists)
           a == IF bad = {} THEN StatementDone(r) ELSE StatementError(r)
<1>0. Runs(s) /\ AtStatement(s)
  BY Zenon DEF DropDatabase, Runs
<1>1. CASE r.open
  BY <1>0, <1>1, SessionFacts, ErrorKeeps, Zenon DEF DropDatabase, Runs, AtStatement, Control
<1>2. CASE ~r.open
  <2>1. PICK dropped \in SUBSET (names \ bad) : exists' = exists \ dropped
    BY <1>2, Zenon DEF DropDatabase
  <2>2. Settle(s, a) /\ UNCHANGED <<db, promised>>
    BY <1>2, Zenon DEF DropDatabase
  <2>3. \A t \in Sessions : sess[t].pc \notin {"new", "gone", "late"} =>
                               sess[t].database \in exists'
    BY <2>1, Zenon DEF IInv, Registered
  <2>4. ~r.wrote /\ r.database \in exists'
    BY <1>0, <1>2, <2>3, SessionFacts, Zenon DEF AtStatement, Control
  <2>5. /\ Sound(s, a) /\ a.database = r.database /\ (a.wrote => r.wrote)
        /\ a.pc \in {"main", "next", "copy"}
    <3>1. /\ r \in Session /\ (r.wrote \/ r.savepoints # <<>> => r.open)
          /\ (r.status # "Idle" => r.open)
          /\ r.left > 0 /\ (r.copy # "no" => ~r.auto) /\ r.copy = "no"
          /\ ~(r.implicit /\ r.status = "Failed")
          /\ Careful => Data0(s, r) /\ (r.wrote /\ r.status # "Failed" => Fresh(r))
      BY <1>0, SessionFacts, Zenon DEF Runs, AtStatement, Control
    <3>2. CASE bad = {}
      BY <3>1, <3>2, StatementDoneSound, Zenon
    <3>3. CASE bad # {}
      BY <3>1, <3>3, StatementErrorSound, Zenon
    <3> QED BY <3>2, <3>3, Zenon
  <2> HIDE DEF a
  <2>6. /\ db' \in [Databases -> SUBSET Row]
        /\ promised' \in [Databases -> SUBSET Row]
        /\ exists' \subseteq Databases
    BY <2>1, <2>2, Zenon DEF IInv, TypeOK
  <2>7. Careful => \A e \in Databases :
           db'[e] = promised'[e] /\ \A w \in db'[e] : w.kind # "onCommit"
    BY <2>2, Zenon DEF IInv
  <2>8. \A t \in Sessions : db'[sess[t].database] = db[sess[t].database]
    BY <2>2, Zenon
  <2> QED BY <2>2, <2>3, <2>4, <2>5, <2>6, <2>7, <2>8, SettleKeeps, Zenon
<1> QED BY <1>1, <1>2, Zenon

\* BEGIN.
LEMMA StartTransactionKeeps ==
    ASSUME IInv, NEW s \in Sessions, StartTransaction(s) PROVE IInv'
<1> DEFINE r == sess[s]
           b == Begin(r)
           q == [b EXCEPT !.status = "InTransaction"]
<1>0. /\ r \in Session /\ r.left > 0 /\ r.copy = "no" /\ ~r.auto
      /\ r.database \in exists /\ r.status # "Failed"
      /\ r.status \in {"Idle", "InTransaction", "Failed"}
      /\ (r.wrote \/ r.savepoints # <<>> => r.open) /\ (r.wrote => writer = s)
      /\ (r.status # "Idle" => r.open)
  BY SessionFacts, Zenon DEF StartTransaction, Runs, AtStatement, Control, Session
<1>1. CASE r.open /\ r.status # "Idle"
  BY <1>0, <1>1, SessionFacts, DoneKeeps, Zenon DEF StartTransaction
<1>2. CASE ~(r.open /\ r.status # "Idle")
  <2>1. Local(s, StatementDone(q))
    BY <1>2, Zenon DEF StartTransaction
  <2>2. Careful => r.mine = {}
    BY <1>0, <1>2, SessionFacts, Zenon DEF StartTransaction, Careful, Data0
  <2>3. /\ b \in Session /\ b.left = r.left /\ b.copy = r.copy /\ b.auto = r.auto
        /\ b.database = r.database /\ b.open = TRUE /\ b.wrote = FALSE
        /\ b.mine = r.mine /\ b.savepoints = <<>>
    BY <1>0, SessionFacts, BeginFields, Zenon
  <2> HIDE DEF b
  <2>4. /\ q \in Session /\ q.left = r.left /\ q.copy = r.copy /\ q.auto = r.auto
        /\ q.database = r.database /\ q.open = TRUE /\ q.wrote = FALSE
        /\ q.mine = r.mine /\ q.savepoints = <<>> /\ q.status = "InTransaction"
    BY <2>3, Zenon DEF Session
  <2> HIDE DEF q
  <2>5. Careful => Data0(s, q)
    BY <2>2, <2>4 DEF Data0
  <2> QED BY <1>0, <2>1, <2>4, <2>5, DoneKeeps, Zenon
<1> QED BY <1>1, <1>2, Zenon

\* COMMIT, of a block that failed, of one that did not, and of none.
LEMMA CommitStatementKeeps ==
    ASSUME IInv, NEW s \in Sessions, CommitStatement(s) PROVE IInv'
<1> DEFINE r == sess[s]
           c == CloseTxn(r)
           ended == [c EXCEPT !.status = "Idle"]
           after == StatementDone(ended)
<1>0. /\ r \in Session /\ r.left > 0 /\ r.copy = "no" /\ ~r.auto
      /\ r.database \in exists /\ r.database \in Databases
      /\ (r.wrote \/ r.savepoints # <<>> => r.open) /\ (r.wrote => writer = s)
     
  BY SessionFacts, Zenon DEF CommitStatement, AtStatement, Control, Session
<1>1. /\ c \in Session /\ c.left = r.left /\ c.copy = r.copy /\ c.auto = r.auto
      /\ c.database = r.database /\ c.open = FALSE /\ c.wrote = FALSE
      /\ c.mine = {} /\ c.savepoints = <<>>
  BY <1>0, CloseTxnFields, Zenon
<1>2. CASE r.status = "Failed" \/ ~r.open
  <2>1. Local(s, after)
    BY <1>2, Zenon DEF CommitStatement
  <2> HIDE DEF c
  <2>2. /\ ended \in Session /\ ended.left = r.left /\ ended.copy = r.copy
        /\ ended.auto = r.auto /\ ended.database = r.database
        /\ ended.open = FALSE /\ ended.wrote = FALSE
        /\ ended.mine = {} /\ ended.savepoints = <<>> /\ ended.status = "Idle"
    BY <1>1, Zenon DEF Session
  <2> HIDE DEF ended
  <2>3. Data0(s, ended)
    BY <2>2 DEF Data0
  <2> QED BY <1>0, <2>1, <2>2, <2>3, DoneKeeps, Zenon
<1>3. CASE ~(r.status = "Failed" \/ ~r.open)
  <2>1. Commit(s, r, after) \/ Local(s, StatementError(ended))
    BY <1>3, Zenon DEF CommitStatement, CommitOr
  <2> HIDE DEF c
  <2>2. /\ ended \in Session /\ ended.left = r.left /\ ended.copy = r.copy
        /\ ended.auto = r.auto /\ ended.database = r.database
        /\ ended.open = FALSE /\ ended.wrote = FALSE
        /\ ended.mine = {} /\ ended.savepoints = <<>> /\ ended.status = "Idle"
    BY <1>1 DEF Session
  <2> HIDE DEF ended
  <2>3. Data0(s, ended)
    BY <2>2 DEF Data0
  <2>4. /\ Sound(s, after) /\ after.database = r.database /\ ~after.open
        /\ after.pc \in {"next", "copy"}
    BY <1>0, <2>2, <2>3, StatementDoneSound, Zenon
  <2> HIDE DEF after
  <2>5. CASE Commit(s, r, after)
    BY <1>0, <1>3, <2>4, <2>5, SessionFacts, CommitKeeps, Zenon
  <2>6. CASE Local(s, StatementError(ended))
    BY <1>0, <2>2, <2>3, <2>6, ErrorKeeps, Zenon
  <2> QED BY <2>1, <2>5, <2>6, Zenon
<1> QED BY <1>2, <1>3, Zenon

\* A writing statement starts (run_data_statement).
LEMMA WriteStatementKeeps ==
    ASSUME IInv, NEW s \in Sessions, WriteStatement(s) PROVE IInv'
<1> DEFINE r == sess[s]
           b == IF r.open THEN r ELSE Begin(r)
           a == [b EXCEPT !.pc = "acquire", !.auto = ~r.open]
<1>0. /\ r \in Session /\ r.left > 0 /\ r.copy = "no" /\ r.made < MaxWrites
      /\ r.database \in exists /\ r.status # "Failed"
      /\ (r.wrote \/ r.savepoints # <<>> => r.open) /\ (r.wrote => writer = s)
      /\ (r.status # "Idle" => r.open)
      /\ r.open \in BOOLEAN
  BY SessionFacts, Zenon DEF WriteStatement, Runs, AtStatement, Control, Session
<1>1. /\ b \in Session /\ b.left = r.left /\ b.copy = r.copy
      /\ b.database = r.database /\ b.open = TRUE /\ b.wrote = r.wrote
      /\ b.made = r.made /\ b.status = r.status /\ b.implicit = r.implicit
      /\ Careful => Data0(s, b) /\ (b.wrote => Fresh(b))
  <2>1. CASE r.open
    BY <1>0, <2>1, SessionFacts, Zenon
  <2>2. CASE ~r.open
    <3>1. b = Begin(r)
      BY <2>2, Zenon
    <3> HIDE DEF b
    <3>2. /\ b \in Session /\ b.left = r.left /\ b.copy = r.copy
          /\ b.database = r.database /\ b.open = TRUE /\ b.wrote = FALSE
          /\ b.made = r.made /\ b.status = r.status /\ b.implicit = r.implicit
          /\ b.mine = r.mine /\ b.savepoints = <<>>
      BY <1>0, <3>1, SessionFacts, BeginFields, Zenon
    <3>3. r.wrote = FALSE /\ (Careful => r.mine = {})
      BY <1>0, <2>2, SessionFacts, Zenon DEF Data0, Session
    <3>4. Careful => Data0(s, b)
      BY <3>2, <3>3 DEF Data0
    <3> QED BY <3>2, <3>3, <3>4, Zenon
  <2> QED BY <2>1, <2>2, Zenon
<1>2. Local(s, a)
  BY Zenon DEF WriteStatement
<1>3. "acquire" \in PCs
  BY Zenon DEF PCs
<1> HIDE DEF b
<1>4. /\ a \in Session /\ a.pc = "acquire" /\ a.auto = ~r.open /\ a.left = b.left
      /\ a.copy = b.copy /\ a.database = b.database /\ a.open = b.open
      /\ a.wrote = b.wrote /\ a.made = b.made /\ a.status = b.status
      /\ a.implicit = b.implicit /\ a.mine = b.mine /\ a.state = b.state
      /\ a.savepoints = b.savepoints
  BY <1>0, <1>1, <1>3, Zenon DEF Session
<1> HIDE DEF a
<1>5. Sound(s, a)
  BY <1>0, <1>1, <1>4, ZenonT(60) DEF Sound, Control, Data, Data0, Fresh
<1> QED BY <1>0, <1>1, <1>2, <1>4, <1>5, LocalKeeps, Zenon

\* acquire_writer: the lock is free, so no other session has written, and the
\* clone is taken anew.
LEMMA AcquireWriterKeeps ==
    ASSUME IInv, NEW s \in Sessions, AcquireWriter(s) PROVE IInv'
<1> DEFINE r == sess[s]
           a == [r EXCEPT !.state = IF r.wrote THEN @ ELSE db[r.database],
                          !.wrote = TRUE, !.pc = "run"]
<1>0. /\ r \in Session /\ Control(r) /\ Sound(s, r) /\ r.pc = "acquire"
      /\ r.database \in Databases /\ db \in [Databases -> SUBSET Row]
  BY SessionFacts, Zenon DEF AcquireWriter, Session
<1>1. "run" \in PCs
  BY Zenon DEF PCs
<1>2. /\ a \in Session /\ a.pc = "run" /\ a.wrote = TRUE
      /\ a.state = IF r.wrote THEN r.state ELSE db[r.database]
      /\ a.auto = r.auto /\ a.left = r.left /\ a.copy = r.copy
      /\ a.database = r.database /\ a.open = r.open /\ a.made = r.made
      /\ a.status = r.status /\ a.implicit = r.implicit /\ a.mine = r.mine
      /\ a.savepoints = r.savepoints
  BY <1>0, <1>1, Zenon DEF Session
<1>3. /\ sess' = [sess EXCEPT ![s] = a] /\ writer' = s
      /\ exists' = exists /\ db' = db /\ promised' = promised
  BY Zenon DEF AcquireWriter
<1> HIDE DEF a
<1>4. Sound(s, a)
  BY <1>0, <1>2 DEF Sound, Control, Data
<1>5. \A t \in Sessions : t # s => ~sess[t].wrote
  BY PostgresConstants, Zenon DEF AcquireWriter, IInv
<1>6. TypeOK'
  BY <1>2, <1>3, Zenon DEF IInv, TypeOK
<1>7. ASSUME NEW t \in Sessions
      PROVE  /\ Sound(t, sess[t])'
             /\ sess'[t].wrote => writer' = t
             /\ writer' = t => sess'[t].open
             /\ sess'[t].pc \in {"new", "gone", "late"} => ~sess'[t].open
             /\ sess'[t].pc \notin {"new", "gone", "late"} => sess'[t].database \in exists'
  <2>1. CASE t = s
    <3>1. sess'[t] = a
      BY <1>3, <2>1, Zenon DEF IInv, TypeOK
    <3>2. Sound(t, sess[t])'
      BY <3>1, <2>1, <1>3, <1>4 DEF Sound, Control, Data
    <3>3. r.open /\ r.database \in exists
      BY <1>0, SessionFacts, Zenon DEF Control
    <3> QED BY <3>1, <3>2, <3>3, <2>1, <1>2, <1>3, Zenon
  <2>2. CASE t # s
    <3>1. sess'[t] = sess[t]
      BY <1>3, <2>2, Zenon DEF IInv, TypeOK
    <3> QED BY <3>1, <2>2, <1>3, <1>5 DEF IInv, Sound, Control, Data
  <2> QED BY <2>1, <2>2, Zenon
<1> QED BY <1>3, <1>6, <1>7, Zenon DEF IInv

\* A writing statement runs and, on its own, commits.
LEMMA RunWriteKeeps ==
    ASSUME IInv, NEW s \in Sessions, NEW k \in Kinds, RunWrite(s, k) PROVE IInv'
<1> DEFINE r == sess[s]
           w == [by |-> s, n |-> r.made + 1, kind |-> k]
           ran == [r EXCEPT !.state = @ \cup {w}, !.made = @ + 1]
           done == [ran EXCEPT !.mine = @ \cup {w}]
           c == CloseTxn(done)
<1>0. /\ r \in Session /\ Control(r) /\ r.pc = "run" /\ r.database \in Databases
      /\ r.database \in exists /\ r.wrote /\ r.open /\ writer = s
      /\ r.made < MaxWrites /\ r.made \in 0..MaxWrites /\ r.left > 0
      /\ r.status # "Failed" /\ r.wrote = TRUE /\ r.open = TRUE
      /\ (r.copy # "no" => ~r.auto) /\ (r.auto => r.status = "Idle")
      /\ r.copy \in {"no", "ok", "failed"}
  BY SessionFacts, Zenon DEF RunWrite, Control, Session
<1>1. w \in Row /\ w.by = s
  BY <1>0, PostgresConstants DEF Row
<1>2. r.made + 1 \in 0..MaxWrites
  BY <1>0, PostgresConstants
<1> HIDE DEF w
<1>3. /\ ran \in Session /\ ran.pc = r.pc /\ ran.database = r.database
      /\ ran.wrote = TRUE /\ ran.open = TRUE /\ ran.left = r.left
      /\ ran.copy = r.copy /\ ran.auto = r.auto /\ ran.status = r.status
      /\ ran.implicit = r.implicit /\ ran.mine = r.mine
      /\ ran.savepoints = r.savepoints /\ ran.state = r.state \cup {w}
  BY <1>0, <1>1, <1>2, ZenonT(60) DEF Session
<1>4. /\ done \in Session /\ done.pc = r.pc /\ done.database = r.database
      /\ done.wrote = TRUE /\ done.open = TRUE /\ done.left = r.left
      /\ done.copy = r.copy /\ done.auto = r.auto /\ done.status = r.status
      /\ done.implicit = r.implicit /\ done.mine = r.mine \cup {w}
      /\ done.savepoints = r.savepoints /\ done.state = r.state \cup {w}
  <2> HIDE DEF ran
  <2> QED BY <1>1, <1>3, Zenon DEF Session
<1>5. \/ r.auto /\ CommitOr(s, done, StatementDone(c), StatementError(c))
      \/ ~r.auto /\ Local(s, StatementDone(done))
      \/ Local(s, StatementError(ran))
  BY Zenon DEF RunWrite, w
<1> HIDE DEF ran, done
<1>6. Careful => Data0(s, r) /\ Fresh(r)
  BY <1>0, SessionFacts, Zenon
<1>7. Careful => Data0(s, ran)
  BY <1>0, <1>3, <1>6 DEF Data0
<1>8. Careful => Data0(s, done) /\ Fresh(done)
  BY <1>0, <1>1, <1>4, <1>6 DEF Data0, Fresh
<1>9. CASE Local(s, StatementError(ran))
  BY <1>0, <1>3, <1>7, <1>9, ErrorKeeps, Zenon
<1>10. CASE ~r.auto /\ Local(s, StatementDone(done))
  <2>1. r.copy # "failed"
    BY <1>0, SessionFacts, Zenon DEF Control
  <2> QED BY <1>0, <1>4, <1>8, <1>10, <2>1, DoneKeeps, Zenon
<1>11. CASE r.auto /\ CommitOr(s, done, StatementDone(c), StatementError(c))
  <2>1. /\ c \in Session /\ c.left = r.left /\ c.copy = "no"
        /\ c.database = r.database /\ c.open = FALSE /\ c.wrote = FALSE
        /\ c.mine = {} /\ c.savepoints = <<>> /\ c.status = "Idle"
    BY <1>0, <1>4, <1>11, CloseTxnFields, ZenonT(60)
  <2> DEFINE after == StatementDone(c)
  <2>2. Commit(s, done, after) \/ Local(s, StatementError(c))
    BY <1>11, Zenon DEF CommitOr
  <2> HIDE DEF c
  <2>3. Data0(s, c)
    BY <2>1 DEF Data0
  <2>4. /\ Sound(s, after) /\ after.database = r.database /\ ~after.open
        /\ after.pc \in {"next", "copy"}
    BY <1>0, <2>1, <2>3, StatementDoneSound, Zenon
  <2> HIDE DEF after
  <2>5. CASE Commit(s, done, after)
    BY <1>0, <1>4, <1>8, <2>4, <2>5, CommitKeeps, Zenon
  <2>6. CASE Local(s, StatementError(c))
    BY <1>0, <2>1, <2>3, <2>6, ErrorKeeps, Zenon
  <2> QED BY <2>2, <2>5, <2>6, Zenon
<1> QED BY <1>5, <1>9, <1>10, <1>11, Zenon

\* SAVEPOINT clones a state that is fresh.
LEMMA SavepointStatementKeeps ==
    ASSUME IInv, NEW s \in Sessions, NEW n \in Names, SavepointStatement(s, n)
    PROVE  IInv'
<1> DEFINE r == sess[s]
           p == [name |-> n, state |-> r.state, mine |-> r.mine]
           q == [r EXCEPT !.savepoints = Append(@, p)]
<1>0. /\ r \in Session /\ r.left > 0 /\ r.copy = "no" /\ ~r.auto
      /\ r.database \in exists /\ r.status # "Failed"
      /\ (r.wrote \/ r.savepoints # <<>> => r.open) /\ (r.wrote => writer = s)
      /\ (r.status # "Idle" => r.open)
      /\ r.savepoints \in Seq(Savepoint)
  BY SessionFacts, Zenon DEF SavepointStatement, Runs, AtStatement, Control, Session
<1>1. CASE ~r.open
  BY <1>0, <1>1, SessionFacts, ErrorKeeps, Zenon DEF SavepointStatement
<1>2. CASE r.open
  <2>1. Local(s, StatementDone(q))
    BY <1>2, Zenon DEF SavepointStatement
  <2>2. p \in Savepoint /\ p.state = r.state /\ p.mine = r.mine
    BY <1>0, Zenon DEF Savepoint, Session
  <2>3. Careful => r.wrote
    BY <1>0, Zenon DEF SavepointStatement, Careful
  <2> HIDE DEF p
  <2>4. /\ Append(r.savepoints, p) \in Seq(Savepoint)
        /\ Len(Append(r.savepoints, p)) = Len(r.savepoints) + 1
        /\ \A i \in 1..Len(r.savepoints) + 1 : Append(r.savepoints, p)[i] =
              IF i <= Len(r.savepoints) THEN r.savepoints[i] ELSE p
        /\ Len(r.savepoints) \in Nat
    BY <1>0, <2>2
  <2>5. /\ q \in Session /\ q.left = r.left /\ q.copy = r.copy /\ q.auto = r.auto
        /\ q.database = r.database /\ q.open = r.open /\ q.wrote = r.wrote
        /\ q.mine = r.mine /\ q.savepoints = Append(r.savepoints, p)
        /\ q.status = r.status /\ q.state = r.state /\ q.implicit = r.implicit
    BY <1>0, <2>4, Zenon DEF Session
  <2> HIDE DEF q
  <2>6. Careful => Data0(s, r) /\ Fresh(r)
    BY <1>0, <2>3, SessionFacts, Zenon
  <2>7. ASSUME Careful PROVE Data0(s, q) /\ Fresh(q)
    <3>1. ASSUME NEW i \in 1..Len(q.savepoints)
          PROVE  /\ q.savepoints[i].state = db[q.database] \cup q.savepoints[i].mine
                 /\ \A w \in q.savepoints[i].mine : w.by = s
      <4>1. CASE i <= Len(r.savepoints)
        <5>1. i \in 1..Len(r.savepoints) /\ q.savepoints[i] = r.savepoints[i]
          BY <4>1, <2>4, <2>5
        <5> QED BY <5>1, <2>5, <2>6, <2>7, Zenon DEF Data0
      <4>2. CASE ~(i <= Len(r.savepoints))
        <5>1. q.savepoints[i] = p
          BY <4>2, <2>4, <2>5, Zenon
        <5> QED BY <5>1, <2>2, <2>5, <2>6, <2>7, Zenon DEF Data0, Fresh
      <4> QED BY <4>1, <4>2, Zenon
    <3>2. (\A w \in q.mine : w.by = s) /\ q.wrote /\ Fresh(q)
      BY <2>3, <2>5, <2>6, <2>7, Zenon DEF Data0, Fresh
    <3> QED BY <3>1, <3>2 DEF Data0
  <2> QED BY <1>0, <1>2, <2>1, <2>5, <2>7, DoneKeeps, Zenon
<1> QED BY <1>1, <1>2, Zenon

\* Cutting the savepoint stack (Vec::truncate) keeps the lower savepoints.
LEMMA Shorter ==
    ASSUME NEW q \in Seq(Savepoint), NEW i \in Nat, i <= Len(q)
    PROVE  /\ SubSeq(q, 1, i) \in Seq(Savepoint)
           /\ Len(SubSeq(q, 1, i)) = i
           /\ \A j \in 1..i : SubSeq(q, 1, i)[j] = q[j]
           /\ Len(q) \in Nat
<1>1. \A j \in 1..i : q[j] \in Savepoint
  OBVIOUS
<1> QED BY <1>1

\* RELEASE SAVEPOINT.
LEMMA ReleaseSavepointKeeps ==
    ASSUME IInv, NEW s \in Sessions, NEW n \in Names, ReleaseSavepoint(s, n)
    PROVE  IInv'
<1> DEFINE r == sess[s]
<1>0. /\ r \in Session /\ r.left > 0 /\ r.copy = "no" /\ ~r.auto
      /\ r.database \in exists /\ r.status # "Failed"
      /\ (r.wrote \/ r.savepoints # <<>> => r.open) /\ (r.wrote => writer = s)
      /\ (r.status # "Idle" => r.open)
      /\ r.savepoints \in Seq(Savepoint) /\ Len(r.savepoints) \in Nat
  BY SessionFacts DEF ReleaseSavepoint, Runs, AtStatement, Control, Session
<1>1. CASE NoSuchSavepoint(s, n)
  BY <1>0, <1>1, SessionFacts, ErrorKeeps, Zenon DEF NoSuchSavepoint
<1>2. ASSUME NEW i \in 1..MaxSavepoints, IsLast(i, r, n),
             Local(s, StatementDone([r EXCEPT !.savepoints = SubSeq(@, 1, i - 1)]))
      PROVE  IInv'
  <2> DEFINE q == [r EXCEPT !.savepoints = SubSeq(@, 1, i - 1)]
  <2>1. i \in 1..Len(r.savepoints) /\ i - 1 \in Nat /\ i - 1 <= Len(r.savepoints)
    BY <1>0, <1>2 DEF IsLast, Named
  <2>2. /\ SubSeq(r.savepoints, 1, i - 1) \in Seq(Savepoint)
        /\ Len(SubSeq(r.savepoints, 1, i - 1)) = i - 1
        /\ \A j \in 1..(i - 1) : SubSeq(r.savepoints, 1, i - 1)[j] = r.savepoints[j]
    BY <1>0, <2>1, Shorter, Zenon
  <2>3. /\ q \in Session /\ q.left = r.left /\ q.copy = r.copy /\ q.auto = r.auto
        /\ q.database = r.database /\ q.open = r.open /\ q.wrote = r.wrote
        /\ q.mine = r.mine /\ q.savepoints = SubSeq(r.savepoints, 1, i - 1)
        /\ q.status = r.status /\ q.state = r.state /\ q.implicit = r.implicit
    BY <1>0, <2>2, ZenonT(60) DEF Session
  <2>4. Local(s, StatementDone(q))
    BY <1>2, Zenon
  <2> HIDE DEF q
  <2>5. r.savepoints # <<>>
    BY <2>1
  <2>6. Careful => Data0(s, r) /\ r.wrote /\ Fresh(r)
    BY <1>0, <2>5, SessionFacts, Zenon DEF Data0
  <2>7. ASSUME Careful PROVE Data0(s, q) /\ Fresh(q)
    <3>1. \A j \in 1..Len(q.savepoints) :
             /\ q.savepoints[j].state = db[q.database] \cup q.savepoints[j].mine
             /\ \A w \in q.savepoints[j].mine : w.by = s
      <4> SUFFICES ASSUME NEW j \in 1..Len(q.savepoints)
                   PROVE  /\ q.savepoints[j].state =
                               db[q.database] \cup q.savepoints[j].mine
                          /\ \A w \in q.savepoints[j].mine : w.by = s
        OBVIOUS
      <4>1. j \in 1..Len(r.savepoints) /\ q.savepoints[j] = r.savepoints[j]
        BY <1>0, <2>1, <2>2, <2>3
      <4> QED BY <4>1, <2>3, <2>6, <2>7, Zenon DEF Data0
    <3>2. (\A w \in q.mine : w.by = s) /\ q.wrote /\ Fresh(q)
      BY <2>3, <2>6, <2>7, Zenon DEF Data0, Fresh
    <3> QED BY <3>1, <3>2, Zenon DEF Data0
  <2> QED BY <1>0, <2>3, <2>4, <2>5, <2>7, DoneKeeps
<1> QED BY <1>1, <1>2, Zenon DEF ReleaseSavepoint

\* ROLLBACK TO: a savepoint taken after the first write is as fresh as the
\* transaction, since the lock was held ever since.
LEMMA RollbackToKeeps ==
    ASSUME IInv, NEW s \in Sessions, NEW n \in Names, RollbackTo(s, n)
    PROVE  IInv'
<1> DEFINE r == sess[s]
<1>0. /\ r \in Session /\ r.left > 0 /\ r.copy = "no" /\ ~r.auto
      /\ r.database \in exists
      /\ (r.wrote \/ r.savepoints # <<>> => r.open) /\ (r.wrote => writer = s)
      /\ (r.status # "Idle" => r.open)
      /\ r.savepoints \in Seq(Savepoint) /\ Len(r.savepoints) \in Nat
  <2>1. AtStatement(s)
    BY Zenon DEF RollbackTo
  <2> QED BY <2>1, SessionFacts DEF AtStatement, Control, Session
<1>1. CASE NoSuchSavepoint(s, n)
  BY <1>0, <1>1, SessionFacts, ErrorKeeps, Zenon DEF NoSuchSavepoint
<1>2. ASSUME NEW i \in 1..MaxSavepoints, IsLast(i, r, n),
             Local(s, StatementDone([r EXCEPT !.state = r.savepoints[i].state,
                           !.mine = r.savepoints[i].mine,
                           !.savepoints = SubSeq(@, 1, i),
                           !.status = "InTransaction"]))
      PROVE  IInv'
  <2> DEFINE p == r.savepoints[i]
             q == [r EXCEPT !.state = p.state, !.mine = p.mine,
                            !.savepoints = SubSeq(@, 1, i),
                            !.status = "InTransaction"]
  <2>1. i \in 1..Len(r.savepoints) /\ i \in Nat /\ i <= Len(r.savepoints)
    BY <1>0, <1>2 DEF IsLast, Named
  <2>2. /\ SubSeq(r.savepoints, 1, i) \in Seq(Savepoint)
        /\ Len(SubSeq(r.savepoints, 1, i)) = i
        /\ \A j \in 1..i : SubSeq(r.savepoints, 1, i)[j] = r.savepoints[j]
    BY <1>0, <2>1, Shorter, Zenon
  <2>3. p \in Savepoint
    BY <1>0, <2>1
  <2>4. p.state \subseteq Row /\ p.mine \subseteq Row
    BY <2>3, Zenon DEF Savepoint
  <2>5. Local(s, StatementDone(q))
    BY <1>2, Zenon
  <2> HIDE DEF p
  <2>6. /\ q \in Session /\ q.left = r.left /\ q.copy = r.copy /\ q.auto = r.auto
        /\ q.database = r.database /\ q.open = r.open /\ q.wrote = r.wrote
        /\ q.mine = p.mine /\ q.savepoints = SubSeq(r.savepoints, 1, i)
        /\ q.status = "InTransaction" /\ q.state = p.state
    BY <1>0, <2>2, <2>4, ZenonT(60) DEF Session
  <2> HIDE DEF q
  <2>7. r.savepoints # <<>>
    BY <2>1
  <2>8. r.open
    BY <2>7, SessionFacts, Zenon DEF Control
  <2>9. Careful => Data0(s, r) /\ r.wrote
    BY <1>0, <2>7, SessionFacts, Zenon DEF Data0
  <2>10. Careful => p.state = db[r.database] \cup p.mine /\ \A w \in p.mine : w.by = s
    BY <2>1, <2>9, Zenon DEF Data0, p
  <2>11. ASSUME Careful PROVE Data0(s, q) /\ Fresh(q)
    <3>1. \A j \in 1..Len(q.savepoints) :
             /\ q.savepoints[j].state = db[q.database] \cup q.savepoints[j].mine
             /\ \A w \in q.savepoints[j].mine : w.by = s
      <4> SUFFICES ASSUME NEW j \in 1..Len(q.savepoints)
                   PROVE  /\ q.savepoints[j].state =
                               db[q.database] \cup q.savepoints[j].mine
                          /\ \A w \in q.savepoints[j].mine : w.by = s
        OBVIOUS
      <4>1. j \in 1..Len(r.savepoints) /\ q.savepoints[j] = r.savepoints[j]
        BY <1>0, <2>1, <2>2, <2>6
      <4> QED BY <4>1, <2>6, <2>9, <2>11, Zenon DEF Data0
    <3>2. (\A w \in q.mine : w.by = s) /\ q.wrote /\ Fresh(q)
      BY <2>6, <2>9, <2>10, <2>11, Zenon DEF Data0, Fresh
    <3> QED BY <3>1, <3>2 DEF Data0
  <2> QED BY <1>0, <2>5, <2>6, <2>8, <2>11, DoneKeeps, Zenon
<1> QED BY <1>1, <1>2, Zenon DEF RollbackTo

\* A message that fails before it runs a statement.
LEMMA MessageErrorKeeps ==
    ASSUME IInv, NEW s \in Sessions, MessageError(s) PROVE IInv'
<1> DEFINE r == sess[s]
           q == ServerError(r)
           m == IF r.implicit /\ r.status = "Idle" THEN {} ELSE r.mine
<1>0. /\ r \in Session /\ Control(r) /\ Sound(s, r) /\ r.pc = "main"
      /\ r.database \in exists /\ r.mine \subseteq Row /\ (r.wrote => writer = s)
      /\ r.status \in {"Idle", "InTransaction", "Failed"}
  BY SessionFacts, Zenon DEF MessageError, AtMessage, Session
<1>1. PICK x \in BOOLEAN :
         (r.implicit => x) /\ Local(s, [q EXCEPT !.skip = x, !.mine = m])
  <2>1. q.mine = r.mine
    BY <1>0, ServerErrorFields, Zenon
  <2>2. PICK x \in BOOLEAN :
           /\ r.implicit => x
           /\ Local(s, [q EXCEPT !.skip = x,
                          !.mine = IF r.implicit /\ r.status = "Idle" THEN {} ELSE @])
    BY Zenon DEF MessageError
  <2> HIDE DEF q
  <2>3. [q EXCEPT !.skip = x,
           !.mine = IF r.implicit /\ r.status = "Idle" THEN {} ELSE @]
        = [q EXCEPT !.skip = x, !.mine = m]
    <3>1. CASE r.implicit /\ r.status = "Idle"
      BY <3>1, Zenon
    <3>2. CASE ~(r.implicit /\ r.status = "Idle")
      BY <3>2, <2>1, ServerErrorFields, <1>0, Zenon DEF q, Session
    <3> QED BY <3>1, <3>2, Zenon
  <2> QED BY <2>2, <2>3, Zenon
<1> DEFINE a == [q EXCEPT !.skip = x, !.mine = m]
<1>2. /\ q \in Session /\ q.pc = r.pc /\ q.database = r.database
      /\ q.status = IF r.status = "InTransaction" THEN "Failed" ELSE r.status
      /\ q.open = r.open /\ q.state = r.state /\ q.wrote = r.wrote
      /\ q.savepoints = r.savepoints /\ q.implicit = r.implicit
      /\ q.left = r.left /\ q.auto = r.auto /\ q.copy = r.copy
  BY <1>0, ServerErrorFields, Zenon
<1>3. m \subseteq Row /\ (Careful => m = r.mine)
  <2>1. Careful => ~(r.implicit /\ r.wrote)
    BY DEF MessageError, Careful
  <2> QED BY <1>0, <2>1, SessionFacts, Zenon DEF Data0
<1> HIDE DEF q, m
<1>4. /\ a \in Session /\ a.pc = q.pc /\ a.database = q.database
      /\ a.status = q.status /\ a.skip = x /\ a.mine = m
      /\ a.open = q.open /\ a.state = q.state /\ a.wrote = q.wrote
      /\ a.savepoints = q.savepoints /\ a.implicit = q.implicit
      /\ a.left = q.left /\ a.auto = q.auto /\ a.copy = q.copy
  BY <1>2, <1>3, ZenonT(60) DEF Session
<1>5. Local(s, a)
  BY <1>1, Zenon
<1> HIDE DEF a
<1>6. Sound(s, a)
  BY <1>0, <1>1, <1>2, <1>3, <1>4 DEF Sound, Control, Data
<1> QED BY <1>0, <1>2, <1>4, <1>5, <1>6, LocalKeeps, Zenon

\* Engine::rollback_implicit, field by field.
LEMMA RollbackImplicitFields ==
    ASSUME NEW s \in Sessions, NEW r \in Session
    PROVE  LET e == RollbackImplicit(r) IN
           /\ e \in Session /\ e.implicit = FALSE
           /\ e.pc = r.pc /\ e.database = r.database /\ e.left = r.left
           /\ e.skip = r.skip /\ e.auto = r.auto /\ e.copy = r.copy
           /\ IF r.implicit /\ r.status # "InTransaction"
              THEN /\ e.open = FALSE /\ e.wrote = FALSE /\ e.mine = {}
                   /\ e.savepoints = <<>> /\ e.status = "Idle"
              ELSE /\ e.open = r.open /\ e.wrote = r.wrote /\ e.mine = r.mine
                   /\ e.savepoints = r.savepoints /\ e.status = r.status
                   /\ e.state = r.state
<1> DEFINE c == CloseTxn(r)
<1>1. CASE ~r.implicit
  BY <1>1 DEF RollbackImplicit, Session
<1>2. CASE r.implicit /\ r.status = "InTransaction"
  BY <1>2, Zenon DEF RollbackImplicit, Session
<1>3. CASE r.implicit /\ r.status # "InTransaction"
  <2>1. RollbackImplicit(r) = [c EXCEPT !.implicit = FALSE, !.status = "Idle"]
    BY <1>3, Zenon DEF RollbackImplicit
  <2>2. /\ c \in Session /\ c.pc = r.pc /\ c.database = r.database
        /\ c.left = r.left /\ c.skip = r.skip /\ c.auto = r.auto /\ c.copy = r.copy
        /\ c.open = FALSE /\ c.wrote = FALSE /\ c.mine = {} /\ c.savepoints = <<>>
    BY CloseTxnFields, Zenon
  <2> HIDE DEF c
  <2> DEFINE e == [c EXCEPT !.implicit = FALSE, !.status = "Idle"]
  <2>3. /\ e \in Session /\ e.implicit = FALSE /\ e.status = "Idle"
        /\ e.pc = r.pc /\ e.database = r.database
        /\ e.left = r.left /\ e.skip = r.skip /\ e.auto = r.auto /\ e.copy = r.copy
        /\ e.open = FALSE /\ e.wrote = FALSE /\ e.mine = {} /\ e.savepoints = <<>>
    BY <2>2, Zenon DEF Session
  <2> HIDE DEF e
  <2>4. RollbackImplicit(r) = e
    BY <2>1, Zenon DEF e
  <2> QED BY <1>3, <2>3, <2>4
<1> QED BY <1>1, <1>2, <1>3, Zenon
\* Engine::commit_implicit, field by field.
LEMMA ImplicitEndedFields ==
    ASSUME NEW r \in Session
    PROVE  LET e == ImplicitEnded(r) IN
           /\ e \in Session /\ e.implicit = FALSE
           /\ e.pc = r.pc /\ e.database = r.database /\ e.left = r.left
           /\ e.skip = r.skip /\ e.auto = r.auto /\ e.copy = r.copy
           /\ e.status = r.status
           /\ IF r.implicit /\ r.status # "InTransaction"
              THEN /\ e.open = FALSE /\ e.wrote = FALSE /\ e.mine = {}
                   /\ e.savepoints = <<>>
              ELSE /\ e.open = r.open /\ e.wrote = r.wrote /\ e.mine = r.mine
                   /\ e.savepoints = r.savepoints /\ e.state = r.state
<1> DEFINE q == [r EXCEPT !.implicit = FALSE]
<1>1. /\ q \in Session /\ q.implicit = FALSE
      /\ q.pc = r.pc /\ q.database = r.database /\ q.left = r.left
      /\ q.skip = r.skip /\ q.auto = r.auto /\ q.copy = r.copy
      /\ q.status = r.status /\ q.open = r.open /\ q.wrote = r.wrote
      /\ q.mine = r.mine /\ q.savepoints = r.savepoints /\ q.state = r.state
  BY Zenon DEF Session
<1>2. ImplicitEnded(r) =
        IF r.implicit /\ r.status # "InTransaction" THEN CloseTxn(q) ELSE q
  BY Zenon DEF ImplicitEnded
<1> HIDE DEF q
<1>3. CASE r.implicit /\ r.status # "InTransaction"
  <2> DEFINE e == CloseTxn(q)
  <2>1. /\ e \in Session /\ e.implicit = FALSE
        /\ e.pc = r.pc /\ e.database = r.database /\ e.left = r.left
        /\ e.skip = r.skip /\ e.auto = r.auto /\ e.copy = r.copy
        /\ e.status = r.status
        /\ e.open = FALSE /\ e.wrote = FALSE /\ e.mine = {} /\ e.savepoints = <<>>
    BY <1>1, CloseTxnFields, Zenon
  <2> QED BY <1>2, <1>3, <2>1, Zenon
<1>4. CASE ~(r.implicit /\ r.status # "InTransaction")
  BY <1>1, <1>2, <1>4
<1> QED BY <1>3, <1>4, Zenon

\* Engine::commit_implicit keeps IInv.
LEMMA CommitImplicitKeeps ==
    ASSUME IInv, NEW s \in Sessions, NEW r \in Session, NEW after, NEW failure,
           CommitImplicit(s, r, after, failure), r.database \in exists,
           r.wrote => r.open /\ writer = s,
           Careful => Data0(s, r) /\ (r.wrote /\ r.status # "Failed" => Fresh(r)),
           ~(r.implicit /\ r.status = "Failed"),
           Sound(s, after), after.pc \notin {"new", "gone", "late"},
           after.database = r.database, after.wrote => r.wrote,
           r.implicit /\ r.status # "InTransaction" =>
              /\ ~after.open
              /\ Sound(s, failure) /\ failure.pc \notin {"new", "gone", "late"}
              /\ failure.database = r.database /\ ~failure.wrote
    PROVE  IInv'
<1>0. r.database \in Databases /\ r.status \in {"Idle", "InTransaction", "Failed"}
  BY Zenon DEF Session
<1>1. CASE r.implicit /\ r.status # "InTransaction"
  <2>1. Commit(s, r, after) \/ Local(s, failure)
    BY <1>1, Zenon DEF CommitImplicit, CommitOr
  <2>2. CASE Commit(s, r, after)
    BY <1>0, <1>1, <2>2, CommitKeeps, Zenon
  <2>3. CASE Local(s, failure)
    BY <1>0, <1>1, <2>3, LocalKeeps, Zenon
  <2> QED BY <2>1, <2>2, <2>3, Zenon
<1>2. CASE ~(r.implicit /\ r.status # "InTransaction")
  <2>1. Local(s, after)
    BY <1>2, Zenon DEF CommitImplicit
  <2> QED BY <2>1, LocalKeeps, Zenon
<1> QED BY <1>1, <1>2, Zenon

(* What Sync and the end of a Query message leave of a session.            *)
LEMMA EndsSound ==
    ASSUME NEW s \in Sessions, NEW r \in Session,
           r.pc = "main", r.copy = "no", ~r.auto,
           r.wrote \/ r.savepoints # <<>> => r.open, r.status # "Idle" => r.open,
           ~(r.implicit /\ r.status = "Failed"),
           Careful => Data0(s, r) /\ (r.wrote /\ r.status # "Failed" => Fresh(r))
    PROVE  LET e == ImplicitEnded(r)
               f == [e EXCEPT !.status = "Idle"]
           IN  /\ Sound(s, e) /\ e.pc = "main" /\ e.database = r.database
               /\ e.wrote => r.wrote
               /\ r.implicit /\ r.status # "InTransaction" =>
                     /\ ~e.open /\ Sound(s, f) /\ f.pc = "main"
                     /\ f.database = r.database /\ ~f.wrote
<1> DEFINE e == ImplicitEnded(r)
           f == [e EXCEPT !.status = "Idle"]
<1>0. r.status \in {"Idle", "InTransaction", "Failed"} /\ r.implicit \in BOOLEAN
  BY Zenon DEF Session
<1>1. /\ e \in Session /\ e.implicit = FALSE
      /\ e.pc = r.pc /\ e.database = r.database /\ e.left = r.left
      /\ e.skip = r.skip /\ e.auto = r.auto /\ e.copy = r.copy
      /\ e.status = r.status
      /\ IF r.implicit /\ r.status # "InTransaction"
         THEN /\ e.open = FALSE /\ e.wrote = FALSE /\ e.mine = {}
              /\ e.savepoints = <<>>
         ELSE /\ e.open = r.open /\ e.wrote = r.wrote /\ e.mine = r.mine
              /\ e.savepoints = r.savepoints /\ e.state = r.state
  BY ImplicitEndedFields, Zenon
<1> HIDE DEF e
<1>2. CASE r.implicit /\ r.status # "InTransaction"
  <2>1. /\ f \in Session /\ f.implicit = FALSE /\ f.pc = "main"
        /\ f.database = r.database /\ f.auto = r.auto /\ f.copy = "no"
        /\ f.status = "Idle" /\ f.open = FALSE /\ f.wrote = FALSE
        /\ f.mine = {} /\ f.savepoints = <<>>
    BY <1>1, <1>2, Zenon DEF Session
  <2> HIDE DEF f
  <2>2. Sound(s, f)
    BY <2>1 DEF Sound, Control, Data
  <2>3. Sound(s, e)
    BY <1>0, <1>1, <1>2 DEF Sound, Control, Data
  <2> QED BY <1>1, <1>2, <2>1, <2>2, <2>3, Zenon DEF e, f
<1>3. CASE ~(r.implicit /\ r.status # "InTransaction")
  <2>1. Sound(s, e)
    BY <1>0, <1>1, <1>3 DEF Sound, Control, Data, Data0, Fresh
  <2> QED BY <1>1, <1>3, <2>1, Zenon DEF e
<1> QED BY <1>2, <1>3, Zenon

\* Sync ends a pipeline.
LEMMA SyncKeeps ==
    ASSUME IInv, NEW s \in Sessions, Sync(s) PROVE IInv'
<1> DEFINE r == [sess[s] EXCEPT !.skip = FALSE]
<1>0. /\ sess[s] \in Session /\ Control(sess[s]) /\ sess[s].pc = "main"
      /\ sess[s].database \in exists /\ (sess[s].wrote => writer = s)
      /\ Careful => Data0(s, sess[s])
            /\ (sess[s].wrote /\ sess[s].status # "Failed" => Fresh(sess[s]))
  BY SessionFacts, Zenon DEF Sync
<1>1. /\ r \in Session /\ r.pc = "main" /\ r.copy = sess[s].copy
      /\ r.auto = sess[s].auto /\ r.wrote = sess[s].wrote /\ r.open = sess[s].open
      /\ r.status = sess[s].status /\ r.implicit = sess[s].implicit
      /\ r.mine = sess[s].mine /\ r.savepoints = sess[s].savepoints
      /\ r.state = sess[s].state /\ r.database = sess[s].database
  BY <1>0, Zenon DEF Session
<1>2. /\ IF r.implicit /\ r.status = "Failed"
         THEN Local(s, RollbackImplicit(r))
         ELSE CommitImplicit(s, r, ImplicitEnded(r),
                             [ImplicitEnded(r) EXCEPT !.status = "Idle"])
  BY Zenon DEF Sync
<1> HIDE DEF r
<1>3. /\ r.copy = "no" /\ ~r.auto /\ (r.wrote \/ r.savepoints # <<>> => r.open)
      /\ (r.status # "Idle" => r.open) /\ (r.wrote => writer = s)
      /\ r.database \in exists
      /\ Careful => Data0(s, r) /\ (r.wrote /\ r.status # "Failed" => Fresh(r))
  BY <1>0, <1>1 DEF Control, Data0, Fresh
<1>4. CASE r.implicit /\ r.status = "Failed"
  <2> DEFINE a == RollbackImplicit(r)
  <2>1. Local(s, a)
    BY <1>2, <1>4, Zenon
  <2>2. /\ a \in Session /\ a.implicit = FALSE /\ a.pc = "main"
        /\ a.database = r.database /\ a.auto = r.auto /\ a.copy = "no"
        /\ a.open = FALSE /\ a.wrote = FALSE /\ a.mine = {}
        /\ a.savepoints = <<>> /\ a.status = "Idle"
    BY <1>1, <1>3, <1>4, RollbackImplicitFields, Zenon
  <2> HIDE DEF a
  <2>3. Sound(s, a)
    BY <1>3, <2>2 DEF Sound, Control, Data
  <2> QED BY <1>3, <2>1, <2>2, <2>3, LocalKeeps, Zenon
<1>5. CASE ~(r.implicit /\ r.status = "Failed")
  <2> DEFINE e == ImplicitEnded(r)
             f == [e EXCEPT !.status = "Idle"]
  <2>1. CommitImplicit(s, r, e, f)
    BY <1>2, <1>5, Zenon
  <2>2. /\ Sound(s, e) /\ e.pc = "main" /\ e.database = r.database
        /\ e.wrote => r.wrote
        /\ r.implicit /\ r.status # "InTransaction" =>
              /\ ~e.open /\ Sound(s, f) /\ f.pc = "main"
              /\ f.database = r.database /\ ~f.wrote
    BY <1>1, <1>3, <1>5, EndsSound, Zenon
  <2> HIDE DEF e, f
  <2> QED BY <1>1, <1>3, <1>5, <2>1, <2>2, CommitImplicitKeeps, Zenon
<1> QED BY <1>4, <1>5, Zenon

\* The last statement of a message is done.
LEMMA MessageDoneKeeps ==
    ASSUME IInv, NEW s \in Sessions, MessageDone(s) PROVE IInv'
<1> DEFINE r == [sess[s] EXCEPT !.pc = "main"]
<1>0. /\ sess[s] \in Session /\ Control(sess[s]) /\ sess[s].pc = "next"
      /\ sess[s].database \in exists /\ (sess[s].wrote => writer = s)
      /\ Careful => Data0(s, sess[s])
            /\ (sess[s].wrote /\ sess[s].status # "Failed" => Fresh(sess[s]))
      /\ "main" \in PCs
  BY SessionFacts, Zenon DEF MessageDone, PCs
<1>1. /\ r \in Session /\ r.pc = "main" /\ r.copy = sess[s].copy
      /\ r.auto = sess[s].auto /\ r.wrote = sess[s].wrote /\ r.open = sess[s].open
      /\ r.status = sess[s].status /\ r.implicit = sess[s].implicit
      /\ r.mine = sess[s].mine /\ r.savepoints = sess[s].savepoints
      /\ r.state = sess[s].state /\ r.database = sess[s].database
  BY <1>0, Zenon DEF Session
<1>2. /\ IF r.mode = "query"
         THEN CommitImplicit(s, r, ImplicitEnded(r),
                             [ImplicitEnded(r) EXCEPT !.status = "Idle"])
         ELSE Local(s, r)
  BY Zenon DEF MessageDone
<1> HIDE DEF r
<1>3. /\ r.copy = "no" /\ ~r.auto /\ (r.wrote \/ r.savepoints # <<>> => r.open)
      /\ (r.status # "Idle" => r.open) /\ (r.wrote => writer = s)
      /\ r.database \in exists /\ ~(r.implicit /\ r.status = "Failed")
      /\ Careful => Data0(s, r) /\ (r.wrote /\ r.status # "Failed" => Fresh(r))
  BY <1>0, <1>1, Zenon DEF Control, Data0, Fresh
<1>4. CASE r.mode = "query"
  <2> DEFINE e == ImplicitEnded(r)
             f == [e EXCEPT !.status = "Idle"]
  <2>1. CommitImplicit(s, r, e, f)
    BY <1>2, <1>4, Zenon
  <2>2. /\ Sound(s, e) /\ e.pc = "main" /\ e.database = r.database
        /\ e.wrote => r.wrote
        /\ r.implicit /\ r.status # "InTransaction" =>
              /\ ~e.open /\ Sound(s, f) /\ f.pc = "main"
              /\ f.database = r.database /\ ~f.wrote
    BY <1>1, <1>3, EndsSound, Zenon
  <2> HIDE DEF e, f
  <2> QED BY <1>1, <1>3, <2>1, <2>2, CommitImplicitKeeps, Zenon
<1>5. CASE r.mode # "query"
  <2>1. Sound(s, r)
    BY <1>1, <1>3, Zenon DEF Sound, Control, Data, Data0, Fresh
  <2> QED BY <1>1, <1>2, <1>3, <1>5, <2>1, LocalKeeps, Zenon
<1> QED BY <1>4, <1>5, Zenon

\* COPY FROM STDIN starts.
LEMMA CopyStatementKeeps ==
    ASSUME IInv, NEW s \in Sessions, CopyStatement(s) PROVE IInv'
<1> DEFINE r == sess[s]
           b == BeginImplicit(r)
           a == [b EXCEPT !.pc = "copy", !.copy = "ok"]
<1>0. /\ r \in Session /\ Control(r) /\ r.pc = "next" /\ r.left > 0
      /\ r.database \in exists /\ (r.wrote => writer = s) /\ ~r.auto
      /\ (r.wrote \/ r.savepoints # <<>> => r.open) /\ (r.status # "Idle" => r.open)
      /\ ~(r.implicit /\ r.status = "Failed")
      /\ r.open \in BOOLEAN /\ r.wrote \in BOOLEAN
  BY SessionFacts, Zenon DEF CopyStatement, AtStatement, Control, Session
<1>1. /\ b \in Session /\ b.open = TRUE
      /\ b.database = r.database /\ b.status = r.status
      /\ b.wrote = r.wrote /\ b.mine = r.mine /\ b.auto = r.auto
      /\ b.left = r.left /\ (r.open => b.state = r.state)
      /\ (r.open => b.savepoints = r.savepoints /\ b.implicit = r.implicit)
      /\ (~r.open => b.savepoints = <<>>)
  BY <1>0, SessionFacts, BeginImplicitFields, Zenon DEF Data0
<1>2. "copy" \in PCs
  BY Zenon DEF PCs
<1>3. Local(s, a)
  BY Zenon DEF CopyStatement
<1> HIDE DEF b
<1>4. /\ a \in Session /\ a.pc = "copy" /\ a.copy = "ok" /\ a.open = b.open
      /\ a.database = b.database /\ a.status = b.status
      /\ a.wrote = b.wrote /\ a.mine = b.mine /\ a.auto = b.auto
      /\ a.left = b.left /\ a.state = b.state
      /\ a.savepoints = b.savepoints /\ a.implicit = b.implicit
  BY <1>1, <1>2, ZenonT(60) DEF Session
<1> HIDE DEF a
<1>5. Control(a)
  BY <1>0, <1>1, <1>4, Zenon DEF Control
<1>6. Careful => Data(s, a)
  <2>1. Careful => /\ Data0(s, r) /\ (r.wrote /\ r.status # "Failed" => Fresh(r))
    BY SessionFacts, Zenon
  <2>2. CASE r.open
    BY <1>0, <1>1, <1>4, <2>1, <2>2 DEF Data, Data0, Fresh
  <2>3. CASE ~r.open
    BY <1>0, <1>1, <1>4, <2>1, <2>3 DEF Data, Data0
  <2> QED BY <2>2, <2>3, Zenon
<1> QED BY <1>0, <1>1, <1>3, <1>4, <1>5, <1>6, LocalKeeps, Zenon DEF Sound

\* A batch of COPY rows.
LEMMA CopyBatchKeeps ==
    ASSUME IInv, NEW s \in Sessions, CopyBatch(s) PROVE IInv'
<1> DEFINE r == sess[s]
           a == [r EXCEPT !.pc = "acquire", !.auto = FALSE]
<1>0. /\ r \in Session /\ Control(r) /\ Sound(s, r) /\ r.pc = "copy" /\ r.left > 0
      /\ r.database \in exists /\ (r.wrote => writer = s) /\ ~r.auto
      /\ (r.wrote \/ r.savepoints # <<>> => r.open) /\ (r.status # "Idle" => r.open)
      /\ r.made < MaxWrites /\ r.copy = "ok"
  BY SessionFacts, Zenon DEF CopyBatch, Control, Session
<1>1. CASE r.status = "Failed"
  BY <1>0, <1>1, SessionFacts, ErrorKeeps, Zenon DEF CopyBatch
<1>2. CASE r.status # "Failed"
  <2>1. Local(s, a)
    BY <1>2, Zenon DEF CopyBatch
  <2>2. "acquire" \in PCs
    BY DEF PCs
  <2>3. /\ a \in Session /\ a.pc = "acquire" /\ a.copy = r.copy /\ a.open = r.open
        /\ a.database = r.database /\ a.status = r.status
        /\ a.wrote = r.wrote /\ a.mine = r.mine /\ a.auto = FALSE
        /\ a.left = r.left /\ a.state = r.state /\ a.made = r.made
        /\ a.savepoints = r.savepoints /\ a.implicit = r.implicit
    BY <1>0, <2>2, Zenon DEF Session
  <2> HIDE DEF a
  <2>4. Sound(s, a)
    BY <1>0, <1>2, <2>3, Zenon DEF Sound, Control, Data
  <2> QED BY <1>0, <2>1, <2>3, <2>4, LocalKeeps, Zenon
<1> QED BY <1>1, <1>2, Zenon

\* A COPY line that does not decode.
LEMMA CopyBadLineKeeps ==
    ASSUME IInv, NEW s \in Sessions, CopyBadLine(s) PROVE IInv'
<1> DEFINE r == sess[s]
           a == [r EXCEPT !.copy = "failed"]
<1>0. /\ r \in Session /\ Control(r) /\ Sound(s, r) /\ r.pc = "copy"
      /\ r.database \in exists /\ (r.wrote => writer = s) /\ r.copy = "ok"
  BY SessionFacts, Zenon DEF CopyBadLine
<1>1. Local(s, a)
  BY Zenon DEF CopyBadLine
<1>2. /\ a \in Session /\ a.pc = "copy" /\ a.copy = "failed" /\ a.open = r.open
      /\ a.database = r.database /\ a.status = r.status
      /\ a.wrote = r.wrote /\ a.mine = r.mine /\ a.auto = r.auto
      /\ a.left = r.left /\ a.state = r.state /\ a.made = r.made
      /\ a.savepoints = r.savepoints /\ a.implicit = r.implicit
  BY <1>0, Zenon DEF Session
<1> HIDE DEF a
<1>3. Sound(s, a)
  BY <1>0, <1>2 DEF Sound, Control, Data
<1> QED BY <1>0, <1>1, <1>2, <1>3, LocalKeeps, Zenon

\* COPY ends in an error.
LEMMA CopyFailsKeeps ==
    ASSUME IInv, NEW s \in Sessions, CopyFails(s) PROVE IInv'
<1> DEFINE r == sess[s]
           e == RollbackImplicit(r)
           a == AnswerError(e)
<1>0. /\ r \in Session /\ r.pc = "copy"
      /\ r.database \in exists /\ (r.wrote => writer = s)
      /\ (r.wrote \/ r.savepoints # <<>> => r.open) /\ (r.status # "Idle" => r.open)
      /\ Careful => Data0(s, r) /\ (r.wrote /\ r.status # "Failed" => Fresh(r))
  BY SessionFacts, Zenon DEF CopyFails, Control
<1>1. /\ e \in Session /\ e.database = r.database
      /\ IF r.implicit /\ r.status # "InTransaction"
         THEN /\ e.open = FALSE /\ e.wrote = FALSE /\ e.mine = {}
              /\ e.savepoints = <<>> /\ e.status = "Idle"
         ELSE /\ e.open = r.open /\ e.wrote = r.wrote /\ e.mine = r.mine
              /\ e.savepoints = r.savepoints /\ e.status = r.status
              /\ e.state = r.state
  BY <1>0, RollbackImplicitFields, ZenonT(60)
<1>2. Local(s, a)
  BY Zenon DEF CopyFails
<1> HIDE DEF e
<1>3. Careful => Data0(s, e) /\ (e.wrote /\ e.status = "Idle" => Fresh(e))
  BY <1>0, <1>1 DEF Data0, Fresh
<1>4. (e.wrote \/ e.savepoints # <<>> => e.open) /\ (e.status # "Idle" => e.open)
      /\ (e.wrote => r.wrote)
  BY <1>0, <1>1, Zenon
<1>5. Sound(s, a) /\ a.database = e.database /\ (a.wrote => e.wrote) /\ a.pc = "main"
  BY <1>1, <1>3, <1>4, AnswerErrorSound, Zenon
<1> HIDE DEF a
<1> QED BY <1>0, <1>1, <1>2, <1>4, <1>5, LocalKeeps, Zenon

\* COPY ends, by CopyDone or by the end of the stream.
LEMMA CopyDoneKeeps ==
    ASSUME IInv, NEW s \in Sessions, NEW eof \in BOOLEAN, CopyDone(s, eof)
    PROVE  IInv'
<1> DEFINE o == sess[s]
           x == [o EXCEPT !.eof = TRUE, !.mine = IF o.implicit THEN {} ELSE @]
           r == IF eof THEN x ELSE o
           i == ImplicitEnded(r)
           ended == [i EXCEPT !.copy = "no"]
           after == StatementDone(ended)
           idle == [ended EXCEPT !.status = "Idle"]
           failure == AnswerError(idle)
<1>1. CommitImplicit(s, r, after, failure) /\ (eof => ~Careful)
      /\ r.pc = "copy" /\ r.copy = "ok"
  BY Zenon DEF CopyDone, Careful
<1>2. /\ r \in Session /\ Control(r)
      /\ r.database \in exists /\ (r.wrote => writer = s)
      /\ Careful => Data0(s, r) /\ (r.wrote /\ r.status # "Failed" => Fresh(r))
  <2>1. CASE eof
    <3>1. o \in Session /\ Control(o) /\ (o.wrote => writer = s) /\ r = x
          /\ (o.pc \notin {"new", "gone", "late"} => o.database \in exists)
      BY <2>1, SessionFacts, Zenon
    <3>2. /\ x \in Session /\ x.pc = o.pc /\ x.database = o.database
          /\ x.status = o.status /\ x.open = o.open /\ x.wrote = o.wrote
          /\ x.savepoints = o.savepoints /\ x.implicit = o.implicit
          /\ x.skip = o.skip /\ x.left = o.left /\ x.auto = o.auto
          /\ x.copy = o.copy /\ x.made = o.made
      <4>1. CASE o.implicit
        BY <3>1, <4>1, Zenon DEF Session
      <4>2. CASE ~o.implicit
        BY <3>1, <4>2, ZenonT(60) DEF Session
      <4> QED BY <4>1, <4>2, Zenon
    <3> HIDE DEF x
    <3>3. r \in Session /\ Control(r)
      BY <3>1, <3>2, Zenon DEF Control
    <3>4. r.database \in exists /\ (r.wrote => writer = s)
      BY <1>1, <3>1, <3>2, Zenon
    <3> QED BY <1>1, <2>1, <3>3, <3>4, Zenon
  <2>2. CASE ~eof
    BY <1>1, <2>2, SessionFacts, Zenon
  <2> QED BY <2>1, <2>2, Zenon
<1> HIDE DEF r
<1>3. /\ r.left > 0 /\ ~r.auto /\ r.open
      /\ (r.wrote \/ r.savepoints # <<>> => r.open) /\ (r.status # "Idle" => r.open)
      /\ ~(r.implicit /\ r.status = "Failed")
      /\ r.status \in {"Idle", "InTransaction", "Failed"}
  BY <1>1, <1>2, Zenon DEF Control, Session
<1>4. /\ i \in Session /\ i.implicit = FALSE /\ i.database = r.database
      /\ i.left = r.left /\ i.auto = r.auto /\ i.status = r.status
      /\ IF r.implicit /\ r.status # "InTransaction"
         THEN /\ i.open = FALSE /\ i.wrote = FALSE /\ i.mine = {}
              /\ i.savepoints = <<>>
         ELSE /\ i.open = r.open /\ i.wrote = r.wrote /\ i.mine = r.mine
              /\ i.savepoints = r.savepoints /\ i.state = r.state
  BY <1>2, ImplicitEndedFields, Zenon
<1> HIDE DEF i
<1>5. /\ ended \in Session /\ ended.implicit = FALSE /\ ended.copy = "no"
      /\ ended.database = r.database /\ ended.left = r.left
      /\ ended.auto = r.auto /\ ended.status = r.status
      /\ ended.open = i.open /\ ended.wrote = i.wrote /\ ended.mine = i.mine
      /\ ended.savepoints = i.savepoints /\ ended.state = i.state
  BY <1>4, Zenon DEF Session
<1> HIDE DEF ended
<1>6. Careful => Data0(s, ended) /\ (ended.wrote /\ ended.status # "Failed" => Fresh(ended))
  BY <1>2, <1>4, <1>5 DEF Data0, Fresh
<1>7. /\ (ended.wrote \/ ended.savepoints # <<>> => ended.open)
      /\ (ended.status # "Idle" => ended.open) /\ (ended.wrote => r.wrote)
      /\ ended.left > 0 /\ ~ended.auto
  BY <1>3, <1>4, <1>5, Zenon
<1>8. /\ Sound(s, after) /\ after.database = r.database
      /\ after.wrote = ended.wrote /\ after.open = ended.open
      /\ after.pc \in {"next", "copy"}
  BY <1>5, <1>6, <1>7, StatementDoneSound, Zenon
<1> HIDE DEF after
<1>9. r.implicit /\ r.status # "InTransaction" =>
              /\ ~after.open
              /\ Sound(s, failure) /\ failure.pc \notin {"new", "gone", "late"}
              /\ failure.database = r.database /\ ~failure.wrote
  <2> HAVE r.implicit /\ r.status # "InTransaction"
  <2>1. /\ idle \in Session /\ idle.status = "Idle" /\ idle.database = r.database
        /\ idle.open = FALSE /\ idle.wrote = FALSE /\ idle.mine = {}
        /\ idle.savepoints = <<>>
    BY <1>4, <1>5, Zenon DEF Session
  <2> HIDE DEF idle
  <2>2. Data0(s, idle)
    BY <2>1 DEF Data0
  <2>3. /\ Sound(s, failure) /\ failure.database = r.database
        /\ (failure.wrote => idle.wrote) /\ failure.pc = "main"
    BY <2>1, <2>2, AnswerErrorSound, Zenon
  <2> QED BY <1>4, <1>5, <1>8, <2>1, <2>3, Zenon
<1> HIDE DEF failure
<1> QED BY <1>1, <1>2, <1>3, <1>7, <1>8, <1>9, CommitImplicitKeeps, Zenon

-----------------------------------------------------------------------------
(* The invariant.                                                          *)

\* The service starts in IInv.
LEMMA InitEstablishes == Init => IInv
<1> SUFFICES ASSUME Init PROVE IInv
  OBVIOUS
<1> DEFINE d == CHOOSE d \in InitialDatabases : TRUE
<1>1. d \in InitialDatabases /\ d \in Databases
  BY PostgresConstants, Zenon
<1>2. \A s \in Sessions : sess[s] = NewSession("new", d)
  BY Zenon DEF Init
<1>3. sess \in [Sessions -> {NewSession("new", d)}]
  BY Zenon DEF Init
<1> HIDE DEF d
<1>4. \A s \in Sessions : /\ Sound(s, sess[s])
                          /\ ~sess[s].wrote /\ ~sess[s].open
                          /\ sess[s].pc = "new"
  <2>1. ASSUME NEW s \in Sessions
        PROVE  /\ Sound(s, NewSession("new", d)) /\ NewSession("new", d).pc = "new"
               /\ ~NewSession("new", d).wrote /\ ~NewSession("new", d).open
    BY <1>1, NewSessionSound, Zenon
  <2> QED BY <1>2, <2>1
<1>5. TypeOK
  BY <1>3, <1>4, PostgresConstants, Zenon DEF Init, TypeOK, Sound
<1>6. \A s \in Sessions : writer # s
  BY PostgresConstants, Zenon DEF Init
<1>8. \A e \in Databases : db[e] = promised[e] /\ db[e] = {}
  BY Zenon DEF Init
<1> QED BY <1>4, <1>5, <1>6, <1>8, Zenon DEF IInv

\* Every step keeps IInv.
LEMMA NextKeeps == IInv /\ [Next]_vars => IInv'
<1> SUFFICES ASSUME IInv, [Next]_vars PROVE IInv'
  OBVIOUS
<1>1. CASE UNCHANGED vars
  <2>1. /\ exists' = exists /\ db' = db /\ writer' = writer /\ sess' = sess
        /\ promised' = promised
    BY <1>1, Zenon DEF vars
  <2>2. \A s \in Sessions : Sound(s, sess[s])'
    BY <2>1 DEF IInv, Sound, Data
  <2> QED BY <2>1, <2>2, Zenon DEF IInv, TypeOK
<1>2. CASE AllGone
  BY <1>1, <1>2, Zenon DEF AllGone
<1>3. ASSUME NEW s \in Sessions, ClientStep(s) PROVE IInv'
  BY Zenon, <1>3, ConnectKeeps, SimpleQueryKeeps, ExecuteMessageKeeps,
     MessageErrorKeeps, SyncKeeps, LeaveKeeps, CopyBatchKeeps, CopyBadLineKeeps,
     CopyFailsKeeps, CopyDoneKeeps, RefusedKeeps, StartTransactionKeeps,
     CommitStatementKeeps, RollbackStatementKeeps, QueryKeeps,
     WriteStatementKeeps, CopyStatementKeeps, SavepointStatementKeeps,
     ReleaseSavepointKeeps, RollbackToKeeps, CreateDatabaseKeeps,
     DropDatabaseKeeps DEF ClientStep
<1>4. ASSUME NEW s \in Sessions, ServerStep(s) PROVE IInv'
  BY Zenon, <1>4, AcquireWriterKeeps, AcquireFailsKeeps, RunWriteKeeps,
     MessageDoneKeeps, DisconnectKeeps, DisconnectTimesOutKeeps DEF ServerStep
<1> QED BY <1>1, <1>2, <1>3, <1>4, Zenon DEF Next

\* IInv holds throughout.
LEMMA Invariance == Spec => []IInv
BY InitEstablishes, NextKeeps, PTL DEF Spec

\* Every variable keeps its type, for any number of sessions and bounds.
THEOREM TypeCorrect == Spec => []TypeOK
<1>1. IInv => TypeOK
  BY DEF IInv
<1> QED BY <1>1, Invariance, PTL

\* Global::writer excludes: only its holder has a state to store, and it is
\* never left to a session without a transaction, whatever the clients do.
THEOREM WriteLockHolds == Spec => []WriteLock
<1>1. IInv => WriteLock
  BY DEF IInv, WriteLock, TypeOK, Registered
<1> QED BY <1>1, Invariance, PTL

\* DROP DATABASE and connect never leave a session without its database.
THEOREM SessionsKeepTheirDatabase == Spec => []DatabaseOfSessionExists
<1>1. IInv => DatabaseOfSessionExists
  BY DEF IInv, DatabaseOfSessionExists, Registered
<1> QED BY <1>1, Invariance, PTL

\* A block always has a transaction, and commit_implicit never meets a failed
\* one it would commit.
THEOREM BlocksHaveTransactions == Spec => []BlockHasTransaction
<1>1. IInv => BlockHasTransaction
  BY DEF IInv, BlockHasTransaction, Registered, Sound, Control
<1> QED BY <1>1, Invariance, PTL

\* With clients that keep off the listed patterns, a database holds exactly
\* the acknowledged writes: no lost update, no leaked partial statement.
THEOREM CommitsAreExact ==
    ASSUME Careful PROVE Spec => []CommittedExactly
<1>1. IInv => CommittedExactly
  BY DEF IInv, CommittedExactly, TypeOK
<1> QED BY <1>1, Invariance, PTL

\* No step of a session in a failed block changes a database.
LEMMA FailedStep ==
    ASSUME IInv, [Next]_vars, NEW s \in Sessions,
           sess[s].status = "Failed", sess[s].pc # "leaving", sess'[s] # sess[s]
    PROVE  db' = db
<1>0. Control(sess[s]) /\ sess \in [Sessions -> Session]
  BY Zenon DEF IInv, Sound, TypeOK
<1>1. ClientStep(s) \/ ServerStep(s)
  <2>1. ~AllGone /\ ~UNCHANGED vars
    BY Zenon DEF AllGone, vars
  <2>2. PICK t \in Sessions : ClientStep(t) \/ ServerStep(t)
    BY <2>1, Zenon DEF Next
  <2>3. \E r : sess' = [sess EXCEPT ![t] = r]
    BY <2>2, Zenon DEF ClientStep, ServerStep, Connect, SimpleQuery, ExecuteMessage,
       MessageError, Sync, Leave, CopyBatch, CopyBadLine, CopyFails, CopyReset,
       CopyDone, Refused, StartTransaction, CommitStatement, RollbackStatement,
       Query, WriteStatement, CopyStatement, SavepointStatement,
       ReleaseSavepoint, RollbackTo, NoSuchSavepoint, CreateDatabase,
       DropDatabase, AcquireWriter, AcquireFails, RunWrite, MessageDone,
       Disconnect, DisconnectTimesOut, Local, Settle, Commit, CommitOr,
       CommitImplicit
  <2> QED BY <1>0, <2>2, <2>3, Zenon
<1>2. CASE Sync(s)
  <2>1. /\ [sess[s] EXCEPT !.skip = FALSE].status = "Failed"
        /\ [sess[s] EXCEPT !.skip = FALSE].implicit = sess[s].implicit
    BY <1>0, Zenon DEF Session
  <2> QED BY <1>2, <2>1, Zenon DEF Sync, CommitImplicit, Local
<1>3. CASE MessageDone(s)
  <2>1. /\ [sess[s] EXCEPT !.pc = "main"].status = "Failed"
        /\ [sess[s] EXCEPT !.pc = "main"].implicit = sess[s].implicit
    BY <1>0, Zenon DEF Session
  <2>2. ~sess[s].implicit
    BY <1>0, <1>3, Zenon DEF MessageDone, Control
  <2> QED BY <1>3, <2>1, <2>2, Zenon DEF MessageDone, CommitImplicit, Local
<1>4. ASSUME NEW eof \in BOOLEAN, CopyDone(s, eof) PROVE db' = db
  <2> DEFINE r == IF eof THEN [sess[s] EXCEPT !.eof = TRUE,
                                 !.mine = IF sess[s].implicit THEN {} ELSE @]
                         ELSE sess[s]
  <2>1. /\ r.status = "Failed" /\ r.implicit = sess[s].implicit
        /\ r.pc = sess[s].pc /\ r.copy = sess[s].copy
    BY <1>0 DEF Session
  <2>2. r.pc = "copy" /\ r.copy = "ok"
    BY <1>4, Zenon DEF CopyDone
  <2>3. ~sess[s].implicit
    BY <1>0, <2>1, <2>2, Zenon DEF Control
  <2>4. \E a, f : CommitImplicit(s, r, a, f)
    BY <1>4, Zenon DEF CopyDone
  <2> HIDE DEF r
  <2> QED BY <2>1, <2>3, <2>4, Zenon DEF CommitImplicit, Local
<1>5. CASE CommitStatement(s)
  BY <1>5, Zenon DEF CommitStatement, Local
<1>6. ~Disconnect(s)
  BY Zenon DEF Disconnect
<1>7. ASSUME NEW k \in Kinds, RunWrite(s, k) PROVE FALSE
  BY <1>0, <1>7, Zenon DEF RunWrite, Control
<1>8. CASE \/ \E d \in Databases : Connect(s, d)
           \/ \E n \in 1..MaxStatements : SimpleQuery(s, n)
           \/ ExecuteMessage(s) \/ MessageError(s) \/ Leave(s)
           \/ CopyBatch(s) \/ CopyBadLine(s) \/ CopyFails(s) \/ CopyReset(s)
           \/ AcquireWriter(s) \/ AcquireFails(s) \/ DisconnectTimesOut(s)
  BY <1>8, Zenon DEF Connect, SimpleQuery, ExecuteMessage, MessageError, Leave,
     CopyBatch, CopyBadLine, CopyFails, CopyReset, AcquireWriter, AcquireFails,
     DisconnectTimesOut, Local
<1>9. CASE \/ Refused(s) \/ StartTransaction(s) \/ RollbackStatement(s)
           \/ Query(s) \/ WriteStatement(s) \/ CopyStatement(s)
           \/ \E n \in Names : SavepointStatement(s, n) \/ ReleaseSavepoint(s, n)
                               \/ RollbackTo(s, n)
           \/ \E d \in Databases, ine \in BOOLEAN : CreateDatabase(s, d, ine)
           \/ \E names \in (SUBSET Databases) \ {{}}, ie \in BOOLEAN :
                 DropDatabase(s, names, ie)
  BY <1>9, Zenon DEF Refused, StartTransaction, RollbackStatement, Query,
     WriteStatement, CopyStatement, SavepointStatement, ReleaseSavepoint,
     RollbackTo, NoSuchSavepoint, CreateDatabase, DropDatabase, Runs, Local
<1> QED BY <1>1, <1>2, <1>3, <1>4, <1>5, <1>6, <1>7, <1>8, <1>9, Zenon
        DEF ClientStep, ServerStep

\* COMMIT of a failed block, Sync, the end of a Query and the end of COPY
\* store nothing of it.
THEOREM FailedBlocksCommitNothing == Spec => FailedBlockCommitsNothing
<1>1. IInv /\ [Next]_vars =>
        [\A s \in Sessions :
            sess[s].status = "Failed" /\ sess[s].pc # "leaving" /\ sess'[s] # sess[s]
            => db' = db]_vars
  BY FailedStep
<1> QED BY <1>1, Invariance, PTL DEF Spec, FailedBlockCommitsNothing

-----------------------------------------------------------------------------
(* The service implements CommittedStore.                                  *)

\* r is a transaction of s that may be committed.
Committable(s, r) ==
    /\ r \in Session /\ r.database \in exists /\ r.database = sess[s].database
    /\ Data0(s, r) /\ (r.wrote => r.open /\ Fresh(r))

\* A step that stores nothing, or that is one Engine::commit.
Commits(s) ==
    /\ exists' = exists
    /\ \/ db' = db
       \/ \E r, after : Commit(s, r, after) /\ Committable(s, r)

\* COMMIT stores the session's own, fresh clone.
LEMMA CommitStatementCommits ==
    ASSUME IInv, Careful, NEW s \in Sessions, CommitStatement(s) PROVE Commits(s)
<1> DEFINE r == sess[s]
<1>1. /\ r \in Session /\ Data0(s, r) /\ r.database \in exists
      /\ (r.wrote /\ r.status # "Failed" => r.open /\ Fresh(r))
  BY SessionFacts, Zenon DEF CommitStatement, AtStatement, Control
<1>2. CASE r.status = "Failed" \/ ~r.open
  BY <1>2, Zenon DEF CommitStatement, Local, Commits
<1>3. CASE ~(r.status = "Failed" \/ ~r.open)
  <2>1. (\E after : Commit(s, r, after)) \/ (db' = db /\ exists' = exists)
    BY <1>3, Zenon DEF CommitStatement, CommitOr, Local
  <2> QED BY <1>1, <1>3, <2>1, Zenon DEF Commits, Committable, Commit
<1> QED BY <1>2, <1>3, Zenon

\* commit_implicit stores the session's own, fresh clone.
LEMMA ImplicitCommits ==
    ASSUME NEW s \in Sessions, NEW r \in Session, NEW after, NEW failure,
           CommitImplicit(s, r, after, failure), r.database \in exists,
           r.database = sess[s].database, Data0(s, r), r.wrote => r.open,
           r.wrote /\ r.status # "Failed" => Fresh(r),
           ~(r.implicit /\ r.status = "Failed")
    PROVE  Commits(s)
<1>1. CASE r.implicit /\ r.status # "InTransaction"
  <2>1. Commit(s, r, after) \/ Local(s, failure)
    BY <1>1, Zenon DEF CommitImplicit, CommitOr
  <2> QED BY <1>1, <2>1, Zenon DEF Commits, Committable, Commit, Local
<1>2. CASE ~(r.implicit /\ r.status # "InTransaction")
  BY <1>2, Zenon DEF CommitImplicit, Local, Commits
<1> QED BY <1>1, <1>2, Zenon

\* Sync, the end of a Query and CopyDone commit through commit_implicit.
LEMMA EndsCommit ==
    ASSUME IInv, Careful, NEW s \in Sessions,
           \/ Sync(s) \/ MessageDone(s) \/ \E eof \in BOOLEAN : CopyDone(s, eof)
    PROVE  Commits(s)
<1> DEFINE o == sess[s]
<1>0. /\ o \in Session /\ Control(o) /\ Data0(s, o)
      /\ (o.wrote /\ o.status # "Failed" => Fresh(o))
      /\ (o.pc \notin {"new", "gone", "late"} => o.database \in exists)
  BY SessionFacts, Zenon
<1>1. CASE Sync(s)
  <2> DEFINE r == [o EXCEPT !.skip = FALSE]
  <2>1. /\ r \in Session /\ r.database = o.database /\ r.wrote = o.wrote
        /\ r.open = o.open /\ r.status = o.status /\ r.state = o.state
        /\ r.mine = o.mine /\ r.savepoints = o.savepoints
    BY <1>0, ZenonT(60) DEF Session
  <2>2. \/ db' = db /\ exists' = exists
        \/ /\ ~(r.implicit /\ r.status = "Failed")
           /\ \E a, f : CommitImplicit(s, r, a, f)
    BY <1>1, Zenon DEF Sync, Local
  <2>3. o.pc = "main"
    BY <1>1, Zenon DEF Sync
  <2> HIDE DEF r
  <2>4. /\ Data0(s, r) /\ (r.wrote => r.open) /\ r.database \in exists
        /\ (r.wrote /\ r.status # "Failed" => Fresh(r))
    BY <1>0, <2>1, <2>3, Zenon DEF Data0, Fresh, Control
  <2> QED BY <2>1, <2>2, <2>4, ImplicitCommits, Zenon DEF Commits
<1>2. CASE MessageDone(s)
  <2> DEFINE r == [o EXCEPT !.pc = "main"]
  <2>0. "main" \in PCs /\ o.pc = "next"
    BY <1>2, Zenon DEF PCs, MessageDone
  <2>1. /\ r \in Session /\ r.database = o.database /\ r.wrote = o.wrote
        /\ r.open = o.open /\ r.status = o.status /\ r.state = o.state
        /\ r.mine = o.mine /\ r.savepoints = o.savepoints
        /\ r.implicit = o.implicit
    BY <1>0, <2>0, Zenon DEF Session
  <2>2. \/ db' = db /\ exists' = exists
        \/ \E a, f : CommitImplicit(s, r, a, f)
    BY <1>2, Zenon DEF MessageDone, Local
  <2> HIDE DEF r
  <2>3. /\ Data0(s, r) /\ (r.wrote => r.open) /\ r.database \in exists
        /\ (r.wrote /\ r.status # "Failed" => Fresh(r))
        /\ ~(r.implicit /\ r.status = "Failed")
    BY <1>0, <2>0, <2>1 DEF Data0, Fresh, Control
  <2> QED BY <2>1, <2>2, <2>3, ImplicitCommits, Zenon DEF Commits
<1>3. ASSUME NEW eof \in BOOLEAN, CopyDone(s, eof) PROVE Commits(s)
  <2>1. /\ \E a, f : CommitImplicit(s, o, a, f)
        /\ o.pc = "copy" /\ o.copy = "ok"
    BY <1>3, Zenon DEF CopyDone, Careful
  <2>2. /\ (o.wrote => o.open) /\ o.database \in exists
        /\ ~(o.implicit /\ o.status = "Failed")
    BY <1>0, <2>1, Zenon DEF Control
  <2> QED BY <1>0, <2>1, <2>2, ImplicitCommits, Zenon
<1> QED BY <1>1, <1>2, <1>3, Zenon

\* A statement that is its own transaction commits what it wrote.
LEMMA RunWriteCommits ==
    ASSUME IInv, Careful, NEW s \in Sessions, NEW k \in Kinds, RunWrite(s, k)
    PROVE  Commits(s)
<1> DEFINE r == sess[s]
           w == [by |-> s, n |-> r.made + 1, kind |-> k]
           ran == [r EXCEPT !.state = @ \cup {w}, !.made = @ + 1]
           done == [ran EXCEPT !.mine = @ \cup {w}]
<1>0. /\ r \in Session /\ r.wrote = TRUE /\ r.open = TRUE /\ r.database \in exists
      /\ r.made < MaxWrites /\ r.made \in 0..MaxWrites /\ Data0(s, r) /\ Fresh(r)
  BY SessionFacts, Zenon DEF RunWrite, Control, Session
<1>1. w \in Row /\ w.by = s /\ r.made + 1 \in 0..MaxWrites
  BY <1>0, PostgresConstants DEF Row
<1>2. (\E after : Commit(s, done, after)) \/ (db' = db /\ exists' = exists)
  BY Zenon DEF RunWrite, CommitOr, Local
<1> HIDE DEF w
<1>3. /\ ran \in Session /\ ran.database = r.database
      /\ ran.wrote = TRUE /\ ran.open = TRUE /\ ran.mine = r.mine
      /\ ran.savepoints = r.savepoints /\ ran.state = r.state \cup {w}
  BY <1>0, <1>1, ZenonT(60) DEF Session
<1> HIDE DEF ran
<1>4. /\ done \in Session /\ done.database = r.database
      /\ done.wrote = TRUE /\ done.open = TRUE /\ done.mine = r.mine \cup {w}
      /\ done.savepoints = r.savepoints /\ done.state = r.state \cup {w}
  BY <1>1, <1>3, Zenon DEF Session
<1> HIDE DEF done
<1>5. Data0(s, done) /\ Fresh(done)
  BY <1>0, <1>1, <1>4 DEF Data0, Fresh
<1> QED BY <1>0, <1>2, <1>4, <1>5, Zenon DEF Commits, Committable, Commit


\* The refinement mapping.
storeBar == [d \in exists |-> db[d]]

\* Engine::commit is CommitTxn of the abstract store.
LEMMA CommitsRefines ==
    ASSUME IInv, Careful, NEW s \in Sessions, Commits(s)
    PROVE  [Store!Next]_storeBar
<1>1. CASE db' = db
  BY <1>1, Zenon DEF Commits, storeBar
<1>2. ASSUME NEW r, NEW after, Commit(s, r, after), Committable(s, r)
      PROVE  [Store!Next]_storeBar
  <2> DEFINE d == r.database
             T == OnCommitActions(r.mine, s)
  <2>1. /\ r \in Session /\ d \in exists /\ d \in Databases /\ exists' = exists
        /\ (~r.wrote => r.mine = {}) /\ \A w \in r.mine : w.by = s
        /\ (r.wrote => r.open /\ r.state = db[d] \cup r.mine)
        /\ db \in [Databases -> SUBSET Row] /\ exists \subseteq Databases
        /\ \A w \in db[d] : w.kind # "onCommit"
    BY <1>2, Zenon DEF Committable, Commit, Data0, Fresh, IInv, TypeOK
  <2>2. T \subseteq Store!Writes(s)
    <3>1. T \subseteq Row /\ \A w \in T : w.by = s
      BY <2>1, Zenon DEF OnCommitActions, Session
    <3> QED BY <3>1, Zenon DEF Row, KindNames, Store!Writes
  <2>3. CASE r.wrote
    <3>1. OnCommitActions(r.state, s) = db[d] \cup T
      BY <2>1, <2>3, Zenon DEF OnCommitActions
    <3>2. db' = [db EXCEPT ![d] = db[d] \cup T]
      BY <1>2, <2>1, <2>3, <3>1, Zenon DEF Commit
    <3>3. storeBar' = [storeBar EXCEPT ![d] = storeBar[d] \cup T]
      BY <2>1, <3>2, Zenon DEF storeBar
    <3>4. d \in DOMAIN storeBar
      BY <2>1, Zenon DEF storeBar
    <3>5. Store!CommitTxn(s, d)
      BY <2>2, <3>3, <3>4, Zenon DEF Store!CommitTxn, storeBar
    <3> QED BY <2>1, <3>5, Zenon DEF Store!Next
  <2>4. CASE ~r.wrote
    <3>1. db' = db
      BY <1>2, <2>4, Zenon DEF Commit
    <3> QED BY <2>1, <3>1, Zenon DEF storeBar
  <2> QED BY <2>3, <2>4, Zenon
<1> QED BY <1>1, <1>2, Zenon DEF Commits

\* Engine::disconnect is EndSession of the abstract store.
LEMMA DisconnectRefines ==
    ASSUME IInv, NEW s \in Sessions, Disconnect(s) PROVE [Store!Next]_storeBar
<1>0. PICK d \in Databases : d = sess[s].database
  BY SessionFacts, Zenon DEF Session
<1>1. /\ d \in exists /\ d \in Databases /\ exists' = exists
      /\ db \in [Databases -> SUBSET Row] /\ exists \subseteq Databases
      /\ db' = [db EXCEPT ![d] = DropTemp(db[d], s)]
  BY <1>0, SessionFacts, Zenon DEF Disconnect, IInv, TypeOK
<1>2. DropTemp(db[d], s) = {w \in db[d] : w.by = s => w.kind = "perm"}
  BY Zenon DEF DropTemp
<1>3. /\ d \in DOMAIN storeBar
      /\ storeBar' = [storeBar EXCEPT ![d] =
                        {w \in storeBar[d] : w.by = s => w.kind = "perm"}]
  BY <1>1, <1>2, Zenon DEF storeBar
<1>4. Store!EndSession(s, d)
  BY <1>3, Zenon DEF Store!EndSession, storeBar
<1> QED BY <1>4, Zenon DEF Store!Next

\* CREATE DATABASE is CreateDatabase of the abstract store, or no step of it.
LEMMA CreateDatabaseRefines ==
    ASSUME IInv, NEW s \in Sessions, NEW d \in Databases, NEW ine \in BOOLEAN,
           CreateDatabase(s, d, ine)
    PROVE  [Store!Next]_storeBar
<1>1. CASE sess[s].open \/ (d \in exists /\ ~ine)
  BY <1>1, Zenon DEF CreateDatabase, Local, storeBar
<1>2. CASE ~(sess[s].open \/ (d \in exists /\ ~ine))
  <2>1. /\ exists' = exists \cup {d}
        /\ db' = IF d \in exists THEN db ELSE [db EXCEPT ![d] = {}]
    BY <1>2, Zenon DEF CreateDatabase
  <2>2. CASE d \in exists
    BY <2>1, <2>2, Zenon DEF storeBar
  <2>3. CASE d \notin exists
    <3>1. db \in [Databases -> SUBSET Row] /\ exists \subseteq Databases
      BY Zenon DEF IInv, TypeOK
    <3>2. /\ d \notin DOMAIN storeBar
          /\ storeBar' = [e \in DOMAIN storeBar \cup {d} |->
                            IF e = d THEN {} ELSE storeBar[e]]
      BY <2>1, <2>3, <3>1, Zenon DEF storeBar
    <3>3. Store!CreateDatabase(d)
      BY <3>2, Zenon DEF Store!CreateDatabase, storeBar
    <3> QED BY <3>3, Zenon DEF Store!Next
  <2> QED BY <2>2, <2>3, Zenon
<1> QED BY <1>1, <1>2, Zenon

\* DROP DATABASE is DropDatabases of the abstract store, also when it fails
\* at one of its names.
LEMMA DropDatabaseRefines ==
    ASSUME IInv, NEW s \in Sessions, NEW names \in SUBSET Databases,
           NEW ie \in BOOLEAN, DropDatabase(s, names, ie)
    PROVE  [Store!Next]_storeBar
<1>1. PICK gone \in SUBSET Databases : exists' = exists \ gone /\ db' = db
  <2>1. CASE sess[s].open
    <3>1. exists' = exists \ {} /\ db' = db
      BY <2>1, Zenon DEF DropDatabase, Local
    <3>2. {} \in SUBSET Databases
      OBVIOUS
    <3> QED BY <3>1, <3>2, Zenon
  <2>2. CASE ~sess[s].open
    BY <2>2, Zenon DEF DropDatabase
  <2> QED BY <2>1, <2>2, Zenon
<1>2. storeBar' = [e \in DOMAIN storeBar \ gone |-> storeBar[e]]
  BY <1>1, Zenon DEF storeBar
<1>3. Store!DropDatabases(gone)
  BY <1>2, Zenon DEF Store!DropDatabases, storeBar
<1> QED BY <1>3, Zenon DEF Store!Next

\* Every step of the service is a step of the abstract store, or none.
LEMMA StepRefines ==
    ASSUME IInv, Careful, [Next]_vars PROVE [Store!Next]_storeBar
<1>1. CASE UNCHANGED vars \/ AllGone
  BY <1>1, Zenon DEF vars, AllGone, storeBar
<1>2. ASSUME NEW s \in Sessions, ClientStep(s) \/ ServerStep(s)
      PROVE  [Store!Next]_storeBar
  <2>1. CASE \/ CommitStatement(s) \/ Sync(s) \/ MessageDone(s)
             \/ \E eof \in BOOLEAN : CopyDone(s, eof)
             \/ \E k \in Kinds : RunWrite(s, k)
    BY <2>1, CommitStatementCommits, EndsCommit, RunWriteCommits, CommitsRefines, Zenon
  <2>2. CASE Disconnect(s)
    BY <2>2, DisconnectRefines, Zenon
  <2>3. CASE \/ \E d \in Databases, ine \in BOOLEAN : CreateDatabase(s, d, ine)
             \/ \E names \in (SUBSET Databases) \ {{}}, ie \in BOOLEAN :
                   DropDatabase(s, names, ie)
    BY <2>3, CreateDatabaseRefines, DropDatabaseRefines, Zenon
  <2>4. CASE \/ \E d \in Databases : Connect(s, d)
             \/ \E n \in 1..MaxStatements : SimpleQuery(s, n)
             \/ ExecuteMessage(s) \/ MessageError(s) \/ Leave(s)
             \/ CopyBatch(s) \/ CopyBadLine(s) \/ CopyFails(s) \/ CopyReset(s)
             \/ AcquireWriter(s) \/ AcquireFails(s) \/ DisconnectTimesOut(s)
    <3>1. exists' = exists /\ db' = db
      BY <2>4, Zenon DEF Connect, SimpleQuery, ExecuteMessage, MessageError, Leave,
         CopyBatch, CopyBadLine, CopyFails, CopyReset, AcquireWriter,
         AcquireFails, DisconnectTimesOut, Local
    <3> QED BY <3>1, Zenon DEF storeBar
  <2>5. CASE \/ Refused(s) \/ StartTransaction(s) \/ RollbackStatement(s)
             \/ Query(s) \/ WriteStatement(s) \/ CopyStatement(s)
             \/ \E n \in Names : SavepointStatement(s, n) \/ ReleaseSavepoint(s, n)
                                 \/ RollbackTo(s, n)
    <3>1. exists' = exists /\ db' = db
      BY <2>5, Zenon DEF Refused, StartTransaction, RollbackStatement, Query,
         WriteStatement, CopyStatement, SavepointStatement, ReleaseSavepoint,
         RollbackTo, NoSuchSavepoint, Local
    <3> QED BY <3>1 DEF storeBar
  <2> QED BY <1>2, <2>1, <2>2, <2>3, <2>4, <2>5, Zenon DEF ClientStep, ServerStep
<1> QED BY <1>1, <1>2, Zenon DEF Next

\* With clients that keep off the listed patterns, the service implements
\* CommittedStore: whole transactions of one session are added, and nothing
\* else is taken out than CommittedStore says.
THEOREM ImplementsCommittedStore ==
    ASSUME Careful PROVE Spec => StoreSpec
<1>1. Init => Store!Init
  BY PostgresConstants, Zenon DEF Init, Store!Init
<1>2. IInv /\ [Next]_vars => [Store!Next]_storeBar
  BY StepRefines
<1> QED BY <1>1, <1>2, Invariance, PTL DEF Spec, StoreSpec, Store!Spec, storeBar

-----------------------------------------------------------------------------
(* Temporary objects.                                                      *)

\* A session's record, whatever else is known of it.
HasPlace(r) == "pc" \in DOMAIN r /\ "database" \in DOMAIN r

\* q is what a step made of r: the connection is to the same database.
SameDatabase(r, q) == HasPlace(q) /\ q.database = r.database

\* Where a connected session's thread can be.
Awake == {"main", "next", "acquire", "run", "copy", "leaving"}

\* Engine::begin, rollback and server.rs `error` leave the connection alone.
LEMMA EndsStay ==
    ASSUME NEW r, HasPlace(r)
    PROVE  /\ SameDatabase(r, CloseTxn(r)) /\ CloseTxn(r).pc = r.pc
           /\ SameDatabase(r, Begin(r)) /\ Begin(r).pc = r.pc
           /\ SameDatabase(r, ServerError(r)) /\ ServerError(r).pc = r.pc
<1>1. SameDatabase(r, CloseTxn(r)) /\ CloseTxn(r).pc = r.pc
  BY Zenon DEF SameDatabase, HasPlace, CloseTxn
<1>2. SameDatabase(r, Begin(r)) /\ Begin(r).pc = r.pc
  BY Zenon DEF SameDatabase, HasPlace, Begin
<1>3. SameDatabase(r, ServerError(r)) /\ ServerError(r).pc = r.pc
  BY Zenon DEF SameDatabase, HasPlace, ServerError
<1> QED BY <1>1, <1>2, <1>3, Zenon

\* So do begin_implicit, rollback_implicit and commit_implicit.
LEMMA ImplicitStays ==
    ASSUME NEW r, HasPlace(r)
    PROVE  /\ SameDatabase(r, BeginImplicit(r)) /\ BeginImplicit(r).pc = r.pc
           /\ SameDatabase(r, RollbackImplicit(r)) /\ RollbackImplicit(r).pc = r.pc
           /\ SameDatabase(r, ImplicitEnded(r)) /\ ImplicitEnded(r).pc = r.pc
<1>1. ASSUME NEW c, SameDatabase(r, c), c.pc = r.pc
      PROVE  /\ SameDatabase(r, [c EXCEPT !.implicit = TRUE])
             /\ [c EXCEPT !.implicit = TRUE].pc = r.pc
             /\ SameDatabase(r, [c EXCEPT !.implicit = FALSE])
             /\ [c EXCEPT !.implicit = FALSE].pc = r.pc
             /\ SameDatabase(r, [c EXCEPT !.implicit = FALSE, !.status = "Idle"])
             /\ [c EXCEPT !.implicit = FALSE, !.status = "Idle"].pc = r.pc
  BY <1>1, Zenon DEF SameDatabase, HasPlace
<1>2. SameDatabase(r, r)
  BY Zenon DEF SameDatabase
<1>3. SameDatabase(r, BeginImplicit(r)) /\ BeginImplicit(r).pc = r.pc
  BY <1>1, <1>2, EndsStay, Zenon DEF BeginImplicit
<1>4. SameDatabase(r, RollbackImplicit(r)) /\ RollbackImplicit(r).pc = r.pc
  BY <1>1, <1>2, EndsStay, Zenon DEF RollbackImplicit
<1>5. SameDatabase(r, ImplicitEnded(r)) /\ ImplicitEnded(r).pc = r.pc
  <2> DEFINE e == [r EXCEPT !.implicit = FALSE]
  <2>1. SameDatabase(r, e) /\ e.pc = r.pc /\ HasPlace(e)
    BY <1>1, <1>2, Zenon DEF SameDatabase
  <2>2. ImplicitEnded(r) = CloseTxn(e) \/ ImplicitEnded(r) = e
    BY Zenon DEF ImplicitEnded
  <2> HIDE DEF e
  <2> QED BY <2>1, <2>2, EndsStay, Zenon DEF SameDatabase
<1> QED BY <1>3, <1>4, <1>5, Zenon

\* What a session is after a statement, done or failed.
LEMMA StatementStays ==
    ASSUME NEW r, HasPlace(r)
    PROVE  /\ SameDatabase(r, AnswerError(r)) /\ AnswerError(r).pc \in Awake
           /\ SameDatabase(r, StatementError(r)) /\ StatementError(r).pc \in Awake
           /\ SameDatabase(r, StatementDone(r)) /\ StatementDone(r).pc \in Awake
<1>1. ASSUME NEW c, HasPlace(c)
      PROVE  SameDatabase(c, AnswerError(c)) /\ AnswerError(c).pc = "main"
  <2> DEFINE q == ServerError(c)
             e == [q EXCEPT !.pc = "main", !.left = 0, !.auto = FALSE, !.copy = "no"]
  <2>1. SameDatabase(c, q)
    BY <1>1, EndsStay, Zenon
  <2> HIDE DEF q
  <2>2. SameDatabase(c, e) /\ e.pc = "main" /\ HasPlace(e)
    BY <2>1, Zenon DEF SameDatabase, HasPlace
  <2>3. AnswerError(c) = RollbackImplicit(e) \/ AnswerError(c) = [e EXCEPT !.skip = TRUE]
    BY Zenon DEF AnswerError, q
  <2> HIDE DEF e
  <2>4. CASE AnswerError(c) = RollbackImplicit(e)
    BY <2>2, <2>4, ImplicitStays, Zenon DEF SameDatabase
  <2>5. CASE AnswerError(c) = [e EXCEPT !.skip = TRUE]
    BY <2>2, <2>5, Zenon DEF SameDatabase, HasPlace
  <2> QED BY <2>3, <2>4, <2>5, Zenon
<1>2. SameDatabase(r, StatementError(r)) /\ StatementError(r).pc \in {"main", "copy"}
  <2> DEFINE x == ExecuteError(r)
  <2>1. SameDatabase(r, x) /\ HasPlace(x)
    BY EndsStay, Zenon DEF ExecuteError, SameDatabase, HasPlace
  <2>2. StatementError(r) = AnswerError(x)
          \/ StatementError(r) = [x EXCEPT !.pc = "copy", !.copy = "failed"]
    BY Zenon DEF StatementError
  <2> HIDE DEF x
  <2>3. CASE StatementError(r) = AnswerError(x)
    BY <1>1, <2>1, <2>3, Zenon DEF SameDatabase
  <2>4. CASE StatementError(r) = [x EXCEPT !.pc = "copy", !.copy = "failed"]
    BY <2>1, <2>4, Zenon DEF SameDatabase, HasPlace
  <2> QED BY <2>2, <2>3, <2>4, Zenon
<1>3. SameDatabase(r, StatementDone(r)) /\ StatementDone(r).pc \in {"next", "copy"}
  BY Zenon DEF SameDatabase, HasPlace, StatementDone
<1> QED BY <1>1, <1>2, <1>3, Zenon DEF Awake

\* A step of s after which it is connected as before.
Stays(s) ==
    \E r : /\ sess' = [sess EXCEPT ![s] = r]
           /\ SameDatabase(sess[s], r) /\ r.pc \in Awake /\ sess[s].pc \in Awake

\* A session's step that stores nothing, and one that ends a transaction.
LEMMA LocalStays ==
    ASSUME NEW s, NEW r, Local(s, r) \/ Settle(s, r), SameDatabase(sess[s], r),
           r.pc \in Awake, sess[s].pc \in Awake
    PROVE  Stays(s)
BY Zenon DEF Stays, Local, Settle

\* The messages of the protocol and COPY, but for the ends of a transaction.
LEMMA MessagesStay ==
    ASSUME NEW s, HasPlace(sess[s]),
           \/ \E n \in 1..MaxStatements : SimpleQuery(s, n)
           \/ ExecuteMessage(s) \/ MessageError(s) \/ Leave(s)
           \/ CopyBatch(s) \/ CopyBadLine(s) \/ CopyFails(s) \/ CopyReset(s)
           \/ CopyStatement(s)
    PROVE  Stays(s)
<1>0. SameDatabase(sess[s], sess[s])
  BY Zenon DEF SameDatabase
<1>1. ASSUME NEW n \in 1..MaxStatements, SimpleQuery(s, n) PROVE Stays(s)
  <2> DEFINE b == IF n > 1 THEN BeginImplicit(sess[s]) ELSE sess[s]
  <2>1. SameDatabase(sess[s], b)
    BY <1>0, ImplicitStays, Zenon
  <2>2. Local(s, [b EXCEPT !.pc = "next", !.mode = "query", !.left = n])
    BY <1>1, Zenon DEF SimpleQuery
  <2>3. sess[s].pc \in Awake /\ "next" \in Awake
    BY <1>1, Zenon DEF SimpleQuery, AtMessage, Awake
  <2> HIDE DEF b
  <2>4. /\ SameDatabase(sess[s], [b EXCEPT !.pc = "next", !.mode = "query", !.left = n])
        /\ [b EXCEPT !.pc = "next", !.mode = "query", !.left = n].pc = "next"
    BY <2>1, Zenon DEF SameDatabase, HasPlace
  <2> QED BY <2>1, <2>2, <2>3, <2>4, LocalStays, Zenon
<1>2. CASE ExecuteMessage(s)
  <2> DEFINE b == BeginImplicit(sess[s])
  <2>1. SameDatabase(sess[s], b)
    BY ImplicitStays, Zenon
  <2>2. Local(s, [b EXCEPT !.pc = "next", !.mode = "exec", !.left = 1])
    BY <1>2, Zenon DEF ExecuteMessage
  <2>3. sess[s].pc \in Awake /\ "next" \in Awake
    BY <1>2, Zenon DEF ExecuteMessage, AtMessage, Awake
  <2> HIDE DEF b
  <2>4. /\ SameDatabase(sess[s], [b EXCEPT !.pc = "next", !.mode = "exec", !.left = 1])
        /\ [b EXCEPT !.pc = "next", !.mode = "exec", !.left = 1].pc = "next"
    BY <2>1, Zenon DEF SameDatabase, HasPlace
  <2> QED BY <2>1, <2>2, <2>3, <2>4, LocalStays, Zenon
<1>3. CASE MessageError(s)
  <2> DEFINE b == ServerError(sess[s])
  <2>1. SameDatabase(sess[s], b) /\ b.pc = sess[s].pc
    BY EndsStay, Zenon
  <2>2. \E x, y : Local(s, [b EXCEPT !.skip = x, !.mine = y])
    <3>1. PICK x \in BOOLEAN : Local(s, [b EXCEPT !.skip = x,
                 !.mine = IF sess[s].implicit /\ sess[s].status = "Idle" THEN {} ELSE @])
      BY <1>3, Zenon DEF MessageError
    <3> QED BY <3>1, Zenon
  <2>3. sess[s].pc \in Awake
    BY <1>3, Zenon DEF MessageError, AtMessage, Awake
  <2> HIDE DEF b
  <2>4. \A x, y : LET n == [b EXCEPT !.skip = x, !.mine = y]
                 IN  SameDatabase(sess[s], n) /\ n.pc = sess[s].pc
    BY <2>1, Zenon DEF SameDatabase, HasPlace
  <2> QED BY <2>2, <2>3, <2>4, LocalStays, Zenon
<1>4. CASE Leave(s) \/ CopyReset(s)
  <2>1. Local(s, [sess[s] EXCEPT !.pc = "leaving"])
    BY <1>4, Zenon DEF Leave, CopyReset
  <2>2. sess[s].pc \in Awake /\ "leaving" \in Awake
    BY <1>4, Zenon DEF Leave, CopyReset, Awake
  <2>3. /\ SameDatabase(sess[s], [sess[s] EXCEPT !.pc = "leaving"])
        /\ [sess[s] EXCEPT !.pc = "leaving"].pc = "leaving"
    BY <1>0, Zenon DEF SameDatabase, HasPlace
  <2> QED BY <1>0, <2>1, <2>2, <2>3, LocalStays, Zenon
<1>5. CASE CopyBatch(s)
  <2>1. \/ Local(s, StatementError(sess[s]))
        \/ Local(s, [sess[s] EXCEPT !.pc = "acquire", !.auto = FALSE])
    BY <1>5, Zenon DEF CopyBatch
  <2>2. sess[s].pc \in Awake /\ "acquire" \in Awake
    BY <1>5, Zenon DEF CopyBatch, Awake
  <2>3. /\ SameDatabase(sess[s], [sess[s] EXCEPT !.pc = "acquire", !.auto = FALSE])
        /\ [sess[s] EXCEPT !.pc = "acquire", !.auto = FALSE].pc = "acquire"
    BY <1>0, Zenon DEF SameDatabase, HasPlace
  <2> QED BY <1>0, <2>1, <2>2, <2>3, StatementStays, LocalStays, Zenon
<1>6. CASE CopyBadLine(s)
  <2>1. Local(s, [sess[s] EXCEPT !.copy = "failed"]) /\ sess[s].pc \in Awake
    BY <1>6, Zenon DEF CopyBadLine, Awake
  <2>2. /\ SameDatabase(sess[s], [sess[s] EXCEPT !.copy = "failed"])
        /\ [sess[s] EXCEPT !.copy = "failed"].pc = sess[s].pc
    BY <1>0, Zenon DEF SameDatabase, HasPlace
  <2> QED BY <1>0, <2>1, <2>2, LocalStays, Zenon
<1>7. CASE CopyFails(s)
  <2> DEFINE b == RollbackImplicit(sess[s])
  <2>1. SameDatabase(sess[s], b) /\ HasPlace(b)
    BY ImplicitStays, Zenon DEF SameDatabase
  <2>2. Local(s, AnswerError(b)) /\ sess[s].pc \in Awake
    BY <1>7, Zenon DEF CopyFails, Awake
  <2> HIDE DEF b
  <2>3. SameDatabase(sess[s], AnswerError(b)) /\ AnswerError(b).pc \in Awake
    BY <2>1, StatementStays, Zenon DEF SameDatabase
  <2> QED BY <2>2, <2>3, LocalStays, Zenon
<1>8. CASE CopyStatement(s)
  <2> DEFINE b == BeginImplicit(sess[s])
  <2>1. SameDatabase(sess[s], b)
    BY ImplicitStays, Zenon
  <2>2. Local(s, [b EXCEPT !.pc = "copy", !.copy = "ok"])
    BY <1>8, Zenon DEF CopyStatement
  <2>3. sess[s].pc \in Awake /\ "copy" \in Awake
    BY <1>8, Zenon DEF CopyStatement, AtStatement, Awake
  <2> HIDE DEF b
  <2>4. /\ SameDatabase(sess[s], [b EXCEPT !.pc = "copy", !.copy = "ok"])
        /\ [b EXCEPT !.pc = "copy", !.copy = "ok"].pc = "copy"
    BY <2>1, Zenon DEF SameDatabase, HasPlace
  <2> QED BY <2>1, <2>2, <2>3, <2>4, LocalStays, Zenon
<1> QED BY <1>1, <1>2, <1>3, <1>4, <1>5, <1>6, <1>7, <1>8, Zenon

\* The statements that commit nothing.
LEMMA StatementsStay ==
    ASSUME NEW s, HasPlace(sess[s]),
           \/ Refused(s) \/ StartTransaction(s) \/ RollbackStatement(s)
           \/ Query(s) \/ WriteStatement(s) \/ AcquireFails(s) \/ AcquireWriter(s)
           \/ \E n \in Names : SavepointStatement(s, n) \/ ReleaseSavepoint(s, n)
                               \/ RollbackTo(s, n)
           \/ \E d \in Databases, ine \in BOOLEAN : CreateDatabase(s, d, ine)
           \/ \E names \in (SUBSET Databases) \ {{}}, ie \in BOOLEAN :
                 DropDatabase(s, names, ie)
    PROVE  Stays(s)
<1> DEFINE r == sess[s]
<1>0. SameDatabase(r, r)
  BY Zenon DEF SameDatabase
<1>1. r.pc \in Awake
  BY Zenon DEF Refused, StartTransaction, RollbackStatement, Query, WriteStatement, AcquireFails,
     AcquireWriter, SavepointStatement, ReleaseSavepoint, RollbackTo, CreateDatabase,
     DropDatabase, Runs, AtStatement, Awake
<1>2. ASSUME NEW c, SameDatabase(r, c),
             \/ Settle(s, StatementDone(c)) \/ Local(s, StatementDone(c))
             \/ Settle(s, StatementError(c)) \/ Local(s, StatementError(c))
      PROVE  Stays(s)
  <2>1. /\ SameDatabase(r, StatementDone(c)) /\ StatementDone(c).pc \in Awake
        /\ SameDatabase(r, StatementError(c)) /\ StatementError(c).pc \in Awake
    BY <1>2, StatementStays, Zenon DEF SameDatabase
  <2> QED BY <1>1, <1>2, <2>1, LocalStays, Zenon
<1>3. CASE Refused(s) \/ Query(s) \/ AcquireFails(s)
  BY <1>0, <1>2, <1>3, Zenon DEF Refused, Query, AcquireFails
<1>4. CASE StartTransaction(s)
  <2> DEFINE b == Begin(r)
  <2>1. SameDatabase(r, b)
    BY EndsStay, Zenon
  <2>2. \/ Local(s, StatementDone(r))
        \/ Local(s, StatementDone([b EXCEPT !.status = "InTransaction"]))
    BY <1>4, Zenon DEF StartTransaction
  <2> HIDE DEF b
  <2>3. SameDatabase(r, [b EXCEPT !.status = "InTransaction"])
    BY <2>1, Zenon DEF SameDatabase, HasPlace
  <2> QED BY <1>0, <1>2, <2>2, <2>3, Zenon
<1>5. CASE RollbackStatement(s)
  <2> DEFINE b == CloseTxn(r)
  <2>1. SameDatabase(r, b)
    BY EndsStay, Zenon
  <2>2. Local(s, StatementDone([b EXCEPT !.status = "Idle"]))
    BY <1>5, Zenon DEF RollbackStatement
  <2> HIDE DEF b
  <2>3. SameDatabase(r, [b EXCEPT !.status = "Idle"])
    BY <2>1, Zenon DEF SameDatabase, HasPlace
  <2> QED BY <1>2, <2>2, <2>3, Zenon
<1>6. CASE WriteStatement(s)
  <2> DEFINE b == IF r.open THEN r ELSE Begin(r)
  <2>1. SameDatabase(r, b)
    BY <1>0, EndsStay, Zenon
  <2>2. Local(s, [b EXCEPT !.pc = "acquire", !.auto = ~r.open]) /\ "acquire" \in Awake
    BY <1>6, Zenon DEF WriteStatement, Awake
  <2> HIDE DEF b
  <2>3. /\ SameDatabase(r, [b EXCEPT !.pc = "acquire", !.auto = ~r.open])
        /\ [b EXCEPT !.pc = "acquire", !.auto = ~r.open].pc = "acquire"
    BY <2>1, Zenon DEF SameDatabase, HasPlace
  <2> QED BY <1>1, <2>2, <2>3, LocalStays, Zenon
<1>7. CASE AcquireWriter(s)
  <2> DEFINE b == [r EXCEPT !.state = IF r.wrote THEN @ ELSE db[r.database],
                            !.wrote = TRUE, !.pc = "run"]
  <2>1. sess' = [sess EXCEPT ![s] = b] /\ "run" \in Awake
    BY <1>7, Zenon DEF AcquireWriter, Awake
  <2>2. SameDatabase(r, b) /\ b.pc = "run"
    BY Zenon DEF SameDatabase, HasPlace
  <2> QED BY <1>1, <2>1, <2>2, Zenon DEF Stays
<1>8. ASSUME NEW n \in Names, SavepointStatement(s, n) \/ ReleaseSavepoint(s, n)
                               \/ RollbackTo(s, n)
      PROVE  Stays(s)
  <2>1. \/ Local(s, StatementError(r))
        \/ \E x : Local(s, StatementDone([r EXCEPT !.savepoints = x]))
        \/ \E x, y, z : Local(s, StatementDone([r EXCEPT !.state = x, !.mine = y,
                           !.savepoints = z, !.status = "InTransaction"]))
    BY <1>8, Zenon DEF SavepointStatement, ReleaseSavepoint, RollbackTo, NoSuchSavepoint
  <2>2. /\ \A x : SameDatabase(r, [r EXCEPT !.savepoints = x])
        /\ \A x, y, z : SameDatabase(r, [r EXCEPT !.state = x, !.mine = y,
                           !.savepoints = z, !.status = "InTransaction"])
    BY Zenon DEF SameDatabase, HasPlace
  <2> QED BY <1>0, <1>2, <2>1, <2>2, Zenon
<1>9. ASSUME NEW d \in Databases, NEW ine \in BOOLEAN, CreateDatabase(s, d, ine)
      PROVE  Stays(s)
  BY <1>0, <1>2, <1>9, Zenon DEF CreateDatabase
<1>10. ASSUME NEW names \in SUBSET Databases, NEW ie \in BOOLEAN, DropDatabase(s, names, ie)
       PROVE  Stays(s)
  BY <1>0, <1>2, <1>10, Zenon DEF DropDatabase
<1> QED BY <1>3, <1>4, <1>5, <1>6, <1>7, <1>8, <1>9, <1>10, Zenon

\* The ends of transactions: COMMIT, Sync, the end of a Query and of COPY, and
\* a statement that is its own transaction.
LEMMA CommitsStay ==
    ASSUME NEW s, HasPlace(sess[s]),
           \/ CommitStatement(s) \/ Sync(s) \/ MessageDone(s)
           \/ \E eof \in BOOLEAN : CopyDone(s, eof)
           \/ \E k \in Kinds : RunWrite(s, k)
    PROVE  Stays(s)
<1>0. sess[s].pc \in Awake /\ SameDatabase(sess[s], sess[s])
  <2>1. ASSUME NEW eof \in BOOLEAN, CopyDone(s, eof) PROVE sess[s].pc = "copy"
    BY <2>1, Zenon DEF CopyDone, HasPlace
  <2> QED BY <2>1, Zenon DEF CommitStatement, Sync, MessageDone, RunWrite, AtStatement, Awake,
                      SameDatabase
<1>1. ASSUME NEW r, NEW a, NEW f,
             SameDatabase(sess[s], a), a.pc \in Awake,
             SameDatabase(sess[s], f), f.pc \in Awake,
             CommitOr(s, r, a, f) \/ CommitImplicit(s, r, a, f)
      PROVE  Stays(s)
  <2>1. Settle(s, a) \/ Settle(s, f)
    BY <1>1, Zenon DEF CommitOr, CommitImplicit, Commit, Local
  <2> QED BY <1>0, <1>1, <2>1, LocalStays, Zenon
<1>2. ASSUME NEW c, SameDatabase(sess[s], c)
      PROVE  /\ SameDatabase(sess[s], StatementDone(c)) /\ StatementDone(c).pc \in Awake
             /\ SameDatabase(sess[s], StatementError(c)) /\ StatementError(c).pc \in Awake
             /\ SameDatabase(sess[s], AnswerError(c)) /\ AnswerError(c).pc \in Awake
             /\ SameDatabase(sess[s], ImplicitEnded(c)) /\ ImplicitEnded(c).pc = c.pc
             /\ SameDatabase(sess[s], RollbackImplicit(c)) /\ RollbackImplicit(c).pc = c.pc
             /\ SameDatabase(sess[s], CloseTxn(c))
             /\ \A x : /\ SameDatabase(sess[s], [c EXCEPT !.status = x])
                       /\ [c EXCEPT !.status = x].pc = c.pc
             /\ \A x : /\ SameDatabase(sess[s], [c EXCEPT !.skip = x])
                       /\ [c EXCEPT !.skip = x].pc = c.pc
             /\ \A x : SameDatabase(sess[s], [c EXCEPT !.pc = x]) /\ [c EXCEPT !.pc = x].pc = x
             /\ \A x : SameDatabase(sess[s], [c EXCEPT !.copy = x])
             /\ \A x, y : SameDatabase(sess[s], [c EXCEPT !.eof = x, !.mine = y])
             /\ \A x, y : SameDatabase(sess[s], [c EXCEPT !.state = x, !.made = y])
             /\ \A x : SameDatabase(sess[s], [c EXCEPT !.mine = x])
  <2>1. HasPlace(c) /\ c.database = sess[s].database
    BY <1>2, Zenon DEF SameDatabase
  <2>2. /\ SameDatabase(sess[s], StatementDone(c)) /\ StatementDone(c).pc \in Awake
        /\ SameDatabase(sess[s], StatementError(c)) /\ StatementError(c).pc \in Awake
        /\ SameDatabase(sess[s], AnswerError(c)) /\ AnswerError(c).pc \in Awake
    BY <2>1, StatementStays, Zenon DEF SameDatabase
  <2>3. /\ SameDatabase(sess[s], ImplicitEnded(c)) /\ ImplicitEnded(c).pc = c.pc
        /\ SameDatabase(sess[s], RollbackImplicit(c)) /\ RollbackImplicit(c).pc = c.pc
        /\ SameDatabase(sess[s], CloseTxn(c))
    BY <2>1, ImplicitStays, EndsStay, Zenon DEF SameDatabase
  <2>4. /\ \A x : /\ SameDatabase(sess[s], [c EXCEPT !.status = x])
                  /\ [c EXCEPT !.status = x].pc = c.pc
        /\ \A x : /\ SameDatabase(sess[s], [c EXCEPT !.skip = x])
                  /\ [c EXCEPT !.skip = x].pc = c.pc
        /\ \A x : SameDatabase(sess[s], [c EXCEPT !.pc = x]) /\ [c EXCEPT !.pc = x].pc = x
    BY <2>1, Zenon DEF SameDatabase, HasPlace
  <2>5. /\ \A x : SameDatabase(sess[s], [c EXCEPT !.copy = x])
        /\ \A x, y : SameDatabase(sess[s], [c EXCEPT !.eof = x, !.mine = y])
        /\ \A x, y : SameDatabase(sess[s], [c EXCEPT !.state = x, !.made = y])
        /\ \A x : SameDatabase(sess[s], [c EXCEPT !.mine = x])
    BY <2>1, Zenon DEF SameDatabase, HasPlace
  <2> QED BY <2>2, <2>3, <2>4, <2>5, Zenon
<1>3. CASE CommitStatement(s)
  <2> DEFINE ended == [CloseTxn(sess[s]) EXCEPT !.status = "Idle"]
  <2>1. \/ Local(s, StatementDone(ended))
        \/ CommitOr(s, sess[s], StatementDone(ended), StatementError(ended))
    BY <1>3, Zenon DEF CommitStatement
  <2>2. SameDatabase(sess[s], ended)
    BY <1>0, <1>2, Zenon
  <2> HIDE DEF ended
  <2> QED BY <1>0, <1>1, <1>2, <2>1, <2>2, LocalStays, Zenon
<1>4. CASE Sync(s)
  <2> DEFINE r == [sess[s] EXCEPT !.skip = FALSE]
  <2>1. SameDatabase(sess[s], r) /\ r.pc \in Awake
    BY <1>0, <1>2, Zenon
  <2>2. \/ Local(s, RollbackImplicit(r))
        \/ CommitImplicit(s, r, ImplicitEnded(r), [ImplicitEnded(r) EXCEPT !.status = "Idle"])
    BY <1>4, Zenon DEF Sync
  <2> HIDE DEF r
  <2> DEFINE e == ImplicitEnded(r)
  <2>3. SameDatabase(sess[s], e) /\ e.pc \in Awake
    BY <1>2, <2>1, Zenon
  <2> HIDE DEF e
  <2>4. /\ SameDatabase(sess[s], [e EXCEPT !.status = "Idle"])
        /\ [e EXCEPT !.status = "Idle"].pc \in Awake
    BY <1>2, <2>3, Zenon
  <2>5. SameDatabase(sess[s], RollbackImplicit(r)) /\ RollbackImplicit(r).pc \in Awake
    BY <1>2, <2>1, Zenon
  <2> QED BY <1>0, <1>1, <2>2, <2>3, <2>4, <2>5, LocalStays, Zenon DEF e
<1>5. CASE MessageDone(s)
  <2> DEFINE r == [sess[s] EXCEPT !.pc = "main"]
  <2>0. "main" \in Awake
    BY Zenon DEF Awake
  <2>1. SameDatabase(sess[s], r) /\ r.pc \in Awake
    <3>1. SameDatabase(sess[s], r) /\ r.pc = "main"
      BY <1>0, <1>2, Zenon
    <3> QED BY <2>0, <3>1, Zenon
  <2>2. \/ Local(s, r)
        \/ CommitImplicit(s, r, ImplicitEnded(r), [ImplicitEnded(r) EXCEPT !.status = "Idle"])
    BY <1>5, Zenon DEF MessageDone
  <2> HIDE DEF r
  <2> DEFINE e == ImplicitEnded(r)
  <2>3. SameDatabase(sess[s], e) /\ e.pc \in Awake
    BY <1>2, <2>1, Zenon
  <2> HIDE DEF e
  <2>4. /\ SameDatabase(sess[s], [e EXCEPT !.status = "Idle"])
        /\ [e EXCEPT !.status = "Idle"].pc \in Awake
    BY <1>2, <2>3, Zenon
  <2> QED BY <1>0, <1>1, <2>1, <2>2, <2>3, <2>4, LocalStays, Zenon DEF e
<1>6. ASSUME NEW eof \in BOOLEAN, CopyDone(s, eof) PROVE Stays(s)
  <2> DEFINE r == IF eof THEN [sess[s] EXCEPT !.eof = TRUE,
                                 !.mine = IF sess[s].implicit THEN {} ELSE @]
                         ELSE sess[s]
             e == [ImplicitEnded(r) EXCEPT !.copy = "no"]
  <2>1. SameDatabase(sess[s], r)
    BY <1>0, <1>2, Zenon
  <2>2. CommitImplicit(s, r, StatementDone(e), AnswerError([e EXCEPT !.status = "Idle"]))
    BY <1>6, Zenon DEF CopyDone
  <2> HIDE DEF r
  <2>3. SameDatabase(sess[s], e)
    BY <1>2, <2>1, Zenon
  <2> HIDE DEF e
  <2>4. SameDatabase(sess[s], [e EXCEPT !.status = "Idle"])
    BY <1>2, <2>3, Zenon
  <2>5. /\ SameDatabase(sess[s], StatementDone(e)) /\ StatementDone(e).pc \in Awake
        /\ SameDatabase(sess[s], AnswerError([e EXCEPT !.status = "Idle"]))
        /\ AnswerError([e EXCEPT !.status = "Idle"]).pc \in Awake
    BY <1>2, <2>3, <2>4, Zenon
  <2> QED BY <1>1, <2>2, <2>5, Zenon
<1>7. ASSUME NEW k \in Kinds, RunWrite(s, k) PROVE Stays(s)
  <2> DEFINE w == [by |-> s, n |-> sess[s].made + 1, kind |-> k]
             ran == [sess[s] EXCEPT !.state = @ \cup {w}, !.made = @ + 1]
             done == [ran EXCEPT !.mine = @ \cup {w}]
  <2>1. \/ CommitOr(s, done, StatementDone(CloseTxn(done)), StatementError(CloseTxn(done)))
        \/ Local(s, StatementDone(done)) \/ Local(s, StatementError(ran))
    BY <1>7, Zenon DEF RunWrite
  <2> HIDE DEF w
  <2>2. SameDatabase(sess[s], ran)
    BY <1>0, <1>2, Zenon
  <2> HIDE DEF ran
  <2>3. SameDatabase(sess[s], done)
    BY <1>2, <2>2, Zenon
  <2> HIDE DEF done
  <2>4. SameDatabase(sess[s], CloseTxn(done))
    BY <1>2, <2>3, Zenon
  <2>5. \A c \in {ran, done, CloseTxn(done)} :
            /\ SameDatabase(sess[s], StatementDone(c)) /\ StatementDone(c).pc \in Awake
            /\ SameDatabase(sess[s], StatementError(c)) /\ StatementError(c).pc \in Awake
    BY <1>2, <2>2, <2>3, <2>4, Zenon
  <2>6. CASE CommitOr(s, done, StatementDone(CloseTxn(done)), StatementError(CloseTxn(done)))
    BY <1>1, <2>5, <2>6, Zenon
  <2>7. CASE Local(s, StatementDone(done)) \/ Local(s, StatementError(ran))
    BY <1>0, <2>5, <2>7, LocalStays, Zenon
  <2> QED BY <2>1, <2>6, <2>7, Zenon
<1> QED BY <1>3, <1>4, <1>5, <1>6, <1>7, Zenon

\* A temporary object belongs to a session that is connected to its database,
\* or was when it gave up waiting for the write lock.
Owned ==
    \A d \in Databases : \A w \in db[d] : w.kind # "perm" =>
        sess[w.by].pc \in Awake \cup {"late"} /\ sess[w.by].database = d

\* The step of a session that stays connected and adds only rows of its own.
LEMMA StaysOwned ==
    ASSUME IInv, Owned, NEW s \in Sessions, Stays(s),
           \A d \in Databases : \A w \in db'[d] :
               w \in db[d] \/ (w.by = s /\ d = sess[s].database)
    PROVE  Owned'
<1>1. PICK r : /\ sess' = [sess EXCEPT ![s] = r] /\ r.database = sess[s].database
               /\ r.pc \in Awake /\ sess[s].pc \in Awake
  BY Zenon DEF Stays, SameDatabase
<1>2. sess \in [Sessions -> Session] /\ db \in [Databases -> SUBSET Row]
  BY Zenon DEF IInv, TypeOK
<1>3. ASSUME NEW d \in Databases, NEW w \in db'[d], w.kind # "perm"
      PROVE  sess'[w.by].pc \in Awake \cup {"late"} /\ sess'[w.by].database = d
  <2>1. CASE w.by = s /\ d = sess[s].database
    BY <1>1, <1>2, <2>1, Zenon
  <2>2. CASE w \in db[d]
    <3>1. w.by \in Sessions /\ sess[w.by].pc \in Awake \cup {"late"} /\ sess[w.by].database = d
      BY <1>2, <1>3, <2>2 DEF Owned, Row
    <3> QED BY <1>1, <1>2, <3>1, Zenon
  <2> QED BY <2>1, <2>2, Zenon
<1> QED BY <1>3, Zenon DEF Owned

\* Engine::disconnect takes them along, also from under other transactions.
LEMMA OwnedStep ==
    ASSUME IInv, Careful, Owned, [Next]_vars PROVE Owned'
<1>0. /\ sess \in [Sessions -> Session] /\ db \in [Databases -> SUBSET Row] /\ Careful
      /\ \A s \in Sessions : HasPlace(sess[s])
  BY DEF IInv, TypeOK, HasPlace, Session
<1>1. CASE UNCHANGED vars \/ AllGone
  BY <1>1, Zenon DEF vars, AllGone, Owned
<1>2. ASSUME NEW s \in Sessions, ClientStep(s) \/ ServerStep(s) PROVE Owned'
  <2>1. CASE \/ CommitStatement(s) \/ Sync(s) \/ MessageDone(s)
             \/ \E eof \in BOOLEAN : CopyDone(s, eof)
             \/ \E k \in Kinds : RunWrite(s, k)
    <3>1. Commits(s) /\ Stays(s)
      BY <1>0, <2>1, CommitStatementCommits, EndsCommit, RunWriteCommits, CommitsStay, Zenon
    <3>2. CASE db' = db
      BY <3>1, <3>2, StaysOwned, Zenon
    <3>3. ASSUME NEW r, NEW after, Commit(s, r, after), Committable(s, r)
          PROVE  \A d \in Databases : \A w \in db'[d] :
                    w \in db[d] \/ (w.by = s /\ d = sess[s].database)
      <4>1. /\ r.database = sess[s].database /\ \A w \in r.mine : w.by = s
            /\ (r.wrote => r.state = db[r.database] \cup r.mine)
            /\ r.database \in Databases
        BY <3>3, Zenon DEF Committable, Data0, Fresh, Session
      <4>2. \/ db' = db
            \/ r.wrote /\ db' = [db EXCEPT ![r.database] = OnCommitActions(r.state, s)]
        BY <3>3, Zenon DEF Commit
      <4>3. r.wrote => \A w \in OnCommitActions(r.state, s) :
                          w \in db[r.database] \/ w.by = s
        BY <4>1, Zenon DEF OnCommitActions
      <4> QED BY <1>0, <4>1, <4>2, <4>3, Zenon
    <3> QED BY <3>1, <3>2, <3>3, StaysOwned, Zenon DEF Commits
  <2>2. CASE Disconnect(s)
    <3>1. PICK d \in Databases : d = sess[s].database
      BY <1>0, Zenon DEF Session
    <3>2. /\ db' = [db EXCEPT ![d] = DropTemp(db[d], s)]
          /\ \A t \in Sessions : t # s => sess'[t] = sess[t]
      BY <1>0, <2>2, <3>1, Zenon DEF Disconnect, Settle
    <3>3. \A e \in Databases : \A w \in db'[e] : w \in db[e] /\ (w.by = s => w.kind = "perm")
      BY <1>0, <3>1, <3>2 DEF DropTemp, Owned
    <3>4. \A e \in Databases : \A w \in db[e] : w.by \in Sessions
      BY <1>0 DEF Row
    <3> QED BY <3>2, <3>3, <3>4 DEF Owned
  <2>3. CASE DisconnectTimesOut(s)
    <3>1. PICK r : r = NewSession("late", sess[s].database)
      OBVIOUS
    <3>2. r.database = sess[s].database /\ r.pc = "late"
      BY <3>1, Zenon DEF NewSession
    <3>3. db' = db /\ sess' = [sess EXCEPT ![s] = r]
      BY <2>3, <3>1, Zenon DEF DisconnectTimesOut, Local, Settle
    <3>4. \A e \in Databases : \A w \in db[e] : w.by \in Sessions
      BY <1>0 DEF Row
    <3>5. sess'[s] = r /\ \A t \in Sessions : t # s => sess'[t] = sess[t]
      BY <1>0, <3>3, Zenon
    <3>6. "late" \in Awake \cup {"late"}
      OBVIOUS
    <3> QED BY <1>0, <3>2, <3>3, <3>4, <3>5, <3>6 DEF Owned
  <2>4. ASSUME NEW d \in Databases, Connect(s, d) PROVE Owned'
    <3>1. /\ sess[s].pc \notin Awake \cup {"late"} /\ db' = db
          /\ \A t \in Sessions : t # s => sess'[t] = sess[t]
      BY <1>0, <2>4, Zenon DEF Connect, Local, Settle, Awake
    <3>2. \A e \in Databases : \A w \in db[e] : w.by \in Sessions
      BY <1>0 DEF Row
    <3>3. \A e \in Databases : \A w \in db[e] : w.kind # "perm" => w.by # s
      BY <3>1 DEF Owned
    <3> QED BY <3>1, <3>2, <3>3 DEF Owned
  <2>5. ASSUME NEW d \in Databases, NEW ine \in BOOLEAN, CreateDatabase(s, d, ine) PROVE Owned'
    <3>1. db' = db \/ db' = [db EXCEPT ![d] = {}]
      BY <2>5, Zenon DEF CreateDatabase, Local
    <3>2. \A e \in Databases : db'[e] \subseteq db[e]
      BY <1>0, <3>1, Zenon
    <3>3. Stays(s)
      BY <1>0, <2>5, StatementsStay, Zenon
    <3> QED BY <3>2, <3>3, StaysOwned, Zenon
  <2>6. CASE \/ \E names \in (SUBSET Databases) \ {{}}, ie \in BOOLEAN :
                   DropDatabase(s, names, ie)
             \/ Refused(s) \/ StartTransaction(s) \/ RollbackStatement(s)
             \/ Query(s) \/ WriteStatement(s) \/ AcquireWriter(s) \/ AcquireFails(s)
             \/ \E n \in Names : SavepointStatement(s, n) \/ ReleaseSavepoint(s, n)
                                 \/ RollbackTo(s, n)
    <3>1. db' = db
      BY <2>6, Zenon DEF DropDatabase, Refused, StartTransaction, RollbackStatement, Query,
         WriteStatement, AcquireWriter, AcquireFails, SavepointStatement, ReleaseSavepoint,
         RollbackTo, NoSuchSavepoint, Local
    <3>2. Stays(s)
      BY <1>0, <2>6, StatementsStay, Zenon
    <3> QED BY <3>1, <3>2, StaysOwned, Zenon
  <2>7. CASE \/ \E n \in 1..MaxStatements : SimpleQuery(s, n)
             \/ ExecuteMessage(s) \/ MessageError(s) \/ Leave(s) \/ CopyStatement(s)
             \/ CopyBatch(s) \/ CopyBadLine(s) \/ CopyFails(s) \/ CopyReset(s)
    <3>1. db' = db
      BY <2>7, Zenon DEF SimpleQuery, ExecuteMessage, MessageError, Leave, CopyStatement,
         CopyBatch, CopyBadLine, CopyFails, CopyReset, Local
    <3>2. Stays(s)
      BY <1>0, <2>7, MessagesStay, Zenon
    <3> QED BY <3>1, <3>2, StaysOwned
  <2> QED BY <1>2, <2>1, <2>2, <2>3, <2>4, <2>5, <2>6, <2>7, Zenon DEF ClientStep, ServerStep
<1> QED BY <1>1, <1>2, Zenon DEF Next

\* When a session has ended, nothing of its temporary schema is left, although
\* transactions store clones of whole databases (Engine::disconnect waits for
\* the write lock).  A disconnect that times out leaves its own, as
\* TempObjectsGo says, and no other session's; a client with a clone from
\* before its first write can bring them back, so this is about careful ones.
THEOREM TemporaryObjectsGo ==
    ASSUME Careful PROVE Spec => []TempObjectsGo
<1>1. Init => Owned
  BY Zenon DEF Init, Owned
<1>2. IInv /\ Owned /\ [Next]_vars => Owned'
  BY OwnedStep, Zenon
<1>3. IInv /\ Owned => TempObjectsGo
  BY DEF IInv, TypeOK, Owned, TempObjectsGo, Awake, Row
<1> QED BY <1>1, <1>2, <1>3, Invariance, PTL DEF Spec
=============================================================================

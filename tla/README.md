# Verification of noida-db

noida-db is one process that stands in for Postgres, MySQL, Redis, Kafka,
Elasticsearch, ClickHouse and MongoDB during development. This directory holds
TLA+ models of the parts of it where several threads, clients or crashes meet,
the TLC configurations that check them, and machine-checked proofs.

`PROJECT.json` lists every component, every run, the source lines each
definition models, the hazards and the theorems. This file explains them.

## 1. The system

A service is a TCP server with an *engine* behind it. A connection has a thread;
the thread decodes a request, takes the engine's mutex, runs a handler and
answers. The services share nothing but the process:

| Part | Source | What it does |
|---|---|---|
| Start-up, CLI, configuration, panel | `main.rs`, `cli.rs`, `config.rs`, `ui/` | one-shot code around the rest |
| Service manager, control API | `services.rs`, `control.rs` | starts, stops, restarts, resets services at run time |
| Lifecycle | `lifecycle.rs` | accept loop, connection registry, `stop` |
| Persistence | `persistence.rs` | change marks, autosave, shutdown save, atomic snapshot files |
| Activity feed | `activity.rs` | ring buffer of recent requests |
| Postgres | `postgres/`, `sql/` | sessions, transactions over whole-database clones, SQL |
| MySQL | `mysql/` | undo log, row locks, foreign keys, SQL |
| Redis | `redis/` | data types, blocking commands, MULTI/WATCH, pub/sub, scripts |
| Kafka | `kafka/` | partition logs and their cleaner, idempotent and transactional producers, consumer groups |
| Elasticsearch | `elasticsearch/` | documents with sequence numbers, aliases, rollover, scrolls, queries |
| ClickHouse, MongoDB | `clickhouse/`, `mongodb/` | column and document stores, mostly query evaluation |

What interleaves is always the same kind of thing: critical sections of an
engine's mutex, run by connection threads, and a few background threads
(autosave, shutdown watcher, expiry sweeper, log cleaner, Kafka handlers that
poll). A model therefore has one action per critical section, together with the
thread-local work around it. A handler that runs under the lock from beginning
to end is one action however much it does; a handler that lets go of the lock in
the middle is several, and a program counter says where its thread is.

## 2. Modules

| Module | Models | State and actions |
|---|---|---|
| `PostgresTxn` | `postgres/engine.rs`, `postgres/server.rs` | committed state and clone of each session, write lock, protocol state of each connection; one action per message or statement step |
| `CommittedStore` | what Postgres promises | databases whose content changes by atomic commits only |
| `Persistence` | `persistence.rs`, `services.rs`, the control operations | marks, savers, save lock, temp file and snapshot of each service; the autosave, the manager, the shutdown and clients as threads |
| `Lifecycle` | `lifecycle.rs` | accept loop, backlog, registry, threads, callers of `stop` |
| `KafkaLog` | `kafka/log.rs`, `PartitionState` | pure operations on a partition: append, end of a transaction, truncation, retention, compaction, fetch |
| `KafkaTxn` | producer and transaction handlers of `kafka/engine.rs`, the cleaner's pass | extends `KafkaLog`; producers as clients that retry, lose answers and get fenced |
| `KafkaGroup` | group handlers of `kafka/engine.rs` | a `GroupState`, the waiting JoinGroup and SyncGroup handlers, consumers |
| `RedisEngine` | `redis/blocking.rs`, `multi.rs`, `server.rs` and the handlers they run | the engine as one record; a handler is an operator from engine to engine, so that EXEC and the serving of waiters can run handlers |
| `MySqlTxn` | `mysql/engine.rs`, `exec.rs`, `catalog.rs`, `server.rs` | tables as multisets of rows, undo logs, waits; a statement is a load, a look for locked rows, a store and what follows, each a step |
| `EsDocuments` | `elasticsearch/engine.rs` and `engine/{reindex,lifecycle,ingest}.rs` | indices with documents, searchable snapshot and aliases; a request resolves its name, looks whether the index is closed, writes item by item and refreshes, each a step |

`PostgresTxnProofs`, `PersistenceProofs`, `LifecycleProofs`, `KafkaTxnProofs` and
`KafkaGroupProofs` extend the module they are named after and hold its theorems. `DurabilityProofs` goes on from `PersistenceProofs`;
`KafkaGroupLemmas` has the invariant of groups and the steps that
`KafkaGroupProofs` puts together. Each model has an `MC…` module with its small sets, plays and
symmetries, and one or two `.cfg` files. A definition named `Faulty_X` stands
before `X` and is `X` with a plausible mistake in it; it is used by no
specification and shows, when it is put in the place of `X`, that a property
notices the mistake.

Conventions of all modules: a database, a message or a payload is abstract (a
set of writes, a record of who sent it); time is abstract (a timer that may have
run out is a flag, set by an action of its own, and what depends on sizes and
ages may or may not happen); `Behaviours`, `ClientPatterns`, `Operations` and
`Plays` say which things clients and operators do in a run; a constant named
`Max…` is a bound of the model and not of the code. Variables commented as
history are read by properties only. `unusual` (Kafka) and `past` (MySQL) are
among them: the events a property makes an exception for, each with its reason in
section 4.

### Postgres

A database is a whole value. BEGIN clones it, statements change the clone,
COMMIT stores the clone. Two writers would erase each other's rows if it were
not for the one write lock of the server, which a transaction takes at its first
write, replacing its clone by a fresh one. The model abstracts a database to the
set of writes in it, so losing an update is a set that lacks an element. Simple
queries of several statements, extended-protocol pipelines with implicit
transactions, COPY FROM STDIN with its batches, savepoints, errors at each
point, end of stream, CREATE and DROP DATABASE and temporary objects are
actions.

### Persistence and the manager

`mark` counts a change; the autosave thread looks at the counters once a second
and calls the savers of the services that changed; `stop`, `reset`, `restart`
and the shutdown hook save or forget under the same save lock. `MarkSites` says
where a service calls `mark`: inside the engine's lock, before it, after it or
never, since the services differ. A save is several steps (read the engine,
write the temp file, rename), each of which can fail and each of which a kill
can follow. A request can outlast the stop of the instance it talks to.

### Lifecycle

The `stopped` flag is read outside the mutex and a connection can arrive at any
point of `stop`; cloning a socket can fail; the wake-up connection can get lost;
the deadline can run out.

### Kafka

A request is one step under the engine's lock. Clients follow the protocol of a
real producer: they ask for an id, add partitions, produce with sequence
numbers, and retry a batch whose answer was lost. The log cleaner takes a
partition at a time; compaction and retention may begin whenever there is
something to clean, end before any segment that could be too young, and find any
tombstone that went through an earlier clean expired. A batch keeps the records
it was sent with and the set of those that are left, as offsets never change.

A JoinGroup handler polls: it takes the lock, looks, drops it and takes it again
to complete the round, and the model keeps these apart. The leader's assignor is
external and gives each partition to one of the members the leader was told of.

### Redis

A command is one step: checks, eviction, the handler, the touching of watched
keys, the serving of blocked clients round by round. What interleaves with it
are the connection threads in `wait_unblocked`, the clock and the sweeper.

### MySQL

The lock of `DbState` is held for one look or one write at a time and not for a
statement. A statement loads a table, works on its copy, looks for rows other
transactions have changed (and waits, gives up after a timeout, or is chosen as
the victim of a deadlock), stores the copy and, outside a transaction or at
COMMIT, lets go of its undo log. Each of these is an action. Rows are a primary
key and a value; where a play has a foreign key, a child's value refers to a
parent. The history variable `past` records causes and not effects: which tables
were `spoiled` by overlapping writes, which rows two connections took in
overlapping statements (`late`), who has let go of rows another one waits for
(`freed`), and whether a foreign key was checked against rows that were not
committed (`dirty`).

### Elasticsearch

All state is behind one mutex, but a request takes it several times: to resolve
the name it was given, to see whether the index is closed, for each item of a
bulk, and to refresh at the end. In between, aliases are switched, indices
rolled over, deleted, closed, opened, and the process is restarted. A document's
content is the number of the write that made it. An ingest pipeline is what it
can make of a document: sent to another index, id or routing, dropped, or
refused.

## 3. What the runs check

Two actors are enough for a race of two; a third is there where one has to
disturb the other two. `CHECK_DEADLOCK FALSE` is set where the bounds let all
clients come to rest.

| Run | Shows | Bounds and why they are enough |
|---|---|---|
| `postgres_txn` | `WriteLock`: only the lock's holder has something to store. `CommittedExactly`: a database holds exactly the acknowledged writes. `TempObjectsGo`: temporary objects go with their session, unless its disconnect timed out. `FailedBlockCommitsNothing` | 2 sessions, 2 writes each, messages of 2 statements, 1 savepoint: a second write after a stale clone, a rollback past one of two writes; a writer so slow that a disconnect gives up waiting for it |
| `postgres_live` | `DatabaseOfSessionExists`; `StoreSpec`: the service implements `CommittedStore`; `NobodyWaitsForever` | 2 sessions, 2 databases, one created and dropped, a client that goes quiet with the lock |
| `persistence` | `NeverTorn`, `AtMostARound`: what was acknowledged before the last complete round is on disk. `AckedKept`: stop and restart lose nothing. `ResetSticks` | 1 service with every mark site and operation, 2 requests at a time, 2 instances, failing writes, kills, requests that outlast the stop |
| `persistence_live` | `SnapshotsMoveForward`, `OperationsEnd`, `AckedReachesDisk` | 1 request at a time, marks inside or after, clean exits |
| `lifecycle` | `NoneServedAfterStop`, `StoppedMeansOver`, `StopEnds` | 3 connections (one in the backlog, one being accepted, one served), 2 callers of stop |
| `kafka_txn` | `AtMostOnce`: a batch sent again is not appended again. `AcksTrue`: an acknowledged record is at its offset until deleted or compacted for a reason. `ReadCommitted`, `OffsetsAtomic`, `AbortIsFinal` | 2 producers (both instances of one application, or one without an id), 2 partitions, batches of 2, 5 offsets (an aborted and a committed transaction with markers), 2 transactions, 3 InitProducerId requests, of which the third for one id wraps its epoch (`EpochMax` is 1), 1 restart after which clients start over or go on; where records have keys, 1 partition and 4 offsets: a value, its tombstone, a clean, a dirty batch and the clean that drops the tombstone. With 5 such offsets compaction alone has 411,727 states, in which the properties hold too |
| `kafka_group` | `NobodyLeftOut` of a round, `AllCovered`: every partition has a consumer, `OffsetsMoveForward` | a dynamic and a static consumer, 2 partitions, 3 generations, 2 unusual events |
| `kafka_group_live` | `JoinersGetIn` | 7 generations, 1 unusual event, nobody dies silently |
| `redis` | `NobodyWaitsOnData`, `EachItemOnce`, `ServedInOrder`, `ExecSawWhatItWatched`, `ExecIsWhole` | 3 clients, 2 keys, 2 items, 2 databases, transactions of 2 commands: one waiter feeds another with BLMOVE, expiry on both sides of WATCH |
| `redis_live` | `WaitersEnd` | 3 clients, 1 database; clients that leave with and without unread input |
| `mysql_txn` | `CommittedExactly`: what is saved is what was committed, and a connection reads that and its own changes. `LocksExclude`: no two open transactions hold one row. `NoOrphans`: foreign keys hold. `VictimsWait`: error 1213 only in a circle of waiting connections | 2 connections, 2 keys, 3 or 4 statements in all, every form of statement in some play; for deadlocks 3 connections that lock a row each and then another, the smallest circle in which the holder of a row is not the one that waits back |
| `elasticsearch` | `VersionsGrow`: no write puts an older version over a newer. `NoLostUpdate`, `RefreshedSeen`, `ScrollIsOneView` | 2 clients, 2 indices, 1 alias, 2 ids and a routing (two shards), 5 writes |

Every property of a run has a mutant in `PROJECT.json`: a mistake in one mapped
definition under which TLC finds that property violated.

### Fairness

Only the program's own threads are fair, not clients or operators, with one
exception: a Kafka consumer that has begun to join a group goes on with the join,
as a client library does by itself; a group cannot get anywhere without.
Postgres: weak fairness of a session's server-side step, since a thread that is
not blocked runs, and a waiting statement polls with a deadline. Persistence:
weak fairness of every thread and strong fairness of taking the save lock, as
every holder gives it back after one save. Lifecycle: strong fairness of
`accept` for the wake-up, which `stop` retries, and weak fairness of the threads,
which end when their sockets are shut down unless they are stuck in a query. Kafka groups: weak fairness of
handler threads, of the timers and of a consumer that has begun to join. Redis:
weak fairness of a waiting thread, which wakes at least every `BLOCKED_POLL`, and
of the clock.

## 4. Known exceptions

Some properties hold but for behaviours of the code named here. Each exception
is as narrow as it could be made: the property names the event (`unusual`, `past`,
`history.loose`, `SaveMissing`, `faults.kinds`, a thread's state) and the runs
reach it, or the entry says that the runs leave it out. Where the repository says
otherwise the sentence is given. Paths are below `src/src/` unless they begin
with `docs/`.

Postgres
- `postgres/engine.rs:371-376`: a disconnect that has waited 30 s for the writer
  leaves its session's temporary objects where they are, for good (pc `"late"`).
  The comment at 360 has "Ends a session: its temporary schema is dropped (once
  no other transaction is writing, since a commit replaces the whole state)."
- `postgres/engine.rs:1503`: ROLLBACK TO a savepoint taken before the first
  write puts the clone of BEGIN back; the next commit stores it. The comment at
  1420 has "Read committed: start writing from the latest state." Left out of
  the runs (`savepoint-first`).
- `postgres/engine.rs:582-589`, `1394`: BEGIN after a write of the same
  multi-statement query or pipeline replaces the implicit transaction, whose
  writes are gone though they were answered. Left out (`begin-in-implicit`).
- `postgres/server.rs:527-586`, `619`: a Parse, Bind or Describe that fails does
  not fail the implicit transaction of its pipeline, and Sync commits the writes
  that came before it. Left out (`message-error`).
- `postgres/server.rs:819`: end of stream inside COPY ends the copy as if it
  were complete. Left out (`copy-eof`).

Persistence and lifecycle
- `kafka/connection.rs:89`, `elasticsearch/engine.rs:396`: the change is marked
  before the handler takes the engine's lock; a save in between counts it as
  saved. `mysql/server.rs:437`, `kafka/connection.rs:79`: some changes are not
  marked at all. They are saved with the next marked change.
- `persistence.rs:104`: the round counts a mark as saved before it looks whether
  the saver it copied is still the registered one; a service restarted meanwhile
  waits for its next mark.
- `persistence.rs:167`: requests are still answered while the shutdown saves.
- `lifecycle.rs:146`: a connection whose socket cannot be cloned is served
  without being registered; `stop` does not know of it.

Kafka, producers and logs
- `kafka/engine.rs:941`: a duplicate that is not the producer's last batch is
  answered with the last one's offset (`pipelined`).
- `kafka/engine.rs:1111`, `1127`: of an aborted transaction only the batch at its
  first offset is withheld, the client has to filter the others; and the list it
  filters with contains transactions that ended before the fetch offset, so that
  a later transaction of the same producer may be filtered too.
  `ReadCommitted` therefore is about what a filtering client delivers, and owes
  it committed records when it reads from the log's start.
- `kafka/log.rs:339`, also used by retention (372): an aborted transaction is
  forgotten when its first batch is deleted though later ones are kept.
- `kafka/log.rs:409`: transactional records are never compacted, so that an old
  one is the latest of its key again once a later plain tombstone has been
  dropped.
- `kafka/engine.rs:2322`: a commit with a partition that was added and not
  written is refused half done (`unwritten`).
- `kafka/engine.rs:2294`: a restart forgets `txn_partitions` and the epochs and
  aborts open transactions. A client that goes on with its producer id (`resume`)
  and commits such a transaction is answered 0: `complete_txn` finds no partitions
  and never gets to the aborted ones. The comment at 2300-2302 has "If it was
  already force-aborted at shutdown, active_txns is empty and a commit must be
  rejected with INVALID_TXN_STATE." Two instances that both go on are not told
  apart, and the commit of one takes records and offsets of the other along.
- `kafka/engine.rs:779`: the epoch is a 16-bit number that wraps around to a
  negative one, and fencing compares with `<`: from then on the older instance
  passes (`wrap`), with the same consequences.
- `kafka/engine.rs:3574`: after a hard kill a producer id given out since the last
  save is given out again; if its owner goes on with it (`kill` and `resume`), the
  batches of one pass for duplicates of the other's.

Kafka groups (`faults`)
- `kafka/engine.rs:1319`: a static member that comes back while a round is being
  completed takes its old place under a new id the leader did not assign to
  (`takeover`).
- `kafka/engine.rs:1592`: a member's session is looked at only at its own
  heartbeat, so a leader that died silently stays leader; `kafka_group_live` has
  no silent death.
- `kafka/engine.rs:3068`, `1674`, `1678`: a timeout that ends a round keeps the
  members that did not rejoin; a LeaveGroup clears the list of those already
  waiting, does not restart the timer, and starts a round even for a member that
  was not there. `kafka/engine.rs:172`: with no protocol in common the old
  one stays.

Redis
- `redis/blocking.rs:265`: a consumer that finds nothing on the stream that woke
  it goes to the end of all its queues; `ServedInOrder` is about lists.
- `redis/multi.rs:151`, `redis/engine.rs:772`: XGROUP and evictions touch no
  watched key; the plays with WATCH leave them out. `redis/server.rs:361`: a client
  that has gone can be served before its thread notices; the item then is in
  `lost`.
- `redis/server.rs:370-378`: `closed` peeks for one byte. While input that the
  client sent before it left is unread, the end of the stream is not seen, and a
  client that blocks without a timeout stays blocked until it is served. The
  comment at 359 has "notice a client that disconnects while blocked, so it can't
  swallow data meant for the next waiter."

MySQL (`past`)
- `mysql/exec.rs:2602` (`spoiled`): between the load and the store of a table
  others may write it; what they wrote is then overwritten. A statement that looks
  for locks while another has stored and not yet logged finds none.
- `mysql/engine.rs:339` (`spoiled`): after a statement the table as a whole becomes
  the image of what the transaction wrote, rows included that other connections
  changed since it first wrote there, and a rollback takes those back too, as does
  `rollback_to` (217). docs/LIMITATIONS.md:554-557 has "in a table another
  connection also wrote meanwhile, only this transaction's own row changes are
  reversed."
- TRUNCATE looks for no locks, and a statement that fails in the middle has stored
  some of its tables (`spoiled`).
- `mysql/exec.rs:2054`, `2090-2099` (`late`): a locking read looks for locks in one
  critical section and takes its own in a later one, so two can take the same row;
  so can a locking read and a write. docs/LIMITATIONS.md:707 has "`NOWAIT` (3572)
  and `SKIP LOCKED` (job queues) work".
- `mysql/engine.rs:833` (`freed`): `waits` names the holder met at the last try. One
  that has let go since is still followed, and a transaction can be rolled back
  with 1213 in a circle that is none any more. The comment at 812 has "error 1213
  (rolling this transaction back) if the two are waiting for each other".
- Foreign keys are checked against rows another transaction may still roll back or
  change before the statement stores (`dirty`); ON DUPLICATE KEY UPDATE of a parent
  counts as its deletion.
- docs/LIMITATIONS.md contradicts itself: 559-561 has "There is no isolation:
  uncommitted writes are visible to other connections immediately", 701-703
  "Connections are isolated like InnoDB's: a transaction's uncommitted writes are
  invisible to other connections". The code (`committed_view`) does the latter, and
  `CommittedExactly` states it.

Elasticsearch
- `elasticsearch/engine.rs:2541`: an index deleted after the name was resolved is
  created again; one closed after the check (613-663) is written to.
- `elasticsearch/engine.rs:746`: a name is resolved in one critical section and the
  document written in another; when the alias moves in between the write goes to
  the old index. docs/LIMITATIONS.md:834-836 has "repointing an alias at a different
  index takes effect immediately for both `_search` and every document-level
  operation". No property is about it.
- `elasticsearch/engine/ingest.rs:2305-2321`, `elasticsearch/engine.rs:3226-3234`: a
  `_bulk` or `_reindex` refreshes the indices its items were resolved to, and not the
  one a pipeline sent an item on to (`EndItems`). docs/LIMITATIONS.md:803-805 has "not
  to search until `_refresh` (or `refresh=true`/`wait_for` on the write)".
- `elasticsearch/engine.rs:4899`: sequence numbers are counted per shard and start
  again with the index, so a document moved to another shard by its routing, or
  an index made again, can repeat one and a stale `if_seq_no` passes
  (docs/LIMITATIONS.md:839 "a write against a stale `seq_no` gets a real 409").
- `elasticsearch/engine.rs:2915`: an upsert under another routing lists the
  document twice, and its version starts again with 1. `575`: a `_bulk` to an alias goes to any index that carries it.
- `elasticsearch/engine/lifecycle.rs:590`: a rollover is three critical sections;
  two at once may leave two write indices.

## 5. Proofs

All theorems hold for every value of the constants that satisfies the named
assumptions (`ASSUME`) of the model's module: any number of sessions, clients,
instances, partitions, requests.

| Module | Theorem | States |
|---|---|---|
| `PostgresTxnProofs` | `TypeCorrect` | `Spec => []TypeOK` |
| | `WriteLockHolds` | `WriteLock`, whatever clients do |
| | `SessionsKeepTheirDatabase` | `DatabaseOfSessionExists` |
| | `BlocksHaveTransactions` | a block has a transaction; an implicit commit never meets a failed block |
| | `CommitsAreExact` | `CommittedExactly`, if clients are `Careful` |
| | `FailedBlocksCommitNothing` | `FailedBlockCommitsNothing` |
| | `TemporaryObjectsGo` | `TempObjectsGo`, if clients are `Careful` |
| | `ImplementsCommittedStore` | the refinement `StoreSpec`, if clients are `Careful` |
| `PersistenceProofs` | `SnapshotsAreWhole`, `SavesMoveForward`, `ResetsStick` | `NeverTorn`, `SnapshotsMoveForward`, `ResetSticks` |
| `DurabilityProofs` | `AcknowledgedIsKept`, `KillLosesAtMostARound` | `AckedKept`, `AtMostARound` |
| `LifecycleProofs` | `NobodyServedAfterStop`, `StopLeavesNoThread` | `NoneServedAfterStop`, `StoppedMeansOver` |
| `KafkaTxnProofs` | `OffsetsGoWithTheirTransaction`, `AbortsAreFinal` | `OffsetsAtomic`, `AbortIsFinal` |
| `KafkaGroupProofs` | `RoundsStaySound` | the inductive invariant, in behaviours that stay `Unforced` |
| | `EveryoneIsAssigned`, `EveryPartitionIsConsumed` | `NobodyLeftOut`, `AllCovered`, in behaviours that stay `Unforced` |
| | `CommitsMoveForward` | `OffsetsMoveForward`, in behaviours that stay `Ordinary` |

None of these properties is inductive. Each proof module defines `IInv`, has a
lemma for the initial state, lemmas for the actions and, under each action, a
step per conjunct it can disturb.

**Postgres.** `CommittedExactly` speaks of committed data, while a commit stores
a clone. `IInv` says in addition where a thread can be and what its session then
looks like (`Sound`, `Control`); that having written implies holding the lock,
and holding it implies a transaction; and, for `Careful` clients (none of the
patterns but a slow writer), that the clone of a session that has written is the
committed state and its own writes, and that its savepoints are too. That
survives the steps of other sessions because they do not hold the lock. For
`TempObjectsGo` there is `Owned`: no step moves a session to another database, so
a temporary object in one is of a session that is connected to it, or whose
disconnect timed out. The refinement maps the abstract store to the committed databases: a commit is an
abstract commit, other steps change it as `CommittedStore` allows or stutter.

**Persistence.** `IInv` is the conjunction of the types, `HistoryOK` (what the
history variables record), `Locked` (a thread with a save under way is the one
that holds `save_lock`), `Managed` (what the control operation under way has
done so far), `Saving` (whose save a thread runs and what it has written so
far), `Whole` (an instance in use holds all of the file) and `Clean` (nothing in
use holds, or is about to get, anything that was wiped).
The argument: at most one save runs at a time. The saver that runs is that of
the instance in use, because `forget` waits for the lock and the autosave looks
again once it has it. The instance in use was loaded from the file or has
written it, so it holds all the file holds, and a rename can only add. After a
reset nothing reaches the new instance but requests with newer changes; the old
instance's saver is gone before the file is deleted.

**Durability.** Here the question is not what the file may not hold but what it
must. `DInv` joins `IInv`. `KeptMem`, `KeptBuf` and `KeptFile`: an acknowledged
change is in the memory in use, in what a stop is writing, and in the file once
the service is down, so that no instance is loaded without it. `CountedFile` and
`CountedBuf`: while the counter of a service is what the autosave last
remembered, the file, and what is about to replace it, hold every change that
was marked with or after it was made; so a round may skip the service.
`RoundFile`, `RoundOver` and `RoundBuf` say the same of what was acknowledged
before a round, as far as the round has come. All of it is for services with
nothing spoiled: a save that failed is made up for by the next one of the same
instance (`Missing`), but not by one of a later instance, which was loaded from
what the failed save left (`Lost`).

**Lifecycle.** `LoopSound`: the listener is open exactly while the loop runs,
only a stopped service is woken, and a connection that is served is registered
or could not be cloned. `StopSound`: a stop past its wait without a deadline has
found the listener closed and left no registered socket open, and one that has
returned has left none registered. The constants' assumption
`ClientsOnly` keeps the wake-up connection apart from clients.

**Kafka.** Both properties make an exception for an instance that is not fenced
(`Unfenced`: an epoch has wrapped around, or a client has gone on with its id over a
restart). Until that happens `IInv` holds: it says what a client
can be (`Clients`), that producer ids of transactional ids are distinct (`Ids`),
that the running instances of a transactional id have different epochs, up to
the current one (`Instances`), that offsets wait only for an instance whose
transaction is still open and while no other has the current epoch (`Waiting`),
that stored and saved offsets belong to committed
transactions (`Stored`), and that a running instance that is not fenced finds
its transaction ended only where it is asking for that (`Ended`). The step that
needs all of it is InitProducerId: it raises the epoch and drops what waits, so
that what is committed later was sent under the new epoch.

**Kafka groups.** A round is sound only if what the broker holds and what the
clients hold go together. `GroupOK` is about the broker: static members have
names of their own (`Named`); in a round being completed the leader is a member
and those that joined it are the members (`Shaped`); in a stable group every
member is assigned the share of its place in the list of members (`Shared`).
`Fits` relates a client to the group: it is the member of its id (`Known`); the
list a leader was given gives the members the places they have, and while the
round is being completed it is their list (`Listed`); who works has its share
(`Working`) and is not behind the committed offset (`Ahead`). A takeover of a
static member keeps the place and not the id, which is why places and not ids
are compared. `EveryPartitionIsConsumed` then counts: working members that are
as many as the members are the members, the places are `0..n-1`, and so every
`p % n` is somebody's.
`Unforced` says that no handler finds the rebalance timeout over. In a run whose
`Behaviours` do not have `"overdue"` it holds throughout; with it, a round may end
without a handler of the round before, and `NobodyLeftOut` does not hold
(section 4, `kafka/engine.rs:3068`). `Ordinary` excludes in addition the takeover
in a round being completed, for which the two invariants make an exception
themselves. The assumption on `Identities`: consumers with the same name are
static members, since the name stands for `group.instance.id`; others have a
name of their own.

Only model-checked: all liveness properties (fairness and ENABLED are outside
the prover); the Kafka properties of log contents (`AtMostOnce`, `AcksTrue`,
`ReadCommitted`); Redis, MySQL and Elasticsearch. Many of them rest on what folds and recursive functions
compute (compaction, the serving of waiters, cascades), and that for every input
needs induction over data, which is out of the prover's reach.

## 6. What is not modelled

The models stand for the parts of noida-db where an order of steps matters. They
cover a small share of its lines, because most of its lines are something else:
of about 140,000 lines of implementation the larger part evaluates SQL and
queries, implements data types, functions and formats, and encodes wire
protocols. That is sequential code under one lock or on one thread's data. A
model of it would repeat it line by line and check nothing its tests do not.

- SQL parsing, planning and evaluation (Postgres, MySQL, ClickHouse),
  Elasticsearch queries, analysis and aggregations, codecs and data formats.
- Postgres: LISTEN/NOTIFY, cursors, prepared statements and settings that
  outlive a transaction, authentication.
- MySQL: LOCK TABLES, user locks, prepared statements (but for their missing
  mark) and DDL other than its implicit commit.
- Redis: the data types, scripts and pub/sub (handlers under one lock, that
  interact only as the modelled ones do), sorted sets (they block as lists do),
  XREAD without a group, CLIENT PAUSE, MOVE and COPY between databases. Redis
  saves two files one after the other (`redis/server.rs:86`); each is whole, and
  that they are of one time is promised nowhere.
- Kafka: admin and ACL requests, KIP-848 groups, more than one partition in a
  topic; sizes and ages, which decide when the cleaner works.
- Elasticsearch: points in time, mappings, blocks, what pipelines and scripts
  compute, templates, snapshots, resizing, time-series indices.
- ClickHouse and MongoDB: one lock around each stateless request.
- The activity feed: a ring buffer for display, each operation one critical
  section. CLI, configuration and panel.
- The operating system: TCP delivers in order; rename is atomic; a written file
  survives the process (not a power failure).

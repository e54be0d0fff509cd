------------------------------ MODULE KafkaTxn ------------------------------
(***************************************************************************)
(* The Kafka service's producers and transactions (kafka/engine.rs):       *)
(* InitProducerId and fencing, idempotent and transactional Produce,       *)
(* AddPartitionsToTxn, AddOffsetsToTxn, TxnOffsetCommit and EndTxn, what   *)
(* they leave in the partitions' logs, topics created and deleted,         *)
(* DeleteRecords, and the snapshot a restart resumes from.                 *)
(*                                                                         *)
(* Every handler runs under the engine's one lock, so a request is one     *)
(* step; what interleaves is the requests of the clients.  A topic has one *)
(* partition here, and a transaction's offsets are one commit.             *)
(***************************************************************************)
EXTENDS KafkaLog

CONSTANTS
    Producers,    \* producer instances
    Tids, NoTid,  \* the transactional.id one is configured with, or none
    Partitions,
    Keys,         \* the records' keys
    Payloads,     \* what a batch is sent with
    EpochMax,     \* i16::MAX
    Behaviours,   \* what clients and operators do besides: sets of
                  \* BehaviourKinds, of which one execution sees one
    MaxOffset,    \* bound: records and markers when a batch is sent
    MaxKeyed,     \* bound: the same where records have keys
    MaxTxns,      \* bound: transactions
    MaxInits,     \* bound: InitProducerId requests
    MaxRestarts   \* bound: restarts of the process

(* "plain": producers without a producer id; "offsets": transactions that  *)
(* commit offsets; "lost": answers get lost and clients ask again;         *)
(* "truncate": DeleteRecords; "topics": topics are deleted and created;    *)
(* "clean", "kill": the process restarts after a save, or without one;     *)
(* "resume": a client goes on with its producer id after a restart;        *)
(* "unwritten": a client commits although it wrote nothing to a partition  *)
(* it added; "pipelined": a client has several batches in flight; "keys":  *)
(* records have keys; "retention" and "compact": the cleaner deletes old   *)
(* segments, or compacts; "wrap": an epoch goes past i16::MAX.             *)
BehaviourKinds == {"plain", "offsets", "lost", "truncate", "topics", "clean",
                   "kill", "resume", "unwritten", "pipelined", "keys", "retention",
                   "compact", "wrap"}

Record == {NoKey} \union {Value(k) : k \in Keys} \union {Tombstone(k) : k \in Keys}

ASSUME KafkaTxnAssumption ==
    /\ Behaviours \subseteq SUBSET BehaviourKinds
    /\ Payloads \subseteq Seq(Record) \ {<<>>}
    /\ {EpochMax, MaxOffset, MaxKeyed, MaxTxns, MaxInits, MaxRestarts} \subseteq Nat
    /\ NoTid \notin Tids
    /\ 0 \notin Producers

NoTag == <<>>

VARIABLES
    topics,        \* the partitions there are, each a PartitionState
    nextPid,       \* next_producer_id
    epochs,        \* producer_epochs
    txnProducers,  \* transactional id -> producer id and epoch
    txnParts,      \* txn_partitions
    pending,       \* txn_pending_offsets: the transactions that sent them
    offsets,       \* committed_offsets: the transaction the offset came from
    txnInfo,       \* TxnInfo.state
    disk,          \* the saved snapshot
    prod,          \* the clients
    committed,     \* transactions whose EndTxn(commit) was answered with 0
    abortd,        \* transactions that were aborted
    acks,          \* batches acknowledged, with the base offset answered
    restarts,
    unusual        \* the behaviours that occurred, for the properties

engine == <<topics, nextPid, epochs, txnProducers, txnParts, pending, offsets, txnInfo>>
history == <<committed, abortd, acks>>
vars == <<engine, disk, prod, history, restarts, unusual>>

(* Kinds that occur in one execution. *)
Together == {{}} \union UNION {SUBSET kinds : kinds \in Behaviours}

(* Behaviour of these kinds occurs. *)
Happens(kinds) ==
    /\ unusual \union kinds \in Together
    /\ unusual' = unusual \union kinds

(* Records and markers in all partitions. *)
Appended == FoldSet(LAMBDA p, n : n + topics[p].hw, 0, DOMAIN topics)

(* A client.  `on`: it has a producer id and has seen no fatal error.      *)
(* `unacked[p]`: the records of a batch whose answer was lost, to be sent  *)
(* again.                                                                  *)
NewProducer(t) ==
    [tid |-> t, on |-> FALSE, runs |-> 0, pid |-> -1, epoch |-> -1,
     seq |-> [p \in Partitions |-> 0], unacked |-> [p \in Partitions |-> <<>>],
     open |-> FALSE, txn |-> 0, failed |-> FALSE,
     added |-> {}, wrote |-> {}, offs |-> "none", ending |-> "no"]

Inits == FoldSet(LAMBDA i, n : n + prod[i].runs, 0, Producers)
Txns == FoldSet(LAMBDA i, n : n + prod[i].txn, 0, Producers)

TidOf(i) == prod[i].tid
Tag(i) == <<i, prod[i].txn>>
OpenTags(t) == {Tag(i) : i \in {j \in Producers : TidOf(j) = t /\ prod[j].open}}

Saved(parts) ==
    [topics |-> parts, nextPid |-> nextPid, offsets |-> offsets,
     committed |-> committed, acks |-> acks]

Init ==
    /\ topics = [p \in Partitions |-> NewPartition]
    /\ nextPid = 0
    /\ epochs = Empty /\ txnProducers = Empty
    /\ txnParts = Empty /\ pending = Empty
    /\ offsets = NoTag /\ txnInfo = Empty
    /\ disk = [topics |-> topics, nextPid |-> 0, offsets |-> NoTag,
               committed |-> {}, acks |-> {}]
    /\ \E tids \in [Producers -> Tids \union {NoTid}] :
          prod = [i \in Producers |-> NewProducer(tids[i])]
    /\ committed = {} /\ abortd = {} /\ acks = {}
    /\ restarts = 0 /\ unusual = {}

-----------------------------------------------------------------------------
(* complete_txn. *)

TxnIsOpen(t) ==
    \/ t \in DOMAIN txnParts /\ txnParts[t] # {}
    \/ t \in DOMAIN pending /\ pending[t] # <<>>

PartsOf(t) == IF t \in DOMAIN txnParts THEN txnParts[t] ELSE {}

(* The transaction's partitions on which it has written. *)
OpenOn(t, pid) ==
    {p \in PartsOf(t) \intersect DOMAIN topics : pid \in DOMAIN topics[p].active}

(* Where a commit finds the transaction closed and the producer among      *)
(* those with an aborted transaction: complete_txn returns there and then. *)
RefusedOn(t, pid) ==
    {p \in (PartsOf(t) \intersect DOMAIN topics) \ OpenOn(t, pid) :
        \E a \in topics[p].aborted : a.pid = pid}

LastSent(t) == pending[t][Len(pending[t])]

(* Faulty: an abort applies the pending offsets too. *)
Faulty_OffsetsAfter(t, commit) ==
    IF t \in DOMAIN pending /\ pending[t] # <<>>
      THEN LastSent(t) ELSE offsets

(* A commit applies the offsets sent in the transaction, an abort none. *)
OffsetsAfter(t, commit) ==
    IF commit /\ t \in DOMAIN pending /\ pending[t] # <<>>
      THEN LastSent(t) ELSE offsets

(* The partitions are visited in no particular order: `done` are the ones  *)
(* ended before a refusal, which is all of them when nothing refuses.      *)
CompleteTxn(t, pid, commit, done) ==
    LET refused == commit /\ RefusedOn(t, pid) # {}
    IN  /\ done \subseteq OpenOn(t, pid)
        /\ ~refused => done = OpenOn(t, pid)
        /\ topics' = [p \in DOMAIN topics |->
                        IF p \in done THEN EndOnPartition(topics[p], pid, commit)
                                      ELSE topics[p]]
        /\ txnParts' = Drop(txnParts, t)
        /\ pending' = Drop(pending, t)
        /\ offsets' = IF refused THEN offsets ELSE OffsetsAfter(t, commit)

-----------------------------------------------------------------------------
(* InitProducerId. *)

(* epoch.wrapping_add(1). *)
WrapEpoch(e) == IF e = EpochMax THEN -EpochMax - 1 ELSE e + 1

(* A transaction the previous instance left open is aborted. *)
AbortPrevious(t, pid) ==
    IF t # NoTid /\ TxnIsOpen(t)
      THEN CompleteTxn(t, pid, FALSE, OpenOn(t, pid))
      ELSE UNCHANGED <<topics, txnParts, pending, offsets>>

InitProducerId(i) ==
    LET t == TidOf(i)
        known == t \in DOMAIN txnProducers
        pid == IF known THEN txnProducers[t].pid ELSE nextPid
        epoch == IF known THEN WrapEpoch(txnProducers[t].epoch) ELSE 0
    IN  /\ ~prod[i].on /\ Inits < MaxInits
        /\ Happens(IF epoch < 0 THEN {"wrap"} ELSE {})
        /\ nextPid' = IF known THEN nextPid ELSE nextPid + 1
        /\ AbortPrevious(t, pid)
        /\ abortd' = IF t = NoTid THEN abortd ELSE abortd \union (OpenTags(t) \ committed)
        /\ txnInfo' = IF t = NoTid THEN txnInfo ELSE Put(txnInfo, t, "Empty")
        /\ txnProducers' = IF t = NoTid THEN txnProducers
                           ELSE Put(txnProducers, t, [pid |-> pid, epoch |-> epoch])
        /\ epochs' = Put(epochs, pid, epoch)
        /\ prod' = [prod EXCEPT ![i] =
                      [NewProducer(t) EXCEPT !.on = TRUE, !.runs = prod[i].runs + 1,
                         !.pid = pid, !.epoch = epoch, !.txn = prod[i].txn]]
        /\ UNCHANGED <<disk, committed, acks, restarts>>

(* Faulty: a stale epoch is let through. *)
Faulty_IsFenced(pid, epoch) == FALSE

IsFenced(pid, epoch) == pid \in DOMAIN epochs /\ epoch < epochs[pid]

-----------------------------------------------------------------------------
(* Produce. *)

(* A bound: segments are rolled where the cleaner has work to do, in the   *)
(* logs of records with keys, and there with every batch.                  *)
Rolls(records) == \E n \in DOMAIN records : records[n] # NoKey

SendKinds(records) == IF Rolls(records) THEN {"keys"} ELSE {}

(* The bounds on the logs.  Records with keys go to one partition, and     *)
(* none without to it: a compacted topic refuses them and nothing changes. *)
HasRoom(p, records) ==
    IF Rolls(records)
      THEN /\ Appended = 0 \/ ("keys" \in unusual /\ Appended = topics[p].hw)
           /\ Appended + Len(records) <= MaxKeyed
      ELSE "keys" \notin unusual /\ Appended + Len(records) <= MaxOffset

(* A producer without a producer id: no checks, the batch is appended. *)
PlainProduce(p) ==
    /\ p \in DOMAIN topics
    /\ \E records \in Payloads :
         /\ Happens({"plain"} \union SendKinds(records))
         /\ HasRoom(p, records)
         /\ topics' = [topics EXCEPT ![p] =
                         AppendBatch(@, Data(0, 0, 0, -1, -1, -1, records), Rolls(records))]
    /\ UNCHANGED <<nextPid, epochs, txnProducers, txnParts, pending, offsets,
                   txnInfo, disk, prod, history, restarts>>

BatchOf(i, p, seq, records) ==
    Data(i, prod[i].runs, IF prod[i].open THEN prod[i].txn ELSE 0,
         prod[i].pid, prod[i].epoch, seq, records)

(* What the client does with the answer: on success the next sequence      *)
(* number, on a lost answer the same batch again, on an error no more      *)
(* sends: a fenced client is finished, another aborts and starts over.     *)
AfterProduce(i, p, b, err, lost) ==
    IF lost THEN [prod EXCEPT ![i].unacked[p] = b.records, ![i].wrote = @ \union {p}]
    ELSE IF err = 0
      THEN [prod EXCEPT ![i].seq[p] = b.seq + Len(b.records), ![i].unacked[p] = <<>>,
                        ![i].wrote = @ \union {p}]
    ELSE IF err = 45 /\ prod[i].open THEN [prod EXCEPT ![i].failed = TRUE]
    ELSE [prod EXCEPT ![i].on = FALSE]

(* History: a batch was acknowledged. *)
Ack(i, p, b, base) ==
    [by |-> i, run |-> b.run, part |-> p, seq |-> b.seq, records |-> b.records, base |-> base]

Handled(i, p, b, lost) ==
    LET r == HandleProduce(topics[p], b, IsFenced(b.pid, b.epoch), Rolls(b.records))
    IN  /\ topics' = [topics EXCEPT ![p] = r.part]
        /\ prod' = AfterProduce(i, p, b, r.err, lost)
        /\ acks' = IF r.err = 0 /\ ~lost
                     THEN acks \union {Ack(i, p, b, r.base)}
                     ELSE acks
        /\ UNCHANGED <<nextPid, epochs, txnProducers, txnParts, pending, offsets,
                       txnInfo, disk, committed, abortd, restarts>>

(* The client can send a request of its open transaction. *)
InTxn(i) ==
    prod[i].on /\ prod[i].open /\ ~prod[i].failed /\ prod[i].ending = "no"

(* A client sends its next batch, or the one whose answer it lost. *)
Produce(i, p) ==
    /\ prod[i].on /\ p \in DOMAIN topics
    /\ TidOf(i) # NoTid => InTxn(i) /\ p \in prod[i].added
    /\ \E records \in IF prod[i].unacked[p] = <<>> THEN {r \in Payloads : HasRoom(p, r)}
                      ELSE {prod[i].unacked[p]},
          lost \in BOOLEAN :
         /\ Happens(SendKinds(records) \union IF lost THEN {"lost"} ELSE {})
         /\ Handled(i, p, BatchOf(i, p, prod[i].seq[p], records), lost)

(* Several batches were in flight and the answers to all were lost: the    *)
(* client sends them again, an older one first.                            *)
Resend(i, p) ==
    /\ prod[i].on /\ ~prod[i].failed /\ p \in DOMAIN topics
    /\ Happens({"pipelined"})
    /\ \E b \in topics[p].log :
       /\ b.by = i /\ b.run = prod[i].runs
       /\ LET r == HandleProduce(topics[p], b, IsFenced(b.pid, b.epoch), Rolls(b.records))
          IN  /\ topics' = [topics EXCEPT ![p] = r.part]
              /\ acks' = IF r.err = 0
                           THEN acks \union {Ack(i, p, b, r.base)}
                           ELSE acks
    /\ UNCHANGED <<nextPid, epochs, txnProducers, txnParts, pending, offsets,
                   txnInfo, disk, prod, committed, abortd, restarts>>

-----------------------------------------------------------------------------
(* Transactions. *)

(* beginTransaction, which the broker does not hear of. *)
BeginTxn(i) ==
    /\ prod[i].on /\ ~prod[i].open /\ TidOf(i) # NoTid
    /\ Txns < MaxTxns
    /\ prod' = [prod EXCEPT ![i].open = TRUE, ![i].txn = @ + 1,
                            ![i].added = {}, ![i].wrote = {}, ![i].offs = "none"]
    /\ UNCHANGED <<engine, disk, history, restarts, unusual>>

MarkTxnOngoing(t) == txnInfo' = Put(txnInfo, t, "Ongoing")

(* A fenced client gives up. *)
GiveUp(i) ==
    /\ prod' = [prod EXCEPT ![i].on = FALSE]
    /\ UNCHANGED <<engine, disk, history, restarts>>

AddPartitionsToTxn(i, p) ==
    /\ InTxn(i) /\ p \notin prod[i].added
    /\ UNCHANGED unusual
    /\ IF IsFenced(prod[i].pid, prod[i].epoch)
         THEN GiveUp(i)
         ELSE /\ txnParts' = Put(txnParts, TidOf(i), PartsOf(TidOf(i)) \union {p})
              /\ MarkTxnOngoing(TidOf(i))
              /\ prod' = [prod EXCEPT ![i].added = @ \union {p}]
              /\ UNCHANGED <<topics, nextPid, epochs, txnProducers, pending,
                             offsets, disk, history, restarts>>

AddOffsetsToTxn(i) ==
    /\ InTxn(i) /\ prod[i].offs = "none"
    /\ Happens({"offsets"})
    /\ IF IsFenced(prod[i].pid, prod[i].epoch)
         THEN GiveUp(i)
         ELSE /\ MarkTxnOngoing(TidOf(i))
              /\ prod' = [prod EXCEPT ![i].offs = "added"]
              /\ UNCHANGED <<topics, nextPid, epochs, txnProducers, txnParts,
                             pending, offsets, disk, history, restarts>>

TxnOffsetCommit(i) ==
    LET t == TidOf(i)
        held == IF t \in DOMAIN pending THEN pending[t] ELSE <<>>
    IN  /\ InTxn(i) /\ prod[i].offs = "added"
        /\ UNCHANGED unusual
        /\ IF IsFenced(prod[i].pid, prod[i].epoch)
             THEN GiveUp(i)
             ELSE /\ pending' = Put(pending, t, Append(held, Tag(i)))
                  /\ prod' = [prod EXCEPT ![i].offs = "sent"]
                  /\ UNCHANGED <<topics, nextPid, epochs, txnProducers, txnParts,
                                 offsets, txnInfo, disk, history, restarts>>

(* When a client may ask for a commit: every batch answered. *)
MayCommit(i) ==
    /\ ~prod[i].failed /\ prod[i].offs # "added"
    /\ \A p \in Partitions : prod[i].unacked[p] = <<>>

(* What is out of the ordinary in an EndTxn. *)
EndKinds(i, commit, lost) ==
    (IF lost THEN {"lost"} ELSE {}) \union
    (IF commit /\ ~(prod[i].added \subseteq prod[i].wrote) THEN {"unwritten"} ELSE {})

(* The client after its transaction ended.  One that aborted with a batch  *)
(* unanswered or refused asks for a new epoch.                             *)
AfterEnd(i) ==
    [prod EXCEPT ![i].open = FALSE, ![i].added = {}, ![i].wrote = {}, ![i].ending = "no",
                 ![i].on = ~prod[i].failed /\ \A p \in Partitions : prod[i].unacked[p] = <<>>]

(* EndTxn; when the answer is lost the client asks again. *)
EndTxn(i, commit, lost) ==
    LET t == TidOf(i)
        refused == commit /\ RefusedOn(t, prod[i].pid) # {}
    IN  /\ prod[i].on /\ prod[i].open
        /\ prod[i].ending \in {"no", IF commit THEN "commit" ELSE "abort"}
        /\ commit => MayCommit(i)
        /\ Happens(EndKinds(i, commit, lost))
        /\ IF IsFenced(prod[i].pid, prod[i].epoch)
             THEN GiveUp(i)
             ELSE /\ \E done \in SUBSET Partitions : CompleteTxn(t, prod[i].pid, commit, done)
                  /\ txnInfo' = IF refused \/ t \notin DOMAIN txnInfo THEN txnInfo
                                ELSE [txnInfo EXCEPT ![t] = IF commit THEN "CompleteCommit"
                                                                      ELSE "CompleteAbort"]
                  /\ prod' = IF lost THEN [prod EXCEPT ![i].ending =
                                              IF commit THEN "commit" ELSE "abort"]
                             ELSE IF refused THEN [prod EXCEPT ![i].on = FALSE]
                             ELSE AfterEnd(i)
                  /\ committed' = IF commit /\ ~refused THEN committed \union {Tag(i)}
                                                        ELSE committed
                  /\ abortd' = IF commit THEN abortd ELSE abortd \union {Tag(i)}
                  /\ UNCHANGED <<nextPid, epochs, txnProducers, disk, acks, restarts>>

-----------------------------------------------------------------------------
(* Topics and records. *)

NewTopic(p) ==
    /\ topics' = Put(topics, p, NewPartition)
    /\ UNCHANGED <<nextPid, epochs, txnProducers, txnParts, pending, offsets,
                   txnInfo, disk, prod, history, restarts, unusual>>

CreateTopic(p) == p \notin DOMAIN topics /\ NewTopic(p)

(* A Metadata request creates the topic it names, as a producer sends it   *)
(* before its first batch.                                                 *)
AutoCreateTopic(p) ==
    /\ p \notin DOMAIN topics
    /\ \E i \in Producers : prod[i].on /\ NewTopic(p)

(* DeleteTopics: what was acknowledged there is gone with the topic. *)
DeleteTopic(p) ==
    /\ Happens({"topics"}) /\ p \in DOMAIN topics
    /\ topics' = Drop(topics, p)
    /\ acks' = {a \in acks : a.part # p}
    /\ UNCHANGED <<nextPid, epochs, txnProducers, txnParts, pending, offsets,
                   txnInfo, disk, prod, committed, abortd, restarts>>

(* DeleteRecords, of a topic that is not only compacted. *)
DeleteRecords(p) ==
    /\ Happens({"truncate"}) /\ p \in DOMAIN topics
    /\ \E offset \in 1..topics[p].hw :
          topics' = [topics EXCEPT ![p] = TruncateFront(@, offset)]
    /\ UNCHANGED <<nextPid, epochs, txnProducers, txnParts, pending, offsets,
                   txnInfo, disk, prod, history, restarts>>

(* What the log cleaner may make of a partition, as its topic's            *)
(* cleanup.policy says: first compact, then delete.                        *)
Cleanings(part, policy) ==
    LET compacted == {part} \union IF "compact" \in policy THEN Compactions(part) ELSE {}
    IN  compacted \union IF "retention" \in policy
                            THEN UNION {Retained(x) : x \in compacted} ELSE {}

(* run_log_cleaner, once a second, a partition at a time: a pass over all  *)
(* of them is as many steps, in which nothing else happens to one.         *)
RunLogCleaner(p, policy) ==
    /\ p \in DOMAIN topics /\ policy # {} /\ Happens(policy)
    /\ \E after \in Cleanings(topics[p], policy) \ {topics[p]} :
          topics' = [topics EXCEPT ![p] = after]
    /\ UNCHANGED <<nextPid, epochs, txnProducers, txnParts, pending, offsets,
                   txnInfo, disk, prod, history, restarts>>

-----------------------------------------------------------------------------
(* The snapshot and a restart. *)

(* The partitions a snapshot can hold. *)
Snapshots ==
    {[p \in DOMAIN topics |-> Resolve(topics[p], places[p])] :
        places \in {f \in [DOMAIN topics -> UNION {Places(topics[p]) : p \in DOMAIN topics}] :
                      \A p \in DOMAIN topics : f[p] \in Places(topics[p])}}

(* The autosave: the running broker keeps its transactions open. *)
Save ==
    /\ Happens({"kill"}) /\ restarts < MaxRestarts
    /\ \E parts \in Snapshots : disk' = Saved(parts)
    /\ UNCHANGED <<engine, prod, history, restarts>>

(* from_snapshot: producer epochs and transactions start empty.  The       *)
(* clients ask for new producer ids, or go on with theirs.                 *)
Load(saved, resume) ==
    /\ topics' = saved.topics
    /\ nextPid' = saved.nextPid
    /\ offsets' = saved.offsets
    /\ epochs' = Empty /\ txnProducers' = Empty
    /\ txnParts' = Empty /\ pending' = Empty /\ txnInfo' = Empty
    /\ disk' = saved
    /\ committed' = saved.committed
    /\ acks' = saved.acks
    /\ abortd' = abortd \union
         {Tag(i) : i \in {j \in Producers : /\ prod[j].open
              /\ \E p \in DOMAIN saved.topics : \E b \in saved.topics[p].log :
                    b.by = j /\ b.txn = prod[j].txn
              /\ Tag(j) \notin saved.committed}}
    /\ prod' = IF resume THEN prod
               ELSE [i \in Producers |-> [prod[i] EXCEPT !.on = FALSE]]
    /\ restarts' = restarts + 1

(* The process is stopped, saving last, or killed. *)
Restart ==
    /\ restarts < MaxRestarts
    /\ \E resume \in BOOLEAN : LET also == IF resume THEN {"resume"} ELSE {} IN
          \/ /\ Happens({"clean"} \union also)
             /\ \E parts \in Snapshots : Load(Saved(parts), resume)
          \/ Happens({"kill"} \union also) /\ Load(disk, resume)

Next ==
    \/ \E i \in Producers : \/ InitProducerId(i)
                            \/ BeginTxn(i)
                            \/ AddOffsetsToTxn(i)
                            \/ TxnOffsetCommit(i)
                            \/ \E commit \in BOOLEAN, lost \in BOOLEAN : EndTxn(i, commit, lost)
    \/ \E i \in Producers, p \in Partitions :
          \/ AddPartitionsToTxn(i, p)
          \/ Produce(i, p)
          \/ Resend(i, p)
    \/ \E p \in Partitions : \/ PlainProduce(p)
                             \/ CreateTopic(p)
                             \/ AutoCreateTopic(p)
                             \/ DeleteTopic(p)
                             \/ DeleteRecords(p)
                             \/ \E policy \in SUBSET {"compact", "retention"} :
                                   RunLogCleaner(p, policy)
    \/ Save
    \/ Restart

Spec == Init /\ [][Next]_vars

-----------------------------------------------------------------------------
(* Properties. *)

Log(p) == topics[p].log
DataBatches(p) == {b \in Log(p) : b.kind = "data" /\ b.by # 0}

(* handle_produce's sequence check: however often a batch is sent, the log *)
(* holds it once.                                                          *)
AtMostOnce ==
    \A p \in DOMAIN topics : \A b, c \in DataBatches(p) :
        b.by = c.by /\ b.run = c.run /\ b.seq = c.seq => b = c

(* The log holds the n-th record of an acknowledged batch. *)
Holds(p, a, n) ==
    \E b \in DataBatches(p) : /\ b.by = a.by /\ b.run = a.run /\ b.seq = a.seq
                              /\ b.at = a.base /\ n \in b.kept

(* The plain records of a key that are left, from `lo` on and below `hi`.  *)
LeftOf(p, key, lo, hi) ==
    {b \in Log(p) : Plain(b) /\ \E n \in b.kept :
        Keyed(b, n) /\ Key(b, n) = key /\ Offset(b, n) \in lo..(hi - 1)}

(* A key was deleted at or after an offset, and with the tombstone gone    *)
(* nothing is left that it deleted.                                        *)
DeletedFrom(p, key, off) ==
    \E g \in topics[p].gone : /\ g.key = key /\ g.off >= off
                              /\ LeftOf(p, key, 0, g.off + 1) = {}

(* A record of a batch answered with error 0 is in the log, at the offset  *)
(* the answer gave (handle_produce), until the log start moves past it     *)
(* (DeleteRecords, retention) or compaction drops it: for a later record   *)
(* of its key that is there, or because its key was deleted, and then the  *)
(* tombstone does not go before the records it deletes (compact).          *)
(* The exceptions: a duplicate of a batch that is not the producer's last  *)
(* is answered with the last one's offset; and a producer id given out     *)
(* since the last save is given out again after a kill, and batches of     *)
(* whoever kept it pass for duplicates of the new one's.                   *)
AcksTrue ==
    "pipelined" \notin unusual /\ ~({"kill", "resume"} \subseteq unusual) =>
        \A a \in acks : a.part \in DOMAIN topics =>
            \A n \in DOMAIN a.records : LET off == a.base + n - 1 IN
                \/ off < topics[a.part].start
                \/ Holds(a.part, a, n)
                \/ /\ "compact" \in unusual /\ a.records[n] # NoKey
                   /\ \/ LeftOf(a.part, a.records[n][1], off + 1, topics[a.part].hw) # {}
                      \/ DeletedFrom(a.part, a.records[n][1], off)

(* A superseded instance may pass for the current one: an epoch wrapped,   *)
(* so the old one is the higher (InitProducerId), or a client went on with *)
(* its producer id over a restart, which forgets the epochs and aborts     *)
(* open transactions (from_snapshot).                                      *)
Unfenced == unusual \intersect {"resume", "wrap"} # {}

(* The records a consumer is owed: those of no transaction or a committed  *)
(* one, below the last stable offset.                                      *)
Owed(p) ==
    {b \in Log(p) : /\ b.kind = "data" /\ BaseOffset(b) < LastStable(topics[p])
                    /\ b.txn # 0 => <<b.by, b.txn>> \in committed}

(* A read_committed consumer never gets a record of a transaction that is  *)
(* open or aborted, wherever in the log it fetches from (handle_fetch).    *)
(* The exceptions: DeleteRecords and retention forget an aborted           *)
(* transaction whose first batch they delete, with later ones still there, *)
(* and a commit with a partition that was added and not written can be     *)
(* refused half done.                                                      *)
(* And reading from the log's start it gets every committed record below   *)
(* the last stable offset.                                                 *)
(* The exception to both: an instance that is not fenced has its records   *)
(* committed with those of its successor, whose producer id it has, and    *)
(* its commit is answered with success although it was aborted.            *)
ReadCommitted ==
    ~Unfenced => \A p \in DOMAIN topics :
        /\ unusual \intersect {"truncate", "retention", "unwritten"} = {} =>
               \A off \in 0..topics[p].hw : \A b \in Delivered(topics[p], off) :
                   b.txn # 0 => <<b.by, b.txn>> \in committed
        /\ Owed(p) \subseteq Delivered(topics[p], topics[p].start)

(* committed_offsets only ever hold offsets of transactions that           *)
(* committed: TxnOffsetCommit's wait for EndTxn.  The exception: those of  *)
(* an instance that is not fenced wait with its successor's.               *)
OffsetsAtomic == ~Unfenced /\ offsets # NoTag => offsets \in committed

(* A commit of a transaction the broker aborted is never answered with     *)
(* success: a transaction aborted for a new instance of its client stays   *)
(* aborted, its owner being fenced (InitProducerId), and so does one       *)
(* aborted in a snapshot whose client starts over with a new producer id.  *)
(* The exceptions: a client that goes on with its producer id over a       *)
(* restart is answered 0, since complete_txn finds txn_partitions empty    *)
(* and never gets to the aborted transactions; and an instance that is not *)
(* fenced commits, or finds nothing to commit, and is answered 0 too.      *)
AbortIsFinal == ~Unfenced => committed \intersect abortd = {}
=============================================================================

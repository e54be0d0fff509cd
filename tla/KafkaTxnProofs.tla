--------------------------- MODULE KafkaTxnProofs ---------------------------
(***************************************************************************)
(* OffsetsAtomic and AbortIsFinal of KafkaTxn, for any number of           *)
(* producers, transactional ids, partitions, transactions and restarts.    *)
(*                                                                         *)
(* A commit applies whatever offsets wait under its transactional id, so   *)
(* they must have been sent in the transaction that commits, though        *)
(* several instances of an application share the id.  IInv says why: at    *)
(* most one running instance has the epoch the broker knows, the others    *)
(* are fenced; what waits was sent by an instance in a transaction that is *)
(* still open, and no other instance has the current epoch meanwhile,      *)
(* since every InitProducerId throws away what waits.                      *)
(***************************************************************************)
EXTENDS KafkaTxn, TLAPS

\* The fields of a client that matter here.
Used == {"tid", "on", "pid", "epoch", "open", "txn", "ending"}
AllTags == Producers \X Nat

(* What OffsetsAtomic and AbortIsFinal say where every superseded instance *)
(* is fenced.                                                              *)
OffsetsSound == offsets # NoTag => offsets \in committed
NoneBoth == committed \intersect abortd = {}

Clients ==
    /\ DOMAIN prod = Producers
    /\ \A i \in Producers : /\ Used \subseteq DOMAIN prod[i]
                            /\ prod[i].txn \in Nat /\ prod[i].epoch \in Int
                            /\ prod[i].open => prod[i].tid # NoTid

(* A transactional id has a producer id of its own and a current epoch. *)
Ids ==
    /\ nextPid \in Nat
    /\ NoTid \notin DOMAIN txnProducers
    /\ \A t \in DOMAIN txnProducers :
          /\ txnProducers[t].pid \in Nat /\ txnProducers[t].pid < nextPid
          /\ txnProducers[t].epoch \in Int
          /\ txnProducers[t].pid \in DOMAIN epochs
          /\ epochs[txnProducers[t].pid] = txnProducers[t].epoch
    /\ \A t, u \in DOMAIN txnProducers : txnProducers[t].pid = txnProducers[u].pid => t = u

(* The running instances of an application have its producer id and        *)
(* different epochs, up to the current one.                                *)
Instances ==
    /\ \A i \in Producers : prod[i].on /\ prod[i].tid # NoTid =>
          /\ prod[i].tid \in DOMAIN txnProducers
          /\ prod[i].pid = txnProducers[prod[i].tid].pid
          /\ prod[i].epoch <= txnProducers[prod[i].tid].epoch
    /\ \A i, j \in Producers :
          /\ prod[i].on /\ prod[j].on /\ prod[i].tid = prod[j].tid
          /\ prod[i].tid # NoTid /\ prod[i].epoch = prod[j].epoch
          => i = j

(* Instance `i` of `t` is in a transaction, and no other one that runs has *)
(* the current epoch.                                                      *)
Owner(t, i) ==
    /\ prod[i].tid = t /\ prod[i].open
    /\ \A j \in Producers : prod[j].on /\ prod[j].tid = t
                              /\ prod[j].epoch = txnProducers[t].epoch => j = i

(* The offsets that wait were sent by their id's owner. *)
Waiting ==
    \A t \in DOMAIN pending :
        /\ pending[t] \in Seq(AllTags)
        /\ pending[t] # <<>> =>
              /\ t \in DOMAIN txnProducers
              /\ \E i \in Producers : Owner(t, i) /\ LastSent(t) = Tag(i)

Stored ==
    /\ OffsetsSound
    /\ disk.nextPid \in Nat
    /\ disk.offsets # NoTag => disk.offsets \in disk.committed

(* Transactions that ended are not of the future, and the one a running    *)
(* instance that is not fenced still has open ended only as it is asking.  *)
Ended ==
    /\ NoneBoth
    /\ disk.committed \subseteq committed
    /\ \A i \in Producers, n \in Nat : <<i, n>> \in committed \union abortd => n <= prod[i].txn
    /\ \A i \in Producers :
          prod[i].on /\ prod[i].open /\ prod[i].epoch = txnProducers[prod[i].tid].epoch =>
              /\ Tag(i) \in committed => prod[i].ending = "commit"
              /\ Tag(i) \in abortd => prod[i].ending = "abort"

IInv == Clients /\ Ids /\ Instances /\ Waiting /\ Stored /\ Ended

-----------------------------------------------------------------------------
(* Init: nobody runs and nothing waits. *)
LEMMA InitSound == Init => IInv
<1> SUFFICES ASSUME Init PROVE IInv
  OBVIOUS
<1>1. PICK tids \in [Producers -> Tids \union {NoTid}] :
          prod = [i \in Producers |-> NewProducer(tids[i])]
  BY DEF Init
<1>2. Clients
  BY <1>1 DEF Clients, NewProducer, Used
<1>3. Ids
  BY DEF Init, Ids, Empty
<1>4. Instances
  BY <1>1 DEF Instances, NewProducer
<1>5. Waiting
  BY DEF Init, Waiting, Empty
<1>6. Stored
  BY DEF Init, Stored, OffsetsSound
<1>7. Ended
  BY <1>1 DEF Init, Ended, NoneBoth, NewProducer
<1> QED
  BY <1>2, <1>3, <1>4, <1>5, <1>6, <1>7 DEF IInv

(* A step that only lets clients stop, or changes their other fields and   *)
(* the logs.                                                               *)
Quiet ==
    /\ UNCHANGED <<nextPid, epochs, txnProducers, pending, offsets, disk, committed, abortd>>
    /\ DOMAIN prod' = Producers
    /\ \A i \in Producers :
          /\ DOMAIN prod'[i] = DOMAIN prod[i]
          /\ prod'[i].tid = prod[i].tid /\ prod'[i].pid = prod[i].pid
          /\ prod'[i].epoch = prod[i].epoch
          /\ prod'[i].open = prod[i].open /\ prod'[i].txn = prod[i].txn
          /\ prod'[i].ending = prod[i].ending
          /\ prod'[i].on => prod[i].on

LEMMA QuietKeeps == IInv /\ Quiet => IInv'
<1> SUFFICES ASSUME IInv, Quiet PROVE IInv'
  OBVIOUS
<1>1. Clients'
  BY DEF IInv, Clients, Quiet
<1>2. Ids'
  BY DEF IInv, Ids, Quiet
<1>3. Instances'
  BY DEF IInv, Instances, Quiet
<1>4. Waiting'
  <2> SUFFICES ASSUME NEW t \in DOMAIN pending
               PROVE /\ pending[t] \in Seq(AllTags)
                     /\ pending[t] # <<>> =>
                          /\ t \in DOMAIN txnProducers
                          /\ \E i \in Producers : Owner(t, i)' /\ LastSent(t) = Tag(i)'
    BY DEF Quiet, Waiting, LastSent
  <2>1. pending[t] \in Seq(AllTags)
    BY DEF IInv, Waiting
  <2>2. ASSUME pending[t] # <<>>
        PROVE  /\ t \in DOMAIN txnProducers
               /\ \E i \in Producers : Owner(t, i)' /\ LastSent(t) = Tag(i)'
    <3>1. t \in DOMAIN txnProducers
      BY <2>2 DEF IInv, Waiting
    <3>2. PICK i \in Producers : Owner(t, i) /\ LastSent(t) = Tag(i)
      BY <2>2 DEF IInv, Waiting
    <3>3. Owner(t, i)'
      BY <3>2 DEF Owner, Quiet
    <3>4. Tag(i)' = Tag(i)
      BY DEF Tag, Quiet
    <3> QED
      BY <3>1, <3>2, <3>3, <3>4
  <2> QED
    BY <2>1, <2>2
<1>5. Stored'
  BY DEF IInv, Stored, OffsetsSound, Quiet
<1>6. Ended'
  <2>1. \A i \in Producers : Tag(i)' = Tag(i)
    BY DEF Tag, Quiet
  <2> QED
    BY <2>1 DEF IInv, Ended, NoneBoth, Quiet
<1> QED
  BY <1>1, <1>2, <1>3, <1>4, <1>5, <1>6 DEF IInv

(* Requests, timers and topics that neither start nor end a transaction    *)
(* nor send offsets are quiet.                                             *)
LEMMA SendsAreQuiet ==
    ASSUME IInv, NEW i \in Producers, NEW p \in Partitions,
           Produce(i, p) \/ Resend(i, p) \/ AddPartitionsToTxn(i, p) \/ AddOffsetsToTxn(i)
    PROVE  Quiet
<1> USE DEF IInv, Clients, Used
<1>1. CASE Produce(i, p)
  <2>1. PICK records \in Payloads \union {prod[i].unacked[p]}, lost \in BOOLEAN :
            Handled(i, p, BatchOf(i, p, prod[i].seq[p], records), lost)
    BY <1>1 DEF Produce
  <2> DEFINE b == BatchOf(i, p, prod[i].seq[p], records)
  <2>2. /\ UNCHANGED <<nextPid, epochs, txnProducers, pending, offsets, disk, committed, abortd>>
        /\ \E err : prod' = AfterProduce(i, p, b, err, lost)
    BY <2>1 DEF Handled
  <2> HIDE DEF b
  <2> QED
    BY <2>2 DEF AfterProduce, Quiet
<1>2. CASE Resend(i, p)
  BY <1>2 DEF Resend, Quiet
<1>3. CASE AddPartitionsToTxn(i, p)
  BY <1>3 DEF AddPartitionsToTxn, GiveUp, engine, history, Quiet
<1>4. CASE AddOffsetsToTxn(i)
  BY <1>4 DEF AddOffsetsToTxn, GiveUp, engine, history, Quiet
<1> QED
  BY <1>1, <1>2, <1>3, <1>4

(* So is what happens to topics and logs. *)
LEMMA TopicsAreQuiet ==
    ASSUME IInv, NEW p \in Partitions,
           \/ PlainProduce(p) \/ CreateTopic(p) \/ AutoCreateTopic(p) \/ DeleteTopic(p)
           \/ DeleteRecords(p)
           \/ \E policy \in SUBSET {"compact", "retention"} : RunLogCleaner(p, policy)
    PROVE  Quiet
<1>1. UNCHANGED <<nextPid, epochs, txnProducers, pending, offsets, disk, committed,
               abortd, prod>>
  BY DEF PlainProduce, CreateTopic, AutoCreateTopic, NewTopic, DeleteTopic, DeleteRecords,
         RunLogCleaner, history
<1> QED
  BY <1>1 DEF IInv, Clients, Quiet

-----------------------------------------------------------------------------
(* InitProducerId: the new instance is the only one with the new epoch,    *)
(* and nothing of its predecessor's waits any more.                        *)
LEMMA InitProducerIdKeeps ==
    ASSUME IInv, NEW i \in Producers, InitProducerId(i), ~Unfenced'
    PROVE  IInv'
<1> DEFINE t == TidOf(i)
           known == t \in DOMAIN txnProducers
           id == IF known THEN txnProducers[t].pid ELSE nextPid
           ep == IF known THEN WrapEpoch(txnProducers[t].epoch) ELSE 0
<1>1. /\ ~prod[i].on
      /\ nextPid' = IF known THEN nextPid ELSE nextPid + 1
      /\ AbortPrevious(t, id)
      /\ txnProducers' = IF t = NoTid THEN txnProducers
                         ELSE Put(txnProducers, t, [pid |-> id, epoch |-> ep])
      /\ epochs' = Put(epochs, id, ep)
      /\ prod' = [prod EXCEPT ![i] =
                    [NewProducer(t) EXCEPT !.on = TRUE, !.runs = prod[i].runs + 1,
                       !.pid = id, !.epoch = ep, !.txn = prod[i].txn]]
      /\ abortd' = IF t = NoTid THEN abortd ELSE abortd \union (OpenTags(t) \ committed)
      /\ UNCHANGED <<disk, committed>>
  BY DEF InitProducerId
<1>2. /\ DOMAIN prod' = Producers
      /\ \A j \in Producers \ {i} : prod'[j] = prod[j]
      /\ Used \subseteq DOMAIN prod'[i]
      /\ prod'[i].tid = t /\ prod'[i].on /\ prod'[i].pid = id /\ prod'[i].epoch = ep
      /\ prod'[i].open = FALSE /\ prod'[i].txn = prod[i].txn
  BY <1>1 DEF IInv, Clients, NewProducer, Used
<1>3. /\ ep \in Int
      /\ known => ep > txnProducers[t].epoch
  <2>1. CASE known
    <3>1. t # NoTid /\ txnProducers[t].epoch \in Int
      BY <2>1 DEF IInv, Ids
    <3>2. EpochMax \in Nat
      BY KafkaTxnAssumption
    <3>3. Happens(IF ep < 0 THEN {"wrap"} ELSE {})
      BY DEF InitProducerId
    <3>4. ep >= 0
      BY <3>1, <3>2, <3>3 DEF Happens, Unfenced, WrapEpoch
    <3> QED
      BY <2>1, <3>1, <3>2, <3>4 DEF WrapEpoch
  <2>2. CASE ~known
    BY <2>2
  <2> QED
    BY <2>1, <2>2
<1>4. /\ \A u \in DOMAIN pending' : u \in DOMAIN pending /\ pending'[u] = pending[u]
      /\ t \in DOMAIN pending' /\ t # NoTid => pending'[t] = <<>>
      /\ offsets' = offsets
  BY <1>1 DEF AbortPrevious, TxnIsOpen, CompleteTxn, OffsetsAfter, Drop
<1>5. id \in Nat /\ (known \/ id = nextPid) /\ (known => t # NoTid)
  BY DEF IInv, Ids
<1> HIDE DEF known, id, ep
<1>6. Clients'
  <2>1. t = prod[i].tid
    BY DEF TidOf
  <2> QED
    BY <1>2, <1>3, <2>1 DEF IInv, Clients
<1>7. Ids'
  <2>1. CASE t = NoTid
    <3>1. ~known /\ UNCHANGED txnProducers /\ nextPid' = nextPid + 1 /\ id = nextPid
      BY <2>1, <1>1, <1>5
    <3>2. \A u \in DOMAIN txnProducers : txnProducers[u].pid # id
      BY <3>1 DEF IInv, Ids
    <3>3. \A x \in DOMAIN epochs \ {id} : x \in DOMAIN epochs' /\ epochs'[x] = epochs[x]
      BY <1>1 DEF Put
    <3>4. nextPid' \in Nat /\ nextPid < nextPid'
      BY <3>1 DEF IInv, Ids
    <3>5. \A u \in DOMAIN txnProducers :
             /\ txnProducers[u].pid < nextPid' /\ txnProducers[u].pid \in DOMAIN epochs'
             /\ epochs'[txnProducers[u].pid] = txnProducers[u].epoch
      BY <3>2, <3>3, <3>4 DEF IInv, Ids
    <3> QED
      BY <3>1, <3>4, <3>5 DEF IInv, Ids
  <2>2. CASE t # NoTid
    <3>1. /\ DOMAIN txnProducers' = DOMAIN txnProducers \union {t}
          /\ txnProducers'[t].pid = id /\ txnProducers'[t].epoch = ep
          /\ \A u \in DOMAIN txnProducers \ {t} : txnProducers'[u] = txnProducers[u]
      BY <2>2, <1>1 DEF Put
    <3>2. \A u \in DOMAIN txnProducers \ {t} : txnProducers[u].pid # id
      BY <1>5 DEF IInv, Ids, known, id
    <3>3. nextPid' \in Nat /\ id < nextPid' /\ nextPid' >= nextPid
      BY <1>1, <1>5 DEF IInv, Ids, known, id
    <3>4. /\ epochs'[id] = ep /\ id \in DOMAIN epochs'
          /\ \A x \in DOMAIN epochs \ {id} : x \in DOMAIN epochs' /\ epochs'[x] = epochs[x]
      BY <1>1 DEF Put
    <3>5. ASSUME NEW u \in DOMAIN txnProducers'
          PROVE  /\ txnProducers'[u].pid \in Nat /\ txnProducers'[u].pid < nextPid'
                 /\ txnProducers'[u].epoch \in Int
                 /\ txnProducers'[u].pid \in DOMAIN epochs'
                 /\ epochs'[txnProducers'[u].pid] = txnProducers'[u].epoch
      <4>1. CASE u = t
        BY <4>1, <3>1, <3>3, <3>4, <1>3, <1>5
      <4>2. CASE u # t
        BY <4>2, <3>1, <3>2, <3>3, <3>4 DEF IInv, Ids
      <4> QED
        BY <4>1, <4>2
    <3>6. \A u, v \in DOMAIN txnProducers' :
             txnProducers'[u].pid = txnProducers'[v].pid => u = v
      BY <3>1, <3>2 DEF IInv, Ids
    <3>7. NoTid \notin DOMAIN txnProducers'
      BY <2>2, <3>1 DEF IInv, Ids
    <3> QED
      BY <3>3, <3>5, <3>6, <3>7 DEF Ids
  <2> QED
    BY <2>1, <2>2
<1>8. Instances'
  <2>1. CASE t = NoTid
    BY <2>1, <1>1, <1>2 DEF IInv, Instances
  <2>2. CASE t # NoTid
    <3>1. /\ t \in DOMAIN txnProducers'
          /\ txnProducers'[t].pid = id /\ txnProducers'[t].epoch = ep
          /\ \A u \in DOMAIN txnProducers \ {t} : /\ u \in DOMAIN txnProducers'
                                                  /\ txnProducers'[u] = txnProducers[u]
      BY <2>2, <1>1 DEF Put
    <3>2. ASSUME NEW j \in Producers \ {i}, prod[j].on, prod[j].tid = t
          PROVE  prod[j].pid = id /\ prod[j].epoch < ep /\ prod[j].epoch \in Int
      <4>1. known /\ prod[j].pid = txnProducers[t].pid /\ prod[j].epoch <= txnProducers[t].epoch
        BY <2>2, <3>2 DEF IInv, Instances, known
      <4>2. prod[j].epoch \in Int /\ txnProducers[t].epoch \in Int
        BY <4>1 DEF IInv, Clients, Ids, known
      <4> QED
        BY <4>1, <4>2, <1>3 DEF id
    <3>3. ASSUME NEW j \in Producers, prod'[j].on, prod'[j].tid # NoTid
          PROVE  /\ prod'[j].tid \in DOMAIN txnProducers'
                 /\ prod'[j].pid = txnProducers'[prod'[j].tid].pid
                 /\ prod'[j].epoch <= txnProducers'[prod'[j].tid].epoch
      <4>1. CASE j = i
        BY <4>1, <1>2, <1>3, <3>1
      <4>2. CASE j # i /\ prod[j].tid = t
        BY <4>2, <1>2, <1>3, <3>1, <3>2, <3>3
      <4>3. CASE j # i /\ prod[j].tid # t
        BY <4>3, <1>2, <3>1, <3>3 DEF IInv, Instances
      <4> QED
        BY <4>1, <4>2, <4>3
    <3>4. ASSUME NEW j \in Producers, NEW k \in Producers,
                 prod'[j].on, prod'[k].on, prod'[j].tid = prod'[k].tid,
                 prod'[j].tid # NoTid, prod'[j].epoch = prod'[k].epoch
          PROVE  j = k
      <4>1. CASE j # i /\ k # i
        BY <4>1, <1>2, <3>4 DEF IInv, Instances
      <4>2. CASE j = i /\ k # i
        BY <4>2, <1>2, <1>3, <3>2, <3>4
      <4>3. CASE j # i /\ k = i
        BY <4>3, <1>2, <1>3, <3>2, <3>4
      <4> QED
        BY <4>1, <4>2, <4>3
    <3> QED
      BY <3>3, <3>4 DEF Instances
  <2> QED
    BY <2>1, <2>2
<1>9. Waiting'
  <2>1. ASSUME NEW u \in DOMAIN pending'
        PROVE  pending'[u] \in Seq(AllTags)
    BY <1>4 DEF IInv, Waiting
  <2>2. ASSUME NEW u \in DOMAIN pending', pending'[u] # <<>>
        PROVE  /\ u \in DOMAIN txnProducers'
               /\ \E k \in Producers : Owner(u, k)' /\ LastSent(u)' = Tag(k)'
    <3>1. u \in DOMAIN pending /\ pending[u] # <<>> /\ pending'[u] = pending[u]
      BY <1>4, <2>2
    <3>2. u \in DOMAIN txnProducers
      BY <3>1 DEF IInv, Waiting
    <3>3. u # t
      BY <3>2, <1>4, <2>2 DEF IInv, Ids
    <3>4. u \in DOMAIN txnProducers' /\ txnProducers'[u] = txnProducers[u]
      BY <3>2, <3>3, <1>1 DEF Put
    <3>5. PICK k \in Producers : Owner(u, k) /\ LastSent(u) = Tag(k)
      BY <3>1 DEF IInv, Waiting
    <3>6. k # i
      BY <3>3, <3>5 DEF Owner, TidOf
    <3>7. Owner(u, k)'
      BY <1>2, <3>3, <3>4, <3>5, <3>6 DEF Owner
    <3>8. Tag(k)' = Tag(k)
      BY <1>2, <3>6 DEF Tag
    <3> QED
      BY <3>1, <3>4, <3>5, <3>7, <3>8 DEF LastSent
  <2> QED
    BY <2>1, <2>2 DEF Waiting
<1>10. Stored'
  BY <1>1, <1>4 DEF IInv, Stored, OffsetsSound
<1>11. Ended'
  <2>1. \A k \in Producers : prod'[k].txn = prod[k].txn
    BY <1>2
  <2>2. \A x \in abortd' : x \in abortd \/ (x \in OpenTags(t) /\ x \notin committed)
    BY <1>1
  <2>3. NoneBoth'
    BY <1>1, <2>2 DEF IInv, Ended, NoneBoth
  <2>4. disk'.committed \subseteq committed'
    BY <1>1 DEF IInv, Ended
  <2>5. ASSUME NEW k \in Producers, NEW n \in Nat, <<k, n>> \in committed' \union abortd'
        PROVE  n <= prod'[k].txn
    <3>1. CASE <<k, n>> \in committed \union abortd
      BY <2>1, <3>1 DEF IInv, Ended
    <3>2. CASE <<k, n>> \in OpenTags(t)
      BY <2>1, <3>2 DEF OpenTags, Tag
    <3> QED
      BY <1>1, <2>2, <2>5, <3>1, <3>2
  <2>6. ASSUME NEW k \in Producers, prod'[k].on, prod'[k].open,
               prod'[k].epoch = txnProducers'[prod'[k].tid].epoch
        PROVE  /\ Tag(k)' \in committed' => prod'[k].ending = "commit"
               /\ Tag(k)' \in abortd' => prod'[k].ending = "abort"
    <3>1. k # i /\ prod'[k] = prod[k] /\ Tag(k)' = Tag(k)
      BY <1>2, <2>6 DEF Tag
    <3>2. prod[k].tid # NoTid
      BY <3>1, <2>6 DEF IInv, Clients
    <3>3. prod[k].tid # t
      <4> SUFFICES ASSUME prod[k].tid = t PROVE FALSE
        OBVIOUS
      <4>1. known /\ prod[k].epoch <= txnProducers[t].epoch
        BY <2>6, <3>1, <3>2 DEF IInv, Instances, known
      <4>2. txnProducers'[t].epoch = ep
        BY <1>1, <3>2 DEF Put
      <4>3. prod[k].epoch \in Int /\ txnProducers[t].epoch \in Int
        BY <4>1 DEF IInv, Clients, Ids, known
      <4> QED
        BY <1>3, <2>6, <3>1, <4>1, <4>2, <4>3
    <3>4. Tag(k) \notin OpenTags(t)
      BY <3>3 DEF OpenTags, Tag, TidOf
    <3>5. prod[k].epoch = txnProducers[prod[k].tid].epoch
      <4>1. prod[k].tid \in DOMAIN txnProducers
        BY <2>6, <3>1, <3>2 DEF IInv, Instances
      <4>2. txnProducers'[prod[k].tid] = txnProducers[prod[k].tid]
        BY <1>1, <3>3, <4>1 DEF Put
      <4> QED
        BY <2>6, <3>1, <4>2
    <3> QED
      BY <1>1, <2>2, <2>6, <3>1, <3>4, <3>5 DEF IInv, Ended
  <2> QED
    BY <2>3, <2>4, <2>5, <2>6 DEF Ended
<1> QED
  BY <1>6, <1>7, <1>8, <1>9, <1>10, <1>11 DEF IInv

-----------------------------------------------------------------------------
(* beginTransaction: the client had none open, so nothing of its waits. *)
LEMMA BeginTxnKeeps ==
    ASSUME IInv, NEW i \in Producers, BeginTxn(i)
    PROVE  IInv'
<1>1. /\ ~prod[i].open /\ prod[i].tid # NoTid
      /\ UNCHANGED <<nextPid, epochs, txnProducers, pending, offsets, disk, committed, abortd>>
  BY DEF BeginTxn, TidOf, engine, history
<1>2. /\ DOMAIN prod' = Producers
      /\ \A j \in Producers \ {i} : prod'[j] = prod[j]
      /\ DOMAIN prod'[i] = DOMAIN prod[i]
      /\ prod'[i].tid = prod[i].tid /\ prod'[i].on = prod[i].on
      /\ prod'[i].pid = prod[i].pid /\ prod'[i].epoch = prod[i].epoch
      /\ prod'[i].txn = prod[i].txn + 1
  BY DEF BeginTxn, IInv, Clients, Used
<1>3. \A j \in Producers : /\ prod'[j].tid = prod[j].tid /\ prod'[j].on = prod[j].on
                            /\ prod'[j].pid = prod[j].pid /\ prod'[j].epoch = prod[j].epoch
                            /\ DOMAIN prod'[j] = DOMAIN prod[j]
  BY <1>2
<1>4. Clients'
  BY <1>1, <1>2, <1>3 DEF IInv, Clients
<1>5. Ids'
  BY <1>1 DEF IInv, Ids
<1>6. Instances'
  BY <1>1, <1>3 DEF IInv, Instances
<1>7. Waiting'
  <2> SUFFICES ASSUME NEW t \in DOMAIN pending, pending[t] # <<>>
               PROVE  \E k \in Producers : Owner(t, k)' /\ LastSent(t) = Tag(k)'
    BY <1>1 DEF IInv, Waiting, LastSent
  <2>1. PICK k \in Producers : Owner(t, k) /\ LastSent(t) = Tag(k)
    BY DEF IInv, Waiting
  <2>2. k # i
    BY <2>1, <1>1 DEF Owner
  <2>3. Owner(t, k)'
    BY <1>1, <1>2, <1>3, <2>1, <2>2 DEF Owner
  <2>4. Tag(k)' = Tag(k)
    BY <1>2, <2>2 DEF Tag
  <2> QED
    BY <2>1, <2>3, <2>4
<1>8. Stored'
  BY <1>1 DEF IInv, Stored, OffsetsSound
<1>9. Ended'
  <2>1. \A k \in Producers : prod[k].txn \in Nat /\ prod[k].txn <= prod'[k].txn
                             /\ prod'[k].txn \in Nat
    BY <1>2 DEF IInv, Clients
  <2>2. \A k \in Producers, n \in Nat : <<k, n>> \in committed \union abortd => n <= prod'[k].txn
    BY <2>1 DEF IInv, Ended
  <2>3. Tag(i)' \notin committed \union abortd
    BY <1>2, <2>1 DEF Tag, IInv, Ended
  <2>4. \A k \in Producers \ {i} : Tag(k)' = Tag(k)
    BY <1>2 DEF Tag
  <2> QED
    BY <1>1, <1>2, <2>2, <2>3, <2>4 DEF IInv, Ended, NoneBoth
<1> QED
  BY <1>4, <1>5, <1>6, <1>7, <1>8, <1>9 DEF IInv

(* A running client in a transaction that is not fenced is its id's owner, *)
(* and nothing waits under the id but its own (is_fenced).                 *)
LEMMA UnfencedOwns ==
    ASSUME IInv, NEW i \in Producers, prod[i].on, prod[i].open,
           ~IsFenced(prod[i].pid, prod[i].epoch)
    PROVE  /\ prod[i].tid # NoTid /\ prod[i].tid \in DOMAIN txnProducers
           /\ prod[i].epoch = txnProducers[prod[i].tid].epoch
           /\ Owner(prod[i].tid, i)
           /\ prod[i].tid \in DOMAIN pending /\ pending[prod[i].tid] # <<>>
                 => LastSent(prod[i].tid) = Tag(i)
<1> DEFINE t == prod[i].tid
<1>1. t # NoTid
  BY DEF IInv, Clients
<1>2. /\ t \in DOMAIN txnProducers /\ prod[i].pid = txnProducers[t].pid
      /\ prod[i].epoch <= txnProducers[t].epoch
  BY <1>1 DEF IInv, Instances
<1>3. prod[i].epoch = txnProducers[t].epoch
  <2>1. /\ prod[i].pid \in DOMAIN epochs /\ epochs[prod[i].pid] = txnProducers[t].epoch
        /\ prod[i].epoch \in Int /\ txnProducers[t].epoch \in Int
    BY <1>2 DEF IInv, Ids, Clients
  <2> QED
    BY <1>2, <2>1 DEF IsFenced
<1>4. Owner(t, i)
  BY <1>1, <1>3 DEF Owner, IInv, Instances
<1>5. ASSUME t \in DOMAIN pending, pending[t] # <<>>
      PROVE  LastSent(t) = Tag(i)
  <2>1. PICK k \in Producers : Owner(t, k) /\ LastSent(t) = Tag(k)
    BY <1>5 DEF IInv, Waiting
  <2>2. k = i
    BY <2>1, <1>3 DEF Owner
  <2> QED
    BY <2>1, <2>2
<1> QED
  BY <1>1, <1>2, <1>3, <1>4, <1>5

-----------------------------------------------------------------------------
(* TxnOffsetCommit: an instance that is not fenced owns its id. *)
LEMMA TxnOffsetCommitKeeps ==
    ASSUME IInv, NEW i \in Producers, TxnOffsetCommit(i)
    PROVE  IInv'
<1> DEFINE t == prod[i].tid
           held == IF t \in DOMAIN pending THEN pending[t] ELSE <<>>
<1>1. CASE IsFenced(prod[i].pid, prod[i].epoch)
  <2>1. Quiet
    BY <1>1 DEF TxnOffsetCommit, GiveUp, engine, history, Quiet, IInv, Clients, Used
  <2> QED
    BY <2>1, QuietKeeps
<1>2. CASE ~IsFenced(prod[i].pid, prod[i].epoch)
  <2>1. /\ prod[i].on /\ prod[i].open
        /\ pending' = Put(pending, t, Append(held, Tag(i)))
        /\ UNCHANGED <<nextPid, epochs, txnProducers, offsets, disk, committed, abortd>>
    BY <1>2 DEF TxnOffsetCommit, InTxn, TidOf, history
  <2>2. /\ DOMAIN prod' = Producers
        /\ \A j \in Producers : /\ prod'[j].tid = prod[j].tid /\ prod'[j].on = prod[j].on
                                 /\ prod'[j].pid = prod[j].pid /\ prod'[j].epoch = prod[j].epoch
                                 /\ prod'[j].open = prod[j].open /\ prod'[j].txn = prod[j].txn
                                 /\ prod'[j].ending = prod[j].ending
                                 /\ DOMAIN prod'[j] = DOMAIN prod[j]
    BY <1>2 DEF TxnOffsetCommit, IInv, Clients, Used
  <2>3. t \in DOMAIN txnProducers /\ Owner(t, i)
    BY <1>2, <2>1, UnfencedOwns
  <2>4. \A u, k : k \in Producers => (Owner(u, k) => Owner(u, k)') /\ Tag(k)' = Tag(k)
    BY <2>1, <2>2 DEF Owner, Tag
  <2>5. Tag(i) \in AllTags
    BY DEF Tag, AllTags, IInv, Clients
  <2>6. held \in Seq(AllTags)
    BY DEF IInv, Waiting
  <2>7. /\ Append(held, Tag(i)) \in Seq(AllTags)
        /\ Append(held, Tag(i))[Len(Append(held, Tag(i)))] = Tag(i)
    BY <2>5, <2>6
  <2> HIDE DEF held
  <2>8. Clients' /\ Ids' /\ Instances' /\ Stored' /\ Ended'
    <3>1. Clients'
      BY <2>2 DEF IInv, Clients
    <3>2. Ids'
      BY <2>1 DEF IInv, Ids
    <3>3. Instances'
      <4>1. \A j \in Producers : /\ prod'[j].tid = prod[j].tid /\ prod'[j].on = prod[j].on
                                 /\ prod'[j].pid = prod[j].pid /\ prod'[j].epoch = prod[j].epoch
        BY <2>2
      <4>2. UNCHANGED txnProducers
        BY <2>1
      <4>3. Instances
        BY DEF IInv
      <4> QED
        BY <4>1, <4>2, <4>3 DEF Instances
    <3>4. Stored'
      BY <2>1 DEF IInv, Stored, OffsetsSound
    <3>5. Ended'
      <4>1. \A k \in Producers : Tag(k)' = Tag(k)
        BY <2>2 DEF Tag
      <4> QED
        BY <2>1, <2>2, <4>1 DEF IInv, Ended, NoneBoth
    <3> QED
      BY <3>1, <3>2, <3>3, <3>4, <3>5
  <2>9. Waiting'
    <3>1. /\ DOMAIN pending' = DOMAIN pending \union {t}
          /\ pending'[t] = Append(held, Tag(i))
          /\ \A u \in DOMAIN pending \ {t} : pending'[u] = pending[u]
      BY <2>1 DEF Put
    <3>2. ASSUME NEW u \in DOMAIN pending', u # t
          PROVE  /\ pending'[u] \in Seq(AllTags)
                 /\ pending'[u] # <<>> =>
                       /\ u \in DOMAIN txnProducers'
                       /\ \E k \in Producers : Owner(u, k)' /\ LastSent(u)' = Tag(k)'
      <4>1. u \in DOMAIN pending /\ pending'[u] = pending[u]
        BY <3>1, <3>2
      <4> QED
        BY <4>1, <2>1, <2>4 DEF IInv, Waiting, LastSent
    <3>3. ASSUME NEW u \in DOMAIN pending', u = t
          PROVE  /\ pending'[u] \in Seq(AllTags)
                 /\ u \in DOMAIN txnProducers'
                 /\ \E k \in Producers : Owner(u, k)' /\ LastSent(u)' = Tag(k)'
      <4>1. Owner(u, i)' /\ Tag(i)' = Tag(i)
        BY <2>3, <2>4, <3>3
      <4>2. pending'[u] = Append(held, Tag(i)) /\ u \in DOMAIN txnProducers'
        BY <2>1, <2>3, <3>1, <3>3
      <4> QED
        BY <4>1, <4>2, <2>7 DEF LastSent
    <3> QED
      BY <3>2, <3>3 DEF Waiting
  <2> QED
    BY <2>8, <2>9 DEF IInv
<1> QED
  BY <1>1, <1>2

(* EndTxn: what a commit applies is its own, and an abort applies nothing. *)
LEMMA EndTxnKeeps ==
    ASSUME IInv, NEW i \in Producers, NEW commit \in BOOLEAN, NEW lost \in BOOLEAN,
           EndTxn(i, commit, lost)
    PROVE  IInv'
<1> DEFINE t == prod[i].tid
           refused == commit /\ RefusedOn(t, prod[i].pid) # {}
<1>1. CASE IsFenced(prod[i].pid, prod[i].epoch)
  <2>1. Quiet
    BY <1>1 DEF EndTxn, GiveUp, engine, history, Quiet, IInv, Clients, Used
  <2> QED
    BY <2>1, QuietKeeps
<1>2. CASE ~IsFenced(prod[i].pid, prod[i].epoch)
  <2>1. /\ prod[i].on /\ prod[i].open
        /\ UNCHANGED <<nextPid, epochs, txnProducers, disk>>
        /\ committed' = IF commit /\ ~refused THEN committed \union {Tag(i)} ELSE committed
        /\ abortd' = IF commit THEN abortd ELSE abortd \union {Tag(i)}
        /\ prod[i].ending \in {"no", IF commit THEN "commit" ELSE "abort"}
        /\ prod' = IF lost THEN [prod EXCEPT ![i].ending = IF commit THEN "commit" ELSE "abort"]
                   ELSE IF refused THEN [prod EXCEPT ![i].on = FALSE]
                   ELSE AfterEnd(i)
    BY <1>2 DEF EndTxn, TidOf
  <2>2. /\ pending' = Drop(pending, t)
        /\ offsets' = IF refused THEN offsets ELSE OffsetsAfter(t, commit)
    BY <1>2 DEF EndTxn, CompleteTxn, TidOf
  <2>3. /\ t # NoTid
        /\ prod[i].epoch = txnProducers[t].epoch
        /\ t \in DOMAIN pending /\ pending[t] # <<>> => LastSent(t) = Tag(i)
    BY <1>2, <2>1, UnfencedOwns
  <2> HIDE DEF refused
  <2>4. /\ DOMAIN prod' = Producers
        /\ \A j \in Producers \ {i} : prod'[j] = prod[j]
        /\ DOMAIN prod'[i] = DOMAIN prod[i]
        /\ prod'[i].tid = prod[i].tid /\ prod'[i].pid = prod[i].pid
        /\ prod'[i].epoch = prod[i].epoch /\ prod'[i].txn = prod[i].txn
    BY <2>1 DEF AfterEnd, IInv, Clients, Used
  <2>5. Clients'
    BY <2>3, <2>4 DEF IInv, Clients
  <2>6. Ids'
    BY <2>1 DEF IInv, Ids
  <2>7. Instances'
    <3>1. \A j \in Producers : /\ prod'[j].on => prod[j].on
                               /\ prod'[j].tid = prod[j].tid /\ prod'[j].pid = prod[j].pid
                               /\ prod'[j].epoch = prod[j].epoch
      BY <2>1, <2>4
    <3> QED
      BY <2>1, <3>1 DEF IInv, Instances
  <2>8. Waiting'
    <3>1. \A u \in DOMAIN pending' : u # t /\ u \in DOMAIN pending /\ pending'[u] = pending[u]
      BY <2>2 DEF Drop
    <3>2. ASSUME NEW u \in DOMAIN pending', pending'[u] # <<>>
          PROVE  /\ u \in DOMAIN txnProducers'
                 /\ \E k \in Producers : Owner(u, k)' /\ LastSent(u)' = Tag(k)'
      <4>1. PICK k \in Producers : Owner(u, k) /\ LastSent(u) = Tag(k)
        BY <3>1, <3>2 DEF IInv, Waiting
      <4>2. k # i
        BY <3>1, <4>1 DEF Owner
      <4>3. Owner(u, k)'
        BY <2>1, <2>4, <3>1, <4>1, <4>2 DEF Owner
      <4>4. Tag(k)' = Tag(k)
        BY <2>4, <4>2 DEF Tag
      <4>5. u \in DOMAIN txnProducers'
        BY <2>1, <3>1, <3>2 DEF IInv, Waiting
      <4> QED
        BY <3>1, <4>1, <4>3, <4>4, <4>5 DEF LastSent
    <3>3. \A u \in DOMAIN pending' : pending'[u] \in Seq(AllTags)
      BY <3>1 DEF IInv, Waiting
    <3> QED
      BY <3>2, <3>3 DEF Waiting
  <2>9. Stored'
    <3>1. offsets' # NoTag => offsets' \in committed'
      BY <2>1, <2>2, <2>3 DEF OffsetsAfter, IInv, Stored, OffsetsSound
    <3> QED
      BY <2>1, <3>1 DEF IInv, Stored, OffsetsSound
  <2>10. Ended'
    <3>1. /\ Tag(i) \in committed => prod[i].ending = "commit"
          /\ Tag(i) \in abortd => prod[i].ending = "abort"
      BY <2>1, <2>3 DEF IInv, Ended
    <3>2. NoneBoth'
      BY <2>1, <3>1 DEF IInv, Ended, NoneBoth
    <3>3. disk'.committed \subseteq committed'
      BY <2>1 DEF IInv, Ended
    <3>4. \A k \in Producers : prod'[k].txn = prod[k].txn /\ Tag(k)' = Tag(k)
      BY <2>4 DEF Tag
    <3>5. \A k \in Producers, n \in Nat :
             <<k, n>> \in committed' \union abortd' => n <= prod'[k].txn
      BY <2>1, <3>4 DEF IInv, Ended, Tag
    <3>6. \A k \in Producers \ {i} : Tag(k) # Tag(i)
      BY DEF Tag
    <3>7. prod'[i].on /\ prod'[i].open =>
             prod'[i].ending = IF commit THEN "commit" ELSE "abort"
      <4>1. CASE lost
        BY <2>1, <4>1 DEF IInv, Clients, Used
      <4>2. CASE ~lost /\ refused
        BY <2>1, <4>2 DEF IInv, Clients, Used
      <4>3. CASE ~lost /\ ~refused
        BY <2>1, <4>3 DEF IInv, Clients, Used, AfterEnd
      <4> QED
        BY <4>1, <4>2, <4>3
    <3>8. ASSUME NEW k \in Producers, prod'[k].on, prod'[k].open,
                 prod'[k].epoch = txnProducers'[prod'[k].tid].epoch
          PROVE  /\ Tag(k)' \in committed' => prod'[k].ending = "commit"
                 /\ Tag(k)' \in abortd' => prod'[k].ending = "abort"
      <4>1. CASE k = i
        BY <2>1, <3>1, <3>4, <3>7, <3>8, <4>1
      <4>2. CASE k # i
        BY <2>1, <2>4, <3>4, <3>6, <3>8, <4>2 DEF IInv, Ended
      <4> QED
        BY <4>1, <4>2
    <3> QED
      BY <3>2, <3>3, <3>5, <3>8 DEF Ended
  <2> QED
    BY <2>5, <2>6, <2>7, <2>8, <2>9, <2>10 DEF IInv
<1> QED
  BY <1>1, <1>2

-----------------------------------------------------------------------------
(* A snapshot has offsets and the commits they came from together. *)
LEMMA SaveKeeps == ASSUME IInv, Save PROVE IInv'
<1>1. UNCHANGED <<nextPid, epochs, txnProducers, pending, offsets, prod, committed, abortd>>
  BY DEF Save, engine, history
<1>2. disk'.nextPid = nextPid /\ disk'.offsets = offsets /\ disk'.committed = committed
  BY DEF Save, Saved
<1>3. Clients' /\ Ids' /\ Instances'
  BY <1>1 DEF IInv, Clients, Ids, Instances
<1>4. Waiting'
  BY <1>1 DEF IInv, Waiting, Owner, Tag, LastSent
<1>5. Stored'
  BY <1>1, <1>2 DEF IInv, Stored, OffsetsSound, Ids
<1>6. Ended'
  BY <1>1, <1>2 DEF IInv, Ended, NoneBoth, Tag
<1> QED
  BY <1>3, <1>4, <1>5, <1>6 DEF IInv

(* A restart: nobody runs until it has a new producer id, nothing waits,   *)
(* and offsets and commits are those of one snapshot.                      *)
LEMMA RestartKeeps == ASSUME IInv, Restart, ~Unfenced' PROVE IInv'
<1>1. PICK saved : /\ Load(saved, FALSE)
                   /\ saved.nextPid \in Nat
                   /\ saved.offsets # NoTag => saved.offsets \in saved.committed
                   /\ saved.committed \subseteq committed
  <2>1. PICK resume \in BOOLEAN : LET also == IF resume THEN {"resume"} ELSE {} IN
            \/ /\ Happens({"clean"} \union also)
               /\ \E parts \in Snapshots : Load(Saved(parts), resume)
            \/ Happens({"kill"} \union also) /\ Load(disk, resume)
    BY DEF Restart
  <2>2. resume = FALSE
    BY <2>1 DEF Happens, Unfenced
  <2>3. CASE Load(disk, resume)
    BY <2>2, <2>3 DEF IInv, Stored, Ended
  <2>4. CASE \E parts \in Snapshots : Load(Saved(parts), resume)
    <3>1. PICK parts : Load(Saved(parts), FALSE)
      BY <2>2, <2>4
    <3>2. /\ Saved(parts).nextPid = nextPid /\ Saved(parts).offsets = offsets
          /\ Saved(parts).committed = committed
      BY DEF Saved
    <3> QED
      BY <3>1, <3>2 DEF IInv, Stored, OffsetsSound, Ids
  <2> QED
    BY <2>1, <2>3, <2>4
<1>2. /\ nextPid' = saved.nextPid /\ offsets' = saved.offsets /\ committed' = saved.committed
      /\ disk' = saved
      /\ txnProducers' = Empty /\ pending' = Empty
      /\ prod' = [i \in Producers |-> [prod[i] EXCEPT !.on = FALSE]]
  BY <1>1 DEF Load
<1>3. Clients'
  BY <1>2 DEF IInv, Clients, Used
<1>4. Ids'
  BY <1>1, <1>2 DEF Ids, Empty
<1>5. Instances'
  BY <1>2 DEF IInv, Clients, Used, Instances
<1>6. Waiting'
  BY <1>2 DEF Waiting, Empty
<1>7. Stored'
  BY <1>1, <1>2 DEF Stored, OffsetsSound
<1>8. Ended'
  <2>1. \A k \in Producers : prod'[k].txn = prod[k].txn /\ ~prod'[k].on
    BY <1>2 DEF IInv, Clients, Used
  <2>2. \A x \in abortd' : \/ x \in abortd
                           \/ x \notin saved.committed /\ \E k \in Producers : x = Tag(k)
    BY <1>1 DEF Load
  <2>3. NoneBoth'
    BY <1>1, <1>2, <2>2 DEF IInv, Ended, NoneBoth
  <2>4. ASSUME NEW k \in Producers, NEW n \in Nat, <<k, n>> \in committed' \union abortd'
        PROVE  n <= prod'[k].txn
    <3>1. CASE <<k, n>> \in committed \union abortd
      BY <2>1, <3>1 DEF IInv, Ended
    <3>2. CASE \E j \in Producers : <<k, n>> = Tag(j)
      BY <2>1, <3>2 DEF Tag
    <3> QED
      BY <1>1, <1>2, <2>2, <2>4, <3>1, <3>2
  <2> QED
    BY <1>2, <2>1, <2>3, <2>4 DEF Ended
<1> QED
  BY <1>3, <1>4, <1>5, <1>6, <1>7, <1>8 DEF IInv

-----------------------------------------------------------------------------
LEMMA NextKeeps == IInv /\ [Next]_vars /\ ~Unfenced' => IInv'
<1> SUFFICES ASSUME IInv, [Next]_vars, ~Unfenced' PROVE IInv'
  OBVIOUS
<1>1. CASE UNCHANGED vars
  <2>1. Quiet
    BY <1>1 DEF vars, engine, history, Quiet, IInv, Clients
  <2> QED
    BY <2>1, QuietKeeps
<1>2. ASSUME NEW i \in Producers,
             \/ InitProducerId(i) \/ BeginTxn(i) \/ TxnOffsetCommit(i)
             \/ \E commit \in BOOLEAN, lost \in BOOLEAN : EndTxn(i, commit, lost)
      PROVE  IInv'
  BY <1>2, InitProducerIdKeeps, BeginTxnKeeps, TxnOffsetCommitKeeps, EndTxnKeeps
<1>3. ASSUME NEW i \in Producers, AddOffsetsToTxn(i)
      PROVE  IInv'
  <2>1. Quiet
    BY <1>3 DEF AddOffsetsToTxn, GiveUp, engine, history, Quiet, IInv, Clients, Used
  <2> QED
    BY <2>1, QuietKeeps
<1>4. ASSUME NEW i \in Producers, NEW p \in Partitions,
             AddPartitionsToTxn(i, p) \/ Produce(i, p) \/ Resend(i, p)
      PROVE  IInv'
  BY <1>4, SendsAreQuiet, QuietKeeps
<1>5. ASSUME NEW p \in Partitions,
             \/ PlainProduce(p) \/ CreateTopic(p) \/ AutoCreateTopic(p) \/ DeleteTopic(p)
             \/ DeleteRecords(p)
             \/ \E policy \in SUBSET {"compact", "retention"} : RunLogCleaner(p, policy)
      PROVE  IInv'
  BY <1>5, TopicsAreQuiet, QuietKeeps
<1>6. CASE Save \/ Restart
  BY <1>6, SaveKeeps, RestartKeeps
<1> QED
  BY <1>1, <1>2, <1>3, <1>4, <1>5, <1>6 DEF Next

(* What occurred stays recorded: Happens only adds to it. *)
LEMMA OccurredStays == [Next]_vars /\ Unfenced => Unfenced'
<1> SUFFICES ASSUME [Next]_vars PROVE unusual \subseteq unusual'
  BY DEF Unfenced
<1>1. CASE UNCHANGED vars
  BY <1>1 DEF vars
<1>2. ASSUME NEW i \in Producers,
             \/ InitProducerId(i) \/ BeginTxn(i) \/ AddOffsetsToTxn(i) \/ TxnOffsetCommit(i)
             \/ \E commit \in BOOLEAN, lost \in BOOLEAN : EndTxn(i, commit, lost)
      PROVE  unusual \subseteq unusual'
  BY <1>2 DEF InitProducerId, BeginTxn, AddOffsetsToTxn, TxnOffsetCommit, EndTxn, Happens
<1>3. ASSUME NEW i \in Producers, NEW p \in Partitions,
             AddPartitionsToTxn(i, p) \/ Produce(i, p) \/ Resend(i, p)
      PROVE  unusual \subseteq unusual'
  BY <1>3 DEF AddPartitionsToTxn, Produce, Resend, Happens
<1>4. ASSUME NEW p \in Partitions,
             \/ PlainProduce(p) \/ CreateTopic(p) \/ AutoCreateTopic(p) \/ DeleteTopic(p)
             \/ DeleteRecords(p)
             \/ \E policy \in SUBSET {"compact", "retention"} : RunLogCleaner(p, policy)
      PROVE  unusual \subseteq unusual'
  BY <1>4 DEF PlainProduce, CreateTopic, AutoCreateTopic, NewTopic, DeleteTopic,
              DeleteRecords, RunLogCleaner, Happens
<1>5. CASE Save \/ Restart
  BY <1>5 DEF Save, Restart, Happens
<1> QED
  BY <1>1, <1>2, <1>3, <1>4, <1>5 DEF Next

(* However many instances of however many applications run, are replaced,  *)
(* lose answers and ask again, and however often the broker is stopped or  *)
(* killed: the offsets the broker has committed for a group were sent in a *)
(* transaction that committed (complete_txn, is_fenced), as long as no     *)
(* epoch has wrapped and no client has kept its producer id over a restart.*)
THEOREM OffsetsGoWithTheirTransaction == Spec => []OffsetsAtomic
<1>1. Unfenced \/ IInv => OffsetsAtomic
  BY DEF IInv, Stored, OffsetsSound, OffsetsAtomic
<1> QED
  BY <1>1, InitSound, NextKeeps, OccurredStays, PTL DEF Spec

(* Until then no commit is answered with success of a transaction that was *)
(* aborted: for a new instance of its client (InitProducerId), at the      *)
(* client's own request (EndTxn, asked again when the answer is lost), or  *)
(* in the snapshot a restarted broker loads, if its client then asks for a *)
(* new producer id.                                                        *)
THEOREM AbortsAreFinal == Spec => []AbortIsFinal
<1>1. Unfenced \/ IInv => AbortIsFinal
  BY DEF IInv, Ended, NoneBoth, AbortIsFinal
<1> QED
  BY <1>1, InitSound, NextKeeps, OccurredStays, PTL DEF Spec
=============================================================================

------------------------------ MODULE KafkaLog ------------------------------
(***************************************************************************)
(* One Kafka partition (engine.rs PartitionState, log.rs): its batches,    *)
(* the producers' sequence numbers, its open and its aborted transactions, *)
(* its segments, and the pure operations on it, retention and compaction   *)
(* included.  A batch is a record of the offset it was appended at, its    *)
(* records and who produced it; the log is the set of its batches, ordered *)
(* by their offsets.  Bytes and timestamps are left out: what depends on   *)
(* sizes and ages may or may not happen.                                   *)
(***************************************************************************)
EXTENDS Integers, Sequences, FiniteSets, FiniteSetsExt

Empty == [x \in {} |-> 0]
Put(f, k, v) == [x \in DOMAIN f \union {k} |-> IF x = k THEN v ELSE f[x]]
Drop(f, k) == [x \in DOMAIN f \ {k} |-> f[x]]

(* PartitionState: `seqs` maps <<producer id, epoch>> to the last sequence *)
(* number and the base offset of the batch that carried it; `active` maps  *)
(* a producer id to the first offset of its open transaction; `aborted` is *)
(* the list of aborted transactions, of which only membership is used;     *)
(* `segments` are their base offsets, the greatest the active segment's;   *)
(* `tombs` the tombstones that have gone through a clean and have a        *)
(* horizon; `clean` is clean_offset.  `gone` is history: the tombstones    *)
(* that were dropped when their horizon was over.                          *)
NewPartition ==
    [log |-> {}, hw |-> 0, start |-> 0,
     seqs |-> Empty, active |-> Empty, aborted |-> {},
     segments |-> {0}, tombs |-> {}, clean |-> 0, gone |-> {}]

(* What a record says: nothing about any key, a key's new value, or that   *)
(* the key is deleted (a tombstone).                                       *)
NoKey == <<>>
Value(key) == <<key, "value">>
Tombstone(key) == <<key, "deleted">>

(* A batch before it is appended; `records` is what it was sent with,      *)
(* `kept` which of them are left.  `by`, `run`, `txn` say which producer   *)
(* instance and which of its transactions sent it (0: none).               *)
Data(by, run, txn, pid, epoch, seq, records) ==
    [kind |-> "data", at |-> 0, records |-> records, kept |-> DOMAIN records, pid |-> pid,
     epoch |-> epoch, seq |-> seq, by |-> by, run |-> run, txn |-> txn]

(* encode_control_batch: the marker that ends a transaction. *)
Control(pid, committed) ==
    [kind |-> IF committed THEN "commit" ELSE "abort", at |-> 0, records |-> <<NoKey>>,
     kept |-> {1}, pid |-> pid, epoch |-> 0, seq |-> -1, by |-> 0, run |-> 0, txn |-> 0]

(* A record never changes its offset.  The base offset of a batch is that  *)
(* of its first record, also after a clean.                                *)
Offset(b, n) == b.at + n - 1
BaseOffset(b) == Offset(b, Min(b.kept))
LastOffset(b) == Offset(b, Max(b.kept))

(* The batches from `lo` on and below `hi`. *)
Within(part, lo, hi) == {b \in part.log : lo <= BaseOffset(b) /\ BaseOffset(b) < hi}

ActiveSegment(part) == Max(part.segments)

(* append_batch: the batch takes the high watermark as its base offset; if *)
(* the active segment holds anything and is large or old enough (`roll`),  *)
(* a new one begins with it.                                               *)
AppendBatch(part, b, roll) ==
    [part EXCEPT !.log = @ \union {[b EXCEPT !.at = part.hw]},
                 !.hw = @ + Len(b.records),
                 !.segments = IF roll /\ Within(part, ActiveSegment(part), part.hw) # {}
                                THEN @ \union {part.hw} ELSE @]

(* truncate_front: whole batches below the new start go, and so do the     *)
(* segments before the one it is in, and the aborted transactions that     *)
(* began below it.                                                         *)
TruncateFront(part, newStart) ==
    LET log == {b \in part.log : LastOffset(b) >= newStart}
    IN  IF newStart <= part.start THEN part
        ELSE [part EXCEPT !.start = newStart,
                          !.log = log,
                          !.segments = IF log = {} THEN {newStart}
                                       ELSE {lo \in @ : \A s \in @ : lo < s => newStart < s},
                          !.aborted = {a \in @ : a.first >= newStart},
                          !.tombs = {off \in @ : off >= newStart},
                          !.clean = Max({@, newStart})]

(* Faulty: the last stable offset ignores open transactions. *)
Faulty_LastStable(part) == part.hw

(* The last stable offset: the first offset of the earliest open           *)
(* transaction, or the high watermark.                                     *)
LastStable(part) ==
    LET ends == {part.active[x] : x \in DOMAIN part.active} \union {part.hw}
    IN  CHOOSE m \in ends : \A e \in ends : m <= e

-----------------------------------------------------------------------------
(* handle_produce on one partition, for a batch with a producer id: the    *)
(* error code, the base offset answered and the partition afterwards.      *)
Rejected(part, err) == [err |-> err, base |-> -1, part |-> part]

(* Faulty: a batch that was already appended is appended again. *)
Faulty_IsDuplicate(part, b) == FALSE

IsDuplicate(part, b) ==
    /\ <<b.pid, b.epoch>> \in DOMAIN part.seqs
    /\ b.seq <= part.seqs[<<b.pid, b.epoch>>].last

(* The sequence number is not the one after the last, nor 0 for a first. *)
IsGap(part, b) ==
    IF <<b.pid, b.epoch>> \in DOMAIN part.seqs
      THEN b.seq > part.seqs[<<b.pid, b.epoch>>].last + 1
      ELSE b.seq # 0

(* The partition once the batch is accepted: sequence, transaction, log. *)
Accepted(part, b, roll) ==
    LET seqs == Put(part.seqs, <<b.pid, b.epoch>>,
                    [last |-> b.seq + Len(b.records) - 1, base |-> part.hw])
        active == IF b.txn # 0 /\ b.pid \notin DOMAIN part.active
                    THEN Put(part.active, b.pid, part.hw)
                    ELSE part.active
    IN  AppendBatch([part EXCEPT !.seqs = seqs, !.active = active], b, roll)

HandleProduce(part, b, fenced, roll) ==
    IF fenced THEN Rejected(part, 47)
    ELSE IF IsDuplicate(part, b)
      THEN [err |-> 0, base |-> part.seqs[<<b.pid, b.epoch>>].base, part |-> part]
    ELSE IF IsGap(part, b) THEN Rejected(part, 45)
    ELSE [err |-> 0, base |-> part.hw, part |-> Accepted(part, b, roll)]

(* What complete_txn does on a partition where the transaction is open. *)
EndOnPartition(part, pid, committed) ==
    LET ended == [part EXCEPT
            !.active = Drop(@, pid),
            !.aborted = IF committed THEN @
                        ELSE @ \union {[pid |-> pid, first |-> part.active[pid]]}]
    IN  AppendBatch(ended, Control(pid, committed), FALSE)

(* Where the markers of the open transactions of a partition go, when they *)
(* are aborted one after the other in the order the map yields them.       *)
Places(part) ==
    LET open == DOMAIN part.active
    IN  Injection(open, part.hw..(part.hw + Cardinality(open) - 1))

(* resolve_open_transactions_for_shutdown: every open transaction of the   *)
(* partition is aborted.                                                   *)
Resolve(part, place) ==
    LET open == DOMAIN part.active
    IN  [part EXCEPT
            !.log = @ \union {[Control(pid, FALSE) EXCEPT !.at = place[pid]] : pid \in open},
            !.hw = @ + Cardinality(open),
            !.active = Empty,
            !.aborted = @ \union {[pid |-> pid, first |-> part.active[pid]] : pid \in open}]

-----------------------------------------------------------------------------
(* The log cleaner. *)

(* apply_retention: the oldest segments go while they are too old or the   *)
(* log is too large; the active one too, unless it is empty.               *)
RetentionPoints(part) ==
    {s \in part.segments : s # Min(part.segments)} \union
    IF Within(part, ActiveSegment(part), part.hw) # {} THEN {part.hw} ELSE {}

Retained(part) == {TruncateFront(part, hi) : hi \in RetentionPoints(part)}

(* Where a clean may end: before the active segment, before the first open *)
(* transaction, and before a segment younger than min.compaction.lag.ms.   *)
Uncleanable(part) ==
    LET most == Min({ActiveSegment(part)} \union {part.active[x] : x \in DOMAIN part.active})
    IN  {most} \union {s \in part.segments : s < most}

FirstDirty(part) == Max({part.clean, part.start})

(* Transactional and control batches are left as they are. *)
Plain(b) == b.kind = "data" /\ b.txn = 0

Keyed(b, n) == b.records[n] # NoKey
Key(b, n) == b.records[n][1]

(* Faulty: the newest record of a key is looked for in the active segment  *)
(* and in open transactions' range too, whatever becomes of it.            *)
Faulty_Superseded(part, upto, b, n) ==
    \E c \in part.log : \E m \in c.kept :
        Keyed(c, m) /\ Key(c, m) = Key(b, n) /\ Offset(c, m) > Offset(b, n)

(* `latest`: a dirty batch below `upto` has a newer record of the key. *)
Superseded(part, upto, b, n) ==
    \E c \in Within(part, FirstDirty(part), upto) :
        /\ Plain(c)
        /\ \E m \in c.kept : /\ Keyed(c, m) /\ Key(c, m) = Key(b, n)
                             /\ Offset(c, m) < upto /\ Offset(c, m) > Offset(b, n)

IsTombstone(b, n) == Keyed(b, n) /\ b.records[n] = Tombstone(Key(b, n))

Cleaned(b, upto) == Plain(b) /\ BaseOffset(b) < upto

(* A tombstone that went through an earlier clean and is expired. *)
Lapsed(b, n, expired) == IsTombstone(b, n) /\ Offset(b, n) \in expired

(* The records of a batch that a clean ending at `upto` leaves, when the   *)
(* horizons of `expired` are over.                                         *)
LeftBy(part, upto, expired, b) ==
    IF Cleaned(b, upto)
      THEN {n \in b.kept : Keyed(b, n) => /\ ~Superseded(part, upto, b, n)
                                          /\ ~Lapsed(b, n, expired)}
      ELSE b.kept

(* compact: the superseded records go, and the expired tombstones; the     *)
(* tombstones left have a horizon from now on; batches and closed segments *)
(* left empty go too.                                                      *)
Compacted(part, upto, expired) ==
    LET left(b) == LeftBy(part, upto, expired, b)
        log == {[b EXCEPT !.kept = left(b)] : b \in {c \in part.log : left(c) # {}}}
        seen == {b \in part.log : Cleaned(b, upto)}
        dropped == UNION {{Offset(b, n) : n \in b.kept \ left(b)} : b \in seen}
        marked == UNION {{Offset(b, n) : n \in {m \in b.kept : IsTombstone(b, m)}} : b \in seen}
        lapsed == UNION {{[key |-> Key(b, n), off |-> Offset(b, n)] :
                             n \in {m \in b.kept : Lapsed(b, m, expired)}} : b \in seen}
        holds(lo) == \E b \in log : /\ lo <= BaseOffset(b)
                                    /\ \A s \in part.segments : lo < s => BaseOffset(b) < s
    IN  [part EXCEPT !.log = log,
                     !.tombs = (@ \union marked) \ dropped,
                     !.segments = {lo \in @ : lo = ActiveSegment(part) \/ holds(lo)},
                     !.clean = Max({@, upto}),
                     !.gone = @ \union lapsed]

(* A clean is due when enough of what is below `upto` is not clean. *)
Compactions(part) ==
    {Compacted(part, upto, expired) :
        upto \in {u \in Uncleanable(part) : Within(part, FirstDirty(part), u) # {}},
        expired \in SUBSET part.tombs}

-----------------------------------------------------------------------------
(* handle_fetch with isolation level read_committed from offset `off`: the *)
(* batches served and the list of aborted transactions sent along.         *)
ServedBatches(part, off) ==
    {b \in part.log : /\ part.start <= off /\ off < LastStable(part)
                      /\ LastOffset(b) >= off
                      /\ BaseOffset(b) < LastStable(part)
                      /\ \A a \in part.aborted : a.first # BaseOffset(b)}

AbortedList(part) == {a \in part.aborted : a.first < LastStable(part)}

(* What a consumer keeps of a response: as it walks the batches, an        *)
(* aborted transaction's producer is ignored from the first batch that     *)
(* reaches its first offset until that producer's abort marker.            *)
Discarded(served, list, b) ==
    \E a \in list :
        /\ a.pid = b.pid /\ LastOffset(b) >= a.first
        /\ \A m \in served : /\ m.kind = "abort" /\ m.pid = a.pid
                             /\ LastOffset(m) >= a.first
                             => b.at <= m.at

Delivered(part, off) ==
    LET served == ServedBatches(part, off)
    IN  {b \in served : /\ b.kind = "data"
                        /\ b.txn = 0 \/ ~Discarded(served, AbortedList(part), b)}
=============================================================================

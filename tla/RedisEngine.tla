---------------------------- MODULE RedisEngine ----------------------------
(***************************************************************************)
(* The Redis service: commands on lists and streams, the clients that      *)
(* block on keys (redis/blocking.rs), transactions with WATCH              *)
(* (redis/multi.rs), and the threads that serve the connections            *)
(* (redis/server.rs).                                                      *)
(*                                                                         *)
(* The engine is one value behind one mutex.  A command runs under the     *)
(* lock from its checks to the serving of blocked clients, so it is one    *)
(* step; a handler is an operator from the engine to its result, which is  *)
(* how EXEC and the serving of waiters run handlers themselves.  The clock *)
(* is abstract: an expiry or a deadline is ahead or has passed.            *)
(***************************************************************************)
EXTENDS Integers, FiniteSets, SequencesExt

CONSTANTS
    Clients, Keys,
    Dbs,          \* the logical databases
    First,        \* the one a connection starts in
    Plays,        \* what may happen together: the commands each client may
                  \* send, see Cmd, and the behaviours, see BehaviourKinds
    MaxItems,     \* bound: elements and stream entries ever added
    MaxQueue,     \* bound: commands in a transaction
    MaxFaults     \* bound: things out of the ordinary

(* "leave": a client closes its connection; "connect": it opens another;   *)
(* "evict": memory runs out; "expire": expiries pass.                      *)
BehaviourKinds == {"leave", "connect", "evict", "expire"}

Names == {"rpush", "lpop", "blpop", "blmove", "xadd", "xgroup", "xreadgroup",
          "set", "del", "expire", "flushdb", "swapdb", "select", "unblock", "kill",
          "multi", "exec", "discard", "watch", "unwatch", "reset", "bad"}

(* A command: its name, the keys it names, and what else it is given: a    *)
(* timeout ("never" or "ahead"), a database or a client.                   *)
Cmd(name, keys, arg) == [name |-> name, keys |-> keys, arg |-> arg]

ASSUME RedisAssumption ==
    /\ First \in Dbs
    /\ \A p \in Plays :
         /\ \A c \in Clients : \A cmd \in p.commands[c] : cmd.name \in Names /\ cmd.keys \in Seq(Keys)
         /\ p.behaviours \subseteq BehaviourKinds
    /\ {MaxItems, MaxQueue, MaxFaults} \subseteq Nat

VARIABLES
    engine,     \* the Engine
    session,    \* each connection's thread: it reads a command, waits in
                \* wait_unblocked, closes, or is over
    peer,       \* the client at the other end: "there", "gone", or "unread", gone
                \* with input left in the socket, one command or a part of one
    delivered,  \* the items each connection's client received
    lost,       \* the items written to a connection nobody reads any more
    arrivals,   \* the blocked clients in the order they came to block
    outcome,    \* what the last command was answered, if it was an EXEC
    faults,
    play        \* which of the plays this is

vars == <<engine, session, peer, delivered, lost, arrivals, outcome, faults, play>>

Items == 1..MaxItems
Count(b) == IF b THEN 1 ELSE 0

(***************************************************************************)
(* Data.                                                                   *)
(***************************************************************************)
(* A key's value.  A stream's items are the entries its consumer group has *)
(* not handed out, and `group` says that it has that group.                *)
Entry(type, items, group) ==
    [type |-> type, items |-> items, group |-> group, expiry |-> "never"]
NoEntry == Entry("none", <<>>, FALSE)

Expired(entry) == entry.expiry = "past"
Live(entry) == entry.type # "none" /\ ~Expired(entry)

(* What a key holds as far as a client can tell.                           *)
Value(e, d, k) ==
    LET entry == e.dbs[d][k]
    IN  IF Live(entry) THEN <<entry.type, entry.items, entry.group>> ELSE <<"none", <<>>, FALSE>>

(* Removing a key; what it held is gone.                                   *)
Delete(e, d, k) ==
    [e EXCEPT !.dbs[d][k] = NoEntry, !.dropped = @ \union Range(e.dbs[d][k].items)]

(* Removing keys, each a pair of a database and a key.                     *)
DeleteAll(e, ats) == FoldSet(LAMBDA at, acc : Delete(acc, at[1], at[2]), e, ats)

(* A lookup removes a key whose expiry has passed.                         *)
GetAll(e, ats) == DeleteAll(e, {at \in ats : Expired(e.dbs[at[1]][at[2]])})
Get(e, d, k) == IF Expired(e.dbs[d][k]) THEN Delete(e, d, k) ELSE e

Faulty_Insert(e, d, k, entry) == [Delete(e, d, k) EXCEPT !.dbs[d][k] = entry]
Insert(e, d, k, entry) ==
    [Delete(e, d, k) EXCEPT !.dbs[d][k] = entry, !.added[d] = Append(@, k)]

NoneAdded == [d \in Dbs |-> <<>>]
SignalReady(e, d, k) == [e EXCEPT !.added[d] = Append(@, k)]

(***************************************************************************)
(* Clients and blocking.                                                   *)
(***************************************************************************)
NotBlocked == [cmd |-> Cmd("none", <<>>, "never"), keys |-> <<>>, db |-> First,
               deadline |-> "never"]

(* A Client, as far as blocking and transactions go.  `queued` counts the  *)
(* QUEUED answers since MULTI.  A watched key remembers what it held.      *)
NewClient == [db |-> First, blocked |-> NotBlocked, inMulti |-> FALSE, queue |-> <<>>,
              multiError |-> FALSE, dirtyCas |-> FALSE, watched |-> {}, queued |-> 0]
Nobody == [NewClient EXCEPT !.queued = -1]

IsBlocked(e, c) == e.clients[c].blocked # NotBlocked

KindOf(cmd) == IF cmd.name = "xreadgroup" THEN "stream" ELSE "list"

(* The keys a command blocks on: BLMOVE waits for its source only.         *)
BlockKeys(cmd) == IF cmd.name = "blmove" THEN <<cmd.keys[1]>> ELSE cmd.keys

Faulty_BlockClient(e, c, cmd, deadline) ==
    LET d == e.clients[c].db
        state == [cmd |-> cmd, keys |-> BlockKeys(cmd), db |-> d, deadline |-> deadline]
    IN  FoldSet(LAMBDA k, acc : [acc EXCEPT !.waiting[d][k] = <<c>> \o @],
                [e EXCEPT !.clients[c].blocked = state], Range(state.keys))
BlockClient(e, c, cmd, deadline) ==
    LET d == e.clients[c].db
        state == [cmd |-> cmd, keys |-> BlockKeys(cmd), db |-> d, deadline |-> deadline]
    IN  FoldSet(LAMBDA k, acc : [acc EXCEPT !.waiting[d][k] = Append(@, c)],
                [e EXCEPT !.clients[c].blocked = state], Range(state.keys))

Unblock(e, c) ==
    LET b == e.clients[c].blocked
    IN  FoldSet(LAMBDA k, acc : [acc EXCEPT !.waiting[b.db][k] = SelectSeq(@, LAMBDA x : x # c)],
                [e EXCEPT !.clients[c].blocked = NotBlocked], Range(b.keys))

(* What a command is answered: the kind of reply and the items in it.      *)
Answer(kind, items) == [kind |-> kind, items |-> items]
NoReply == Answer("none", <<>>)
Ok == Answer("ok", <<>>)
Nil == Answer("nil", <<>>)
Error == Answer("error", <<>>)
Blocks == Answer("blocks", <<>>)

UnblockWith(e, c, reply) ==
    IF IsBlocked(e, c) THEN [Unblock(e, c) EXCEPT !.replies[c] = reply] ELSE e

Faulty_PassedDeadline(e, c) == FALSE
PassedDeadline(e, c) == e.clients[c].blocked.deadline = "past"

ExpireBlocked(e) ==
    FoldSet(LAMBDA c, acc : UnblockWith(acc, c, Nil), e, {c \in Clients : PassedDeadline(e, c)})

UnwatchAll(e, c) == [e EXCEPT !.clients[c].watched = {}]

RemoveClient(e, c) ==
    [UnwatchAll(Unblock(e, c), c) EXCEPT !.clients[c] = Nobody, !.replies[c] = NoReply,
        !.dropped = @ \union Range(e.replies[c].items)]

(***************************************************************************)
(* Handlers.  Each gives the engine after it and the answer.               *)
(***************************************************************************)
Result(e, reply) == [e |-> e, reply |-> reply]

(* Applying an update to the entry of a key.                               *)
Update(e, d, k, f(_)) == [e EXCEPT !.dbs[d][k] = f(@)]

DropIfEmpty(e, d, k) == IF e.dbs[d][k].items = <<>> THEN [e EXCEPT !.dbs[d][k] = NoEntry] ELSE e

ListOrCreate(e, d, k) == IF Live(e.dbs[d][k]) THEN e ELSE Insert(e, d, k, Entry("list", <<>>, FALSE))

Appended(e, d, k, items) == Update(e, d, k, LAMBDA entry : [entry EXCEPT !.items = @ \o items])

HasType(e, d, k, type) == e.dbs[d][k].type \in {type, "none"}

Rpush(e0, d, k) ==
    LET e == Get(e0, d, k)
    IN  IF ~HasType(e, d, k, "list") THEN Result(e, Error)
        ELSE Result([Appended(ListOrCreate(e, d, k), d, k, <<e.next>>) EXCEPT !.next = @ + 1], Ok)

(* Takes the first element.                                                *)
Popped(e, d, k) ==
    LET items == e.dbs[d][k].items
    IN  Result(DropIfEmpty(Update(e, d, k, LAMBDA entry : [entry EXCEPT !.items = Tail(@)]), d, k),
               Answer("items", <<Head(items)>>))

(* The positions up to the first of some of them, or all if there is none. *)
UpToFirst(keys, some) == {i \in DOMAIN keys : \A j \in some : i <= j}

(* The first of the keys that is there decides: a list is popped, another  *)
(* type is an error.  If none is there the client blocks, or gets nil      *)
(* where blocking is denied.                                               *)
Mpop(e0, d, keys, otherwise) ==
    LET there == {i \in DOMAIN keys : Live(e0.dbs[d][keys[i]])}
        e == GetAll(e0, {<<d, keys[i]>> : i \in UpToFirst(keys, there)})
        k == keys[CHOOSE i \in there : i \in UpToFirst(keys, there)]
    IN  IF there = {} THEN Result(e, otherwise)
        ELSE IF ~HasType(e, d, k, "list") THEN Result(e, Error)
        ELSE Popped(e, d, k)

(* The element is pushed on the destination before an emptied source goes. *)
Lmove(e0, d, src, dst) ==
    LET e == Get(e0, d, dst)
        item == Head(e.dbs[d][src].items)
        cut == Update(e, d, src, LAMBDA entry : [entry EXCEPT !.items = Tail(@)])
    IN  IF ~HasType(e, d, dst, "list") THEN Result(e, Error)
        ELSE Result(DropIfEmpty(Appended(ListOrCreate(cut, d, dst), d, dst, <<item>>), d, src), Ok)

Blmove(e0, d, src, dst, otherwise) ==
    LET e == Get(e0, d, src)
    IN  IF ~HasType(e, d, src, "list") THEN Result(e, Error)
        ELSE IF Live(e.dbs[d][src]) THEN Lmove(e, d, src, dst)
        ELSE Result(e, otherwise)

Xadd(e0, d, k) ==
    LET e == Get(e0, d, k)
        made == IF Live(e.dbs[d][k]) THEN e ELSE Insert(e, d, k, Entry("stream", <<>>, FALSE))
    IN  IF ~HasType(e, d, k, "stream") THEN Result(e, Error)
        ELSE Result(SignalReady([Appended(made, d, k, <<e.next>>) EXCEPT !.next = @ + 1], d, k), Ok)

(* XGROUP CREATE key group 0 MKSTREAM.                                     *)
Xgroup(e0, d, k) ==
    LET e == Get(e0, d, k)
    IN  IF ~HasType(e, d, k, "stream") \/ e.dbs[d][k].group THEN Result(e, Error)
        ELSE IF Live(e.dbs[d][k]) THEN Result([e EXCEPT !.dbs[d][k].group = TRUE], Ok)
        ELSE Result(Insert(e, d, k, Entry("stream", <<>>, TRUE)), Ok)

Faulty_HandOut(e, d, keys) == [e EXCEPT !.dbs[d][keys[1]].items = <<>>]
(* The group's cursors move past all the entries.                          *)
HandOut(e, d, keys) ==
    FoldSet(LAMBDA k, acc : [acc EXCEPT !.dbs[d][k].items = <<>>], e, Range(keys))

(* XREADGROUP ... STREAMS keys > >: every stream must have the group; the  *)
(* new entries of all of them are handed out.                              *)
Xreadgroup(e0, d, keys, otherwise) ==
    LET lacking == {i \in DOMAIN keys : ~(Live(e0.dbs[d][keys[i]]) /\ e0.dbs[d][keys[i]].group)}
        e == GetAll(e0, {<<d, keys[i]>> : i \in UpToFirst(keys, lacking)})
        new == FlattenSeq([i \in DOMAIN keys |-> e.dbs[d][keys[i]].items])
    IN  IF lacking # {} THEN Result(e, Error)
        ELSE IF new = <<>> THEN Result(e, otherwise)
        ELSE Result(HandOut(e, d, keys), Answer("items", new))

Set(e, d, k) == Result(Insert(e, d, k, Entry("string", <<>>, FALSE)), Ok)

Expire(e0, d, k) ==
    LET e == Get(e0, d, k)
    IN  Result(IF Live(e.dbs[d][k]) THEN [e EXCEPT !.dbs[d][k].expiry = "ahead"] ELSE e, Ok)

FlushDb(e, d) == Result(DeleteAll(e, {d} \X Keys), Ok)

(* The databases change places, with the keys added to them, and every key *)
(* somebody waits for in either is looked at again.                        *)
SwapDb(e, x, y) ==
    LET swapped == [e EXCEPT !.dbs = [@ EXCEPT ![x] = e.dbs[y], ![y] = e.dbs[x]],
                             !.added = [@ EXCEPT ![x] = e.added[y], ![y] = e.added[x]]]
        awaited(d) == SetToSeq({k \in Keys : e.waiting[d][k] # <<>>})
        signal(acc, d) == FoldLeft(LAMBDA a, k : SignalReady(a, d, k), acc, awaited(d))
    IN  Result(signal(signal(swapped, x), y), Ok)

Kill(e, victim) ==
    Result(IF e.clients[victim] = Nobody THEN e ELSE RemoveClient(e, victim), Ok)

(***************************************************************************)
(* Transactions and watched keys.                                          *)
(***************************************************************************)
Watches(e, c, d, k) == {w \in e.clients[c].watched : w.db = d /\ w.key = k}

(* Clients that watch a key become dirty when it is written, unless it had *)
(* expired when they came to watch it and still is not there.              *)
Touch(e0, ats) ==
    LET watchedBy(c) == {<<w.db, w.key>> : w \in e0.clients[c].watched} \intersect ats
        e == GetAll(e0, UNION {watchedBy(c) : c \in Clients})
        changed(c, at) == \/ \A w \in Watches(e0, c, at[1], at[2]) : ~w.expired
                          \/ Live(e.dbs[at[1]][at[2]])
        dirty == {c \in Clients : \E at \in watchedBy(c) : changed(c, at)}
    IN  FoldSet(LAMBDA c, acc : [acc EXCEPT !.clients[c].dirtyCas = TRUE], e, dirty)

(* The watched keys a command on whole databases can affect.               *)
Affected(e, cmd, d) ==
    LET dbs == CASE cmd.name = "flushdb" -> {d}
                 [] cmd.name = "swapdb" -> {First, cmd.arg}
                 [] OTHER -> {}
    IN  {at \in dbs \X Keys : \E c \in Clients : Watches(e, c, at[1], at[2]) # {}}

(* The commands whose metadata has the write flag, found by the first word *)
(* of the command: XGROUP's subcommands have it and XGROUP does not.       *)
WriteCommands == {"rpush", "lpop", "blpop", "blmove", "xadd", "set", "del", "expire"}

TouchWritten(e, d, cmd, affected, existed) ==
    LET wide == {at \in affected : at \in existed \/ Live(e.dbs[at[1]][at[2]])}
        named == IF cmd.name \in WriteCommands THEN {d} \X Range(cmd.keys) ELSE {}
    IN  Touch(GetAll(e, affected), wide \union named)

Faulty_RunsInMulti == {"exec", "discard", "multi", "watch", "unwatch", "reset"}
RunsInMulti == {"exec", "discard", "multi", "watch", "reset"}

(* What MULTI leaves behind when it ends, by EXEC, DISCARD or RESET.       *)
EndMulti(e, c) ==
    [UnwatchAll(e, c) EXCEPT !.clients[c].inMulti = FALSE, !.clients[c].queue = <<>>,
        !.clients[c].queued = 0, !.clients[c].multiError = FALSE, !.clients[c].dirtyCas = FALSE]

Multi(e, c) ==
    IF e.clients[c].inMulti THEN Result(e, Error)
    ELSE Result([e EXCEPT !.clients[c].inMulti = TRUE], Ok)

Discard(e, c) == IF e.clients[c].inMulti THEN Result(EndMulti(e, c), Ok) ELSE Result(e, Error)

Watch(e, c, k) ==
    LET d == e.clients[c].db
        expiry == e.dbs[d][k].expiry
        w == [db |-> d, key |-> k, expiry |-> expiry, expired |-> expiry = "past",
              seen |-> Value(e, d, k)]
    IN  IF e.clients[c].inMulti THEN Result(e, Error)
        ELSE IF e.clients[c].dirtyCas \/ Watches(e, c, d, k) # {} THEN Result(e, Ok)
        ELSE Result([e EXCEPT !.clients[c].watched = @ \union {w}], Ok)

Unwatch(e, c) == Result([UnwatchAll(e, c) EXCEPT !.clients[c].dirtyCas = FALSE], Ok)

Reset(e, c) == Result([EndMulti(e, c) EXCEPT !.clients[c].db = First], Ok)

(* A command that cannot be queued spoils the transaction; an EXEC that is *)
(* refused ends it.                                                        *)
MultiReject(e, c, cmd) ==
    Result(IF cmd.arg = "exec" THEN EndMulti(e, c) ELSE [e EXCEPT !.clients[c].multiError = TRUE], Error)

(* QUEUED is the answer even when nothing is kept, as EXEC will fail.      *)
Queue(e, c, cmd) ==
    LET cl == e.clients[c]
        kept == IF cl.multiError \/ cl.dirtyCas THEN cl.queue ELSE Append(cl.queue, cmd)
    IN  Result([e EXCEPT !.clients[c].queue = kept, !.clients[c].queued = @ + 1], Ok)

(***************************************************************************)
(* Running commands.                                                       *)
(***************************************************************************)
Handle(e, c, cmd, deny) ==
    LET d == e.clients[c].db
        k == cmd.keys[1]
        otherwise == IF deny THEN Nil ELSE Blocks
    IN  CASE cmd.name = "rpush" -> Rpush(e, d, k)
          [] cmd.name = "lpop" -> Mpop(e, d, cmd.keys, Nil)
          [] cmd.name = "blpop" -> Mpop(e, d, cmd.keys, otherwise)
          [] cmd.name = "blmove" -> Blmove(e, d, k, cmd.keys[2], otherwise)
          [] cmd.name = "xadd" -> Xadd(e, d, k)
          [] cmd.name = "xgroup" -> Xgroup(e, d, k)
          [] cmd.name = "xreadgroup" -> Xreadgroup(e, d, cmd.keys, otherwise)
          [] cmd.name = "set" -> Set(e, d, k)
          [] cmd.name = "del" -> Result(Delete(e, d, k), Ok)
          [] cmd.name = "expire" -> Expire(e, d, k)
          [] cmd.name = "flushdb" -> FlushDb(e, d)
          [] cmd.name = "swapdb" -> SwapDb(e, First, cmd.arg)
          [] cmd.name = "select" -> Result([e EXCEPT !.clients[c].db = cmd.arg], Ok)
          [] cmd.name = "unblock" -> Result(UnblockWith(e, cmd.arg, Nil), Ok)
          [] cmd.name = "kill" -> Kill(e, cmd.arg)
          [] cmd.name = "multi" -> Multi(e, c)
          [] cmd.name = "discard" -> Discard(e, c)
          [] cmd.name = "watch" -> Watch(e, c, k)
          [] cmd.name = "unwatch" -> Unwatch(e, c)
          [] cmd.name = "reset" -> Reset(e, c)

(* After a handler with result r.  If it blocks, the client is registered: *)
(* with its own timeout, or with the deadline it first had if it is run    *)
(* `again`.                                                                *)
Called(r, c, cmd, again, d, affected, existed) ==
    CASE r.reply = Blocks ->
             Result(BlockClient(r.e, c, cmd, IF again = "no" THEN cmd.arg ELSE again), Blocks)
      [] r.reply = Error -> r
      [] OTHER -> Result(TouchWritten(r.e, d, cmd, affected, existed), r.reply)

Call(e0, c, cmd, deny, again) ==
    LET d == e0.clients[c].db
        affected == Affected(e0, cmd, d)
        e == GetAll(e0, affected)
        existed == {at \in affected : Live(e.dbs[at[1]][at[2]])}
    IN  Called(Handle(e, c, cmd, deny), c, cmd, again, d, affected, existed)

Faulty_WatchedKeyExpired(e, c) == FALSE
WatchedKeyExpired(e, c) == \E w \in e.clients[c].watched : ~w.expired /\ w.expiry = "past"

(* EXEC lets go of the watched keys, then runs the queue or nothing.       *)
Exec(e, c) ==
    LET cl == e.clients[c]
        Then(acc, r) == Result(r.e, Answer("ran", acc.reply.items \o r.reply.items))
        Run(acc, cmd) == Then(acc, Call(acc.e, c, cmd, TRUE, "no"))
    IN  IF ~cl.inMulti THEN Result(e, Error)
        ELSE IF cl.multiError THEN Result(EndMulti(e, c), Error)
        ELSE IF cl.dirtyCas \/ WatchedKeyExpired(e, c) THEN Result(EndMulti(e, c), Nil)
        ELSE FoldLeft(Run, Result(EndMulti(e, c), Answer("ran", <<>>)), cl.queue)

Satisfies(entry, kind) == entry.type = kind

(* Gives the first waiter of a key its turn: it goes to the back, and if   *)
(* the key holds what it waits for, its command is run again.              *)
ServeOne(e0, d, k) ==
    LET c == Head(e0.waiting[d][k])
        e == Get([e0 EXCEPT !.waiting[d][k] = Append(Tail(@), c)], d, k)
        b == e.clients[c].blocked
        Answered(r) == IF r.reply = Blocks THEN r.e ELSE [r.e EXCEPT !.replies[c] = r.reply]
    IN  IF e0.waiting[d][k] = <<>> THEN e0
        ELSE IF ~Satisfies(e.dbs[d][k], KindOf(b.cmd)) THEN e
        ELSE Answered(Call(Unblock(e, c), c, b.cmd, FALSE, b.deadline))

(* As many turns as there are waiters at the start.                        *)
ServeKey(e, at) ==
    FoldLeft(LAMBDA acc, i : ServeOne(acc, at[1], at[2]), e,
             [i \in DOMAIN e.waiting[at[1]][at[2]] |-> i])

(* The added keys somebody waits for, each once, in the order of adding.   *)
Ready(e) ==
    LET of(d) == SelectSeq(e.added[d], LAMBDA k : e.waiting[d][k] # <<>>)
        all == FlattenSeq([i \in DOMAIN SetToSeq(Dbs) |->
                   LET d == SetToSeq(Dbs)[i] IN [j \in DOMAIN of(d) |-> <<d, of(d)[j]>>]])
    IN  FoldLeft(LAMBDA acc, at : IF Contains(acc, at) THEN acc ELSE Append(acc, at), <<>>, all)

ServeRound(e) ==
    IF e.added = NoneAdded THEN e
    ELSE FoldLeft(ServeKey, [e EXCEPT !.added = NoneAdded], Ready(e))

(* Rounds go on until no key is ready.  Only a BLMOVE adds a key, and its  *)
(* client is served by then, so a round for each client is enough.         *)
ServeBlocked(e) ==
    FoldLeft(LAMBDA acc, c : ServeRound(acc), ServeRound(e), SetToSeq(Clients))

(* A command from its checks to the serving of blocked clients.  Keys are  *)
(* evicted first if memory has run out.                                    *)
Execute(e0, c, cmd, victims) ==
    LET e == IF victims = {} THEN e0 ELSE DeleteAll(e0, victims)
        Served(r) == Result(ServeBlocked(r.e), r.reply)
    IN  CASE cmd.name = "bad" /\ e.clients[c].inMulti -> MultiReject(e0, c, cmd)
          [] cmd.name = "bad" /\ ~e.clients[c].inMulti -> Result(e0, Error)
          [] e.clients[c].inMulti /\ cmd.name \notin RunsInMulti \union {"bad"} -> Queue(e, c, cmd)
          [] OTHER -> Served(IF cmd.name = "exec" THEN Exec(e, c) ELSE Call(e, c, cmd, FALSE, "no"))

(***************************************************************************)
(* Connections.                                                            *)
(***************************************************************************)
NoOutcome == [who |-> "nobody", kind |-> "none"]

Init ==
    /\ engine = [dbs |-> [d \in Dbs |-> [k \in Keys |-> NoEntry]],
                 added |-> NoneAdded,
                 waiting |-> [d \in Dbs |-> [k \in Keys |-> <<>>]],
                 clients |-> [c \in Clients |-> NewClient],
                 replies |-> [c \in Clients |-> NoReply],
                 next |-> 1, dropped |-> {}]
    /\ session = [c \in Clients |-> "reads"]
    /\ peer = [c \in Clients |-> "there"]
    /\ delivered = [c \in Clients |-> {}]
    /\ lost = {} /\ arrivals = <<>> /\ outcome = NoOutcome /\ faults = 0
    /\ play \in Plays

Adds(cmd) == cmd.name \in {"rpush", "xadd"}

(* The bounds on what clients send: items, counting those a transaction    *)
(* will add, and commands in a transaction.                                *)
WithinBounds(c, cmd) ==
    /\ Adds(cmd) => engine.next + FoldSet(LAMBDA x, n : n + Len(SelectSeq(engine.clients[x].queue, Adds)),
                                          0, Clients) <= MaxItems
    /\ engine.clients[c].inMulti /\ cmd.name \notin RunsInMulti =>
           engine.clients[c].queued < MaxQueue
    /\ cmd.arg # c

(* Items written to a connection.                                          *)
Write(c, items) ==
    IF peer[c] = "there" THEN delivered' = [delivered EXCEPT ![c] = @ \union Range(items)] /\ UNCHANGED lost
    ELSE lost' = lost \union Range(items) /\ UNCHANGED delivered

(* Those still blocked, in their order, then those who came to block.      *)
Arrived(e) ==
    SelectSeq(arrivals, LAMBDA c : IsBlocked(e, c))
        \o SetToSeq({c \in Clients : IsBlocked(e, c) /\ ~Contains(arrivals, c)})

Fault(kind) == kind \in play.behaviours /\ faults < MaxFaults /\ faults' = faults + 1

(* The thread reads a command and runs it under the lock, also one its     *)
(* client left behind.  CLIENT KILL shuts down the socket of the one it    *)
(* removes.                                                                *)
Command(c, cmd) ==
    /\ session[c] = "reads" /\ peer[c] # "gone" /\ engine.clients[c] # Nobody /\ WithinBounds(c, cmd)
    /\ \/ UNCHANGED faults
       \/ Fault("evict")
    /\ \E victims \in SUBSET {at \in Dbs \X Keys : engine.dbs[at[1]][at[2]] # NoEntry} :
         /\ Cardinality(victims) = faults' - faults
         /\ \E r \in {Execute(engine, c, cmd, victims)} :
                /\ engine' = r.e
                /\ session' = [session EXCEPT ![c] = IF r.reply = Blocks THEN "waits" ELSE "reads"]
                /\ peer' = [x \in Clients |->
                              IF \/ engine.clients[x] # Nobody /\ r.e.clients[x] = Nobody
                                 \/ x = c /\ peer[c] = "unread"
                              THEN "gone" ELSE peer[x]]
                /\ arrivals' = Arrived(r.e)
                /\ outcome' = IF cmd.name = "exec" THEN [who |-> c, kind |-> r.reply.kind] ELSE NoOutcome
                /\ Write(c, r.reply.items)
    /\ UNCHANGED play

(* wait_unblocked, woken by a notification or after BLOCKED_POLL: a reply  *)
(* is sent.                                                                *)
TakeReply(c) ==
    /\ session[c] = "waits" /\ engine.replies[c] # NoReply
    /\ engine' = [engine EXCEPT !.replies[c] = NoReply]
    /\ session' = [session EXCEPT ![c] = "reads"]
    /\ Write(c, engine.replies[c].items)
    /\ outcome' = NoOutcome /\ UNCHANGED <<peer, arrivals, faults, play>>

(* There is no reply; every client whose deadline has passed gets one.     *)
TimeOut(c) ==
    /\ session[c] = "waits" /\ engine.replies[c] = NoReply /\ IsBlocked(engine, c)
    /\ \E x \in Clients : PassedDeadline(engine, x)
    /\ LET e == ExpireBlocked(engine)
       IN  /\ engine' = [e EXCEPT !.replies[c] = NoReply]
           /\ session' = [session EXCEPT ![c] = IF IsBlocked(e, c) THEN "waits" ELSE "reads"]
           /\ arrivals' = Arrived(e)
    /\ outcome' = NoOutcome /\ UNCHANGED <<peer, delivered, lost, faults, play>>

(* The peek sees the end of the stream only behind all the input.          *)
Closed(c) == peer[c] = "gone"

(* There is no reply and the client was killed, or the connection turns    *)
(* out to be closed at the other end; a thread that reads comes to the end *)
(* of the stream, behind a part of a command if that is what was left.     *)
GiveUp(c) ==
    /\ \/ session[c] = "waits" /\ engine.replies[c] = NoReply /\ (~IsBlocked(engine, c) \/ Closed(c))
       \/ session[c] = "reads" /\ peer[c] # "there"
    /\ session' = [session EXCEPT ![c] = "closes"]
    /\ outcome' = NoOutcome /\ UNCHANGED <<engine, peer, delivered, lost, arrivals, faults, play>>

(* The thread ends: the engine forgets the client.                         *)
Disconnect(c) ==
    /\ session[c] = "closes"
    /\ engine' = IF engine.clients[c] = Nobody THEN engine
                 ELSE RemoveClient(engine, c)
    /\ session' = [session EXCEPT ![c] = "over"]
    /\ arrivals' = Arrived(engine')
    /\ outcome' = NoOutcome /\ UNCHANGED <<peer, delivered, lost, faults, play>>

Connect(c) ==
    /\ "connect" \in play.behaviours /\ session[c] = "over"
    /\ engine' = [engine EXCEPT !.clients[c] = NewClient]
    /\ session' = [session EXCEPT ![c] = "reads"]
    /\ peer' = [peer EXCEPT ![c] = "there"]
    /\ outcome' = NoOutcome /\ UNCHANGED <<delivered, lost, arrivals, faults, play>>

(* The client at the other end is gone; it may have sent one more command, *)
(* or a part of one.                                                       *)
Leave(c) ==
    /\ peer[c] = "there" /\ Fault("leave")
    /\ \E left \in {"gone", "unread"} : peer' = [peer EXCEPT ![c] = left]
    /\ outcome' = NoOutcome /\ UNCHANGED <<engine, session, delivered, lost, arrivals, play>>

DeadlinePasses(c) ==
    /\ engine.clients[c].blocked.deadline = "ahead"
    /\ engine' = [engine EXCEPT !.clients[c].blocked.deadline = "past"]
    /\ outcome' = NoOutcome /\ UNCHANGED <<session, peer, delivered, lost, arrivals, faults, play>>

(* A key's expiry passes, and with it the time its watchers wrote down.    *)
ExpiryPasses(d, k) ==
    LET ahead(c) == {w \in Watches(engine, c, d, k) : w.expiry = "ahead"}
        past(c) == {[w EXCEPT !.expiry = "past"] : w \in ahead(c)}
    IN  /\ "expire" \in play.behaviours
        /\ engine.dbs[d][k].expiry = "ahead" \/ \E c \in Clients : ahead(c) # {}
        /\ engine' = FoldSet(LAMBDA c, acc : [acc EXCEPT !.clients[c].watched = (@ \ ahead(c)) \union past(c)],
                             [engine EXCEPT !.dbs[d][k].expiry = IF @ = "ahead" THEN "past" ELSE @],
                             Clients)
        /\ outcome' = NoOutcome /\ UNCHANGED <<session, peer, delivered, lost, arrivals, faults, play>>

(* The sweeper removes what has expired.                                   *)
PurgeExpired ==
    LET expired == {at \in Dbs \X Keys : Expired(engine.dbs[at[1]][at[2]])}
    IN  /\ expired # {}
        /\ engine' = DeleteAll(engine, expired)
        /\ outcome' = NoOutcome /\ UNCHANGED <<session, peer, delivered, lost, arrivals, faults, play>>

Next ==
    \/ \E c \in Clients :
         \/ \E cmd \in play.commands[c] : Command(c, cmd)
         \/ TakeReply(c) \/ TimeOut(c) \/ GiveUp(c) \/ Disconnect(c)
         \/ Connect(c) \/ Leave(c) \/ DeadlinePasses(c)
    \/ \E d \in Dbs, k \in Keys : ExpiryPasses(d, k)
    \/ PurgeExpired

Spec == Init /\ [][Next]_vars

(* A waiting thread wakes every BLOCKED_POLL at the latest, a closed       *)
(* connection ends its thread, and time goes on.                           *)
LiveSpec ==
    /\ Spec
    /\ \A c \in Clients : WF_vars(TakeReply(c)) /\ WF_vars(TimeOut(c)) /\ WF_vars(GiveUp(c))
                          /\ WF_vars(Disconnect(c)) /\ WF_vars(DeadlinePasses(c))

(***************************************************************************)
(* Properties.                                                             *)
(***************************************************************************)
(* Between commands nobody waits for what is there: serve_blocked wakes a  *)
(* waiter whichever way its key came to hold data, by a push, a BLMOVE of  *)
(* another waiter, a transaction or SWAPDB.                                *)
NobodyWaitsOnData ==
    \A c \in Clients : IsBlocked(engine, c) =>
        LET b == engine.clients[c].blocked
        IN  \A k \in Range(b.keys) :
                LET entry == engine.dbs[b.db][k]
                IN  ~(Live(entry) /\ entry.type = KindOf(b.cmd) /\ entry.items # <<>>)

(* Every item that was added is in one place: under a key, in one reply,   *)
(* with one client, or gone with its key or its connection.  A timeout     *)
(* that races a push neither loses the element nor hands it out twice.     *)
EachItemOnce ==
    \A i \in 1..engine.next - 1 :
        LET under == {<<at, n>> \in (Dbs \X Keys) \X Items :
                          LET items == engine.dbs[at[1]][at[2]].items
                          IN  n \in DOMAIN items /\ items[n] = i}
            with == {c \in Clients : i \in Range(engine.replies[c].items)}
            got == {c \in Clients : i \in delivered[c]}
        IN  Cardinality(under) + Cardinality(with) + Cardinality(got)
                + Count(i \in lost) + Count(i \in engine.dropped) = 1

BlockedKeys(c) == Range(engine.clients[c].blocked.keys)
ServedNow(c) == IsBlocked(engine, c) /\ engine'.replies[c].kind \in {"items", "ok"}

(* Clients blocked on lists are served first in, first out: nobody is      *)
(* served while one who came before, and waits for all the keys it waited  *)
(* for, is left waiting (the header of blocking.rs).  Consumers blocked on *)
(* several streams are not, as a turn that finds nothing costs them their  *)
(* place on every stream.                                                  *)
ServedInOrder ==
    [][\A i, j \in DOMAIN arrivals :
         LET c == arrivals[i] d == arrivals[j]
         IN  /\ i < j /\ ServedNow(d)
             /\ engine.clients[c].blocked.db = engine.clients[d].blocked.db
             /\ {KindOf(engine.clients[c].blocked.cmd), KindOf(engine.clients[d].blocked.cmd)} = {"list"}
             /\ BlockedKeys(d) \subseteq BlockedKeys(c)
             => engine'.clients[c].blocked = NotBlocked]_vars

Ran(c) == outcome' = [who |-> c, kind |-> "ran"] /\ outcome' # outcome

(* An EXEC that runs finds every watched key as WATCH left it: whatever    *)
(* wrote, expired or flushed it in between has made the EXEC fail.  The    *)
(* plays leave out XGROUP and evictions, which touch no watched key.       *)
ExecSawWhatItWatched ==
    [][\A c \in Clients : Ran(c) =>
         \A w \in engine.clients[c].watched : Value(engine, w.db, w.key) = w.seen]_vars

(* An EXEC that runs, runs every command that was answered QUEUED: queue   *)
(* drops commands only where the EXEC is bound to fail.                    *)
ExecIsWhole ==
    [][\A c \in Clients : Ran(c) =>
         engine.clients[c].queued = Len(engine.clients[c].queue)]_vars

(* A client that blocks with a timeout is answered, one that is served     *)
(* gets its reply, and one that has gone is forgotten, blocked or not,     *)
(* although nobody but the waiting threads looks at deadlines and closed   *)
(* connections (wait_unblocked).  The exception is a client that blocks    *)
(* without a timeout and left input behind: its thread peeks at that input *)
(* and not at the end of the stream (closed).                              *)
WaitersEnd ==
    \A c \in Clients :
        /\ engine.clients[c].blocked.deadline # "never" ~> engine.clients[c].blocked.deadline = "never"
        /\ engine.replies[c] # NoReply ~> engine.replies[c] = NoReply
        /\ peer[c] # "there" ~>
               \/ session[c] = "over"
               \/ peer[c] = "unread" /\ IsBlocked(engine, c) /\ engine.clients[c].blocked.deadline = "never"
=============================================================================

---------------------------- MODULE EsDocuments ----------------------------
(***************************************************************************)
(* The documents of the Elasticsearch engine (src/elasticsearch/engine.rs):*)
(* reads and writes of one document, _update, _bulk, _reindex,             *)
(* _delete_by_query and _update_by_query, searches and scrolls, refreshes, *)
(* and the operations that move names and indices under them: creating,    *)
(* deleting, closing and opening an index, switching an alias, _rollover,  *)
(* and a clean restart.                                                    *)
(*                                                                         *)
(* The whole state is behind one mutex, one thread serves each connection. *)
(* A request takes the mutex several times: to resolve the name it was     *)
(* given, to see whether the index is closed, for each item of a bulk, and *)
(* to refresh in the end; other requests run in between.  Each of these    *)
(* critical sections is an action.                                         *)
(*                                                                         *)
(* A document's content is the number of the write that made it (its       *)
(* stamp).  An ingest pipeline is what it makes of a write: it refuses it, *)
(* drops it, or sends it on to an index, an id and a routing.  Mappings,   *)
(* blocks, reindex scripts and time-series indices are left out.           *)
(***************************************************************************)
EXTENDS Integers, Sequences, FiniteSets, SequencesExt

CONSTANTS
    Clients,      \* one connection each
    Indices,      \* the names an index may have
    Alias,        \* the name an alias may have
    Ids,          \* document ids, strings
    Routings,     \* routing values, strings
    HighKeys,     \* the ids and routings the second of two shards holds
    Nothing,      \* no routing, no context, no condition, no alias
    MaxWrites,    \* bound: stamps handed out
    Plays         \* what the clients send, see Init

ASSUME NamesDistinct == Alias \notin Indices
ASSUME KeysHeld == HighKeys \subseteq Ids \union Routings

(* What a client sends for one document, alone or in a bulk, where it need  *)
(* not name an index: want is TRUE for if_seq_no, ext is the external       *)
(* version or 0, gte whether it may be the document's (external_gte).       *)
Kinds == {"get", "index", "create", "malformed", "delete", "update", "update delete", "update noop", "upsert"}
Items == [kind : Kinds, name : Indices \union {Alias, Nothing}, id : Ids, routing : Routings \union {Nothing},
         want : BOOLEAN, ext : Nat, gte : BOOLEAN]
Outcomes == [how : {"failed", "dropped", "doc"}, name : Indices \union {Alias}, id : Ids, routing : Routings \union {Nothing}]
ASSUME PlaysSendItems ==
    \A p \in Plays :
        /\ p.items \subseteq Items /\ \A it \in p.items : it.name # Nothing
        /\ \A bulk \in p.bulks : /\ bulk.items \in Seq(Items) /\ bulk.items # <<>>
                                /\ bulk.path = Nothing => \A k \in DOMAIN bulk.items : bulk.items[k].name # Nothing
        /\ \A n \in DOMAIN p.ingest : p.ingest[n] # {} /\ p.ingest[n] \subseteq Outcomes

VARIABLES
    indices,      \* State.indices: a partial function from names
    contexts,     \* State.contexts: the scroll each client has open
    req,          \* the request each client waits for
    known,        \* what each client last read: [id, doc, born]
    play,         \* the play this behaviour follows
    used,         \* [writes, requests, admin]: what the bounds count
    overwritten,  \* history: writes that replaced another version than they meant to
    doubled       \* history: an upsert left a document twice in the index order

vars == <<indices, contexts, req, known, play, used, overwritten, doubled>>
----------------------------------------------------------------------------
Names == Indices \union {Alias}
Missing == [stamp |-> 0, version |-> 0, seq |-> -2, routing |-> Nothing]
Idle == [stage |-> "idle"]

(* shard_of: the shard a routing or an id hashes to.                        *)
ShardOf(key) == IF play.shards = 2 /\ key \in HighKeys THEN 1 ELSE 0
Key(id, routing) == IF routing = Nothing THEN id ELSE routing

(* A new index.  dead, owed and born are history: the stamp of the last     *)
(* delete of each document, of its last write acknowledged with a refresh,  *)
(* and of the index itself.                                                 *)
NewIndex(n, mark) ==
    [docs |-> [id \in Ids |-> Missing], order |-> <<>>, seq |-> [s \in {0, 1} |-> -1],
     opened |-> TRUE, alias |-> mark, committed |-> <<>>,
     dead |-> [id \in Ids |-> 0], owed |-> [id \in Ids |-> 0], born |-> n]

(* Index::refresh: the searchable snapshot becomes what the index holds.    *)
Hit(i, n, id) == [ix |-> n, id |-> id, doc |-> i.docs[id], born |-> i.born]
Refreshed(i, n) == [i EXCEPT !.committed = [k \in DOMAIN i.order |-> Hit(i, n, i.order[k])]]

(* Index::next_seq: several shards count separately.                        *)
Numbered(i, key) == [i EXCEPT !.seq[ShardOf(key)] = @ + 1]

(* routed_visible: whether the routing reaches the shard holding the id.    *)
Visible(i, id, routing) ==
    \/ i.docs[id] = Missing
    \/ ShardOf(Key(id, i.docs[id].routing)) = ShardOf(Key(id, routing))
----------------------------------------------------------------------------
(* Names.                                                                   *)
With(ixs, name) == IF name = Alias THEN {n \in DOMAIN ixs : ixs[n].alias # Nothing} ELSE {}

(* single_target: the index one write or one read reaches, none on error.   *)
(* An alias without an index is the name of an index to create.             *)
SingleTarget(ixs, name, write) ==
    IF name \in DOMAIN ixs \/ With(ixs, name) = {} THEN {name}
    ELSE LET with == With(ixs, name)
             marked == {n \in with : ixs[n].alias = "write"}
         IN IF write /\ marked # {} THEN {CHOOSE n \in marked : TRUE}
            ELSE {n \in with : with = {n} /\ (write => ixs[n].alias # "not")}

(* route: the index a _bulk or a by-query reaches through its path, and the *)
(* one the closed check looks at: any that carries the alias.               *)
FirstTargets(ixs, name) ==
    IF name \in DOMAIN ixs \/ With(ixs, name) = {} THEN {name} ELSE With(ixs, name)

(* resolve_indices: every index a search of the name reaches.               *)
ResolveIndices(ixs, name) == IF name \in DOMAIN ixs THEN {name} ELSE With(ixs, name)

(* n is inserted, replaced or left as it was.                               *)
Put(ixs, n, i) == [m \in DOMAIN ixs \union {n} |-> IF m = n THEN i ELSE ixs[m]]
Drop(ixs, n) == [m \in DOMAIN ixs \ {n} |-> ixs[m]]
----------------------------------------------------------------------------
(* One document.  The want of an item under way is what the client read,    *)
(* when it sends if_seq_no.                                                 *)

(* check_seq_no: the document still has the sequence number that was read.  *)
CheckSeqNo(cur, want) == want = Nothing \/ (cur # Missing /\ cur.seq = want.doc.seq)

(* external_version: it must be above the document's, or not below it.      *)
Faulty_ExternalConflict(cur, it) == it.ext # 0 /\ cur # Missing /\ it.ext < cur.version
ExternalConflict(cur, it) ==
    it.ext # 0 /\ cur # Missing /\ (it.ext < cur.version \/ (~it.gte /\ it.ext = cur.version))

(* The new version of a document goes to the end of the order.              *)
Stored(i, it, doc, key, n) ==
    [Numbered(i, key) EXCEPT
        !.order = Append(SelectSeq(@, LAMBDA x : x # it.id), it.id),
        !.docs[it.id] = [doc EXCEPT !.stamp = n, !.seq = i.seq[ShardOf(key)] + 1]]
Removed(i, it, key, n) ==
    [Numbered(i, key) EXCEPT !.order = SelectSeq(@, LAMBDA x : x # it.id),
                             !.docs[it.id] = Missing, !.dead[it.id] = n]

(* wrote: the document is another one now; done: the handler reached its    *)
(* end, where it refreshes if it was asked to.                              *)
Error(i) == [index |-> i, wrote |-> FALSE, done |-> FALSE]
Noop(i) == [index |-> i, wrote |-> FALSE, done |-> TRUE]
Wrote(i) == [index |-> i, wrote |-> TRUE, done |-> TRUE]

(* document_api, PUT and POST.                                              *)
IndexDocument(i, it, n) ==
    LET cur == i.docs[it.id] IN
    IF \/ it.kind = "create" /\ cur # Missing
       \/ ~CheckSeqNo(cur, it.want)
       \/ ExternalConflict(cur, it)
       \/ it.kind = "malformed"
    THEN Error(i)
    ELSE Wrote(Stored(i, it,
                      [cur EXCEPT !.version = IF it.ext # 0 THEN it.ext ELSE @ + 1, !.routing = it.routing],
                      Key(it.id, it.routing), n))

(* document_api, DELETE: also what finds nothing takes a sequence number.   *)
DeleteDocument(i, it, n) ==
    LET cur == i.docs[it.id]
        key == Key(it.id, it.routing)
    IN IF ~Visible(i, it.id, it.routing) THEN Error(Numbered(i, key))
       ELSE IF ~CheckSeqNo(cur, it.want) \/ ExternalConflict(cur, it) THEN Error(i)
       ELSE Wrote(Removed(i, it, key, n))

(* update: a partial document or a script that indexes, deletes or leaves   *)
(* the document, or the upsert of a missing one.  An upsert whose routing   *)
(* reaches another shard than the document's appends to the order only.     *)
UpdateDocument(i, it, n) ==
    LET cur == i.docs[it.id]
        key == Key(it.id, cur.routing)
        Routed(j) == IF it.routing = Nothing \/ j.docs[it.id] = Missing THEN j
                     ELSE [j EXCEPT !.docs[it.id].routing = it.routing]
    IN IF ~CheckSeqNo(cur, it.want) THEN Error(i)
       ELSE IF cur # Missing /\ Visible(i, it.id, it.routing)
       THEN CASE it.kind = "update delete" -> Wrote(Removed(i, it, key, n))
              [] it.kind = "update noop" -> Noop(Routed(i))
              [] OTHER -> Wrote(Routed(Stored(i, it, [cur EXCEPT !.version = @ + 1], key, n)))
       ELSE IF it.kind # "upsert" THEN Error(i)
       ELSE Wrote([Stored(i, it, [Missing EXCEPT !.version = 1, !.routing = it.routing],
                          Key(it.id, it.routing), n)
                   EXCEPT !.order = Append(i.order, it.id)])

Write(i, it, n) ==
    CASE it.kind \in {"index", "create", "malformed"} -> IndexDocument(i, it, n)
      [] it.kind = "delete" -> DeleteDocument(i, it, n)
      [] OTHER -> UpdateDocument(i, it, n)

(* The kinds that create the index they do not find.                        *)
AutoCreates(kind) == kind \in {"index", "create", "malformed", "upsert"}

(* What a write that asks for a refresh was promised: it may be searched.   *)
Owing(i, id) == [i EXCEPT !.owed[id] = IF i.docs[id] = Missing THEN i.dead[id] ELSE i.docs[id].stamp]

(* maybe_refresh at the end of document_api and update.                     *)
MaybeRefresh(r, n, id, refresh) ==
    IF ~refresh \/ ~r.done THEN r.index
    ELSE IF r.wrote THEN Owing(Refreshed(r.index, n), id)
    ELSE Refreshed(r.index, n)
----------------------------------------------------------------------------
(* Init: the indices of the play, empty.  A play is                         *)
(*   shards    the shards of every index                                    *)
(*   start     a function from the indices there are to their alias marks   *)
(*   items     the items clients send: their want is TRUE for if_seq_no     *)
(*   bulks     the bulks clients send: the name in the path, and the items  *)
(*   ingest    what pipelines make of writes: a function from the indices   *)
(*             that have one to sets of outcomes                            *)
(*   names     the names searches and reindexings are sent to               *)
(*   refresh   whether requests ask for a refresh, a set                    *)
(*   requests  the kinds of requests, operations the ones on indices        *)
(*   maxRequests, maxAdmin   bounds: how many of each                       *)
Init ==
    /\ play \in Plays
    /\ indices = [n \in DOMAIN play.start |-> NewIndex(0, play.start[n])]
    /\ contexts = [c \in Clients |-> Nothing]
    /\ req = [c \in Clients |-> Idle]
    /\ known = [c \in Clients |-> Nothing]
    /\ used = [writes |-> 0, requests |-> 0, admin |-> 0]
    /\ overwritten = {}
    /\ doubled = FALSE

Stamp == used.writes + 1
MaySend(kind) == kind \in play.requests /\ used.requests < play.maxRequests
Send(c, r) == /\ req' = [req EXCEPT ![c] = r]
              /\ used' = [used EXCEPT !.requests = @ + 1]
              /\ UNCHANGED <<indices, contexts, known, play, overwritten, doubled>>
Finish(c) == req' = [req EXCEPT ![c] = Idle]

(* The item as client c sends it: with the sequence number it last read.    *)
Sendable(c, it) == it.want => known[c] # Nothing /\ known[c].id = it.id
Sent(c, it) == [it EXCEPT !.want = IF it.want THEN known[c] ELSE Nothing]

(* route: a request on one document has its name resolved first.            *)
SendDocument(c) ==
    /\ req[c] = Idle /\ MaySend("document")
    /\ \E it \in play.items, refresh \in play.refresh :
         /\ Sendable(c, it)
         /\ \E t \in SingleTarget(indices, it.name, it.kind # "get") :
              Send(c, [stage |-> "open", how |-> "document", name |-> it.name, target |-> t,
                       items |-> <<Sent(c, it)>>, at |-> 1, refresh |-> refresh, touched |-> {}, acked |-> {}])

(* A _bulk: the items that name no index of their own go where the name in  *)
(* its path leads now.                                                      *)
SendBulk(c) ==
    /\ req[c] = Idle /\ MaySend("bulk")
    /\ \E bulk \in play.bulks, refresh \in play.refresh :
         /\ \A k \in DOMAIN bulk.items : Sendable(c, bulk.items[k])
         /\ \E t \in IF bulk.path = Nothing THEN {Nothing} ELSE FirstTargets(indices, bulk.path) :
              Send(c, [stage |-> IF bulk.path = Nothing THEN "target" ELSE "open",
                       how |-> "bulk", name |-> bulk.path, target |-> t,
                       items |-> [k \in DOMAIN bulk.items |->
                                    [Sent(c, bulk.items[k]) EXCEPT !.name = IF @ = Nothing THEN t ELSE @]],
                       at |-> 1, refresh |-> refresh, touched |-> {}, acked |-> {}])

(* A search, a search that opens a scroll, or a by-query.                   *)
SendQuery(c) ==
    /\ req[c] = Idle
    /\ \E how \in {"search", "scroll", "delete by query", "update by query"}, name \in play.names, refresh \in play.refresh :
         /\ MaySend(how) /\ (how = "scroll" => contexts[c] = Nothing)
         /\ \E t \in IF how \in {"search", "scroll"} THEN {name} ELSE FirstTargets(indices, name) :
              Send(c, [stage |-> "open", how |-> how, name |-> name, target |-> t,
                       items |-> <<>>, at |-> 1, refresh |-> refresh, touched |-> {}, acked |-> {}])

(* The item the request is at, and where it goes on once its index n is     *)
(* known: writes of whole documents pass the pipelines of the index first,  *)
(* unless what is sent is no document.                                      *)
Current(c) == req[c].items[req[c].at]
Entered(it, n) == IF it.kind \in {"index", "create"} /\ n \in DOMAIN play.ingest THEN "ingest" ELSE "run"
NextItem(r) == IF r.how = "document" THEN Idle ELSE [r EXCEPT !.stage = "target", !.at = @ + 1]

(* route: a closed index answers no request on it.                          *)
CheckOpen(c) ==
    /\ req[c].stage = "open"
    /\ \E t \in FirstTargets(indices, req[c].name) :
         IF t \in DOMAIN indices /\ ~indices[t].opened THEN Finish(c)
         ELSE req' = [req EXCEPT ![c].stage =
                        CASE req[c].how = "document" -> Entered(Current(c), req[c].target)
                          [] req[c].how = "bulk" -> "target"
                          [] OTHER -> "query"]
    /\ UNCHANGED <<indices, contexts, known, play, used, overwritten, doubled>>

(* bulk, reindex: the next item's name is resolved; on error it is skipped. *)
ItemTarget(c) ==
    /\ req[c].stage = "target" /\ req[c].at \in DOMAIN req[c].items
    /\ LET t == SingleTarget(indices, Current(c).name, TRUE) IN
       req' = [req EXCEPT ![c] =
                 IF t = {} THEN NextItem(req[c])
                 ELSE LET n == CHOOSE m \in t : TRUE IN
                      [req[c] EXCEPT !.stage = Entered(Current(c), n), !.target = n, !.touched = @ \union {n}]]
    /\ UNCHANGED <<indices, contexts, known, play, used, overwritten, doubled>>

(* index_with_pipelines: they refuse the document, drop it, or send it on;  *)
(* the name of another index is resolved as a client's is.                  *)
Ingest(c) ==
    /\ req[c].stage = "ingest"
    /\ \E out \in play.ingest[req[c].target] :
         LET t == IF out.name = req[c].target THEN {out.name} ELSE SingleTarget(indices, out.name, TRUE) IN
         req' = [req EXCEPT ![c] =
                   IF out.how # "doc" \/ t = {} THEN NextItem(req[c])
                   ELSE [req[c] EXCEPT !.stage = "run", !.target = CHOOSE n \in t : TRUE,
                                       !.items[req[c].at] = [Current(c) EXCEPT !.id = out.id, !.routing = out.routing]]]
    /\ UNCHANGED <<indices, contexts, known, play, used, overwritten, doubled>>

(* The item ran on index n, found as i before: what it answered is r.       *)
Ran(c, n, i, it, r) ==
    /\ indices' = Put(indices, n, MaybeRefresh(r, n, it.id, req[c].how = "document" /\ req[c].refresh))
    /\ used' = [used EXCEPT !.writes = IF r.wrote \/ n \notin DOMAIN indices THEN Stamp ELSE @]
    /\ req' = [req EXCEPT ![c] =
                 IF req[c].how = "document" \/ ~r.wrote THEN NextItem(req[c])
                 ELSE [NextItem(req[c]) EXCEPT
                         !.acked = @ \union {[ix |-> n, id |-> it.id, stamp |-> Stamp, born |-> i.born]}]]
    /\ overwritten' = IF r.wrote /\ it.want # Nothing /\ it.want.doc.stamp # i.docs[it.id].stamp
                      THEN overwritten \union {[meant |-> it.want, found |-> Hit(i, n, it.id)]} ELSE overwritten
    /\ doubled' = (doubled \/ ~IsInjective(r.index.order))

(* document_api, update: on the index resolved before, created if missing.  *)
RunWrite(c) ==
    /\ req[c].stage = "run" /\ Current(c).kind # "get"
    /\ Stamp <= MaxWrites
    /\ LET it == Current(c)
           n == req[c].target
       IN /\ n \in DOMAIN indices \/ AutoCreates(it.kind)
          /\ \E i \in {IF n \in DOMAIN indices THEN indices[n] ELSE NewIndex(Stamp, Nothing)} :
               \E r \in {Write(i, it, Stamp)} : Ran(c, n, i, it, r)
    /\ UNCHANGED <<contexts, known, play>>

(* missing_index: nothing there to delete from, to update or to read.       *)
RunMissing(c) ==
    /\ req[c].stage = "run"
    /\ req[c].target \notin DOMAIN indices /\ ~AutoCreates(Current(c).kind)
    /\ req' = [req EXCEPT ![c] = NextItem(req[c])]
    /\ UNCHANGED <<indices, contexts, known, play, used, overwritten, doubled>>

(* document_api, GET: the document as it is, searchable or not.             *)
RunGet(c) ==
    /\ req[c].stage = "run" /\ Current(c).kind = "get"
    /\ LET it == Current(c)
           n == req[c].target
       IN /\ n \in DOMAIN indices
          /\ indices' = IF req[c].refresh THEN [indices EXCEPT ![n] = Refreshed(@, n)] ELSE indices
          /\ known' = [known EXCEPT ![c] =
                         IF indices[n].docs[it.id] # Missing /\ Visible(indices[n], it.id, it.routing)
                         THEN Hit(indices[n], n, it.id) ELSE @]
    /\ Finish(c)
    /\ UNCHANGED <<contexts, play, used, overwritten, doubled>>

(* The end of a bulk or a reindex: the indices its items were resolved to,  *)
(* not those a pipeline sent them on to, are refreshed if it asked for      *)
(* that, and it is answered.                                                *)
EndItems(c) ==
    /\ req[c].stage = "target" /\ req[c].at \notin DOMAIN req[c].items
    /\ indices' =
         IF ~req[c].refresh THEN indices
         ELSE [n \in DOMAIN indices |->
                 IF n \notin req[c].touched THEN indices[n]
                 ELSE LET i == Refreshed(indices[n], n)
                          mine(id) == {a.stamp : a \in {b \in req[c].acked : b.ix = n /\ b.id = id /\ b.born = i.born}}
                      IN [i EXCEPT !.owed = [id \in Ids |-> Max({@[id]} \union mine(id))]]]
    /\ Finish(c)
    /\ UNCHANGED <<contexts, known, play, used, overwritten, doubled>>
----------------------------------------------------------------------------
(* auto_refresh: each index searched is refreshed first if that is due.     *)
AutoRefreshed(due) == [n \in DOMAIN indices |-> IF n \in due THEN Refreshed(indices[n], n) ELSE indices[n]]

(* What a search of several indices finds, one index after another.         *)
Orders(S) == {s \in [1..Cardinality(S) -> S] : IsInjective(s)}
Found(ixs, order) == FlattenSeq([k \in DOMAIN order |-> ixs[order[k]].committed])

(* search_or_count: works on the searchable snapshot; a hit carries the     *)
(* sequence number of the version it shows.  A scroll keeps all the hits,   *)
(* and hands out the first page.                                            *)
Search(c) ==
    /\ req[c].stage = "query" /\ req[c].how \in {"search", "scroll"}
    /\ \E due \in SUBSET ResolveIndices(indices, req[c].name), order \in Orders(ResolveIndices(indices, req[c].name)) :
         /\ indices' = AutoRefreshed(due)
         /\ \E hits \in {Found(indices', order)} :
              IF req[c].how = "scroll"
              THEN /\ contexts' = [contexts EXCEPT ![c] =
                                     [hits |-> hits, pos |-> 1, view |-> hits,
                                      given |-> SubSeq(hits, 1, Min({1, Len(hits)}))]]
                   /\ UNCHANGED known
              ELSE /\ \E h \in IF hits = <<>> THEN {known[c]} ELSE ToSet(hits) : known' = [known EXCEPT ![c] = h]
                   /\ UNCHANGED contexts
    /\ Finish(c)
    /\ UNCHANGED <<play, used, overwritten, doubled>>

(* scroll_api: the hits after those handed out, one to a page.              *)
Faulty_Page(ctx) ==
    LET now == IF ctx.hits[1].ix \in DOMAIN indices THEN indices[ctx.hits[1].ix].committed ELSE <<>>
    IN SubSeq(now, ctx.pos + 1, Min({ctx.pos + 1, Len(now)}))
Page(ctx) == SubSeq(ctx.hits, ctx.pos + 1, Min({ctx.pos + 1, Len(ctx.hits)}))
NextPage(c) ==
    /\ contexts[c] # Nothing
    /\ contexts[c].pos < Len(contexts[c].hits)
    /\ contexts' = [contexts EXCEPT ![c].pos = @ + 1, ![c].given = @ \o Page(contexts[c])]
    /\ UNCHANGED <<indices, req, known, play, used, overwritten, doubled>>

(* The scroll expires or is cleared.                                        *)
DropContext(c) ==
    /\ contexts[c] # Nothing
    /\ contexts' = [contexts EXCEPT ![c] = Nothing]
    /\ UNCHANGED <<indices, req, known, play, used, overwritten, doubled>>

(* by_query: each hit of the snapshot whose document is as it was is        *)
(* rewritten or deleted, the others are conflicts.                          *)
Faulty_Unchanged(cur, h) == cur # Missing /\ cur.version = h.doc.version
Unchanged(cur, h) == cur # Missing /\ cur.seq = h.doc.seq
QueryWrote(acc, h, delete) ==
    LET cur == acc.index.docs[h.id]
        key == Key(h.id, cur.routing)
    IN IF ~Unchanged(cur, h) THEN acc
       ELSE [index |-> IF delete THEN Removed(acc.index, h, key, acc.n)
                       ELSE Stored(acc.index, h, [cur EXCEPT !.version = @ + 1], key, acc.n),
             n |-> acc.n + 1, wrote |-> acc.wrote \union {h.id},
             lost |-> IF cur.stamp = h.doc.stamp THEN acc.lost
                      ELSE acc.lost \union {[meant |-> h, found |-> Hit(acc.index, h.ix, h.id)]}]
QueryRan(i, delete) ==
    FoldLeft(LAMBDA acc, h : QueryWrote(acc, h, delete),
             [index |-> i, n |-> Stamp, wrote |-> {}, lost |-> {}], i.committed)
Settled(r, n, refresh) ==
    IF r.wrote = {} \/ ~refresh THEN r.index
    ELSE [Refreshed(r.index, n) EXCEPT
            !.owed = [id \in Ids |-> IF id \in r.wrote THEN Owing(r.index, id).owed[id] ELSE @[id]]]

ByQuery(c) ==
    /\ req[c].stage = "query" /\ req[c].how \in {"delete by query", "update by query"}
    /\ LET names == ResolveIndices(indices, req[c].target) IN
       \E due \in SUBSET names :
         \E ran \in {[n \in names |-> QueryRan(AutoRefreshed(due)[n], req[c].how = "delete by query")]} :
           LET last == Max({ran[n].n : n \in names} \union {Stamp}) - 1 IN
           /\ last <= MaxWrites
           /\ indices' = [n \in DOMAIN indices |-> IF n \in names THEN Settled(ran[n], n, req[c].refresh) ELSE indices[n]]
           /\ used' = [used EXCEPT !.writes = last]
           /\ overwritten' = overwritten \union UNION {ran[n].lost : n \in names}
    /\ Finish(c)
    /\ UNCHANGED <<contexts, known, play, doubled>>

(* reindex: the hits of the source are read at once and written one by one. *)
SendReindex(c) ==
    /\ req[c] = Idle /\ MaySend("reindex")
    /\ \E src \in play.names, dest \in play.names, kind \in {"index", "create"},
          external \in {"internal", "external", "external_gte"}, refresh \in play.refresh :
         LET names == ResolveIndices(indices, src) IN
         /\ names # {} /\ dest \notin names
         /\ \E due \in SUBSET names, order \in Orders(names) :
              /\ indices' = AutoRefreshed(due)
              /\ \E hits \in {Found(indices', order)} :
                   req' = [req EXCEPT ![c] =
                     [stage |-> "target", how |-> "reindex", name |-> dest, target |-> dest,
                      items |-> [k \in DOMAIN hits |->
                                   [kind |-> kind, name |-> dest, id |-> hits[k].id,
                                    routing |-> indices[hits[k].ix].docs[hits[k].id].routing,
                                    want |-> Nothing, ext |-> IF external = "internal" THEN 0 ELSE hits[k].doc.version,
                                    gte |-> external = "external_gte"]],
                      at |-> 1, refresh |-> refresh, touched |-> {}, acked |-> {}]]
    /\ used' = [used EXCEPT !.requests = @ + 1]
    /\ UNCHANGED <<contexts, known, play, overwritten, doubled>>
----------------------------------------------------------------------------
(* Indices and aliases.                                                     *)
MayOperate(op) == op \in play.operations /\ used.admin < play.maxAdmin
Operated(ixs, created) ==
    /\ indices' = ixs
    /\ used' = [used EXCEPT !.admin = @ + 1, !.writes = IF created THEN Stamp ELSE @]
    /\ UNCHANGED <<contexts, req, known, play, overwritten, doubled>>

(* index_api, PUT: a name that is an index, or an alias of one, is refused. *)
CreateIndex(n) ==
    /\ MayOperate("create") /\ Stamp <= MaxWrites
    /\ n \notin DOMAIN indices /\ With(indices, n) = {}
    /\ Operated(Put(indices, n, NewIndex(Stamp, Nothing)), TRUE)

(* index_expr_api, DELETE; the remove_index of _aliases.                    *)
DeleteIndex(n) == /\ MayOperate("delete") /\ n \in DOMAIN indices
                  /\ Operated(Drop(indices, n), FALSE)

(* index_action.                                                            *)
RefreshIndex(n) == /\ MayOperate("refresh") /\ n \in DOMAIN indices /\ indices[n].opened
                   /\ Operated([indices EXCEPT ![n] = Refreshed(@, n)], FALSE)
CloseIndex(n) == /\ MayOperate("close") /\ n \in DOMAIN indices /\ indices[n].opened
                 /\ Operated([indices EXCEPT ![n].opened = FALSE], FALSE)
OpenIndex(n) == /\ n \in DOMAIN indices /\ ~indices[n].opened
                /\ MayOperate("close")
                /\ Operated([indices EXCEPT ![n] = Refreshed([@ EXCEPT !.opened = TRUE], n)], FALSE)

(* aliases: some indices lose the alias and one gets it, at once.           *)
SwitchAlias ==
    /\ MayOperate("alias") /\ Alias \notin DOMAIN indices
    /\ \E gone \in SUBSET With(indices, Alias), n \in DOMAIN indices, mark \in {"plain", "write", "not"} :
         Operated([m \in DOMAIN indices |->
                     [indices[m] EXCEPT !.alias = IF m = n THEN mark ELSE IF m \in gone THEN Nothing ELSE @]], FALSE)

(* rollover: finds the write index and whether the new one may be made ...  *)
SendRollover(c) ==
    /\ req[c] = Idle /\ MaySend("rollover")
    /\ Alias \notin DOMAIN indices /\ With(indices, Alias) # {}
    /\ \E old \in SingleTarget(indices, Alias, TRUE), new \in Indices \ DOMAIN indices, due \in BOOLEAN :
         /\ indices' = AutoRefreshed(IF due THEN {old} ELSE {})
         /\ req' = [req EXCEPT ![c] = [stage |-> "create", name |-> Alias, old |-> old, new |-> new,
                                       explicit |-> indices[old].alias = "write"]]
    /\ used' = [used EXCEPT !.requests = @ + 1]
    /\ UNCHANGED <<contexts, known, play, overwritten, doubled>>

(* ... makes it, unless there is one by now ...                             *)
CreateRolled(c) ==
    /\ req[c].stage = "create" /\ Stamp <= MaxWrites
    /\ LET new == req[c].new IN
       IF new \in DOMAIN indices THEN Finish(c) /\ UNCHANGED <<indices, used>>
       ELSE /\ indices' = Put(indices, new, NewIndex(Stamp, Nothing))
            /\ used' = [used EXCEPT !.writes = Stamp]
            /\ req' = [req EXCEPT ![c].stage = "switch"]
    /\ UNCHANGED <<contexts, known, play, overwritten, doubled>>

(* ... and moves the alias, on those of the two that are still there.       *)
SwitchRolled(c) ==
    /\ req[c].stage = "switch"
    /\ indices' = [n \in DOMAIN indices |->
                     CASE n = req[c].new -> [indices[n] EXCEPT !.alias = IF req[c].explicit THEN "write" ELSE "plain"]
                       [] n = req[c].old -> [indices[n] EXCEPT !.alias = IF req[c].explicit THEN "not" ELSE Nothing]
                       [] OTHER -> indices[n]]
    /\ Finish(c)
    /\ UNCHANGED <<contexts, known, play, used, overwritten, doubled>>

(* A clean restart: snapshot at the exit, load at the start.  Contexts and  *)
(* requests are gone; every index is refreshed.                             *)
Faulty_Loaded(i, n) == [i EXCEPT !.committed = <<>>]
Loaded(i, n) == Refreshed(i, n)
Restart ==
    /\ MayOperate("restart")
    /\ indices' = [n \in DOMAIN indices |-> Loaded(indices[n], n)]
    /\ contexts' = [c \in Clients |-> Nothing]
    /\ req' = [c \in Clients |-> Idle]
    /\ used' = [used EXCEPT !.admin = @ + 1]
    /\ UNCHANGED <<known, play, overwritten, doubled>>
----------------------------------------------------------------------------
ClientStep(c) ==
    \/ SendDocument(c) \/ SendBulk(c) \/ SendQuery(c) \/ SendReindex(c) \/ SendRollover(c)
    \/ CheckOpen(c) \/ ItemTarget(c) \/ Ingest(c) \/ RunWrite(c) \/ RunMissing(c) \/ RunGet(c) \/ EndItems(c)
    \/ Search(c) \/ NextPage(c) \/ DropContext(c) \/ ByQuery(c)
    \/ CreateRolled(c) \/ SwitchRolled(c)
IndexStep(n) ==
    CreateIndex(n) \/ DeleteIndex(n) \/ RefreshIndex(n) \/ CloseIndex(n) \/ OpenIndex(n)

Next ==
    \/ \E c \in Clients : ClientStep(c)
    \/ \E n \in Names : IndexStep(n)
    \/ SwitchAlias
    \/ Restart

Spec == Init /\ [][Next]_vars
----------------------------------------------------------------------------
(* While a document exists each new content of it has a higher version than *)
(* the one before, whichever way it was written and in whatever order the   *)
(* requests come through: plain, with an external version, copied from      *)
(* another index, by an update or by a query.  So a late external write     *)
(* never replaces a newer one.  external_gte may repeat a version, and an   *)
(* upsert under another routing, which lists the document twice, starts     *)
(* again with 1.                                                            *)
VersionsGrow ==
    [][\A n \in DOMAIN indices \intersect DOMAIN indices' : \A id \in Ids :
         LET was == indices[n].docs[id]
             is == indices'[n].docs[id]
         IN was # Missing /\ is # Missing /\ is.stamp # was.stamp /\ indices'[n].born = indices[n].born =>
              \/ is.version > was.version
              \/ is.version = was.version /\ \E c \in Clients : req[c].stage = "run" /\ Current(c).gte
              \/ is.version = 1 /\ ~IsInjective(indices'[n].order)]_vars

(* What is written on the strength of a version read before, with if_seq_no *)
(* (check_seq_no) or by _update_by_query and _delete_by_query on the last   *)
(* refresh, replaces exactly that version: no write made in between is      *)
(* lost, whether it changed the document, deleted it, or deleted and made   *)
(* it again.  Two things hide one: the document moved to another shard,     *)
(* which counts for itself, or the index was deleted and made again.        *)
NoLostUpdate ==
    \A o \in overwritten :
        LET shard(h) == ShardOf(Key(h.id, h.doc.routing)) IN
        \/ shard(o.meant) # shard(o.found)
        \/ o.meant.ix # o.found.ix \/ o.meant.born # o.found.born

(* A write, a bulk or a by-query acknowledged with refresh may be searched  *)
(* from then on, also after other writes, a close and an open, and a        *)
(* restart: the searchable snapshot shows it or a later one.  The exception *)
(* is an item of a bulk or a reindex that a pipeline sent on to an index no *)
(* item was resolved to (EndItems).                                         *)
RefreshedSeen ==
    \A n \in DOMAIN indices : \A id \in Ids :
        LET i == indices[n]
            hits == {k \in DOMAIN i.committed : i.committed[k].id = id}
        IN IF hits = {} THEN i.dead[id] >= i.owed[id]
           ELSE \A k \in hits : i.committed[k].doc.stamp >= i.owed[id]

(* The pages of a scroll are those of what was searchable when it was       *)
(* opened, in order, each document once, whatever is written, refreshed or  *)
(* deleted between two pages (ContextKind::Scroll); an upsert under another *)
(* routing is the exception, it lists the document twice.                   *)
ScrollIsOneView ==
    \A c \in Clients : contexts[c] # Nothing =>
        LET ctx == contexts[c]
            shown == [k \in DOMAIN ctx.given |-> <<ctx.given[k].ix, ctx.given[k].id>>]
        IN /\ ctx.given = SubSeq(ctx.view, 1, Min({ctx.pos, Len(ctx.view)}))
           /\ doubled \/ IsInjective(shown)
============================================================================

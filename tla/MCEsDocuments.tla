--------------------------- MODULE MCEsDocuments ---------------------------
(* Small instances of the Elasticsearch documents: what the clients send.   *)
EXTENDS EsDocuments

CONSTANTS a, b

Item(kind, name, id) ==
    [kind |-> kind, name |-> name, id |-> id, routing |-> Nothing, want |-> FALSE, ext |-> 0, gte |-> FALSE]
Routed(kind, id) == [Item(kind, a, id) EXCEPT !.routing = "r"]
IfSeqNo(it) == [it EXCEPT !.want = TRUE]
External(it, version) == [it EXCEPT !.ext = version]
ExternalGte(it, version) == [External(it, version) EXCEPT !.gte = TRUE]
Bulk(path, items) == [path |-> path, items |-> items]
Outcome(how, name, id) == [how |-> how, name |-> name, id |-> id, routing |-> Nothing]

(* A play without bulks and pipelines.                                      *)
Play(shards, start, items, names, refresh, requests, operations, maxRequests, maxAdmin) ==
    [shards |-> shards, start |-> start, items |-> items, bulks |-> {}, ingest |-> <<>>, names |-> names,
     refresh |-> refresh, requests |-> requests, operations |-> operations,
     maxRequests |-> maxRequests, maxAdmin |-> maxAdmin]

(* Writes, conditional ones and refreshing bulks, to an alias that moves by *)
(* _aliases, by _rollover, or by the deletion of the index behind it.       *)
AliasBulk == Bulk(Alias, <<Item("index", Nothing, "d"), Item("update", Alias, "d")>>)
Aliases ==
    {Play(1, a :> "plain" @@ b :> Nothing,
          {Item("index", Alias, "d"), Item("get", Alias, "d"), IfSeqNo(Item("index", Alias, "d")), Item("delete", Alias, "d")},
          {Alias}, {FALSE}, {"document"}, {"alias", "delete"}, 3, 2),
     [Play(1, a :> "not" @@ b :> "write", {Item("index", Alias, "d")},
           {Alias}, {TRUE}, {"document", "bulk"}, {"alias"}, 3, 1) EXCEPT !.bulks = {AliasBulk}],
     [Play(1, a :> "write", {Item("index", Alias, "d")},
           {Alias}, {TRUE}, {"document", "bulk", "rollover"}, {"delete", "create"}, 3, 2) EXCEPT !.bulks = {AliasBulk}],
     [Play(1, a :> "plain", {}, {Alias}, {TRUE}, {"bulk", "rollover"}, {"alias"}, 3, 1) EXCEPT !.bulks = {AliasBulk}]}

(* Writes on the strength of what was read, from the index or a search.     *)
Conditional ==
    {Play(2, a :> Nothing,
          {Item("get", a, "d"), Item("index", a, "d"), IfSeqNo(Item("index", a, "d")), IfSeqNo(Item("delete", a, "d")),
           Routed("index", "d"), Routed("delete", "d"), Routed("upsert", "d")},
          {a}, {FALSE}, {"document"}, {}, 6, 0),
     Play(1, a :> Nothing,
          {Item("index", a, "d"), Item("create", a, "d"), Item("delete", a, "d"), IfSeqNo(Item("update", a, "d"))},
          {a}, {FALSE}, {"document", "search", "update by query"}, {"delete"}, 6, 1),
     Play(2, a :> Nothing, {Item("index", a, "d"), Item("update delete", a, "d"), Routed("index", "d")},
          {a}, {FALSE}, {"document", "update by query", "delete by query"}, {"refresh"}, 6, 1)}

(* Writes that ask for a refresh, with a close, an open and a restart; and  *)
(* bulks whose items go to one index or to two, by themselves or because a  *)
(* pipeline sends them there.                                               *)
Refreshing ==
    {Play(1, a :> Nothing,
          {Item("index", a, "d"), Item("delete", a, "d"), Item("update noop", a, "d"), Item("malformed", a, "d")},
          {a}, BOOLEAN, {"document", "update by query"}, {"close", "restart"}, 3, 2),
     [Play(1, a :> "plain" @@ b :> Nothing, {Item("index", a, "d")},
           {a}, {TRUE}, {"document", "bulk"}, {"restart", "alias"}, 2, 2)
      EXCEPT !.bulks = {Bulk(Alias, <<Item("index", Nothing, "d"), Item("delete", Nothing, "d")>>),
                        Bulk(Nothing, <<Item("index", Alias, "d"), Item("index", b, "e")>>)}],
     [Play(1, a :> "plain" @@ b :> Nothing, {Item("index", a, "d"), Item("index", b, "d"), Item("malformed", a, "d")},
           {a, b}, {TRUE}, {"document", "bulk", "reindex"}, {"alias"}, 2, 1)
      EXCEPT !.bulks = {Bulk(a, <<Item("index", Nothing, "d"), Item("create", b, "e")>>),
                        Bulk(a, <<Item("create", Nothing, "e")>>)},
             !.ingest = a :> {Outcome("failed", a, "d"), Outcome("dropped", a, "d"), Outcome("doc", a, "e"),
                              Outcome("doc", b, "d"), Outcome("doc", Alias, "d")}]}

(* A scroll over documents that are written, moved and deleted meanwhile.   *)
Scrolling ==
    {Play(1, a :> Nothing, {Item("index", a, "d"), Item("index", a, "e")},
          {a}, {TRUE}, {"document", "scroll", "delete by query"}, {"delete"}, 6, 1)}

(* Documents copied into an index that is written too.                      *)
Copying ==
    {Play(1, a :> Nothing,
          {Item("index", a, "d"), External(Item("index", b, "d"), 2), ExternalGte(Item("index", b, "d"), 1), Item("upsert", b, "d")},
          {a, b}, {TRUE}, {"document", "reindex"}, {"alias"}, 4, 1)}

AllPlays == Aliases \union Conditional \union Refreshing \union Scrolling \union Copying
Symmetry == Permutations(Clients)
============================================================================

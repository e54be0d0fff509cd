--------------------------- MODULE MCRedisEngine ---------------------------
(* Small instances of the Redis engine: what each client sends.            *)
EXTENDS RedisEngine, TLC

CONSTANTS ka, kb, d0, d1, x, y, z

Push(k) == Cmd("rpush", <<k>>, "-")
Pop(keys, timeout) == Cmd("blpop", keys, timeout)
Plain(names) == {Cmd(name, <<>>, "-") : name \in names}
OnA(names) == {Cmd(name, <<ka>>, "-") : name \in names}

(* Two clients pop and move elements of two lists, blocking or not, and    *)
(* one fills and changes the lists, or unblocks or kills another.          *)
Waiter == {Pop(<<ka>>, "never"), Pop(<<kb, ka>>, "ahead"), Cmd("blmove", <<ka, kb>>, "never"), Push(ka)}
Changer == {Push(ka), Cmd("lpop", <<kb>>, "-"), Cmd("set", <<kb>>, "-"), Cmd("del", <<kb>>, "-"), Pop(<<ka>>, "ahead"),
            Cmd("unblock", <<>>, x), Cmd("kill", <<>>, y)}
Lists == (x :> Waiter) @@ (y :> Waiter) @@ (z :> Changer)

(* A group's consumers on two streams.                                     *)
Reader == {Cmd("xreadgroup", <<ka, kb>>, "never"), Cmd("xreadgroup", <<kb>>, "ahead"),
           Cmd("xreadgroup", <<ka>>, "never")}
Adder == OnA({"xadd", "xgroup", "del", "expire"}) \union {Cmd("xadd", <<kb>>, "-"), Cmd("xgroup", <<kb>>, "-")}
Streams == (x :> Reader) @@ (y :> Reader) @@ (z :> Adder)

(* One client runs transactions on a key; another changes the key in every *)
(* way, also across databases.                                             *)
Transactor == Plain({"multi", "exec", "discard", "unwatch", "reset", "bad"})
              \union OnA({"watch", "rpush"}) \union {Cmd("bad", <<>>, "exec")}
Writer == OnA({"rpush", "expire", "set"}) \union Plain({"flushdb"})
          \union {Pop(<<ka>>, "never"), Cmd("select", <<>>, d1), Cmd("swapdb", <<>>, d1)}
Transactions == (x :> Transactor) @@ (y :> Writer) @@ (z :> {})

(* Less of it, for liveness.                                               *)
FewLists == (x :> {Pop(<<kb, ka>>, "ahead"), Cmd("blmove", <<ka, kb>>, "never")})
            @@ (y :> {Pop(<<ka>>, "ahead")})
            @@ (z :> {Push(ka), Cmd("unblock", <<>>, x), Cmd("kill", <<>>, y)})

Play(commands, behaviours) == [commands |-> commands, behaviours |-> behaviours]
AllPlays == {Play(Lists, {"leave", "connect", "evict"}), Play(Streams, {"leave", "expire"}),
             Play(Transactions, {"expire"})}
LivePlays == {Play(FewLists, {"leave", "connect"})}
=============================================================================

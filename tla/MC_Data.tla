------------------------------ MODULE MC_Data -------------------------------
(* The data side of the server: the commands on the keyspace (RedisServer)   *)
(* and the structures under them. focus picks the part that a behaviour is   *)
(* about, so that the state spaces add up. RedisServer is checked in         *)
(* scenarios: each gives the clients a small set of commands on one or two   *)
(* keys.                                                                     *)
EXTENDS RedisServer, Dict, Skiplist, Quicklist, Ziplist, Intset, AdList, Rax, Bitops

CONSTANTS Focus, c1, c2, c3, nameP, nameQ, strA, strB, k1, k2, k3, k4, k5

VARIABLE focus

MCClient == {c1, c2, c3}
MCLex == <<1, 2, 3, strA, strB>>
MCLong == {strB}

P == <<0, nameP>>
Q == <<0, nameQ>>
P1 == <<1, nameP>>

K(op, ks) == Cmd(op, ks, <<>>, <<>>, {})
KV(op, ks, vs) == Cmd(op, ks, vs, <<>>, {})
KN(op, ks, ns) == Cmd(op, ks, <<>>, ns, {})
C(op) == Cmd(op, <<>>, <<>>, <<>>, {})
Set(k, v) == Cmd("set", <<k>>, v, <<0>>, {})

Three(x, y, z) == (c1 :> x) @@ (c2 :> y) @@ (c3 :> z)
Only(one) == [c \in MCClient |-> IF c = c1 THEN one ELSE {}]

Base ==
  [name |-> "base", slave |-> FALSE, master |-> Nil, readonly |-> FALSE, drops |-> FALSE, clock |-> 0, steps |-> 4,
   maxmemory |-> 99, policy |-> "noeviction", denyoom |-> {"set", "rpush"}, cmds |-> Only({}), reads |-> {}]

KeyReads == {K("get", <<P>>), K("mget", <<P, Q>>), K("strlen", <<P>>), K("type", <<P>>), K("ttl", <<P>>),
             K("touch", <<P>>), KN("getrange", <<P>>, <<0, -1>>), KN("getrange", <<P>>, <<-1, 5>>),
             KN("keys", <<>>, <<0>>), K("exists", <<P>>), KN("randomkey", <<>>, <<0>>)}

StringScenario ==
  [Base EXCEPT !.name = "strings", !.clock = 2, !.reads = KeyReads,
     !.cmds = Only({Set(P, <<strA>>), Cmd("set", <<P>>, <<3>>, <<1>>, {"xx"}), Cmd("set", <<Q>>, <<2>>, <<1>>, {"nx"}),
                    KV("setnx", <<Q>>, <<strA>>), Cmd("setex", <<P>>, <<strA>>, <<1>>, {}),
                    KV("getset", <<P>>, <<2>>), KN("incrby", <<P>>, <<2>>), KN("incrby", <<Q>>, <<-3>>),
                    KV("append", <<P>>, <<1>>), Cmd("setrange", <<P>>, <<strA>>, <<1>>, {}),
                    KV("mset", <<P, Q>>, <<1, strA>>), KV("msetnx", <<P, Q>>, <<1, strA>>),
                    KN("expire", <<P>>, <<1>>), KN("pexpireat", <<Q>>, <<0>>), K("persist", <<P>>),
                    K("rename", <<P, Q>>), K("renamenx", <<Q, P>>), K("del", <<P, Q>>), K("exists", <<P>>),
                    KN("randomkey", <<>>, <<0>>), KN("flushdb", <<>>, <<0>>), KN("flushall", <<>>, <<>>)})]

\* INCRBYFLOAT, which is propagated as a SET, and the commands on expires.
FloatScenario ==
  [Base EXCEPT !.name = "floats", !.clock = 2, !.steps = 5, !.reads = KeyReads,
     !.cmds = Only({Set(P, <<1>>), KN("incrbyfloat", <<P>>, <<1>>), KN("incrby", <<P>>, <<1>>), KN("expire", <<P>>, <<1>>),
                    K("persist", <<P>>), K("rename", <<P, Q>>), KN("expire", <<Q>>, <<2>>), KN("move", <<Q>>, <<1>>)})]

ListReads == {KN("lrange", <<P>>, <<0, -1>>), KN("lrange", <<P>>, <<1, 5>>), KN("lindex", <<P>>, <<-1>>), K("llen", <<P>>)}

ListScenario ==
  [Base EXCEPT !.name = "lists", !.clock = 1, !.reads = ListReads, !.steps = 4,
     !.cmds = Only({KV("lpush", <<P>>, <<1, 2>>), KV("rpush", <<P>>, <<1, strA>>), KV("rpushx", <<Q>>, <<strA>>),
                    KV("lpushx", <<P>>, <<strA>>), Cmd("linsert", <<P>>, <<1, strA>>, <<>>, {"before"}),
                    Cmd("linsert", <<P>>, <<strA, 1>>, <<>>, {}),
                    Cmd("lset", <<P>>, <<2>>, <<-1>>, {}), K("lpop", <<P>>), K("rpop", <<P>>),
                    KN("ltrim", <<P>>, <<1, -1>>), Cmd("lrem", <<P>>, <<1>>, <<-1>>, {}),
                    Cmd("lrem", <<P>>, <<1>>, <<0>>, {}), K("rpoplpush", <<P, P>>), K("rpoplpush", <<P, Q>>),
                    Set(Q, <<strA>>), KN("expire", <<P>>, <<1>>)})]

BlockScenario ==
  [Base EXCEPT !.name = "block", !.drops = TRUE, !.steps = 5,
     !.cmds = Three({K("blpop", <<P>>), K("brpoplpush", <<P, Q>>)},
                     {K("blpop", <<P>>), K("brpop", <<Q, P>>)},
                     {KV("rpush", <<P>>, <<1>>), KV("rpush", <<P>>, <<1, 2>>), KV("lpush", <<Q>>, <<1>>),
                       Set(Q, <<strA>>), K("rename", <<Q, P>>), C("multi"), C("exec"), K("lpop", <<P>>)})]

SwapScenario ==
  [Base EXCEPT !.name = "swap", !.steps = 6,
     !.cmds = Three({K("blpop", <<P>>)},
                     {K("brpop", <<P1>>)},
                     {KV("rpush", <<P>>, <<1>>), KV("rpush", <<P1>>, <<1, 2>>), KN("swapdb", <<>>, <<0, 1>>),
                       KN("move", <<P>>, <<1>>), KN("expire", <<P1>>, <<3>>),
                       Cmd("sort", <<P1, P>>, <<>>, <<0, -1>>, {})})]

\* SORT ... STORE over a string that a client is blocked on.
OverlayScenario ==
  [Base EXCEPT !.name = "overlay", !.steps = 6,
     !.cmds = Three({K("blpop", <<P>>)},
                     {K("brpop", <<P1>>)},
                     {KV("rpush", <<Q>>, <<1>>), Set(P, <<strA>>), Cmd("sort", <<Q, P>>, <<>>, <<0, -1>>, {}),
                       K("del", <<P>>), KV("rpush", <<P>>, <<2>>), KN("swapdb", <<>>, <<0, 1>>), K("rename", <<Q, P>>)})]

WatchScenario ==
  [Base EXCEPT !.name = "watch", !.steps = 6, !.drops = TRUE,
     !.cmds = Three({K("watch", <<P>>), C("multi"), C("exec"), C("discard"), C("unwatch"), Set(P, <<1>>)},
                     {KN("incrby", <<P>>, <<1>>), K("rename", <<Q, P>>), K("del", <<P>>), KN("flushdb", <<>>, <<0>>)},
                     {Set(Q, <<2>>)})]

\* Changes that tell no watcher: expires, evictions, MOVE and SWAPDB.
QuietScenario ==
  [Base EXCEPT !.name = "quiet", !.steps = 6, !.clock = 2, !.maxmemory = 2, !.policy = "allkeys",
     !.cmds = Three({K("watch", <<P>>), C("multi"), C("exec")},
                     {Set(P, <<1>>), Cmd("set", <<P>>, <<2>>, <<1>>, {}), Set(P1, <<2>>), KN("swapdb", <<>>, <<0, 1>>),
                       KN("move", <<P>>, <<1>>), KN("move", <<P1>>, <<0>>), K("get", <<P>>)},
                     {Set(Q, <<1>>)})]

AbortScenario ==
  [Base EXCEPT !.name = "abort", !.steps = 5,
     !.cmds = Only({C("multi"), C("exec"), C("unknown"), K("get", <<P>>), KV("sadd", <<P>>, <<1, 2, 3>>),
                    K("spop", <<P>>), K("blpop", <<P>>)})]

SetScenario ==
  [Base EXCEPT !.name = "sets", !.clock = 1, !.steps = 5,
     !.reads = {K("scard", <<P>>), KV("sismember", <<P>>, <<strA>>), K("sinter", <<P, Q>>), K("sunion", <<P, Q>>),
                K("sdiff", <<P, Q>>), KN("srandmember", <<P>>, <<2>>), KN("srandmember", <<P>>, <<-2>>)},
     !.cmds = Only({KV("sadd", <<P>>, <<1, 2>>), KV("sadd", <<P>>, <<3, strA>>), KV("sadd", <<Q>>, <<1>>),
                    KV("sadd", <<Q>>, <<strA, strB>>), KV("srem", <<P>>, <<1>>), KV("smove", <<P, Q>>, <<1>>),
                    KV("smove", <<Q, P>>, <<strA>>), K("spop", <<P>>), KN("spopcount", <<P>>, <<2>>),
                    KN("spopcount", <<P>>, <<3>>), K("sinterstore", <<P, P, Q>>), K("sunionstore", <<Q, P, Q>>),
                    K("sdiffstore", <<P, P, Q>>), K("sdiffstore", <<Q, P, P1>>), KN("expire", <<P>>, <<1>>)})]

HashScenario ==
  [Base EXCEPT !.name = "hashes", !.clock = 1, !.steps = 5,
     !.reads = {KV("hget", <<P>>, <<strA>>), KV("hmget", <<P>>, <<strA, strB>>), K("hlen", <<P>>), K("hgetall", <<P>>),
                KV("hexists", <<P>>, <<strB>>)},
     !.cmds = Only({KV("hset", <<P>>, <<strA, 1>>), KV("hset", <<P>>, <<1, 2, 2, 1>>), KV("hset", <<P>>, <<strB, 1>>),
                    KV("hsetnx", <<P>>, <<strA, strB>>), Cmd("hincrby", <<P>>, <<strA>>, <<3>>, {}),
                    Cmd("hincrbyfloat", <<P>>, <<strB>>, <<2>>, {}), KV("hdel", <<P>>, <<strA>>),
                    KV("hdel", <<P>>, <<1, 2, strB>>), KN("expire", <<P>>, <<1>>)})]

ZsetScenario ==
  [Base EXCEPT !.name = "zsets", !.clock = 1, !.steps = 4,
     !.reads = {KN("zrange", <<P>>, <<0, -1>>), KN("zrange", <<P>>, <<-2, 1>>), Cmd("zcount", <<P>>, <<>>, <<1, 2>>, {"minex"}),
                Cmd("zrange", <<P>>, <<>>, <<0, 1>>, {"rev"}),
                Cmd("zlexcount", <<P>>, <<>>, <<1, 3>>, {}), K("zcard", <<P>>), KV("zscore", <<P>>, <<strA>>),
                KV("zrank", <<P>>, <<strA>>), Cmd("zrangebyscore", <<P>>, <<>>, <<1, 2, 1, 1>>, {}),
                Cmd("zrangebylex", <<P>>, <<>>, <<1, 4, 0, -1>>, {"maxex", "rev"})},
     !.cmds = Only({Cmd("zadd", <<P>>, <<strA, 1>>, <<1, 1>>, {}), Cmd("zadd", <<P>>, <<2, strA>>, <<2, 3>>, {"ch"}),
                    Cmd("zadd", <<P>>, <<strA>>, <<2>>, {"incr"}), Cmd("zadd", <<P>>, <<strA>>, <<Inf>>, {"incr"}),
                    Cmd("zadd", <<P>>, <<strA>>, <<-Inf>>, {"incr", "xx"}), Cmd("zadd", <<Q>>, <<strB>>, <<1>>, {}),
                    Cmd("zadd", <<P>>, <<1, strB>>, <<2, 2>>, {"nx"}),
                    KV("zrem", <<P>>, <<strA, 2>>), Cmd("zremrange", <<P>>, <<>>, <<0, 0>>, {"rank"}),
                    Cmd("zremrange", <<P>>, <<>>, <<1, 2>>, {"score", "maxex"}),
                    Cmd("zremrange", <<P>>, <<>>, <<1, 3>>, {"lex"}), KV("sadd", <<Q>>, <<1, strA>>),
                    Cmd("zunionstore", <<P, P, Q>>, <<>>, <<2, 1>>, {"sum"}),
                    Cmd("zunionstore", <<Q, Q, P>>, <<>>, <<1, -1>>, {"min"}),
                    Cmd("zinterstore", <<Q, P, Q>>, <<>>, <<1, 0>>, {"max"}),
                    Cmd("sort", <<P>>, <<>>, <<0, -1>>, {"alpha"}), Cmd("sort", <<P, Q>>, <<>>, <<0, 2>>, {"alpha", "desc"}),
                    Cmd("sort", <<Q, Q>>, <<>>, <<0, -1>>, {"nosort"}), Cmd("sort", <<P, Q>>, <<>>, <<1, -1>>, {"nosort"}),
                    Cmd("sort", <<Q, P>>, <<>>, <<0, -1>>, {"by", "get"}), KN("expire", <<P>>, <<1>>)})]

EvictScenario ==
  [Base EXCEPT !.name = "evict", !.maxmemory = 1, !.policy = "volatile", !.clock = 1, !.steps = 5,
     !.cmds = Only({Set(P, <<1>>), Set(Q, <<1>>), Cmd("set", <<P1>>, <<2>>, <<2>>, {}), KN("expire", <<Q>>, <<1>>),
                    C("multi"), C("exec")})]

SlaveScenario ==
  [Base EXCEPT !.name = "slave", !.slave = TRUE, !.master = c2, !.clock = 2, !.reads = KeyReads, !.steps = 4,
     !.cmds = Three({KN("incrby", <<P>>, <<1>>), KN("expire", <<Q>>, <<1>>), Set(Q, <<strA>>), K("rename", <<Q, P>>),
                      KN("randomkey", <<>>, <<0>>), Cmd("sort", <<P, Q>>, <<>>, <<0, -1>>, {})},
                     {Cmd("set", <<P>>, <<1>>, <<1>>, {}), KN("incrby", <<P>>, <<1>>), K("del", <<P>>)},
                     {})]

WritableScenario ==
  [Base EXCEPT !.name = "writable", !.slave = TRUE, !.clock = 2,
     !.cmds = Only({Cmd("set", <<P>>, <<1>>, <<1>>, {}), KN("expire", <<Q>>, <<1>>), Set(Q, <<strA>>), K("rename", <<P, Q>>),
                    K("persist", <<Q>>), KN("flushall", <<>>, <<>>), KN("move", <<Q>>, <<1>>)})]

\* The same with SWAPDB, of which slaveKeysWithExpire does not learn.
SwappedScenario ==
  [Base EXCEPT !.name = "swapped", !.slave = TRUE, !.clock = 2, !.reads = KeyReads,
     !.cmds = Only({Cmd("set", <<P>>, <<1>>, <<1>>, {}), KN("expire", <<P1>>, <<1>>), KN("swapdb", <<>>, <<0, 1>>),
                    K("persist", <<P>>), KN("flushall", <<>>, <<>>)})]

ReadOnlyScenario ==
  [Base EXCEPT !.name = "readonly", !.slave = TRUE, !.readonly = TRUE, !.master = c2,
     !.cmds = Three({Set(P, <<2>>), K("get", <<P>>), C("multi"), C("exec")},
                     {Set(P, <<1>>)},
                     {})]

MCScenario == {StringScenario, FloatScenario, ListScenario, BlockScenario, SwapScenario, OverlayScenario, WatchScenario,
               QuietScenario, AbortScenario, SetScenario, HashScenario, ZsetScenario, EvictScenario, SlaveScenario,
               WritableScenario, SwappedScenario, ReadOnlyScenario}

(* The structures.                                                           *)

MCDictKey == {k1, k2, k3, k4, k5}
MCHash == (k1 :> 0) @@ (k2 :> 2) @@ (k3 :> 5) @@ (k4 :> 4) @@ (k5 :> 7)
MCStart == {<<k1, k2>>, <<k1, k2, k3, k4, k5>>}

MCQlValue == {strA, strB}

MCIsValue == {-6, -3, -1, 0, 1, 3, 6}

Str(n) == [int |-> FALSE, n |-> n]
Num(n) == [int |-> TRUE, n |-> n]
MCZlValue == {Num(5), Str(247), Str(250), Str(256)}
MCZlOther == {<<Str(247)>>, <<Str(256)>>, <<Str(247), Str(247)>>, <<Num(300), Str(247)>>}

MCRaxKey == {<<>>, <<1>>, <<2>>, <<1, 1>>, <<1, 2>>, <<1, 1, 1>>, <<1, 2, 1, 1>>, <<1, 1, 1, 2, 1>>, <<2, 2, 2>>}
MCRaxProbe == UNION {[1..n -> 1..2] : n \in 0..2} \cup MCRaxKey

BitOffsets == {13}
BitRanges == {-2, 1, 30}
BitFills == {0, 9, 13}
BitValues == {-64, 127}

DataInit ==
  /\ focus \in Focus
  /\ Init /\ DictInit /\ SkipInit /\ QlInit /\ ZlInit /\ IsInit /\ AdInit /\ RaxInit /\ BInit
  /\ focus # "keyspace" => scn = AbortScenario
  /\ focus # "dict" => held = {k1, k2}

DataNext ==
  \/ focus = "keyspace" /\ Next
     /\ UNCHANGED <<focus, dictVars, skipVars, qlVars, zlVars, isVars, adVars, raxVars, bvars>>
  \/ focus = "dict" /\ DictNext
     /\ UNCHANGED <<focus, vars, skipVars, qlVars, zlVars, isVars, adVars, raxVars, bvars>>
  \/ focus = "skiplist" /\ SkipNext
     /\ UNCHANGED <<focus, vars, dictVars, qlVars, zlVars, isVars, adVars, raxVars, bvars>>
  \/ focus = "quicklist" /\ QlNextOp
     /\ UNCHANGED <<focus, vars, dictVars, skipVars, zlVars, isVars, adVars, raxVars, bvars>>
  \/ focus = "ziplist" /\ ZlNext
     /\ UNCHANGED <<focus, vars, dictVars, skipVars, qlVars, isVars, adVars, raxVars, bvars>>
  \/ focus = "intset" /\ IsNext
     /\ UNCHANGED <<focus, vars, dictVars, skipVars, qlVars, zlVars, adVars, raxVars, bvars>>
  \/ focus = "adlist" /\ AdNext
     /\ UNCHANGED <<focus, vars, dictVars, skipVars, qlVars, zlVars, isVars, raxVars, bvars>>
  \/ focus = "rax" /\ RaxNextOp
     /\ UNCHANGED <<focus, vars, dictVars, skipVars, qlVars, zlVars, isVars, adVars, bvars>>
  \/ focus = "bits" /\ BNext
     /\ UNCHANGED <<focus, vars, dictVars, skipVars, qlVars, zlVars, isVars, adVars, raxVars>>

DataSpec == DataInit /\ [][DataNext]_<<focus, vars, dictVars, skipVars, qlVars, zlVars, isVars, adVars, raxVars, bvars>>

\* After every command (call, propagateExpire, handleClientsBlockedOnLists) the
\* keyspace is whole: no empty aggregate, no expire without its key, nobody
\* blocked on a list that is there, nothing expired shown to a reader, and a
\* replica of the propagated commands that has the same data.  What the code does
\* not keep is left out, each case where its property is stated: EXISTS and
\* RANDOMKEY on a slave (ReadsHideExpired), expires after INCRBYFLOAT
\* (ReplicaAgrees), SORT ... STORE over a value a client is blocked on
\* (NoneBlockedOnList), SWAPDB on a writable slave (SlaveKeysRemembered).
KeyspaceSound ==
  focus = "keyspace" =>
    /\ TypeOK /\ ExpiresOfLiveKeys /\ ReplicaAgrees /\ NoneBlockedOnList
    /\ ReadsHideExpired /\ SlaveKeysRemembered

\* Every structure holds what its operations put in: dict.c in the middle of a
\* rehash, the skip list, quicklist.c, ziplist.c, intset.c, adlist.c, rax.c and
\* the bit strings.  A quicklist is left out from the moment it works on an end
\* node that was compressed, which takes a command that left a flagged node
\* (QlExact).
StructuresExact ==
  /\ focus = "dict" => DictExact
  /\ focus = "skiplist" => SkipExact
  /\ focus = "quicklist" => QlExact
  /\ focus = "ziplist" => ZlExact
  /\ focus = "intset" => IsExact
  /\ focus = "adlist" => AdExact
  /\ focus = "rax" => RaxExact
  /\ focus = "bits" => BitsExact

\* What is computed by shortcuts (ranks, seeks, words at a time, the cheaper of
\* two algorithms) is what the plain definition says.
QueriesExact ==
  /\ focus = "skiplist" => SkipQueries
  /\ focus = "rax" => RaxSeeks
  /\ focus = "bits" => BitQueries /\ BitfieldReads
  /\ focus = "keyspace" => AlgorithmsAgree

\* dictScan and dictNext, in a table that is rehashed meanwhile, miss no
\* element that was there all the time (for dictScan: by a scan none of whose
\* calls meets a dict that is being shrunk, see ScanComplete).
TraversalsComplete == focus = "dict" => ScanComplete /\ IterComplete

\* EXEC runs only when no command that signals its changes changed a watched key
\* (expires, evictions, MOVE and SWAPDB do not), blocked clients are served in
\* the order in which they came, and a volatile policy evicts only keys with an
\* expire (touchWatchedKey, serveClientBlockedOnList, freeMemoryIfNeeded).
CommandSteps == ExecUnmodified /\ ServedInOrder /\ EvictsOnlyVolatile
=============================================================================

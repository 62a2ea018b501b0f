----------------------------- MODULE RedisServer -----------------------------
(* A Redis server and its clients: processCommand() and call() (server.c),   *)
(* MULTI, EXEC and WATCH (multi.c), the clients that block and time out      *)
(* (blocked.c), the expire cycles of the cron and the eviction of keys       *)
(* (evict.c), over the commands of the type modules.  One action is one turn *)
(* of the event loop.                                                        *)
(* rep is the dataset a replay of the propagated commands gives: what an AOF *)
(* holds, and what a replica that has caught up has.                         *)
EXTENDS Strings, Hashes, Sets, Sort, Bags

CONSTANTS
  Client,
  Scenario    \* what the clients may send, and how the server is configured

VARIABLES
  srv,        \* dict, expires, slavekeys, now, blocked, overlaid, floated
  rep,        \* dict, expires
  cl,         \* the clients: queue, multi, cas, bad, watch, last
  left,       \* the commands that are still to come
  scn         \* the scenario: it never changes

vars == <<srv, rep, cl, left, scn>>

Dataset == [dict |-> [k \in {} |-> Nil], expires |-> [k \in {} |-> Nil]]
NewClient == [queue |-> <<>>, multi |-> FALSE, cas |-> FALSE, bad |-> FALSE,
              watch |-> [k \in {} |-> Nil], last |-> "none"]
-----------------------------------------------------------------------------
(* call() and the propagation of commands.                                   *)

ReadOnlyCommands == {"exists", "randomkey", "keys", "type", "ttl", "touch", "get", "getrange", "mget", "strlen",
                     "llen", "lindex", "lrange", "sismember", "scard", "srandmember", "sinter", "sunion",
                     "sdiff", "hget", "hmget", "hlen", "hgetall", "hexists", "zrange", "zrangebyscore",
                     "zrangebylex", "zcount", "zlexcount", "zcard", "zscore", "zrank"}

\* The table of commands: what c->cmd->proc does.
Proc(x, client, c) ==
  CASE c.op \in GenericCommands -> GenericCommand(x, c)
    [] c.op \in StringCommands -> StringCommand(x, c)
    [] c.op \in ListCommands -> ListCommand(x, client, c)
    [] c.op \in SetCommands -> SetCommand(x, c)
    [] c.op \in HashCommands -> HashCommand(x, c)
    [] c.op \in ZSetCommands -> ZSetCommand(x, c)
    [] c.op = "sort" -> {SortCommand(x, c)}
    [] c.op = "unwatch" -> {Reply(x, 1)}   \* in EXEC, which has unwatched all

\* call(): what changed the dataset is propagated as the argv the command left,
\* unless it forbade that, then what it asked to propagate besides.  MULTI and
\* EXEC only mark a transaction in what is propagated.
Call(x, client, c) ==
  IF c.op \in {"multi", "exec"} THEN {[x EXCEPT !.sent = Append(@, c)]}
  ELSE {[y EXCEPT !.sent = @ \o (IF y.dirty > 0 /\ ~y.noprop THEN <<y.argv>> ELSE <<>>) \o y.also] :
          y \in Proc([x EXCEPT !.dirty = 0, !.argv = c, !.also = <<>>, !.noprop = FALSE,
                               !.reader = c.op \in ReadOnlyCommands], client, c)}

CallAll(X, client, cs) ==
  FoldLeft(LAMBDA Y, c: UNION {Call(x, client, c) : x \in Y}, X, cs)

\* A replica, or a server that loads its AOF, runs what was propagated.
Replay(r, now, cs) ==
  {[dict |-> y.dict, expires |-> y.expires] :
     y \in CallAll({Context(r.dict, r.expires, now, TRUE, TRUE)}, Nil, cs)}
-----------------------------------------------------------------------------
(* Eviction.  A key takes one unit of memory.                                *)

EvictionCandidates(x, policy) ==
  IF policy = "allkeys" THEN DOMAIN x.dict ELSE DOMAIN x.expires

\* freeMemoryIfNeeded(): deletes keys, which ones is up to the policy and its
\* samples, until enough is free or no key is left that may go.
FreeMemoryIfNeeded(x, max, policy) ==
  LET excess == Cardinality(DOMAIN x.dict) - max
      candidates == EvictionCandidates(x, policy)
      evict(S) == FoldLeft(LAMBDA y, k: DbDelete(PropagateExpire(y, k), k), x, SetToSeq(S))
  IN CASE excess <= 0 -> {[ok |-> TRUE, x |-> x]}
       [] excess > 0 /\ policy = "noeviction" -> {[ok |-> FALSE, x |-> x]}
       [] excess > 0 /\ policy # "noeviction" /\ Cardinality(candidates) < excess ->
            {[ok |-> FALSE, x |-> evict(candidates)]}
       [] OTHER -> {[ok |-> TRUE, x |-> evict(S)] : S \in {T \in SUBSET candidates : Cardinality(T) = excess}}
-----------------------------------------------------------------------------
(* Transactions.                                                             *)

DiscardTransaction(m) ==
  [m EXCEPT !.queue = <<>>, !.multi = FALSE, !.cas = FALSE, !.bad = FALSE, !.watch = [k \in {} |-> Nil]]

FlagTransaction(m) == IF m.multi THEN [m EXCEPT !.bad = TRUE] ELSE m
QueueMultiCommand(m, c) == [m EXCEPT !.queue = Append(@, c)]

\* watchForKey(); what the key held is remembered for ExecUnmodified only, and
\* remembered anew when it changes without a word to its watchers.
Held(x, k) == IF Has(x, k) THEN x.dict[k].val ELSE Nil
WatchForKey(m, x, k) == IF k \in DOMAIN m.watch THEN m ELSE [m EXCEPT !.watch = (k :> Held(x, k)) @@ @]
Remember(m, x) == [m EXCEPT !.watch = [k \in DOMAIN @ |-> IF k \in x.quiet THEN Held(x, k) ELSE @[k]]]
UnwatchAllKeys(m) == [m EXCEPT !.watch = [k \in {} |-> Nil]]
UnwatchCommand(m) == [UnwatchAllKeys(m) EXCEPT !.cas = FALSE]

\* touchWatchedKey() for the keys a command touched.
TouchWatchedKeys_Others(clients, keys, self) ==
  [c \in Client |-> IF c # self /\ DOMAIN clients[c].watch \cap keys # {} /\ ~clients[c].multi
                    THEN [clients[c] EXCEPT !.cas = TRUE] ELSE clients[c]]

TouchWatchedKeys(clients, keys, self) ==
  [c \in Client |-> IF DOMAIN clients[c].watch \cap keys # {} THEN [clients[c] EXCEPT !.cas = TRUE]
                    ELSE clients[c]]

Wrapper(op) == Cmd(op, <<>>, <<>>, <<>>, {})

\* What EXEC runs: MULTI is propagated before the first command that may write,
\* and EXEC after the last if it was.
ExecCommands(queue) ==
  LET first == SelectInSeq(queue, LAMBDA c: c.op \notin ReadOnlyCommands)
  IN IF first = 0 THEN queue
     ELSE Append(InsertAt(queue, first, Wrapper("multi")), Wrapper("exec"))
-----------------------------------------------------------------------------
(* Actions.                                                                  *)

CurrentContext(client) ==
  [Context(srv.dict, srv.expires, srv.now, scn.slave, scn.slave /\ client = scn.master) EXCEPT
     !.slavekeys = srv.slavekeys, !.blocked = srv.blocked, !.overlaid = srv.overlaid,
     !.floated = srv.floated,     !.multi = client # Nil /\ cl[client].multi]

\* What the event loop leaves behind after a command of this client: clients
\* blocked on lists are served, the watchers told, and the rest propagated.
Settle(x, client, clients) ==
  \E y \in {HandleClientsBlockedOnLists(x)} :
    LET told == TouchWatchedKeys([c \in Client |-> Remember(clients[c], y)], y.touched, client)
        served == {y.woken[i].c : i \in DOMAIN y.woken}
    IN /\ srv' = [srv EXCEPT !.dict = y.dict, !.expires = y.expires, !.slavekeys = y.slavekeys,
                             !.overlaid = y.overlaid, !.floated = y.floated,
                             !.blocked = IF y.block = Nil THEN y.blocked ELSE Append(y.blocked, y.block)]
       /\ cl' = [c \in Client |-> IF c \in served THEN [told[c] EXCEPT !.last = "served"] ELSE told[c]]
       /\ IF scn.slave THEN UNCHANGED rep
          ELSE rep' \in Replay(rep, srv.now, y.sent)

IsBlocked(c) == \E i \in DOMAIN srv.blocked : srv.blocked[i].c = c

Control == {"multi", "exec", "discard", "watch"}

\* What becomes of a command: the commands that call() runs for it, and the
\* client's state.
Does(run, m, last) == [run |-> run, m |-> [m EXCEPT !.last = last]]

\* MULTI, DISCARD and WATCH, which are never queued.
MultiCommand(m) == Does(<<>>, [m EXCEPT !.multi = TRUE], "none")
DiscardCommand(m) == Does(<<>>, IF m.multi THEN DiscardTransaction(m) ELSE m, "none")
WatchCommand(m, x, ks) ==
  Does(<<>>, IF m.multi THEN m ELSE FoldLeft(LAMBDA n, k: WatchForKey(n, x, k), m, ks), "none")

ExecCommand(m) ==
  CASE ~m.multi -> Does(<<>>, m, "none")
    [] m.multi /\ (m.cas \/ m.bad) -> Does(<<>>, DiscardTransaction(m), "aborted")
    [] OTHER -> Does(ExecCommands(m.queue), DiscardTransaction(m), "executed")

\* The checks of processCommand() that refuse a command, and whether they make
\* a transaction fail.
Refused(c, cmd, ok) ==
  CASE cmd.op = "unknown" -> "flag"
    [] cmd.op # "unknown" /\ ~ok /\ cmd.op \in scn.denyoom -> "flag"
    [] cmd.op \notin ReadOnlyCommands \cup Control \cup {"unknown", "unwatch"} /\ scn.readonly /\ c # scn.master -> "silent"
    [] OTHER -> "no"

Refuse(m, how) == Does(<<>>, IF how = "flag" THEN FlagTransaction(m) ELSE m, "refused")

Outcome(m, x, cmd, how) ==
  CASE how # "no" -> Refuse(m, how)
    [] how = "no" /\ cmd.op = "exec" -> ExecCommand(m)
    [] how = "no" /\ cmd.op = "discard" -> DiscardCommand(m)
    [] how = "no" /\ cmd.op = "multi" -> MultiCommand(m)
    [] how = "no" /\ cmd.op = "watch" -> WatchCommand(m, x, cmd.k)
    [] how = "no" /\ cmd.op \notin Control /\ m.multi -> Does(<<>>, QueueMultiCommand(m, cmd), "none")
    [] how = "no" /\ cmd.op = "unwatch" /\ ~m.multi -> Does(<<>>, UnwatchCommand(m), "none")
    [] OTHER -> Does(<<cmd>>, m, "none")

ProcessCommand(c, cmd) ==
  \E f \in FreeMemoryIfNeeded(CurrentContext(c), scn.maxmemory, scn.policy) :
    LET out == Outcome(cl[c], f.x, cmd, Refused(c, cmd, f.ok))
    IN \E y \in CallAll({f.x}, c, out.run) : Settle(y, c, [cl EXCEPT ![c] = out.m])

Command(c) ==
  /\ left > 0
  /\ ~IsBlocked(c)
  /\ \E cmd \in scn.cmds[c] : ProcessCommand(c, cmd)
  /\ left' = left - 1
  /\ UNCHANGED scn

Leave(c, last) ==
  /\ srv' = [srv EXCEPT !.blocked = SelectSeq(@, LAMBDA b: b.c # c)]
  /\ cl' = [cl EXCEPT ![c] = [last EXCEPT !.last = "none"]]
  /\ UNCHANGED <<rep, left, scn>>

\* clientsCron() -> replyToBlockedClientTimedOut(), unblockClient()
BlockedTimeout(c) == IsBlocked(c) /\ Leave(c, cl[c])

\* freeClient(): the connection is gone; the client comes back as a new one.
FreeClient(c) == scn.drops /\ cl[c] # NewClient /\ Leave(c, NewClient)

\* databasesCron(): a master expires keys, a slave only those of its clients.
DatabasesCron ==
  /\ \E y \in IF scn.slave THEN ExpireSlaveKeys(CurrentContext(Nil)) ELSE ActiveExpireCycle(CurrentContext(Nil)) :
       Settle(y, Nil, cl)
  /\ UNCHANGED <<left, scn>>

Tick ==
  /\ srv.now < scn.clock
  /\ srv' = [srv EXCEPT !.now = @ + 1]
  /\ UNCHANGED <<rep, cl, left, scn>>

Init ==
  /\ scn \in Scenario
  /\ srv = [dict |-> Dataset.dict, expires |-> Dataset.expires, slavekeys |-> {}, now |-> 0, blocked |-> <<>>,
            overlaid |-> {}, floated |-> FALSE]
  /\ rep = Dataset
  /\ cl = [c \in Client |-> NewClient]
  /\ left = scn.steps

Next == \/ \E c \in Client : Command(c) \/ BlockedTimeout(c) \/ FreeClient(c)
        \/ DatabasesCron
        \/ Tick

Spec == Init /\ [][Next]_vars
-----------------------------------------------------------------------------
(* Properties.                                                               *)

Fits(o) ==
  CASE o.type = "string" -> o.enc = "int" => IsNumber(o.val)
    [] o.type = "list" -> o.val # <<>>
    [] o.type = "set" -> o.val # {} /\ (o.enc = "intset" => o.val \subseteq Int /\ Cardinality(o.val) <= SetMaxIntset)
    [] o.type = "hash" -> DOMAIN o.val # {} /\ (o.enc = "ziplist" => Cardinality(DOMAIN o.val) <= HashMaxZiplist)
    [] o.type = "zset" -> DOMAIN o.val # {} /\ (o.enc = "ziplist" => Cardinality(DOMAIN o.val) <= ZsetMaxZiplist)

\* No command leaves an empty aggregate behind, or a value in an encoding whose
\* limits it exceeds (the serverAssert()s of the type modules rely on it).
TypeOK ==
  /\ \A k \in DOMAIN srv.dict : Fits(srv.dict[k])
  /\ left \in 0..scn.steps
  /\ scn \in Scenario

\* Every expire belongs to a key: dbDelete() and its callers keep db->expires a
\* part of db->dict, whatever the command, the cron or the eviction deletes.
ExpiresOfLiveKeys == DOMAIN srv.expires \subseteq DOMAIN srv.dict

Values(d) == [k \in DOMAIN d |-> [type |-> d[k].type, val |-> d[k].val]]

\* What is propagated rebuilds the dataset: after every step a replay of the
\* commands call() and propagateExpire() sent has the same keys, values and
\* expires, however the commands were rewritten, drawn at random or served
\* to clients that were blocked.  One thing is left out: INCRBYFLOAT of a key
\* with an expire is propagated as a SET, which removes the expire where it is
\* replayed; from then on the replica may lack expires the server has, and has
\* no other.
ReplicaAgrees ==
  \/ scn.slave
  \/ /\ Values(rep.dict) = Values(srv.dict)
     /\ \/ rep.expires = srv.expires
        \/ srv.floated /\ DOMAIN rep.expires \subseteq DOMAIN srv.expires
                       /\ \A k \in DOMAIN rep.expires : rep.expires[k] = srv.expires[k]

\* No client stays blocked in BLPOP, BRPOP or BRPOPLPUSH on a key that holds a
\* list (signalListAsReady() and handleClientsBlockedOnLists() miss none).  Left
\* out is a list that SORT ... STORE puts over a value of another type:
\* dbOverwrite() signals nobody, and the client waits until the key is deleted
\* and created again.
NoneBlockedOnList ==
  \A i \in DOMAIN srv.blocked : \A k \in ToSet(srv.blocked[i].keys) :
    k \in DOMAIN srv.dict \ srv.overlaid => srv.dict[k].type # "list"

\* EXEC runs a transaction only if no command that signals its changes
\* (signalModifiedKey(), signalFlushedDb()) has changed a key the client watched:
\* every one holds what it held when it was watched.  Left out are the changes
\* that tell no watcher, after which the key is compared with what it held then:
\* an expire, an eviction, MOVE and SWAPDB.
ExecUnmodified ==
  [][\A c \in Client : cl[c].multi /\ cl'[c].last = "executed" =>
       \A k \in DOMAIN cl[c].watch :
         cl[c].watch[k] = Held(srv, k)]_vars

\* Blocked clients are served in the order they blocked: none that waits for a
\* key is overtaken by one that came later and waited only for that key.
ServedInOrder ==
  [][\A i, j \in DOMAIN srv.blocked :
       (i < j /\ srv.blocked[i].keys = srv.blocked[j].keys /\ cl'[srv.blocked[j].c].last = "served"
          /\ cl[srv.blocked[j].c].last # "served")
       => cl'[srv.blocked[i].c].last = "served"]_vars

\* A reader never sees a key after its expire, on a master or on a slave that
\* still waits for the DEL: the reply to a read-only command is what it would be
\* if the expired keys were gone.  Two are left out on a slave: EXISTS, which
\* looks the key up with dbExists() and counts an expired one, and RANDOMKEY,
\* which never answers when all the keys are expired.
ReadsHideExpired ==
  \A cmd \in {r \in scn.reads : scn.slave => r.op \notin {"exists", "randomkey"}} :
    LET x == [CurrentContext(Nil) EXCEPT !.link = FALSE, !.reader = TRUE]
        gone == {k \in DOMAIN x.expires : Expired(x, k)}
        clean == [x EXCEPT !.dict = Without(@, gone), !.expires = Without(@, gone)]
    IN Cardinality({{y.reply : y \in Proc(z, Nil, cmd)} : z \in {x, clean}}) = 1

\* SDIFF gives the same set whichever algorithm it picks, and ZCOUNT the same
\* number whichever encoding the sorted set has.
AlgorithmsAgree ==
  /\ \A s \in {<<a, b, c>> : a, b, c \in {srv.dict[k].val : k \in {j \in DOMAIN srv.dict : srv.dict[j].type = "set"}}} :
       DiffOne(s) = DiffTwo(s)
  /\ \A k \in DOMAIN srv.dict : srv.dict[k].type = "zset" =>
       LET z == srv.dict[k].val
           s == Ordered(z)
       IN \A lo, hi \in {z[e] : e \in DOMAIN z} : \A minex, maxex \in BOOLEAN :
            LET r == [min |-> lo, max |-> hi, minex |-> minex, maxex |-> maxex]
                in == {e \in DOMAIN z : GteMin(z[e], r) /\ LteMax(z[e], r)}
            IN /\ CountByRank(s, z, r) = Cardinality(in)
               /\ CountByWalk(s, z, r) = Cardinality(in)
               /\ ToSet(RangeWalk(s, z, r, FALSE, 0, -1)) = in
               /\ RangeWalk(s, z, r, TRUE, 0, -1) = Reverse(RangeWalk(s, z, r, FALSE, 0, -1))

\* Only keys with an expire are evicted under a volatile policy, and only as
\* many as the limit asks for.
EvictsOnlyVolatile ==
  [][(scn.policy = "volatile" /\ left' = left - 1) =>
       \A k \in DOMAIN srv.dict \ DOMAIN srv.expires : k \in DOMAIN srv'.dict]_vars

\* A slave that accepts writes remembers every key its own clients let expire,
\* so that expireSlaveKeys() deletes it although no DEL comes from the master.
\* Left out is a slave whose clients send SWAPDB: dbSwapDatabases() exchanges
\* the expires but not the database numbers slaveKeysWithExpire keeps, so the
\* key is looked for in the wrong database and forgotten.
SlaveKeysRemembered ==
  scn.slave /\ scn.master = Nil /\ (\A c \in Client : \A cmd \in scn.cmds[c] : cmd.op # "swapdb") =>
    DOMAIN srv.expires \subseteq srv.slavekeys
=============================================================================

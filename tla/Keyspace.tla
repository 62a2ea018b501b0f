------------------------------ MODULE Keyspace ------------------------------
(* The Redis keyspace API (db.c, expire.c, and the parts of server.c that    *)
(* commands use): how a command finds, adds, overwrites, deletes and expires *)
(* keys, what it tells the watchers, the blocked clients and the replication *)
(* stream, and the commands that work on a key of any type.                  *)
(* A command runs on a context x:                                            *)
(*   dict, expires  the datasets: a key is a pair <<database, name>>         *)
(*   now            the clock                                                *)
(*   slave          server.masterhost # NULL                                 *)
(*   link           the client is the slave's link to its master             *)
(*   reader         the command is read-only (CMD_READONLY)                   *)
(*   slavekeys      slaveKeysWithExpire                                      *)
(*   multi          the client is inside MULTI                               *)
(*   blocked        the clients blocked on keys, in the order they blocked   *)
(*   ready          server.ready_keys                                        *)
(*   touched        the keys whose watchers were told                        *)
(*   quiet          the keys changed although no watcher is told, and        *)
(*   overlaid       those whose list replaced another value, which tells no  *)
(*                  blocked client, and                                      *)
(*   floated        whether INCRBYFLOAT met an expire; for the properties    *)
(*   dirty          changes made by this command                             *)
(*   argv, also, noprop  the command call() will propagate, what it sends    *)
(*                  besides, and whether the command forbade the former      *)
(*   sent           what went to the AOF and to the slaves                   *)
(*   reply, block   the reply, or how the client blocks instead              *)
(*   woken          the replies to clients that were blocked                 *)
(* and a command is [op, k, v, n, o]: its keys, values, numbers and options. *)
(* A value is [type, enc, val].  A string is a sequence of atoms: a number   *)
(* is one atom, so the strings that encode as an integer are the sequences   *)
(* of one number.                                                            *)
EXTENDS Integers, FiniteSets, Sequences, SequencesExt, TLC

CONSTANTS
  Nil, Err,        \* replies: nothing there, an error
  MaxLL,           \* LLONG_MAX: numbers are -MaxLL-1 .. MaxLL
  Long             \* the elements longer than the *_max_ziplist_value limits

Cmd(op, k, v, n, o) == [op |-> op, k |-> k, v |-> v, n |-> n, o |-> o]

Context(dict, expires, now, slave, link) ==
  [dict |-> dict, expires |-> expires, now |-> now, slave |-> slave, link |-> link,
   reader |-> FALSE, slavekeys |-> {}, multi |-> FALSE, blocked |-> <<>>, ready |-> <<>>, touched |-> {},
   quiet |-> {}, overlaid |-> {}, floated |-> FALSE, dirty |-> 0,
   argv |-> Nil, also |-> <<>>, noprop |-> FALSE, sent |-> <<>>, reply |-> Nil,
   block |-> Nil, woken |-> <<>>]

Has(x, k) == k \in DOMAIN x.dict
Without(f, K) == Restrict(f, DOMAIN f \ K)
Reply(x, r) == [x EXCEPT !.reply = r]
Dirty(x, n) == [x EXCEPT !.dirty = @ + n]
Rewrite(x, c) == [x EXCEPT !.argv = c]
AlsoPropagate(x, c) == [x EXCEPT !.also = Append(@, c)]
PreventCommandPropagation(x) == [x EXCEPT !.noprop = TRUE]
-----------------------------------------------------------------------------
(* Keys.                                                                     *)

SignalModifiedKey(x, k) == [x EXCEPT !.touched = @ \cup {k}]

BlockingKeys(x) == UNION {ToSet(x.blocked[i].keys) : i \in DOMAIN x.blocked}

SignalListAsReady(x, k) ==
  IF k \in BlockingKeys(x) /\ ~Contains(x.ready, k) THEN [x EXCEPT !.ready = Append(@, k)] ELSE x

DbAdd(x, k, v) ==
  LET y == [x EXCEPT !.dict = (k :> v) @@ @, !.overlaid = @ \ {k}]
  IN IF v.type = "list" THEN SignalListAsReady(y, k) ELSE y

\* dbOverwrite() leaves the expire alone, and no blocked client learns of a list.
DbOverwrite(x, k, v) ==
  [x EXCEPT !.dict[k] = v, !.overlaid = IF v.type = "list" THEN @ \cup {k} ELSE @ \ {k}]

Update(x, k, val) == [x EXCEPT !.dict[k].val = val]

DbDelete(x, k) == [x EXCEPT !.dict = Without(@, {k}), !.expires = Without(@, {k})]

RemoveExpire(x, k) == [x EXCEPT !.expires = Without(@, {k})]

\* A slave that accepts writes remembers what its own clients let expire: no
\* DEL will come from the master for those keys.
SetExpire(x, k, when) ==
  [x EXCEPT !.expires = (k :> when) @@ @,
            !.slavekeys = IF x.slave /\ ~x.link THEN @ \cup {k} ELSE @]

GetExpire(x, k) == IF k \in DOMAIN x.expires THEN x.expires[k] ELSE -1

\* Of a key that expires or is evicted no watcher is told.
PropagateExpire(x, k) ==
  [x EXCEPT !.sent = Append(@, Cmd("del", <<k>>, <<>>, <<>>, {})), !.quiet = @ \cup {k}]

Expired(x, k) == k \in DOMAIN x.expires /\ x.now > x.expires[k]

\* On a slave the key stays until the master's DEL arrives.
ExpireIfNeeded(x, k) ==
  IF Expired(x, k) /\ ~x.slave THEN DbDelete(PropagateExpire(x, k), k) ELSE x

\* lookupKeyReadWithFlags(): a slave hides an expired key from the read-only
\* commands of its clients.
VisibleToReader(x, k) == Has(x, k) /\ ~(Expired(x, k) /\ (~x.slave \/ (~x.link /\ x.reader)))

\* setKey()
SetKey(x, k, v) ==
  LET put(y) == IF Has(y, k) THEN DbOverwrite(y, k, v) ELSE DbAdd(y, k, v)
  IN SignalModifiedKey(RemoveExpire(put(ExpireIfNeeded(x, k)), k), k)

LookupKeyWrite(x, k) == ExpireIfNeeded(x, k)

\* lookupKeyWriteOrReply(), lookupKeyReadOrReply() and checkType(): what a
\* command answers that does not find a key of its type.
OrReply(found, missing) == IF found THEN Err ELSE missing

\* lookupKeyWriteOrReply() and checkType(), then the rest of the command.
OnKey(x, k, type, missing, Then(_)) ==
  LET found(y) == IF Has(y, k) /\ y.dict[k].type = type THEN Then(y)
                  ELSE Reply(y, OrReply(Has(y, k), missing))
  IN found(LookupKeyWrite(x, k))

\* The same for a command that creates the key when it is not there.
OnKeyOrNew(x, k, type, Create(_), Then(_)) ==
  LET found(y) == CASE ~Has(y, k) -> Create(y)
                    [] Has(y, k) /\ y.dict[k].type # type -> Reply(y, Err)
                    [] OTHER -> Then(y)
  IN found(LookupKeyWrite(x, k))

\* lookupKeyReadOrReply() and checkType(): missing, or f of the value.
ReadKey(x, k, type, missing, Of(_)) ==
  Reply(ExpireIfNeeded(x, k),
        IF VisibleToReader(x, k) /\ x.dict[k].type = type THEN Of(x.dict[k])
        ELSE OrReply(VisibleToReader(x, k), missing))

\* dbDelete() of an aggregate that the command emptied, then what every writer
\* does: signalModifiedKey() and server.dirty += n.
Changed(x, k, n) == Dirty(SignalModifiedKey(x, k), n)
Emptied(x, k, empty) == IF empty THEN DbDelete(x, k) ELSE x

\* The index arithmetic of GETRANGE, LRANGE, LTRIM, ZRANGE and the others:
\* the positions start..end of 0..len-1 that a pair of arguments names.
FromEnd(i, len) == IF i < 0 THEN len + i ELSE i
RangeStart(i, len) == IF FromEnd(i, len) < 0 THEN 0 ELSE FromEnd(i, len)
RangeEnd(j, len) == IF FromEnd(j, len) >= len THEN len - 1 ELSE FromEnd(j, len)
-----------------------------------------------------------------------------
(* Commands on keys of any type.                                             *)

DelGeneric(x, ks) ==
  LET del(y, k) == IF Has(y, k) THEN Changed(DbDelete(y, k), k, 1) ELSE y
      One(y, k) == del(ExpireIfNeeded(y, k), k)
      counted(y) == Reply(y, y.dirty)
  IN counted(FoldLeft(One, x, ks))

Exists(x, k) ==
  LET found(y) == Reply(y, IF Has(y, k) THEN 1 ELSE 0) IN found(ExpireIfNeeded(x, k))

\* RANDOMKEY: expired keys it meets are deleted and it draws again.  A slave
\* does not delete them, and draws again all the same: when every key is
\* expired it never answers (no outcome).
RandomKey(x, d) ==
  LET mine(y) == {k \in DOMAIN y.dict : k[1] = d}
      gone == {k \in mine(x) : Expired(x, k)}
      met(S) == FoldLeft(ExpireIfNeeded, x, SetToSeq(S))
  IN CASE mine(x) = {} -> {Reply(x, Nil)}
       [] mine(x) # {} /\ x.slave -> {Reply(x, k) : k \in mine(x) \ gone}
       [] OTHER ->
          UNION {IF mine(met(S)) = {} THEN {Reply(met(S), Nil)}
                 ELSE {Reply(met(S), k) : k \in mine(x) \ gone} : S \in SUBSET gone}

\* KEYS * (and the filter of SCAN): every key that is not expired.
Keys(x, d) ==
  LET mine == {k \in DOMAIN x.dict : k[1] = d}
  IN Reply(FoldLeft(ExpireIfNeeded, x, SetToSeq(mine)), {k \in mine : ~Expired(x, k)})

Type(x, k) ==
  Reply(ExpireIfNeeded(x, k), IF VisibleToReader(x, k) THEN x.dict[k].type ELSE "none")

\* touchWatchedKeysOnFlush() tells the watchers of the keys that are there.
Flush(x, gone) ==
  [x EXCEPT !.dict = Without(@, gone), !.expires = Without(@, gone), !.touched = @ \cup gone,
            !.dirty = @ + Cardinality(gone)]

FlushDb(x, d) == Flush(x, {k \in DOMAIN x.dict : k[1] = d})

\* FLUSHALL counts as a change even when the server was empty.
FlushAll(x) == Dirty([Flush(x, DOMAIN x.dict) EXCEPT !.slavekeys = {}], 1)

Timed(x, k, when) == IF when # -1 THEN SetExpire(x, k, when) ELSE x
Moved(x, src, dst) ==
  DbDelete(Timed(DbAdd(DbDelete(x, dst), dst, x.dict[src]), dst, GetExpire(x, src)), src)

Rename(x, src, dst, nx) ==
  LET to(z) == IF Has(z, dst) /\ nx THEN Reply(z, 0)
               ELSE Reply(Changed(SignalModifiedKey(Moved(z, src, dst), src), dst, 1), 1)
      from(y) == CASE ~Has(y, src) -> Reply(y, Err)
                   [] Has(y, src) /\ src = dst -> Reply(y, 0)
                   [] OTHER -> to(ExpireIfNeeded(y, dst))
  IN from(ExpireIfNeeded(x, src))

\* MOVE tells no watcher.
Move(x, src, d) ==
  LET dst == <<d, src[2]>>
      to(z) == IF Has(z, dst) THEN Reply(z, 0)
               ELSE Reply(Dirty([Moved(z, src, dst) EXCEPT !.quiet = @ \cup {src, dst}], 1), 1)
      from(y) == IF Has(y, src) THEN to(ExpireIfNeeded(y, dst)) ELSE Reply(y, 0)
  IN IF src[1] = d THEN Reply(x, Err) ELSE from(ExpireIfNeeded(x, src))

\* SWAPDB: the datasets change places, the watched and the blocking keys and
\* slaveKeysWithExpire stay, no watcher is told, and the blocked clients of both
\* databases are looked at again.
SwapDb_NoScan(x, d, e) ==
  LET sw(k) == <<CASE k[1] = d -> e [] k[1] = e -> d [] OTHER -> k[1], k[2]>>
      swap(f) == [k \in {sw(j) : j \in DOMAIN f} |-> f[sw(k)]]
  IN Dirty([x EXCEPT !.dict = swap(@), !.expires = swap(@)], 1)

SwapDb(x, d, e) ==
  LET sw(k) == <<CASE k[1] = d -> e [] k[1] = e -> d [] OTHER -> k[1], k[2]>>
      swap(f) == [k \in {sw(j) : j \in DOMAIN f} |-> f[sw(k)]]
      in == {k \in DOMAIN x.dict \cup {sw(k) : k \in DOMAIN x.dict} : k[1] \in {d, e}}
      y == [x EXCEPT !.dict = swap(@), !.expires = swap(@), !.quiet = @ \cup in, !.overlaid = @ \ in]
      lists == {k \in BlockingKeys(y) : k[1] \in {d, e} /\ Has(y, k) /\ y.dict[k].type = "list"}
  IN IF d = e THEN Dirty(x, 1) ELSE Dirty(FoldLeft(SignalListAsReady, y, SetToSeq(lists)), 1)

\* EXPIRE and its variants, when = the absolute time.  What is already over is
\* deleted at once, and propagated as the DEL it is; not by a slave.
ExpireGeneric(x, k, when) ==
  LET del(y) == Rewrite(DbDelete(y, k), Cmd("del", <<k>>, <<>>, <<>>, {}))
      found(y) == IF ~Has(y, k) THEN Reply(y, 0)
                  ELSE Reply(Changed(IF when <= y.now /\ ~y.slave THEN del(y) ELSE SetExpire(y, k, when), k, 1), 1)
  IN found(ExpireIfNeeded(x, k))

Ttl(x, k) ==
  Reply(ExpireIfNeeded(x, k),
        CASE ~VisibleToReader(x, k) -> -2
          [] VisibleToReader(x, k) /\ GetExpire(x, k) = -1 -> -1
          [] OTHER -> IF GetExpire(x, k) < x.now THEN 0 ELSE GetExpire(x, k) - x.now)

\* PERSIST tells no watcher either.
Persist(x, k) ==
  LET found(y) == IF Has(y, k) /\ GetExpire(y, k) # -1 THEN Reply(Dirty(RemoveExpire(y, k), 1), 1)
                  ELSE Reply(y, 0)
  IN found(ExpireIfNeeded(x, k))

Touch(x, k) == Reply(ExpireIfNeeded(x, k), IF VisibleToReader(x, k) THEN 1 ELSE 0)

\* activeExpireCycleTryExpire()
TryExpire(x, k) == IF Expired(x, k) THEN DbDelete(PropagateExpire(x, k), k) ELSE x

\* activeExpireCycle(): a sample of the keys with an expire; the loop goes on
\* while many of the sampled keys were expired, so the sample is any set.
ActiveExpireCycle(x) ==
  {FoldLeft(TryExpire, x, SetToSeq(S)) : S \in SUBSET DOMAIN x.expires}

\* expireSlaveKeys(): the same for the keys a writable slave remembers; those
\* that lost their expire are forgotten.
ExpireSlaveKeys(x) ==
  {LET y == FoldLeft(TryExpire, x, SetToSeq(S))
   IN [y EXCEPT !.slavekeys = @ \ {k \in S : k \notin DOMAIN y.expires}] : S \in SUBSET x.slavekeys}

GenericCommands == {"del", "unlink", "exists", "randomkey", "keys", "type", "flushdb", "flushall",
                    "rename", "renamenx", "move", "swapdb", "expire", "pexpireat", "ttl", "persist", "touch"}

\* The entries of redisCommandTable for the commands above.
GenericCommand(x, c) ==
  CASE c.op \in {"del", "unlink"} -> {DelGeneric(x, c.k)}
    [] c.op = "exists" -> {Exists(x, c.k[1])}
    [] c.op = "randomkey" -> RandomKey(x, c.n[1])
    [] c.op = "keys" -> {Keys(x, c.n[1])}
    [] c.op = "type" -> {Type(x, c.k[1])}
    [] c.op = "flushdb" -> {FlushDb(x, c.n[1])}
    [] c.op = "flushall" -> {FlushAll(x)}
    [] c.op \in {"rename", "renamenx"} -> {Rename(x, c.k[1], c.k[2], c.op = "renamenx")}
    [] c.op = "move" -> {Move(x, c.k[1], c.n[1])}
    [] c.op = "swapdb" -> {SwapDb(x, c.n[1], c.n[2])}
    [] c.op = "expire" -> {ExpireGeneric(x, c.k[1], x.now + c.n[1])}
    [] c.op = "pexpireat" -> {ExpireGeneric(x, c.k[1], c.n[1])}
    [] c.op = "ttl" -> {Ttl(x, c.k[1])}
    [] c.op = "persist" -> {Persist(x, c.k[1])}
    [] c.op = "touch" -> {Touch(x, c.k[1])}
=============================================================================

------------------------------- MODULE Hashes -------------------------------
(* The commands on hashes (t_hash.c).  A hash is a ziplist until a field or  *)
(* a value is too long or there are too many of them.                        *)
EXTENDS Keyspace

CONSTANT HashMaxZiplist   \* hash_max_ziplist_entries

HashObject(enc, h) == [type |-> "hash", enc |-> enc, val |-> h]
EmptyHash == HashObject("ziplist", [f \in {} |-> Nil])

\* hashTypeTryConversion() of the arguments, before anything is stored.
HashTypeTryConversion(o, args) ==
  IF o.enc = "ziplist" /\ \E e \in args : e \in Long THEN [o EXCEPT !.enc = "ht"] ELSE o

HashTypeSet(o, f, v) ==
  LET h == (f :> v) @@ o.val
  IN HashObject(IF o.enc = "ziplist" /\ Cardinality(DOMAIN h) <= HashMaxZiplist THEN "ziplist" ELSE "ht", h)

HashTypeLookupWriteOrCreate(y, k) == IF Has(y, k) THEN y ELSE DbAdd(y, k, EmptyHash)

\* The command on the hash, which is there or is created.
OnHash(x, k, Then(_)) ==
  LET found(y) == Then(HashTypeLookupWriteOrCreate(y, k))
  IN OnKeyOrNew(x, k, "hash", found, found)

HSetNX(x, k, f, v) ==
  OnHash(x, k,
    LAMBDA y: LET o == HashTypeTryConversion(y.dict[k], {f, v})
              IN IF f \in DOMAIN o.val THEN Reply(DbOverwrite(y, k, o), 0)
                 ELSE Reply(Changed(DbOverwrite(y, k, HashTypeSet(o, f, v)), k, 1), 1))

\* HSET and HMSET: vs is field, value, field, value, ...
HSet(x, k, vs) ==
  OnHash(x, k,
    LAMBDA y: LET o == HashTypeTryConversion(y.dict[k], ToSet(vs))
                  pair(h, i) == IF i % 2 = 1 THEN HashTypeSet(h, vs[i], vs[i + 1]) ELSE h
                  new == FoldLeftDomain(pair, o, vs)
              IN Reply(Changed(DbOverwrite(y, k, new), k, 1),
                       Cardinality(DOMAIN new.val \ DOMAIN o.val)))

HIncrOverflows(old, incr) ==
  \/ incr < 0 /\ old < 0 /\ incr < (-MaxLL - 1) - old
  \/ incr > 0 /\ old > 0 /\ incr > MaxLL - old

HIncrBy(x, k, f, incr) ==
  OnHash(x, k,
    LAMBDA y: LET o == y.dict[k]
                  old == IF f \in DOMAIN o.val THEN o.val[f] ELSE 0
              IN IF old \notin Int THEN Reply(y, Err)
                 ELSE IF HIncrOverflows(old, incr) THEN Reply(y, Err)
                 ELSE Reply(Changed(DbOverwrite(y, k, HashTypeSet(o, f, old + incr)), k, 1), old + incr))

\* HINCRBYFLOAT is propagated as the HSET of its result.
HIncrByFloat(x, k, f, incr) ==
  OnHash(x, k,
    LAMBDA y: LET o == y.dict[k]
                  old == IF f \in DOMAIN o.val THEN o.val[f] ELSE 0
              IN IF old \notin Int THEN Reply(y, Err)
                 ELSE Rewrite(Reply(Changed(DbOverwrite(y, k, HashTypeSet(o, f, old + incr)), k, 1), old + incr),
                              Cmd("hset", <<k>>, <<f, old + incr>>, <<>>, {})))

HGet(x, k, f) ==
  ReadKey(x, k, "hash", Nil, LAMBDA o: IF f \in DOMAIN o.val THEN o.val[f] ELSE Nil)

HMGet(x, k, fs) ==
  ReadKey(x, k, "hash", [i \in DOMAIN fs |-> Nil],
    LAMBDA o: [i \in DOMAIN fs |-> IF fs[i] \in DOMAIN o.val THEN o.val[fs[i]] ELSE Nil])

HDel(x, k, fs) ==
  OnKey(x, k, "hash", 0,
    LAMBDA y: LET h == y.dict[k].val
                  gone == DOMAIN h \cap ToSet(fs)
              IN IF gone = {} THEN Reply(y, 0)
                 ELSE Reply(Changed(Emptied(Update(y, k, Without(h, gone)), k, gone = DOMAIN h), k,
                                    Cardinality(gone)), Cardinality(gone)))

HLen(x, k) == ReadKey(x, k, "hash", 0, LAMBDA o: Cardinality(DOMAIN o.val))
HGetAll(x, k) == ReadKey(x, k, "hash", [f \in {} |-> Nil], LAMBDA o: o.val)
HExists(x, k, f) == ReadKey(x, k, "hash", 0, LAMBDA o: IF f \in DOMAIN o.val THEN 1 ELSE 0)

HashCommands == {"hset", "hsetnx", "hincrby", "hincrbyfloat", "hget", "hmget", "hdel", "hlen", "hgetall",
                 "hexists"}

HashCommand(x, c) ==
  LET k == c.k[1]
  IN CASE c.op = "hset" -> {HSet(x, k, c.v)}
       [] c.op = "hsetnx" -> {HSetNX(x, k, c.v[1], c.v[2])}
       [] c.op = "hincrby" -> {HIncrBy(x, k, c.v[1], c.n[1])}
       [] c.op = "hincrbyfloat" -> {HIncrByFloat(x, k, c.v[1], c.n[1])}
       [] c.op = "hget" -> {HGet(x, k, c.v[1])}
       [] c.op = "hmget" -> {HMGet(x, k, c.v)}
       [] c.op = "hdel" -> {HDel(x, k, c.v)}
       [] c.op = "hlen" -> {HLen(x, k)}
       [] c.op = "hgetall" -> {HGetAll(x, k)}
       [] c.op = "hexists" -> {HExists(x, k, c.v[1])}
=============================================================================

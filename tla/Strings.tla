------------------------------- MODULE Strings -------------------------------
(* The commands on strings (t_string.c).                                     *)
EXTENDS Keyspace

IsNumber(s) == Len(s) = 1 /\ s[1] \in Int

\* tryObjectEncoding()
TryObjectEncoding(s) ==
  [type |-> "string", enc |-> IF IsNumber(s) THEN "int" ELSE "embstr", val |-> s]

\* SET and its variants.  ttl = 0 when no expire was given.
SetGeneric(x, k, v, ttl, opt, ok, abort) ==
  LET y == IF opt # {} THEN ExpireIfNeeded(x, k) ELSE x
      set == Dirty(SetKey(y, k, TryObjectEncoding(v)), 1)
  IN CASE ttl < 0 -> Reply(x, Err)
       [] ttl >= 0 /\ (("nx" \in opt /\ Has(y, k)) \/ ("xx" \in opt /\ ~Has(y, k))) -> Reply(y, abort)
       [] OTHER -> Reply(IF ttl > 0 THEN SetExpire(set, k, set.now + ttl) ELSE set, ok)

Get(x, k) == ReadKey(x, k, "string", Nil, LAMBDA o: o.val)

GetSet(x, k, v) ==
  LET got == Get(x, k)
  IN IF got.reply = Err THEN got
     ELSE Reply(Dirty(SetKey(got, k, TryObjectEncoding(v)), 1), got.reply)

\* SETRANGE: the string grows with zero bytes (the atom 0) up to the offset.
SetRange(x, k, off, v) ==
  LET grown(s) == [i \in 1..(IF Len(s) > off + Len(v) THEN Len(s) ELSE off + Len(v)) |->
                     CASE i > off /\ i <= off + Len(v) -> v[i - off]
                       [] ~(i > off /\ i <= off + Len(v)) /\ i <= Len(s) -> s[i]
                       [] OTHER -> 0]
      raw(s) == [type |-> "string", enc |-> "raw", val |-> grown(s)]
      done(y, o) == Reply(Changed(y, k, 1), Len(o.val))
  IN IF off < 0 THEN Reply(x, Err)
     ELSE OnKeyOrNew(x, k, "string",
            LAMBDA y: IF v = <<>> THEN Reply(y, 0) ELSE done(DbAdd(y, k, raw(<<>>)), raw(<<>>)),
            LAMBDA y: IF v = <<>> THEN Reply(y, Len(y.dict[k].val))
                      ELSE done(DbOverwrite(y, k, raw(y.dict[k].val)), raw(y.dict[k].val)))

GetRange(x, k, i, j) ==
  ReadKey(x, k, "string", <<>>,
    LAMBDA o: LET len == Len(o.val)
                  start == RangeStart(i, len)
                  end == IF FromEnd(j, len) < 0 THEN (IF len = 0 THEN -1 ELSE 0) ELSE RangeEnd(j, len)
              IN IF (i < 0 /\ j < 0 /\ i > j) \/ start > end \/ len = 0 THEN <<>>
                 ELSE SubSeq(o.val, start + 1, end + 1))

MGet(x, ks) ==
  LET y == FoldLeft(ExpireIfNeeded, x, ks)
  IN Reply(y, [i \in DOMAIN ks |-> IF VisibleToReader(x, ks[i]) /\ x.dict[ks[i]].type = "string"
                                   THEN x.dict[ks[i]].val ELSE Nil])

\* MSETNX sets all of the keys or none of them.
MSetGeneric(x, ks, vs, nx) ==
  LET y == IF nx THEN FoldLeft(ExpireIfNeeded, x, ks) ELSE x
      set(z, i) == SetKey(z, ks[i], TryObjectEncoding(<<vs[i]>>))
  IN IF nx /\ \E i \in DOMAIN ks : Has(y, ks[i]) THEN Reply(y, 0)
     ELSE Reply(Dirty(FoldLeftDomain(set, y, ks), Len(ks)), 1)

Overflows(old, incr) ==
  \/ incr < 0 /\ old < 0 /\ incr < (-MaxLL - 1) - old
  \/ incr > 0 /\ old > 0 /\ incr > MaxLL - old

\* INCR, DECR, INCRBY, DECRBY: what is not there counts as 0; the expire of
\* what is there stays.
IncrDecr(x, k, incr) ==
  LET new(n) == TryObjectEncoding(<<n>>)
  IN OnKeyOrNew(x, k, "string",
       LAMBDA y: Reply(Changed(DbAdd(y, k, new(incr)), k, 1), incr),
       LAMBDA y: LET s == y.dict[k].val
                 IN IF ~IsNumber(s) \/ Overflows(s[1], incr) THEN Reply(y, Err)
                    ELSE Reply(Changed(DbOverwrite(y, k, new(s[1] + incr)), k, 1), s[1] + incr))

\* INCRBYFLOAT is propagated as the SET of its result.  It leaves the expire
\* alone; the SET, where it is replayed, removes it.
IncrByFloat(x, k, incr) ==
  LET new(n) == [type |-> "string", enc |-> "embstr", val |-> <<n>>]
      as(y, n) == Rewrite(Reply(Changed(y, k, 1), n), Cmd("set", <<k>>, <<n>>, <<0>>, {}))
  IN OnKeyOrNew(x, k, "string",
       LAMBDA y: as(DbAdd(y, k, new(incr)), incr),
       LAMBDA y: LET s == y.dict[k].val
                 IN IF ~IsNumber(s) THEN Reply(y, Err)
                    ELSE as([DbOverwrite(y, k, new(s[1] + incr)) EXCEPT !.floated = @ \/ k \in DOMAIN y.expires],
                            s[1] + incr))

AppendTo(x, k, v) ==
  LET raw(s) == [type |-> "string", enc |-> "raw", val |-> s \o v]
  IN OnKeyOrNew(x, k, "string",
       LAMBDA y: Reply(Changed(DbAdd(y, k, TryObjectEncoding(v)), k, 1), Len(v)),
       LAMBDA y: Reply(Changed(DbOverwrite(y, k, raw(y.dict[k].val)), k, 1), Len(y.dict[k].val \o v)))

StrLen(x, k) == ReadKey(x, k, "string", 0, LAMBDA o: Len(o.val))

StringCommands == {"set", "setnx", "setex", "get", "getset", "setrange", "getrange", "mget", "mset",
                   "msetnx", "incrby", "incrbyfloat", "append", "strlen"}

StringCommand(x, c) ==
  LET k == c.k[1]
  IN CASE c.op = "set" -> {SetGeneric(x, k, c.v, c.n[1], c.o, 1, Nil)}
       [] c.op = "setnx" -> {SetGeneric(x, k, c.v, 0, {"nx"}, 1, 0)}
       [] c.op = "setex" -> {IF c.n[1] = 0 THEN Reply(x, Err) ELSE SetGeneric(x, k, c.v, c.n[1], {}, 1, Nil)}
       [] c.op = "get" -> {Get(x, k)}
       [] c.op = "getset" -> {GetSet(x, k, c.v)}
       [] c.op = "setrange" -> {SetRange(x, k, c.n[1], c.v)}
       [] c.op = "getrange" -> {GetRange(x, k, c.n[1], c.n[2])}
       [] c.op = "mget" -> {MGet(x, c.k)}
       [] c.op \in {"mset", "msetnx"} -> {MSetGeneric(x, c.k, c.v, c.op = "msetnx")}
       [] c.op = "incrby" -> {IncrDecr(x, k, c.n[1])}
       [] c.op = "incrbyfloat" -> {IncrByFloat(x, k, c.n[1])}
       [] c.op = "append" -> {AppendTo(x, k, c.v)}
       [] c.op = "strlen" -> {StrLen(x, k)}
=============================================================================

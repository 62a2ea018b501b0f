-------------------------------- MODULE Lists --------------------------------
(* The commands on lists and the clients that block on them (t_list.c).  A   *)
(* list is the sequence of its elements: how a quicklist stores it is the    *)
(* subject of Quicklist.                                                     *)
EXTENDS Keyspace

ListObject(s) == [type |-> "list", enc |-> "quicklist", val |-> s]

ListTypePush(s, e, where) == IF where = "head" THEN <<e>> \o s ELSE Append(s, e)
ListTypePeek(s, where) == IF where = "head" THEN Head(s) ELSE Last(s)
ListTypePop(s, where) == IF where = "head" THEN Tail(s) ELSE Front(s)

PushAll(s, vs, where) == FoldLeft(LAMBDA t, e: ListTypePush(t, e, where), s, vs)

PushGeneric(x, k, vs, where) ==
  LET done(y) == Reply(Changed(y, k, Len(vs)), Len(y.dict[k].val))
  IN OnKeyOrNew(x, k, "list",
       LAMBDA y: done(DbAdd(y, k, ListObject(PushAll(<<>>, vs, where)))),
       LAMBDA y: done(Update(y, k, PushAll(y.dict[k].val, vs, where))))

PushxGeneric(x, k, vs, where) ==
  OnKey(x, k, "list", 0,
    LAMBDA y: LET s == PushAll(y.dict[k].val, vs, where)
              IN Reply(Changed(Update(y, k, s), k, Len(vs)), Len(s)))

LInsert(x, k, pivot, v, where) ==
  OnKey(x, k, "list", 0,
    LAMBDA y: LET s == y.dict[k].val
                  at == SelectInSeq(s, LAMBDA e: e = pivot)
              IN IF at = 0 THEN Reply(y, -1)
                 ELSE Reply(Changed(Update(y, k, InsertAt(s, IF where = "head" THEN at ELSE at + 1, v)), k, 1),
                            Len(s) + 1))

LLen(x, k) == ReadKey(x, k, "list", 0, LAMBDA o: Len(o.val))

LIndex(x, k, i) ==
  ReadKey(x, k, "list", Nil,
    LAMBDA o: IF FromEnd(i, Len(o.val)) \in 0..(Len(o.val) - 1)
              THEN o.val[FromEnd(i, Len(o.val)) + 1] ELSE Nil)

LSet(x, k, i, v) ==
  OnKey(x, k, "list", Err,
    LAMBDA y: LET s == y.dict[k].val
                  at == FromEnd(i, Len(s)) + 1
              IN IF at \in DOMAIN s THEN Reply(Changed(Update(y, k, [s EXCEPT ![at] = v]), k, 1), 1)
                 ELSE Reply(y, Err))

PopGeneric(x, k, where) ==
  OnKey(x, k, "list", Nil,
    LAMBDA y: LET s == y.dict[k].val
              IN Reply(Changed(Emptied(Update(y, k, ListTypePop(s, where)), k, Len(s) = 1), k, 1),
                       ListTypePeek(s, where)))

\* LRANGE and LTRIM keep the same elements of the list.
SubRange(s, i, j) ==
  LET start == RangeStart(i, Len(s))
  IN IF start > FromEnd(j, Len(s)) \/ start >= Len(s) THEN <<>>
     ELSE SubSeq(s, start + 1, RangeEnd(j, Len(s)) + 1)

LRange(x, k, i, j) == ReadKey(x, k, "list", <<>>, LAMBDA o: SubRange(o.val, i, j))

\* LTRIM counts as a change even when nothing was cut.
LTrim(x, k, i, j) ==
  OnKey(x, k, "list", 1,
    LAMBDA y: LET s == SubRange(y.dict[k].val, i, j)
              IN Reply(Changed(Emptied(Update(y, k, s), k, s = <<>>), k, 1), 1))

\* LREM: the first n occurrences, from the tail when n < 0, all when n = 0.
LRem(x, k, n, v) ==
  OnKey(x, k, "list", 0,
    LAMBDA y: LET s == y.dict[k].val
                  at == {i \in DOMAIN s : s[i] = v}
                  rank(i) == Cardinality({j \in at : IF n < 0 THEN j >= i ELSE j <= i})
                  abs == IF n < 0 THEN -n ELSE n
                  del == {i \in at : n = 0 \/ rank(i) <= abs}
                  kept == SetToSortSeq(DOMAIN s \ del, <)
                  left == [i \in DOMAIN kept |-> s[kept[i]]]
              IN IF del = {} THEN Reply(y, 0)
                 ELSE Reply(Changed(Emptied(Update(y, k, left), k, left = <<>>), k, Cardinality(del)),
                            Cardinality(del)))

RpoplpushHandlePush(x, dst, v) ==
  SignalModifiedKey(IF Has(x, dst) THEN Update(x, dst, <<v>> \o x.dict[dst].val)
                    ELSE DbAdd(x, dst, ListObject(<<v>>)), dst)

Rpoplpush(x, k, dst) ==
  OnKey(x, k, "list", Nil,
    LAMBDA y: LET z == ExpireIfNeeded(y, dst)
                  v == Last(z.dict[k].val)
                  pushed == RpoplpushHandlePush(Update(z, k, Front(z.dict[k].val)), dst, v)
              IN IF Has(z, dst) /\ z.dict[dst].type # "list" THEN Reply(z, Err)
                 ELSE Reply(Changed(Emptied(pushed, k, pushed.dict[k].val = <<>>), k, 1), v))
-----------------------------------------------------------------------------
(* Blocking pops.  A blocked client is [c, op, keys, target].                *)

BlockForKeys(x, c, op, keys, target) ==
  [x EXCEPT !.block = [c |-> c, op |-> op, keys |-> keys, target |-> target]]

\* BLPOP and BRPOP: the first key that holds something decides; only when no
\* key does, the client blocks, and inside MULTI not even then.
BlockingPopGeneric(x, c, op, keys, where) ==
  LET y == FoldLeft(ExpireIfNeeded, x, keys)
      at == SelectInSeq(keys, LAMBDA k: Has(y, k))
      z == FoldLeft(ExpireIfNeeded, x, IF at = 0 THEN keys ELSE SubSeq(keys, 1, at))
      k == keys[at]
      pop == IF where = "head" THEN "lpop" ELSE "rpop"
  IN CASE at = 0 /\ x.multi -> Reply(z, Nil)
       [] at = 0 /\ ~x.multi -> BlockForKeys(z, c, op, keys, Nil)
       [] at # 0 /\ z.dict[k].type # "list" -> Reply(z, Err)
       [] OTHER -> Rewrite(PopGeneric(z, k, where), Cmd(pop, <<k>>, <<>>, <<>>, {}))

Brpoplpush(x, c, k, dst) ==
  LET y == ExpireIfNeeded(x, k)
  IN CASE ~Has(y, k) /\ x.multi -> Reply(y, Nil)
       [] ~Has(y, k) /\ ~x.multi -> BlockForKeys(y, c, "brpoplpush", <<k>>, dst)
       [] OTHER -> Rpoplpush(y, k, dst)

UnblockClient(x, c) == [x EXCEPT !.blocked = SelectSeq(@, LAMBDA b: b.c # c)]

Wake(x, c, reply) == [x EXCEPT !.woken = Append(@, [c |-> c, reply |-> reply])]
Propagate(x, c) == [x EXCEPT !.sent = Append(@, c)]

\* One blocked client b gets one element of the list at k: what it pops is
\* propagated as the plain commands.  A BRPOPLPUSH whose destination is not a
\* list fails and the element goes back.
ServeClientBlockedOnList(x, b, k) ==
  LET where == IF b.op = "blpop" THEN "head" ELSE "tail"
      s == x.dict[k].val
      v == ListTypePeek(s, where)
      y == UnblockClient(Update(x, k, ListTypePop(s, where)), b.c)
      z == ExpireIfNeeded(y, b.target)
      pop == Cmd(IF where = "head" THEN "lpop" ELSE "rpop", <<k>>, <<>>, <<>>, {})
      push == Cmd("lpush", <<b.target>>, <<v>>, <<>>, {})
  IN CASE s = <<>> -> x
       [] s # <<>> /\ b.target = Nil -> Propagate(Wake(y, b.c, <<k, v>>), pop)
       [] s # <<>> /\ b.target # Nil /\ Has(z, b.target) /\ z.dict[b.target].type # "list" ->
            Wake(Update(z, k, ListTypePush(z.dict[k].val, v, where)), b.c, Err)
       [] OTHER -> Propagate(RpoplpushHandlePush(Propagate(Wake(z, b.c, <<k, v>>), pop), b.target, v), push)

\* One key of server.ready_keys: its clients are served in the order they
\* blocked, as far as the list goes.
ServeKey(x, k) ==
  LET y == ExpireIfNeeded(x, k)
      waiting == SelectSeq(y.blocked, LAMBDA b: Contains(b.keys, k))
      z == FoldLeft(LAMBDA w, b: ServeClientBlockedOnList(w, b, k), y, waiting)
  IN IF ~Has(y, k) \/ y.dict[k].type # "list" THEN y ELSE Emptied(z, k, z.dict[k].val = <<>>)

\* handleClientsBlockedOnLists(): serving a BRPOPLPUSH may make a list ready.
RECURSIVE HandleClientsBlockedOnLists(_)
HandleClientsBlockedOnLists(x) ==
  IF x.ready = <<>> THEN x
  ELSE HandleClientsBlockedOnLists(ServeKey([x EXCEPT !.ready = Tail(@)], Head(x.ready)))

ListCommands == {"lpush", "rpush", "lpushx", "rpushx", "linsert", "llen", "lindex", "lset", "lpop", "rpop",
                 "lrange", "ltrim", "lrem", "rpoplpush", "blpop", "brpop", "brpoplpush"}

ListCommand(x, client, c) ==
  LET k == c.k[1]
      side == IF c.op \in {"lpush", "lpushx", "lpop", "blpop"} THEN "head" ELSE "tail"
  IN CASE c.op \in {"lpush", "rpush"} -> {PushGeneric(x, k, c.v, side)}
       [] c.op \in {"lpushx", "rpushx"} -> {PushxGeneric(x, k, c.v, side)}
       [] c.op = "linsert" -> {LInsert(x, k, c.v[1], c.v[2], IF "before" \in c.o THEN "head" ELSE "tail")}
       [] c.op = "llen" -> {LLen(x, k)}
       [] c.op = "lindex" -> {LIndex(x, k, c.n[1])}
       [] c.op = "lset" -> {LSet(x, k, c.n[1], c.v[1])}
       [] c.op \in {"lpop", "rpop"} -> {PopGeneric(x, k, side)}
       [] c.op = "lrange" -> {LRange(x, k, c.n[1], c.n[2])}
       [] c.op = "ltrim" -> {LTrim(x, k, c.n[1], c.n[2])}
       [] c.op = "lrem" -> {LRem(x, k, c.n[1], c.v[1])}
       [] c.op = "rpoplpush" -> {Rpoplpush(x, k, c.k[2])}
       [] c.op \in {"blpop", "brpop"} -> {BlockingPopGeneric(x, client, c.op, c.k, side)}
       [] c.op = "brpoplpush" -> {Brpoplpush(x, client, k, c.k[2])}
=============================================================================

-------------------------------- MODULE ZSets -------------------------------
(* The commands on sorted sets (t_zset.c).  A sorted set is a function from  *)
(* elements to scores, kept in the order of score and element, either in a   *)
(* ziplist or in a skip list with a dictionary.                              *)
EXTENDS Keyspace

CONSTANTS
  ZsetMaxZiplist,   \* zset_max_ziplist_entries
  Lex,              \* the elements, in the order sdscmp() gives them
  Inf               \* the score +inf

NaN == Nil
Infinite(s) == s \in {Inf, -Inf}
PlusScore(a, b) ==
  CASE Infinite(a) /\ a = -b -> NaN
    [] Infinite(a) /\ a # -b -> a
    [] ~Infinite(a) -> IF Infinite(b) THEN b ELSE a + b
TimesScore(w, s) ==
  IF w = 0 /\ Infinite(s) THEN 0 ELSE IF Infinite(s) THEN (IF w > 0 THEN s ELSE -s) ELSE w * s

LexPos(e) == SelectInSeq(Lex, LAMBDA f: f = e)
Before(z, e, f) == z[e] < z[f] \/ (z[e] = z[f] /\ LexPos(e) < LexPos(f))

ZsetObject(enc, z) == [type |-> "zset", enc |-> enc, val |-> z]
EmptyZset == [e \in {} |-> 0]

\* zzlInsert(): before the first element that is greater.
ZzlInsert(s, z, e) ==
  LET at == SelectInSeq(s, LAMBDA f: Before(z, e, f))
  IN IF at = 0 THEN Append(s, e) ELSE InsertAt(s, at, e)

\* The elements in the order of the ziplist.
Ordered(z) == FoldLeft(LAMBDA s, e: ZzlInsert(s, z, e), <<>>, SetToSeq(DOMAIN z))

\* zsetConvert() keeps the order: it copies the elements from first to last.
ZsetConvert(o, enc) == [o EXCEPT !.enc = enc]
ZsetConvertToZiplistIfNeeded(o) ==
  IF Cardinality(DOMAIN o.val) <= ZsetMaxZiplist /\ DOMAIN o.val \cap Long = {}
  THEN ZsetConvert(o, "ziplist") ELSE o

\* zsetAdd(): what it does is one of "nan", "nop", "same", "updated", "added".
ZsetAdd(o, score, e, flags) ==
  LET z == o.val
      new == IF e \in DOMAIN z /\ "incr" \in flags THEN PlusScore(score, z[e]) ELSE score
      did == IF e \in DOMAIN z
             THEN IF "nx" \in flags THEN "nop" ELSE IF new = NaN THEN "nan"
                  ELSE IF new = z[e] THEN "same" ELSE "updated"
             ELSE IF "xx" \in flags THEN "nop" ELSE "added"
      big == did = "added" /\ (Cardinality(DOMAIN z) + 1 > ZsetMaxZiplist \/ e \in Long)
      stored == ZsetObject(o.enc, (e :> new) @@ z)
  IN [did |-> did, score |-> new,
      obj |-> CASE did \notin {"updated", "added"} -> o
                [] did \in {"updated", "added"} -> IF big THEN ZsetConvert(stored, "skiplist") ELSE stored]

\* ZADD: vs are the elements and ns their scores.
ZAddGeneric(x, k, vs, ns, o) ==
  LET incr == "incr" \in o
      Add(a, i) ==
        LET r == ZsetAdd(a.obj, ns[i], vs[i], o)
        IN [obj |-> r.obj, did |-> Append(a.did, r.did), score |-> r.score]
      Added(y, a) ==
        LET count(S) == Cardinality({i \in DOMAIN a.did : a.did[i] \in S})
            n == count({"added", "updated"})
            answer == CASE count({"nan"}) > 0 -> Err
                        [] count({"nan"}) = 0 /\ incr -> IF a.did[1] = "nop" THEN Nil ELSE a.score
                        [] OTHER -> IF "ch" \in o THEN n ELSE count({"added"})
        IN Reply(IF n = 0 THEN y ELSE Changed(DbOverwrite(y, k, a.obj), k, n), answer)
      add(y) == Added(y, FoldLeft(Add, [obj |-> y.dict[k], did |-> <<>>, score |-> Nil],
                                  [i \in DOMAIN vs |-> i]))
      enc == IF ZsetMaxZiplist = 0 \/ vs[1] \in Long THEN "skiplist" ELSE "ziplist"
  IN IF {"nx", "xx"} \subseteq o \/ (incr /\ Len(vs) > 1) THEN Reply(x, Err)
     ELSE OnKeyOrNew(x, k, "zset",
            LAMBDA y: IF "xx" \in o THEN Reply(y, IF incr THEN Nil ELSE 0)
                      ELSE add(DbAdd(y, k, ZsetObject(enc, EmptyZset))),
            LAMBDA y: add(y))

\* The end of ZREM and ZREMRANGEBY*: the elements gone leave the sorted set.
ZsetRemove(y, k, gone) ==
  LET z == y.dict[k].val
  IN IF gone = {} THEN Reply(y, 0)
     ELSE Reply(Changed(Emptied(Update(y, k, Without(z, gone)), k, gone = DOMAIN z), k, Cardinality(gone)),
                Cardinality(gone))

ZRem(x, k, vs) ==
  OnKey(x, k, "zset", 0, LAMBDA y: ZsetRemove(y, k, DOMAIN y.dict[k].val \cap ToSet(vs)))
-----------------------------------------------------------------------------
(* Ranges.  A range is [min, max, minex, maxex] of scores, or of positions   *)
(* in Lex for the ranges by element; v[e] is the score or the position of e.  *)

GteMin(v, r) == IF r.minex THEN v > r.min ELSE v >= r.min
LteMax(v, r) == IF r.maxex THEN v < r.max ELSE v <= r.max

EmptyRange(r) == r.min > r.max \/ (r.min = r.max /\ (r.minex \/ r.maxex))

IsInRange(s, v, r) ==
  ~EmptyRange(r) /\ s # <<>> /\ GteMin(v[Last(s)], r) /\ LteMax(v[s[1]], r)

\* The position of the first element in the range, 0 if there is none.
FirstInRange(s, v, r) ==
  LET found(i) == IF i # 0 /\ LteMax(v[s[i]], r) THEN i ELSE 0
  IN IF IsInRange(s, v, r) THEN found(SelectInSeq(s, LAMBDA e: GteMin(v[e], r))) ELSE 0

LastInRange(s, v, r) ==
  LET found(i) == IF i # 0 /\ GteMin(v[s[i]], r) THEN i ELSE 0
  IN IF IsInRange(s, v, r) THEN found(SelectLastInSeq(s, LAMBDA e: LteMax(v[e], r))) ELSE 0

\* ZCOUNT and ZLEXCOUNT: a skip list is asked for the ranks of the first and
\* the last; a ziplist is walked from the first.
CountByRank(s, v, r) ==
  LET span(first, last) ==
        IF first = 0 THEN 0 ELSE (Len(s) - (first - 1)) - (IF last = 0 THEN 0 ELSE Len(s) - last)
  IN span(FirstInRange(s, v, r), LastInRange(s, v, r))

\* A walk from one end of the range up to the first element outside it.
RangeElements(s, v, r, reverse) ==
  LET from(i) == CASE i = 0 -> <<>>
                   [] i # 0 /\ reverse -> Reverse(SubSeq(s, 1, i))
                   [] OTHER -> SubSeq(s, i, Len(s))
      upTo(w, stop) == IF stop = 0 THEN w ELSE SubSeq(w, 1, stop - 1)
      inside(w) == upTo(w, SelectInSeq(w, LAMBDA e: IF reverse THEN ~GteMin(v[e], r) ELSE ~LteMax(v[e], r)))
  IN inside(from(IF reverse THEN LastInRange(s, v, r) ELSE FirstInRange(s, v, r)))

CountByWalk(s, v, r) == Len(RangeElements(s, v, r, FALSE))

\* ZRANGEBYSCORE, ZRANGEBYLEX and their REV forms with LIMIT: a walk from the
\* end of the range that skips offset elements and takes at most limit.
RangeWalk(s, v, r, reverse, offset, limit) ==
  LET skip(w) == IF offset < 0 THEN <<>> ELSE SubSeq(w, offset + 1, Len(w))
      take(w) == IF limit < 0 \/ limit > Len(w) THEN w ELSE SubSeq(w, 1, limit)
  IN take(skip(RangeElements(s, v, r, reverse)))

RangeOf(n, o) == [min |-> n[1], max |-> n[2], minex |-> "minex" \in o, maxex |-> "maxex" \in o]

\* zslDeleteRangeBy* and zzlDeleteRangeBy*: from the first in the range on.
DeleteRange(s, v, r) == ToSet(RangeElements(s, v, r, FALSE))

\* The elements from rank n[1] to rank n[2].
RankRange(s, n) ==
  LET slice(start, end) == IF start > end \/ start >= Len(s) THEN <<>> ELSE SubSeq(s, start + 1, end + 1)
  IN slice(RangeStart(n[1], Len(s)), RangeEnd(n[2], Len(s)))

\* What a range is about: the score of an element of z, or its place in Lex.
RangeValues(z, lex) == [e \in DOMAIN z |-> IF lex THEN LexPos(e) ELSE z[e]]

ZRemRangeGeneric(x, k, n, o) ==
  LET gone(z, s) == IF "rank" \in o THEN ToSet(RankRange(s, n))
                    ELSE DeleteRange(s, RangeValues(z, "lex" \in o), RangeOf(n, o))
  IN OnKey(x, k, "zset", 0,
       LAMBDA y: ZsetRemove(y, k, gone(y.dict[k].val, Ordered(y.dict[k].val))))

ZRange(x, k, n, reverse) ==
  LET turned(s) == IF reverse THEN Reverse(s) ELSE s
  IN ReadKey(x, k, "zset", <<>>, LAMBDA o: RankRange(turned(Ordered(o.val)), n))

\* ZRANGEBYSCORE and ZRANGEBYLEX
ZRangeBy(x, k, n, o, lex, reverse) ==
  ReadKey(x, k, "zset", <<>>,
    LAMBDA z: RangeWalk(Ordered(z.val), RangeValues(z.val, lex), RangeOf(n, o), reverse, n[3], n[4]))

\* ZCOUNT and ZLEXCOUNT
ZCount(x, k, n, o, lex) ==
  LET count(z, s) == IF z.enc = "ziplist" THEN CountByWalk(s, RangeValues(z.val, lex), RangeOf(n, o))
                     ELSE CountByRank(s, RangeValues(z.val, lex), RangeOf(n, o))
  IN ReadKey(x, k, "zset", 0, LAMBDA z: count(z, Ordered(z.val)))

ZCard(x, k) == ReadKey(x, k, "zset", 0, LAMBDA o: Cardinality(DOMAIN o.val))
ZScore(x, k, e) == ReadKey(x, k, "zset", Nil, LAMBDA o: IF e \in DOMAIN o.val THEN o.val[e] ELSE Nil)
ZRank(x, k, e, reverse) ==
  ReadKey(x, k, "zset", Nil,
    LAMBDA o: LET rank(s, i) == IF i = 0 THEN Nil ELSE IF reverse THEN Len(s) - i ELSE i - 1
                  of(s) == rank(s, SelectInSeq(s, LAMBDA f: f = e))
              IN of(Ordered(o.val)))
-----------------------------------------------------------------------------
(* ZUNIONSTORE and ZINTERSTORE.                                              *)

\* A set is read as a sorted set in which every score is 1.
AsZset(x, k) ==
  IF ~Has(x, k) THEN EmptyZset
  ELSE IF x.dict[k].type = "set" THEN [e \in x.dict[k].val |-> 1] ELSE x.dict[k].val

ZAggregate(a, b, how) ==
  CASE how = "sum" -> IF PlusScore(a, b) = NaN THEN 0 ELSE PlusScore(a, b)
    [] how = "min" -> IF b < a THEN b ELSE a
    [] how = "max" -> IF b > a THEN b ELSE a

ZUnionInterGeneric(x, dst, ks, weights, how, op) ==
  LET wrong(y, k) == Has(y, k) /\ y.dict[k].type \notin {"set", "zset"}
      sorted(y) == SortSeq([i \in DOMAIN ks |-> [z |-> AsZset(y, ks[i]), w |-> weights[i]]],
                           LAMBDA a, b: Cardinality(DOMAIN a.z) < Cardinality(DOMAIN b.z))
      terms(in, e) == [i \in DOMAIN in |-> TimesScore(in[i].w, in[i].z[e])]
      sum(t) == FoldLeft(LAMBDA a, b: ZAggregate(a, b, how), t[1], Tail(t))
      score(src, e) == sum(terms(SelectSeq(src, LAMBDA s: e \in DOMAIN s.z), e))
      members(src) == {e \in UNION {DOMAIN src[i].z : i \in DOMAIN src} :
                         op = "zunionstore" \/ \A i \in DOMAIN src : e \in DOMAIN src[i].z}
      new(src) == ZsetConvertToZiplistIfNeeded(ZsetObject("skiplist", [e \in members(src) |-> score(src, e)]))
      store(y, o) ==
        IF DOMAIN o.val # {} THEN Reply(Changed(DbAdd(DbDelete(y, dst), dst, o), dst, 1), Cardinality(DOMAIN o.val))
        ELSE Reply(IF Has(y, dst) THEN Changed(DbDelete(y, dst), dst, 1) ELSE y, 0)
      all(y) == store(y, new(sorted(y)))
      lookup(at) == IF at = 0 THEN all(FoldLeft(ExpireIfNeeded, x, ks))
                    ELSE Reply(FoldLeft(ExpireIfNeeded, x, SubSeq(ks, 1, at)), Err)
  IN lookup(SelectInSeq(ks, LAMBDA k: wrong(ExpireIfNeeded(x, k), k)))

ZSetCommands == {"zadd", "zrem", "zremrange", "zrange", "zrangebyscore", "zrangebylex", "zcount",
                 "zlexcount", "zcard", "zscore", "zrank", "zunionstore", "zinterstore"}

ZSetCommand(x, c) ==
  LET k == c.k[1]
      rev == "rev" \in c.o
      how == CHOOSE h \in {"sum", "min", "max"} : h \in c.o
  IN {CASE c.op = "zadd" -> ZAddGeneric(x, k, c.v, c.n, c.o)
        [] c.op = "zrem" -> ZRem(x, k, c.v)
        [] c.op = "zremrange" -> ZRemRangeGeneric(x, k, c.n, c.o)
        [] c.op = "zrange" -> ZRange(x, k, c.n, rev)
        [] c.op \in {"zrangebyscore", "zrangebylex"} -> ZRangeBy(x, k, c.n, c.o, c.op = "zrangebylex", rev)
        [] c.op \in {"zcount", "zlexcount"} -> ZCount(x, k, c.n, c.o, c.op = "zlexcount")
        [] c.op = "zcard" -> ZCard(x, k)
        [] c.op = "zscore" -> ZScore(x, k, c.v[1])
        [] c.op = "zrank" -> ZRank(x, k, c.v[1], rev)
        [] c.op \in {"zunionstore", "zinterstore"} -> ZUnionInterGeneric(x, k, Tail(c.k), c.n, how, c.op)}
=============================================================================

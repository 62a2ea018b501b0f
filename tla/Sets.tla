-------------------------------- MODULE Sets --------------------------------
(* The commands on sets (t_set.c).  An element that is a number can be kept  *)
(* in an intset; a set is converted to a hash table when it gets another     *)
(* element or grows past set_max_intset_entries, and never back.             *)
EXTENDS Keyspace

CONSTANT SetMaxIntset   \* set_max_intset_entries

SetObject(enc, S) == [type |-> "set", enc |-> enc, val |-> S]

SetTypeCreate(e) == SetObject(IF e \in Int THEN "intset" ELSE "ht", {})

SetTypeAdd(o, e) ==
  LET S == o.val \cup {e}
  IN SetObject(IF o.enc = "intset" /\ e \in Int /\ Cardinality(S) <= SetMaxIntset THEN "intset" ELSE "ht", S)

SetTypeAddAll(o, s) == FoldLeft(SetTypeAdd, o, s)

Elements(x, k) == IF Has(x, k) THEN x.dict[k].val ELSE {}

SAdd(x, k, vs) ==
  LET put(y, o, added) == Reply(IF added = 0 THEN y ELSE Changed(DbOverwrite(y, k, o), k, added), added)
      add(y, o) == put(y, SetTypeAddAll(o, vs), Cardinality(ToSet(vs) \ o.val))
  IN OnKeyOrNew(x, k, "set",
       LAMBDA y: add(DbAdd(y, k, SetTypeCreate(vs[1])), SetTypeCreate(vs[1])),
       LAMBDA y: add(y, y.dict[k]))

SRem(x, k, vs) ==
  OnKey(x, k, "set", 0,
    LAMBDA y: LET S == y.dict[k].val
                  gone == S \cap ToSet(vs)
              IN IF gone = {} THEN Reply(y, 0)
                 ELSE Reply(Changed(Emptied(Update(y, k, S \ gone), k, S = gone), k, Cardinality(gone)),
                            Cardinality(gone)))

\* SMOVE of an element the destination has already is a removal.
SMove(x, src, dst, e) ==
  LET wrong(y, k) == Has(y, k) /\ y.dict[k].type # "set"
      out(y, S) == Emptied(Update(y, src, S \ {e}), src, S = {e})
      in(y) == IF Has(y, dst)
               THEN Changed(DbOverwrite(y, dst, SetTypeAdd(y.dict[dst], e)), dst,
                            IF e \in y.dict[dst].val THEN 1 ELSE 2)
               ELSE Changed(DbAdd(y, dst, SetTypeAdd(SetTypeCreate(e), e)), dst, 2)
      move(y, S) == CASE src = dst -> Reply(y, IF e \in S THEN 1 ELSE 0)
                      [] src # dst /\ e \notin S -> Reply(y, 0)
                      [] OTHER -> Reply(in(SignalModifiedKey(out(y, S), src)), 1)
      found(y) == CASE ~Has(y, src) -> Reply(y, 0)
                    [] Has(y, src) /\ (wrong(y, src) \/ wrong(y, dst)) -> Reply(y, Err)
                    [] OTHER -> move(y, y.dict[src].val)
  IN found(ExpireIfNeeded(ExpireIfNeeded(x, src), dst))

SIsMember(x, k, e) == ReadKey(x, k, "set", 0, LAMBDA o: IF e \in o.val THEN 1 ELSE 0)
SCard(x, k) == ReadKey(x, k, "set", 0, LAMBDA o: Cardinality(o.val))

\* SPOP without a count is propagated as the SREM of the element it drew.
SPop(x, k) ==
  LET srem(e) == Cmd("srem", <<k>>, <<e>>, <<>>, {})
      pop(y, S) ==
        {Rewrite(Reply(Changed(Emptied(Update(y, k, S \ {e}), k, S = {e}), k, 1), e), srem(e)) : e \in S}
      found(y) == CASE ~Has(y, k) -> {Reply(y, Nil)}
                    [] Has(y, k) /\ y.dict[k].type # "set" -> {Reply(y, Err)}
                    [] OTHER -> pop(y, y.dict[k].val)
  IN found(ExpireIfNeeded(x, k))

\* SPOP with a count: all of the set is a DEL; part of it is one SREM for each
\* element, instead of the command.  When more is popped than stays, what
\* stays is moved to a new set, which may be encoded differently.
SPopWithCount(x, k, count) ==
  LET srem(e) == Cmd("srem", <<k>>, <<e>>, <<>>, {})
      fresh(R) == {SetTypeAddAll(SetTypeCreate(s[1]), s) : s \in SetToSeqs(R)}
      kept(o, R) == IF Cardinality(R) * 5 > count THEN {SetObject(o.enc, R)} ELSE fresh(R)
      part(y, n, gone) == PreventCommandPropagation(
                   Changed([DbOverwrite(y, k, n) EXCEPT !.also = SetToSeq({srem(e) : e \in gone})], k, count + 1))
      some(y, o) == UNION {{Reply(part(y, n, o.val \ R), o.val \ R) : n \in kept(o, R)} :
                             R \in {T \in SUBSET o.val : Cardinality(T) = Cardinality(o.val) - count}}
      pop(y, o) ==
        CASE o.type # "set" -> {Reply(y, Err)}
          [] o.type = "set" /\ count = 0 -> {Reply(y, {})}
          [] o.type = "set" /\ count > 0 /\ count >= Cardinality(o.val) ->
               {Rewrite(Reply(Changed(DbDelete(y, k), k, count + 1), o.val), Cmd("del", <<k>>, <<>>, <<>>, {}))}
          [] OTHER -> some(y, o)
      found(y) == IF Has(y, k) THEN pop(y, y.dict[k]) ELSE {Reply(y, {})}
  IN IF count < 0 THEN {Reply(x, Err)} ELSE found(ExpireIfNeeded(x, k))

\* SRANDMEMBER with a count: distinct elements, or any when the count is < 0.
SRandMember(x, k, count) ==
  LET drawn(S) == {U \in SUBSET S :
                      IF count >= 0 THEN Cardinality(U) = (IF count > Cardinality(S) THEN Cardinality(S) ELSE count)
                      ELSE Cardinality(U) \in 1..(-count)}
  IN {Reply(ExpireIfNeeded(x, k), r) :
        r \in CASE ~VisibleToReader(x, k) -> {{}}
                [] VisibleToReader(x, k) /\ x.dict[k].type # "set" -> {Err}
                [] OTHER -> drawn(x.dict[k].val)}
-----------------------------------------------------------------------------
(* Set algebra.                                                              *)

\* The keys looked up before the first that is missing or of another type.
LookedUp(x, ks) ==
  LET missing(y, k) == ~Has(y, k) \/ y.dict[k].type # "set"
      upTo(stop) == IF stop = 0 THEN ks ELSE SubSeq(ks, 1, stop)
  IN upTo(SelectInSeq(ks, LAMBDA k: missing(ExpireIfNeeded(x, k), k)))

\* The stored result is built from an empty intset; held is all it ever held.
Store(x, dst, S, held) ==
  LET o == SetObject(IF held \subseteq Int /\ Cardinality(held) <= SetMaxIntset THEN "intset" ELSE "ht", S)
      put(y) == IF S = {} THEN y ELSE DbAdd(y, dst, o)
  IN Reply(Changed(put(DbDelete(x, dst)), dst, 1), Cardinality(S))

SInterStore(x, dst, ks) ==
  LET both(y) == {e \in Elements(y, ks[1]) : \A i \in DOMAIN ks : e \in Elements(y, ks[i])}
      stored(y, S) == Store(y, dst, S, S)
      found(y, last) ==
        CASE ~Has(y, last) -> Reply(IF Has(y, dst) THEN Changed(DbDelete(y, dst), dst, 1) ELSE y, 0)
          [] Has(y, last) /\ y.dict[last].type # "set" -> Reply(y, Err)
          [] OTHER -> stored(y, both(y))
      lookup(seen) == found(FoldLeft(ExpireIfNeeded, x, seen), Last(seen))
  IN lookup(LookedUp(x, ks))

\* SDIFF picks one of two algorithms by the work it expects: for each element
\* of the first set look into the others; or start with the first set and
\* take the elements of the others away until nothing is left.
DiffOne(sets) ==
  {e \in sets[1] : \A j \in 2..Len(sets) : e \notin sets[j]}
DiffTwo(sets) ==
  FoldLeft(LAMBDA S, T: IF S = {} THEN S ELSE S \ T, sets[1], Tail(sets))

Work(sets) == FoldLeft(LAMBDA n, S: n + Cardinality(S), 0, sets)
DiffAlgoOne(sets) ==
  (Cardinality(sets[1]) * Cardinality({i \in DOMAIN sets : sets[i] # {}})) \div 2 <= Work(sets)

\* (A reader on a replica treats a key that has expired as missing.)
SUnionDiffGeneric(x, dst, ks, op) ==
  LET wrong(y, k) == Has(y, k) /\ y.dict[k].type # "set"
      sets(y) == [i \in DOMAIN ks |-> IF dst # Nil \/ VisibleToReader(x, ks[i]) THEN Elements(y, ks[i]) ELSE {}]
      give(y, S, held) == IF dst = Nil THEN Reply(y, S) ELSE Store(y, dst, S, held)
      result(y, s) == CASE op = "union" -> give(y, UNION Range(s), UNION Range(s))
                        [] op = "diff" /\ DiffAlgoOne(s) -> give(y, DiffOne(s), DiffOne(s))
                        [] OTHER -> give(y, DiffTwo(s), s[1])
      all(y) == result(y, sets(y))
      lookup(at) == IF at = 0 THEN all(FoldLeft(ExpireIfNeeded, x, ks))
                    ELSE Reply(FoldLeft(ExpireIfNeeded, x, SubSeq(ks, 1, at)), Err)
  IN lookup(SelectInSeq(ks, LAMBDA k: wrong(ExpireIfNeeded(x, k), k)))

\* SINTER without STORE.
SInter(x, ks) ==
  LET hidden(k) == ~VisibleToReader(x, k)
      stop == SelectInSeq(ks, LAMBDA k: hidden(k) \/ x.dict[k].type # "set")
      y == FoldLeft(ExpireIfNeeded, x, IF stop = 0 THEN ks ELSE SubSeq(ks, 1, stop))
  IN Reply(y, CASE stop # 0 /\ hidden(ks[stop]) -> {}
                [] stop # 0 /\ ~hidden(ks[stop]) -> Err
                [] OTHER -> {e \in Elements(x, ks[1]) : \A i \in DOMAIN ks : e \in Elements(x, ks[i])})

SetCommands == {"sadd", "srem", "smove", "sismember", "scard", "spop", "spopcount", "srandmember", "sinter",
                "sinterstore", "sunion", "sunionstore", "sdiff", "sdiffstore"}

SetCommand(x, c) ==
  LET k == c.k[1]
      op == IF c.op \in {"sunion", "sunionstore"} THEN "union" ELSE "diff"
      stored == c.op \in {"sunionstore", "sdiffstore"}
  IN CASE c.op = "sadd" -> {SAdd(x, k, c.v)}
       [] c.op = "srem" -> {SRem(x, k, c.v)}
       [] c.op = "smove" -> {SMove(x, k, c.k[2], c.v[1])}
       [] c.op = "sismember" -> {SIsMember(x, k, c.v[1])}
       [] c.op = "scard" -> {SCard(x, k)}
       [] c.op = "spop" -> SPop(x, k)
       [] c.op = "spopcount" -> SPopWithCount(x, k, c.n[1])
       [] c.op = "srandmember" -> SRandMember(x, k, c.n[1])
       [] c.op = "sinter" -> {SInter(x, c.k)}
       [] c.op = "sinterstore" -> {SInterStore(x, k, Tail(c.k))}
       [] c.op \in {"sunion", "sdiff", "sunionstore", "sdiffstore"} ->
            {SUnionDiffGeneric(x, IF stored THEN k ELSE Nil, IF stored THEN Tail(c.k) ELSE c.k, op)}
=============================================================================

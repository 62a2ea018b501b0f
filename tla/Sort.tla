-------------------------------- MODULE Sort --------------------------------
(* SORT (sort.c) of a list, a set or a sorted set, with BY, GET, LIMIT,      *)
(* ALPHA, DESC and STORE.  The pattern of BY and GET names, for an element   *)
(* e, the key <<db, e>> (lookupKeyByPattern()); "nosort" is a BY without a * *)
(* in it.                                                                    *)
EXTENDS Lists, ZSets

LookupKeyByPattern(x, d, e) ==
  IF VisibleToReader(x, <<d, e>>) /\ x.dict[<<d, e>>].type = "string" THEN x.dict[<<d, e>>].val[1] ELSE Nil

\* sortCompare(): by weight, then by the elements themselves so that equal
\* weights still have one order.
SortWeight(e, by, alpha) ==
  IF alpha THEN (IF by = Nil THEN 0 ELSE LexPos(by)) ELSE (IF by \in Int THEN by ELSE 0)

SortBefore(w, desc, e, f) ==
  IF w[e] # w[f] THEN (IF desc THEN w[e] > w[f] ELSE w[e] < w[f])
  ELSE IF desc THEN LexPos(e) > LexPos(f) ELSE LexPos(e) < LexPos(f)

SortElements(o) ==
  CASE o.type = "list" -> o.val
    [] o.type = "set" -> SetToSeq(o.val)
    [] o.type = "zset" -> Ordered(o.val)

\* c.k = <<key>> or <<key, store key>>; c.n = <<limit start, limit count>>.
SortCommand(x, c) ==
  LET k == c.k[1]
      store == Len(c.k) = 2
      desc == "desc" \in c.o
      key(e) == IF "by" \in c.o THEN LookupKeyByPattern(x, k[1], e) ELSE e
      got(e) == IF "get" \in c.o THEN LookupKeyByPattern(x, k[1], e) ELSE e
      unsortable(all, alpha) == ~alpha /\ \E i \in DOMAIN all : key(all[i]) \notin Int \cup {Nil}
      sorted(all, alpha) ==
        LET weight == [e \in ToSet(all) |-> SortWeight(e, key(e), alpha)]
        IN SortSeq(all, LAMBDA e, f: SortBefore(weight, desc, e, f))
      start == IF c.n[1] < 0 THEN 0 ELSE c.n[1]
      end(len) == IF c.n[2] < 0 \/ start + c.n[2] > len THEN len ELSE start + c.n[2]
      slice(s) == IF start >= Len(s) THEN <<>> ELSE SubSeq(s, start + 1, end(Len(s)))
      output(s) == [i \in DOMAIN s |-> got(s[i])]
      finish(z, out) ==
        CASE ~store -> Reply(z, out)
          [] store /\ out # <<>> -> Reply(Dirty(SetKey(z, c.k[2], ListObject(out)), Len(out)), Len(out))
          [] OTHER -> Reply(IF Has(z, c.k[2]) THEN Changed(DbDelete(z, c.k[2]), c.k[2], 1) ELSE z, 0)
      sort(z, all, nosort, alpha) ==
        IF ~nosort /\ unsortable(all, alpha) THEN Reply(z, Err)
        ELSE finish(z, output(slice(CASE ~nosort -> sorted(all, alpha)
                                      [] nosort /\ desc -> Reverse(all)
                                      [] OTHER -> all)))
      \* A set has no order of its own: what is stored is sorted all the same.
      forced(o) == "nosort" \in c.o /\ o.type = "set" /\ store
      vector(z, o) == sort(z, SortElements(o), "nosort" \in c.o /\ ~forced(o), "alpha" \in c.o \/ forced(o))
      found(y, o) == CASE o.type \notin {"list", "set", "zset"} -> Reply(y, Err)
                       [] o.type = "zset" -> vector(DbOverwrite(y, k, ZsetConvert(o, "skiplist")), o)
                       [] OTHER -> vector(y, o)
  IN IF VisibleToReader(x, k) THEN found(ExpireIfNeeded(x, k), x.dict[k])
     ELSE vector(ExpireIfNeeded(x, k), ListObject(<<>>))
=============================================================================
